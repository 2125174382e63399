------------------------- MODULE GzbdDevicesProofs --------------------------
(***************************************************************************)
(* The devices of gzbd, for any number of slots and whatever opens fail:   *)
(* proofs that descriptors, slots and tabs stay in step.                   *)
(***************************************************************************)
EXTENDS GzbdDevices, FiniteSetTheorems, SequenceTheorems, WellFoundedInduction, TLAPS

Devices == [fd : -1 .. MaxDev, page : {NoPage} \cup Slots]
Guis    == [dev : [Slots -> Devices], nr_devs : Int,
            notebook : {NoBook} \cup Seq(Slots), no_dev_frame : BOOLEAN]
Frames  == [dz : Guis, fds : SUBSET (1 .. MaxDev)]

Open(d) == {i \in Slots : d.dev[i].fd > 0}

\* A slot that is open has its page, another one has none.
Paged(d) == \A i \in Slots : d.dev[i].page = IF d.dev[i].fd > 0 THEN i ELSE NoPage

\* The descriptors of the library are those of the open slots, one for each.
Owned(s) ==
    /\ \A i \in Open(s.dz) : s.dz.dev[i].fd \in s.fds
    /\ \A f \in s.fds : \E i \in Open(s.dz) : s.dz.dev[i].fd = f
    /\ \A i, j \in Open(s.dz) : s.dz.dev[i].fd = s.dz.dev[j].fd => i = j

Sound(s) ==
    /\ s \in Frames /\ Paged(s.dz) /\ Owned(s)
    /\ s.dz.nr_devs <= Cardinality(Open(s.dz))

\* The tabs are of open slots, one for each at most.
Distinct(book) == \A m, n \in DOMAIN book : book[m] = book[n] => m = n
Tabbed(d) ==
    d.notebook # NoBook => Range(d.notebook) \subseteq Open(d) /\ Distinct(d.notebook)

\* As long as no open has failed half-way: all open slots are counted, and have a tab.
Counted(d) ==
    /\ d.nr_devs = Cardinality(Open(d))
    /\ d.notebook = NoBook <=> Open(d) = {}
    /\ d.no_dev_frame <=> Open(d) = {}
    /\ d.notebook # NoBook => Range(d.notebook) = Open(d)

Now == [dz |-> dz, fds |-> fds]

DevInv ==
    /\ dz \in Guis /\ fds \subseteq 1 .. MaxDev
    /\ Paged(dz) /\ dz.nr_devs <= Cardinality(Open(dz))
    /\ failed \in 0 .. MaxFailed /\ main \in {"runs", "left", "killed"}
    /\ main = "runs" => Owned(Now) /\ Tabbed(dz) /\ (failed = 0 => Counted(dz))
    /\ ExitCloses

-----------------------------------------------------------------------------
(* Slots and descriptors.                                                  *)

LEMMA SlotsNat == Slots \subseteq Nat /\ NoPage \notin Slots
  BY GzbdConstants DEF Slots, NoPage

LEMMA NoBookNoSeq == NoBook \notin Seq(Slots)
<1>1. SUFFICES ASSUME NoBook \in Seq(Slots) PROVE FALSE
  OBVIOUS
<1>2. Len(NoBook) = 1 /\ NoBook[1] = NoPage
  BY DEF NoBook
<1>3. NoBook[1] \in Slots
  BY <1>1, <1>2
<1>4. QED
  BY <1>2, <1>3, SlotsNat

LEMMA OpenFinite ==
  ASSUME NEW d
  PROVE  IsFiniteSet(Open(d)) /\ Cardinality(Open(d)) \in Nat /\ Cardinality(Open(d)) <= MaxDev
<1>1. IsFiniteSet(Slots) /\ Cardinality(Slots) = MaxDev
  BY FS_Interval, GzbdConstants DEF Slots
<1>2. Open(d) \in SUBSET Slots
  BY DEF Open
<1>3. QED
  BY <1>1, <1>2, FS_Subset, FS_CardinalityType

\* Numbers have a least one wherever there is one.
LEMMA LeastOf ==
  ASSUME NEW S \in SUBSET Nat, S # {}
  PROVE  \E n \in S : \A m \in S : n <= m
<1>1. PICK n \in S : \A m \in S : <<m, n>> \notin OpToRel(<, Nat)
  BY NatLessThanWellFounded, WFMin
<1>2. \A m \in S : ~(m < n)
  BY <1>1 DEF OpToRel
<1>3. QED
  BY <1>2

LEMMA SlotIsFree ==
  ASSUME Selectable # {}
  PROVE  Slot \in Selectable
<1>1. Selectable \in SUBSET Nat
  BY SlotsNat DEF Selectable
<1>2. \E i \in Selectable : \A j \in Selectable : i <= j
  BY <1>1, LeastOf
<1>3. QED
  BY <1>2 DEF Slot

\* A slot is free, so fewer descriptors than slots are in use.
LEMMA FreeFdIsFree ==
  ASSUME Owned(Now), dz \in Guis, fds \subseteq 1 .. MaxDev, Selectable # {}
  PROVE  FreeFd \in (1 .. MaxDev) \ fds
<1> DEFINE N == 1 .. MaxDev
           O == Open(dz)
<1>1. PICK i \in Slots : dz.dev[i].fd < 0
  BY DEF Selectable
<1>2. IsFiniteSet(N) /\ Cardinality(N) = MaxDev /\ N = Slots
  BY FS_Interval, GzbdConstants DEF Slots
<1>3. IsFiniteSet(Slots \ {i}) /\ Cardinality(Slots \ {i}) = MaxDev - 1
  BY <1>2, FS_RemoveElement
<1>4. O \in SUBSET (Slots \ {i})
  <2>1. dz.dev[i].fd \in Int
    BY DEF Guis, Devices
  <2>2. QED
    BY <1>1, <2>1 DEF Open
<1>5. IsFiniteSet(O) /\ Cardinality(O) <= MaxDev - 1
  BY <1>3, <1>4, FS_Subset
<1>6. Cardinality(fds) <= Cardinality(O)
  <2> DEFINE f == [k \in O |-> dz.dev[k].fd]
  <2>1. f \in Surjection(O, fds)
    <3>1. \A k \in O : dz.dev[k].fd \in fds
      BY DEF Owned, Now
    <3>2. \A g \in fds : \E k \in O : f[k] = g
      BY DEF Owned, Now
    <3>3. f \in [O -> fds]
      BY <3>1
    <3> HIDE DEF f, O
    <3>4. QED
      BY <3>2, <3>3 DEF Surjection
  <2> HIDE DEF f, O
  <2>2. QED
    BY <1>5, <2>1, FS_Surjection
<1>7. N \ fds # {}
  <2>1. SUFFICES ASSUME N \ fds = {} PROVE FALSE
    OBVIOUS
  <2>2. fds = N
    BY <2>1
  <2>3. Cardinality(O) \in Nat
    <3> HIDE DEF O
    <3>1. QED
      BY <1>5, FS_CardinalityType
  <2> HIDE DEF N, O
  <2>4. QED
    BY <1>2, <1>5, <1>6, <2>2, <2>3, GzbdConstants
<1>8. \E f \in N : f \notin fds /\ \A g \in 1 .. f - 1 : g \in fds
  <2>1. (N \ fds) \in SUBSET Nat
    BY GzbdConstants
  <2>2. PICK f \in N \ fds : \A m \in N \ fds : f <= m
    <3> DEFINE F == N \ fds
    <3> HIDE DEF F
    <3>1. \E f \in F : \A m \in F : f <= m
      BY <1>7, <2>1, LeastOf DEF F
    <3>2. QED
      BY <3>1 DEF F
  <2>3. ASSUME NEW g \in 1 .. f - 1 PROVE g \in fds
    <3>1. g \in N /\ ~(f <= g)
      BY GzbdConstants
    <3>2. QED
      BY <2>2, <3>1
  <2>4. QED
    BY <2>2, <2>3
<1>9. QED
  BY <1>8 DEF FreeFd

-----------------------------------------------------------------------------
(* Closing a device.                                                       *)

LEMMA CloseSound ==
  ASSUME NEW s, Sound(s), NEW i \in Slots, s.dz.dev[i].fd >= 0
  PROVE  LET c == DzClose(s, i)
         IN  /\ Sound(c) /\ Open(c.dz) = Open(s.dz) \ {i}
             /\ c.dz.dev[i] = [fd |-> 0, page |-> NoPage]
             /\ \A j \in Slots \ {i} : c.dz.dev[j] = s.dz.dev[j]
             /\ c.dz.nr_devs = s.dz.nr_devs - 1
             /\ c.dz.notebook = s.dz.notebook /\ c.dz.no_dev_frame = s.dz.no_dev_frame
<1> DEFINE d == [s.dz EXCEPT !.dev[i] = [fd |-> 0, page |-> NoPage], !.nr_devs = @ - 1]
           F == s.fds \ {s.dz.dev[i].fd}
           c == [dz |-> d, fds |-> F]
<1>1. DzClose(s, i) = c
  BY DEF DzClose, Sound, Frames, Guis, Devices
<1>2. s.dz \in Guis /\ s.fds \subseteq 1 .. MaxDev /\ MaxDev \in Nat
  BY GzbdConstants DEF Sound, Frames
<1>3. /\ d.dev = [s.dz.dev EXCEPT ![i] = [fd |-> 0, page |-> NoPage]]
      /\ d.nr_devs = s.dz.nr_devs - 1
      /\ d.notebook = s.dz.notebook /\ d.no_dev_frame = s.dz.no_dev_frame
  BY <1>2 DEF Guis
<1>4. /\ d.dev[i] = [fd |-> 0, page |-> NoPage]
      /\ \A j \in Slots \ {i} : d.dev[j] = s.dz.dev[j]
  BY <1>2, <1>3 DEF Guis
<1>5. d \in Guis
  <2>1. d.dev \in [Slots -> Devices]
    BY <1>2, <1>3 DEF Guis, Devices
  <2>2. d = [k \in DOMAIN d |-> d[k]] /\ DOMAIN d = {"dev", "nr_devs", "notebook", "no_dev_frame"}
    BY <1>2 DEF Guis
  <2>3. /\ d.nr_devs \in Int /\ d.notebook \in {NoBook} \cup Seq(Slots)
        /\ d.no_dev_frame \in BOOLEAN
    BY <1>2, <1>3 DEF Guis
  <2> HIDE DEF d
  <2>4. QED
    BY <2>1, <2>2, <2>3 DEF Guis
<1> HIDE DEF d
<1>6. Open(d) = Open(s.dz) \ {i}
  BY <1>4 DEF Open
<1>7. Paged(d)
  BY <1>4 DEF Paged, Sound
<1>8. Owned(c)
  <2>1. \A j \in Open(d) : j \in Open(s.dz) /\ j # i /\ d.dev[j].fd = s.dz.dev[j].fd
    BY <1>4, <1>6 DEF Open
  <2>2. \A j \in Open(d) : d.dev[j].fd \in F
    <3>1. TAKE j \in Open(d)
    <3>2. s.dz.dev[j].fd \in s.fds /\ s.dz.dev[j].fd > 0
      BY <2>1 DEF Sound, Owned, Open
    <3>3. s.dz.dev[j].fd # s.dz.dev[i].fd
      <4>1. CASE s.dz.dev[i].fd > 0
        BY <2>1, <4>1 DEF Sound, Owned, Open
      <4>2. CASE ~(s.dz.dev[i].fd > 0)
        BY <3>2, <4>2
      <4>3. QED
        BY <4>1, <4>2
    <3>4. QED
      BY <2>1, <3>2, <3>3
  <2>3. \A f \in F : \E j \in Open(d) : d.dev[j].fd = f
    <3>1. TAKE f \in F
    <3>2. PICK j \in Open(s.dz) : s.dz.dev[j].fd = f
      BY DEF Sound, Owned
    <3>3. j # i
      BY <3>2
    <3>4. QED
      BY <1>4, <1>6, <3>2, <3>3 DEF Open
  <2>4. \A j, k \in Open(d) : d.dev[j].fd = d.dev[k].fd => j = k
    BY <2>1 DEF Sound, Owned
  <2>5. QED
    BY <2>2, <2>3, <2>4 DEF Owned
<1>9. d.nr_devs <= Cardinality(Open(d))
  <2>1. Cardinality(Open(d)) = IF i \in Open(s.dz) THEN Cardinality(Open(s.dz)) - 1
                               ELSE Cardinality(Open(s.dz))
    <3> DEFINE O == Open(s.dz)
    <3>1. IsFiniteSet(O) /\ Open(d) = O \ {i}
      BY <1>6, OpenFinite
    <3> HIDE DEF O
    <3>2. Cardinality(O \ {i}) = IF i \in O THEN Cardinality(O) - 1 ELSE Cardinality(O)
      BY <3>1, FS_RemoveElement
    <3>3. QED
      BY <3>1, <3>2 DEF O
  <2>2. s.dz.nr_devs <= Cardinality(Open(s.dz)) /\ Cardinality(Open(s.dz)) \in Nat
        /\ s.dz.nr_devs \in Int
    BY <1>2, OpenFinite DEF Sound, Guis
  <2>3. QED
    BY <1>3, <2>1, <2>2
<1>10. c \in Frames
  BY <1>2, <1>5 DEF Frames
<1>11. Sound(c)
  BY <1>7, <1>8, <1>9, <1>10 DEF Sound
<1>12. c.dz = d
  OBVIOUS
<1> HIDE DEF c
<1>13. QED
  BY <1>1, <1>3, <1>4, <1>6, <1>11, <1>12

-----------------------------------------------------------------------------
(* Tabs.                                                                   *)

LEMMA PageNumber ==
  ASSUME NEW book \in Seq(Slots), NEW i
  PROVE  /\ i \in Range(book) => PageNum(book, i) \in DOMAIN book /\ book[PageNum(book, i)] = i
         /\ i \notin Range(book) => PageNum(book, i) = Len(book)
<1>1. i \in Range(book) <=> \E n \in DOMAIN book : book[n] = i
  BY DEF Range
<1>2. Contains(book, i) <=> \E n \in DOMAIN book : book[n] = i
  BY DEF Contains
<1>3. QED
  BY <1>1, <1>2 DEF PageNum

\* A tab less: the others keep their order.
LEMMA TabRemoved ==
  ASSUME NEW book \in Seq(Slots), NEW n \in DOMAIN book
  PROVE  /\ RemoveAt(book, n) \in Seq(Slots) /\ Len(RemoveAt(book, n)) = Len(book) - 1
         /\ \A k \in 1 .. Len(book) - 1 :
                RemoveAt(book, n)[k] = IF k < n THEN book[k] ELSE book[k + 1]
<1> DEFINE L == Len(book)
           a == SubSeq(book, 1, n - 1)
           b == SubSeq(book, n + 1, L)
<1>1. n \in 1 .. L /\ L \in Nat
  OBVIOUS
<1>2. a \in Seq(Slots) /\ Len(a) = n - 1 /\ \A k \in 1 .. n - 1 : a[k] = book[k]
  BY <1>1
<1>3. b \in Seq(Slots) /\ Len(b) = L - n /\ \A k \in 1 .. L - n : b[k] = book[n + k]
  BY <1>1
<1>4. RemoveAt(book, n) = a \o b
  BY DEF RemoveAt
<1> HIDE DEF a, b, L
<1>5. /\ a \o b \in Seq(Slots) /\ Len(a \o b) = Len(a) + Len(b)
      /\ \A k \in 1 .. Len(a) + Len(b) : (a \o b)[k] = IF k <= Len(a) THEN a[k] ELSE b[k - Len(a)]
  BY <1>2, <1>3, ConcatProperties
<1>6. ASSUME NEW k \in 1 .. L - 1 PROVE (a \o b)[k] = IF k < n THEN book[k] ELSE book[k + 1]
  <2>1. CASE k < n
    <3>1. k \in 1 .. n - 1 /\ k \in 1 .. Len(a) + Len(b) /\ k <= Len(a)
      BY <1>1, <1>2, <1>3, <2>1
    <3>2. QED
      BY <1>2, <1>5, <2>1, <3>1
  <2>2. CASE ~(k < n)
    <3>1. /\ k - (n - 1) \in 1 .. L - n /\ n + (k - (n - 1)) = k + 1
          /\ k \in 1 .. (n - 1) + (L - n) /\ ~(k <= n - 1)
      BY <1>1, <2>2
    <3>2. (a \o b)[k] = b[k - (n - 1)]
      BY <1>2, <1>3, <1>5, <3>1
    <3>3. b[k - (n - 1)] = book[k + 1]
      BY <1>3, <3>1
    <3>4. QED
      BY <2>2, <3>2, <3>3
  <2>3. QED
    BY <2>1, <2>2
<1>7. Len(a) + Len(b) = L - 1
  BY <1>1, <1>2, <1>3
<1>8. QED
  BY <1>4, <1>5, <1>6, <1>7 DEF L

LEMMA WithoutEmpty ==
  ASSUME NEW i
  PROVE  Without(<< >>, i) = << >>
<1> DEFINE book == << >>
<1>1. book \in Seq(Slots) /\ DOMAIN book = {} /\ Len(book) = 0
  OBVIOUS
<1>2. PageNum(book, i) = 0
  <2>1. i \notin Range(book)
    BY <1>1 DEF Range
  <2>2. QED
    BY <1>1, <2>1, PageNumber
<1>3. book # NoBook
  BY <1>1, NoBookNoSeq
<1>4. Without(book, i) = SubSeq(book, 1, -1) \o SubSeq(book, 1, 0)
  BY <1>1, <1>2, <1>3 DEF Without, RemoveAt
<1>5. SubSeq(book, 1, -1) = << >> /\ SubSeq(book, 1, 0) = << >>
  OBVIOUS
<1>6. QED
  BY <1>4, <1>5

LEMMA WithoutType ==
  ASSUME NEW book \in {NoBook} \cup Seq(Slots), NEW i
  PROVE  /\ Without(book, i) \in {NoBook} \cup Seq(Slots)
         /\ Without(book, i) = NoBook <=> book = NoBook
<1>1. CASE book = NoBook
  BY <1>1 DEF Without
<1>2. CASE book # NoBook /\ book = << >>
  BY <1>2, WithoutEmpty, NoBookNoSeq
<1>3. CASE book # NoBook /\ book # << >>
  <2>1. book \in Seq(Slots)
    BY <1>3
  <2>2. PageNum(book, i) \in DOMAIN book
    BY <1>3, <2>1, PageNumber
  <2>3. RemoveAt(book, PageNum(book, i)) \in Seq(Slots)
    BY <2>1, <2>2, TabRemoved
  <2>4. QED
    BY <1>3, <2>3, NoBookNoSeq DEF Without
<1>4. QED
  BY <1>1, <1>2, <1>3

LEMMA WithoutTab ==
  ASSUME NEW book \in Seq(Slots), Distinct(book), NEW i \in Range(book)
  PROVE  Range(Without(book, i)) = Range(book) \ {i} /\ Distinct(Without(book, i))
<1> DEFINE n == PageNum(book, i)
           L == Len(book)
           new == RemoveAt(book, n)
<1>1. n \in 1 .. L /\ book[n] = i /\ L \in Nat
  BY PageNumber
<1>2. /\ new \in Seq(Slots) /\ DOMAIN new = 1 .. L - 1
      /\ \A k \in 1 .. L - 1 : new[k] = IF k < n THEN book[k] ELSE book[k + 1]
  BY <1>1, TabRemoved
<1>3. Without(book, i) = new
  BY NoBookNoSeq DEF Without
<1>4. DOMAIN book = 1 .. L
  OBVIOUS
<1> HIDE DEF n, L, new
<1>5. ASSUME NEW k \in 1 .. L - 1 PROVE \E m \in (1 .. L) \ {n} : new[k] = book[m]
  <2>1. CASE k < n
    BY <1>1, <1>2, <2>1
  <2>2. CASE ~(k < n)
    <3>1. k + 1 \in (1 .. L) \ {n}
      BY <1>1, <2>2
    <3>2. QED
      BY <1>2, <2>2, <3>1
  <2>3. QED
    BY <2>1, <2>2
<1>6. ASSUME NEW m \in (1 .. L) \ {n} PROVE \E k \in 1 .. L - 1 : new[k] = book[m]
  <2>1. CASE m < n
    BY <1>1, <1>2, <2>1
  <2>2. CASE ~(m < n)
    <3>1. m - 1 \in 1 .. L - 1 /\ ~(m - 1 < n) /\ (m - 1) + 1 = m
      BY <1>1, <2>2
    <3>2. QED
      BY <1>2, <3>1
  <2>3. QED
    BY <2>1, <2>2
<1>7. Range(new) = Range(book) \ {i}
  <2>1. ASSUME NEW x \in Range(new) PROVE x \in Range(book) \ {i}
    <3>1. PICK k \in 1 .. L - 1 : x = new[k]
      BY <1>2 DEF Range
    <3>2. PICK m \in (1 .. L) \ {n} : x = book[m]
      BY <1>5, <3>1
    <3>3. QED
      BY <1>1, <1>4, <3>2 DEF Range, Distinct
  <2>2. ASSUME NEW x \in Range(book) \ {i} PROVE x \in Range(new)
    <3>1. PICK m \in 1 .. L : x = book[m]
      BY <1>4 DEF Range
    <3>2. m # n
      BY <1>1, <3>1
    <3>3. QED
      BY <1>2, <1>6, <3>1, <3>2 DEF Range
  <2>3. QED
    BY <2>1, <2>2
<1>8. Distinct(new)
  <2>1. ASSUME NEW j \in 1 .. L - 1, NEW k \in 1 .. L - 1, new[j] = new[k] PROVE j = k
    <3> DEFINE p == IF j < n THEN j ELSE j + 1
               q == IF k < n THEN k ELSE k + 1
    <3>1. p \in 1 .. L /\ q \in 1 .. L /\ (p = q => j = k)
      BY <1>1
    <3>2. new[j] = book[p] /\ new[k] = book[q]
      BY <1>2
    <3> HIDE DEF p, q
    <3>3. p = q
      BY <1>4, <2>1, <3>1, <3>2 DEF Distinct
    <3>4. QED
      BY <3>1, <3>3
  <2>2. QED
    BY <1>2, <2>1 DEF Distinct
<1>9. QED
  BY <1>3, <1>7, <1>8

-----------------------------------------------------------------------------
(* Removing a device.                                                      *)

\* What is left of the slots is sound, with or without a notebook.
LEMMA RemoveSound ==
  ASSUME NEW s, Sound(s), NEW i \in Slots, s.dz.dev[i].fd >= 0
  PROVE  LET r == RemoveDevice(s, i)
         IN  /\ Sound(r) /\ Open(r.dz) = Open(s.dz) \ {i}
             /\ r.dz.dev[i] = [fd |-> 0, page |-> NoPage]
             /\ \A j \in Slots \ {i} : r.dz.dev[j] = s.dz.dev[j]
             /\ r.dz.nr_devs = s.dz.nr_devs - 1
             /\ IF r.dz.nr_devs = 0
                THEN r.dz.notebook = NoBook /\ r.dz.no_dev_frame = TRUE
                ELSE /\ r.dz.notebook = Without(s.dz.notebook, i)
                     /\ r.dz.no_dev_frame = s.dz.no_dev_frame
<1> DEFINE c == DzClose(s, i)
           d == [c.dz EXCEPT !.notebook = Without(@, i), !.dev[i].page = NoPage]
           e == IF d.nr_devs = 0 THEN ShowNodev(d) ELSE d
           r == [c EXCEPT !.dz = e]
<1>1. RemoveDevice(s, i) = r
  BY DEF RemoveDevice
<1>2. /\ Sound(c) /\ Open(c.dz) = Open(s.dz) \ {i}
      /\ c.dz.dev[i] = [fd |-> 0, page |-> NoPage]
      /\ \A j \in Slots \ {i} : c.dz.dev[j] = s.dz.dev[j]
      /\ c.dz.nr_devs = s.dz.nr_devs - 1
      /\ c.dz.notebook = s.dz.notebook /\ c.dz.no_dev_frame = s.dz.no_dev_frame
  BY CloseSound
<1> HIDE DEF c
<1>3. c.dz \in Guis /\ c.fds \subseteq 1 .. MaxDev /\ c = [dz |-> c.dz, fds |-> c.fds]
  BY <1>2 DEF Sound, Frames
<1>4. /\ d.dev = c.dz.dev /\ d.nr_devs = c.dz.nr_devs
      /\ d.notebook = Without(c.dz.notebook, i) /\ d.no_dev_frame = c.dz.no_dev_frame
      /\ DOMAIN d = {"dev", "nr_devs", "notebook", "no_dev_frame"}
      /\ d = [k \in DOMAIN d |-> d[k]]
  <2>1. [c.dz.dev EXCEPT ![i].page = NoPage] = c.dz.dev
    <3>1. c.dz.dev \in [Slots -> Devices]
      BY <1>3 DEF Guis
    <3>2. [c.dz.dev[i] EXCEPT !.page = NoPage] = c.dz.dev[i]
      BY <1>2
    <3>3. QED
      BY <3>1, <3>2
  <2>2. d.dev = [c.dz.dev EXCEPT ![i].page = NoPage]
    BY <1>3 DEF Guis
  <2>3. /\ d.nr_devs = c.dz.nr_devs
        /\ d.notebook = Without(c.dz.notebook, i) /\ d.no_dev_frame = c.dz.no_dev_frame
        /\ DOMAIN d = {"dev", "nr_devs", "notebook", "no_dev_frame"}
        /\ d = [k \in DOMAIN d |-> d[k]]
    BY <1>3 DEF Guis
  <2> HIDE DEF d
  <2>4. QED
    BY <2>1, <2>2, <2>3
<1>5. d.notebook \in {NoBook} \cup Seq(Slots)
  BY <1>3, <1>4, WithoutType DEF Guis
<1> HIDE DEF d
<1>6. /\ e.dev = c.dz.dev /\ e.nr_devs = c.dz.nr_devs
      /\ IF e.nr_devs = 0 THEN e.notebook = NoBook /\ e.no_dev_frame = TRUE
         ELSE e.notebook = d.notebook /\ e.no_dev_frame = d.no_dev_frame
      /\ DOMAIN e = {"dev", "nr_devs", "notebook", "no_dev_frame"}
      /\ e = [k \in DOMAIN e |-> e[k]]
  <2>1. CASE d.nr_devs = 0
    BY <1>4, <2>1 DEF ShowNodev
  <2>2. CASE d.nr_devs # 0
    BY <1>4, <2>2
  <2>3. QED
    BY <2>1, <2>2
<1> HIDE DEF e
<1>7. e \in Guis
  <2>1. e.notebook \in {NoBook} \cup Seq(Slots) /\ e.no_dev_frame \in BOOLEAN
    BY <1>3, <1>4, <1>5, <1>6 DEF Guis
  <2>2. e.dev \in [Slots -> Devices] /\ e.nr_devs \in Int
    BY <1>3, <1>6 DEF Guis
  <2>3. QED
    BY <1>6, <2>1, <2>2 DEF Guis
<1>8. r.dz = e /\ r.fds = c.fds /\ r = [dz |-> e, fds |-> c.fds]
  BY <1>3
<1> HIDE DEF r
<1>9. Open(e) = Open(c.dz)
  BY <1>6 DEF Open
<1>10. Sound(r)
  <2>1. r \in Frames
    BY <1>3, <1>7, <1>8 DEF Frames
  <2>2. Paged(e)
    BY <1>2, <1>6 DEF Sound, Paged
  <2>3. Owned(r)
    BY <1>2, <1>6, <1>8, <1>9 DEF Sound, Owned
  <2>4. e.nr_devs <= Cardinality(Open(e))
    BY <1>2, <1>6, <1>9 DEF Sound
  <2>5. QED
    BY <1>8, <2>1, <2>2, <2>3, <2>4 DEF Sound
<1>11. /\ Open(e) = Open(s.dz) \ {i} /\ e.dev[i] = [fd |-> 0, page |-> NoPage]
       /\ \A j \in Slots \ {i} : e.dev[j] = s.dz.dev[j]
       /\ e.nr_devs = s.dz.nr_devs - 1
  BY <1>2, <1>6, <1>9
<1>12. IF e.nr_devs = 0 THEN e.notebook = NoBook /\ e.no_dev_frame = TRUE
       ELSE e.notebook = Without(s.dz.notebook, i) /\ e.no_dev_frame = s.dz.no_dev_frame
  BY <1>2, <1>4, <1>6
<1>13. QED
  BY <1>1, <1>8, <1>10, <1>11, <1>12

\* The tab of an open device goes with it.
LEMMA RemoveTabbed ==
  ASSUME NEW s, Sound(s), Tabbed(s.dz), s.dz.notebook # NoBook,
         NEW i \in Range(s.dz.notebook)
  PROVE  LET r == RemoveDevice(s, i)
         IN  Tabbed(r.dz) /\ (Counted(s.dz) => Counted(r.dz))
<1> DEFINE r == RemoveDevice(s, i)
           book == s.dz.notebook
<1>1. book \in Seq(Slots) /\ Distinct(book) /\ Range(book) \subseteq Open(s.dz)
  BY DEF Sound, Frames, Guis, Tabbed
<1>2. i \in Slots /\ i \in Open(s.dz) /\ s.dz.dev[i].fd >= 0
  BY <1>1 DEF Open, Sound, Frames, Guis, Devices
<1>3. /\ Open(r.dz) = Open(s.dz) \ {i}
      /\ r.dz.nr_devs = s.dz.nr_devs - 1
      /\ IF r.dz.nr_devs = 0
         THEN r.dz.notebook = NoBook /\ r.dz.no_dev_frame = TRUE
         ELSE /\ r.dz.notebook = Without(book, i)
              /\ r.dz.no_dev_frame = s.dz.no_dev_frame
  BY <1>2, RemoveSound
<1>4. Range(Without(book, i)) = Range(book) \ {i} /\ Distinct(Without(book, i))
  BY <1>1, WithoutTab
<1> HIDE DEF r, book
<1>5. Tabbed(r.dz)
  BY <1>1, <1>3, <1>4 DEF Tabbed
<1>6. ASSUME Counted(s.dz) PROVE Counted(r.dz)
  <2> DEFINE O == Open(s.dz)
  <2>1. IsFiniteSet(O) /\ Cardinality(O) \in Nat
    BY OpenFinite
  <2>2. IsFiniteSet(O \ {i}) /\ Cardinality(O \ {i}) = Cardinality(O) - 1
    <3> HIDE DEF O
    <3>1. i \in O
      BY <1>2 DEF O
    <3>2. QED
      BY <2>1, <3>1, FS_RemoveElement
  <2>3. r.dz.nr_devs = Cardinality(Open(r.dz))
    BY <1>3, <1>6, <2>2 DEF Counted
  <2>4. r.dz.nr_devs = 0 <=> Open(r.dz) = {}
    BY <1>3, <2>2, <2>3, FS_EmptySet
  <2>5. s.dz.no_dev_frame <=> FALSE
    BY <1>2, <1>6 DEF Counted
  <2>6. Without(book, i) # NoBook
    BY <1>1, WithoutType, NoBookNoSeq
  <2>7. CASE r.dz.nr_devs = 0
    BY <1>3, <2>3, <2>4, <2>7 DEF Counted
  <2>8. CASE r.dz.nr_devs # 0
    <3>1. r.dz.notebook = Without(book, i) /\ (r.dz.no_dev_frame <=> FALSE)
      BY <1>3, <2>5, <2>8
    <3>2. Range(book) = O
      BY <1>6 DEF Counted, book
    <3>3. QED
      BY <1>3, <1>4, <2>3, <2>4, <2>6, <2>8, <3>1, <3>2 DEF Counted
  <2>9. QED
    BY <2>7, <2>8
<1>7. QED
  BY <1>5, <1>6 DEF r

-----------------------------------------------------------------------------
(* The loop that removes all devices.                                      *)

Trace(f, n, s) == f = [i \in 0 .. n |-> IF i = 0 THEN s ELSE RemoveSlot(f[i - 1], i)]

\* The loop has a result: otherwise take the first turn without one.
LEMMA TraceExists ==
  ASSUME NEW s, NEW n \in Nat
  PROVE  \E f : Trace(f, n, s)
<1> DEFINE B == {m \in Nat : ~ \E f : Trace(f, m, s)}
<1>1. SUFFICES ASSUME B # {} PROVE FALSE
  OBVIOUS
<1>2. PICK m \in B : \A j \in B : m <= j
  <2>1. B \in SUBSET Nat
    OBVIOUS
  <2> HIDE DEF B
  <2>2. QED
    BY <1>1, <2>1, LeastOf
<1>3. CASE m = 0
  <2> DEFINE f == [k \in 0 .. 0 |-> s]
  <2>1. f = [k \in 0 .. 0 |-> IF k = 0 THEN s ELSE RemoveSlot(f[k - 1], k)]
    OBVIOUS
  <2>2. QED
    BY <1>2, <1>3, <2>1 DEF Trace
<1>4. CASE m # 0
  <2>1. m - 1 \in Nat /\ m - 1 \notin B
    BY <1>2, <1>4
  <2>2. PICK f : Trace(f, m - 1, s)
    BY <2>1
  <2>3. /\ DOMAIN f = 0 .. m - 1
        /\ \A k \in 0 .. m - 1 : f[k] = IF k = 0 THEN s ELSE RemoveSlot(f[k - 1], k)
    BY <2>2 DEF Trace
  <2> DEFINE g == [k \in 0 .. m |-> IF k = m THEN RemoveSlot(f[m - 1], m) ELSE f[k]]
  <2>4. \A k \in 0 .. m : g[k] = IF k = 0 THEN s ELSE RemoveSlot(g[k - 1], k)
    <3>1. TAKE k \in 0 .. m
    <3>2. CASE k = m
      <4>1. g[k] = RemoveSlot(f[m - 1], m) /\ k # 0 /\ m - 1 \in 0 .. m /\ m - 1 # m
        BY <1>2, <1>4, <3>2
      <4>2. g[k - 1] = f[m - 1]
        BY <3>2, <4>1
      <4>3. QED
        BY <3>2, <4>1, <4>2
    <3>3. CASE k # m /\ k # 0
      <4>1. k \in 0 .. m - 1 /\ k - 1 \in 0 .. m /\ k - 1 # m
        BY <1>2, <3>3
      <4>2. g[k] = f[k] /\ g[k - 1] = f[k - 1]
        BY <3>3, <4>1
      <4>3. QED
        BY <2>3, <3>3, <4>1, <4>2
    <3>4. CASE k # m /\ k = 0
      <4>1. g[k] = f[k] /\ k \in 0 .. m - 1
        BY <1>2, <1>4, <3>4
      <4>2. QED
        BY <2>3, <3>4, <4>1
    <3>5. QED
      BY <3>2, <3>3, <3>4
  <2>5. g = [k \in 0 .. m |-> g[k]]
    OBVIOUS
  <2> HIDE DEF g
  <2>6. [k \in 0 .. m |-> g[k]]
          = [k \in 0 .. m |-> IF k = 0 THEN s ELSE RemoveSlot(g[k - 1], k)]
    BY <2>4
  <2>7. Trace(g, m, s)
    BY <2>5, <2>6 DEF Trace
  <2>8. QED
    BY <1>2, <2>7
<1>5. QED
  BY <1>3, <1>4

\* Slots that the loop has been through are not open, whatever else it removed.
Through(t, k) == Sound(t) /\ \A i \in 1 .. k : ~(t.dz.dev[i].fd > 0)

LEMMA RemoveSlotKeeps ==
  ASSUME NEW t, NEW k \in Slots, Through(t, k - 1)
  PROVE  Through(RemoveSlot(t, k), k)
<1> DEFINE r == RemoveSlot(t, k)
<1>1. \A i \in 1 .. k : i \in Slots /\ (i = k \/ i \in 1 .. k - 1)
  BY GzbdConstants DEF Slots
<1>2. CASE t.dz.dev[k].fd >= 0
  <2>1. /\ Sound(r) /\ r.dz.dev[k] = [fd |-> 0, page |-> NoPage]
        /\ \A j \in Slots \ {k} : r.dz.dev[j] = t.dz.dev[j]
    <3>1. r = RemoveDevice(t, k)
      BY <1>2 DEF RemoveSlot
    <3>2. Sound(t)
      BY DEF Through
    <3>3. LET q == RemoveDevice(t, k)
          IN  /\ Sound(q) /\ q.dz.dev[k] = [fd |-> 0, page |-> NoPage]
              /\ \A j \in Slots \ {k} : q.dz.dev[j] = t.dz.dev[j]
      BY <1>2, <3>2, RemoveSound
    <3> HIDE DEF r
    <3>4. QED
      BY <3>1, <3>3
  <2> HIDE DEF r
  <2>2. ASSUME NEW i \in 1 .. k PROVE ~(r.dz.dev[i].fd > 0)
    <3>1. CASE i = k
      BY <2>1, <3>1
    <3>2. CASE i # k
      BY <1>1, <2>1, <3>2 DEF Through
    <3>3. QED
      BY <3>1, <3>2
  <2>3. QED
    BY <2>1, <2>2 DEF Through, r
<1>3. CASE ~(t.dz.dev[k].fd >= 0)
  <2>1. r = t /\ t.dz.dev[k].fd \in Int
    BY <1>3 DEF RemoveSlot, Through, Sound, Frames, Guis, Devices
  <2>2. QED
    BY <1>1, <1>3, <2>1 DEF Through
<1>4. QED
  BY <1>2, <1>3

LEMMA RemoveAllSound ==
  ASSUME NEW s, Sound(s)
  PROVE  /\ Sound(RemoveAll(s))
         /\ s.dz.notebook # NoBook => Open(RemoveAll(s).dz) = {}
<1> DEFINE after == CHOOSE f : Trace(f, MaxDev, s)
<1>1. RemoveAll(s) = IF s.dz.notebook = NoBook THEN s ELSE after[MaxDev]
  BY DEF RemoveAll, Trace
<1>2. Trace(after, MaxDev, s)
  BY GzbdConstants, TraceExists
<1> HIDE DEF after
<1>3. \A k \in 0 .. MaxDev : after[k] = IF k = 0 THEN s ELSE RemoveSlot(after[k - 1], k)
  BY <1>2 DEF Trace
<1> DEFINE B == {k \in 0 .. MaxDev : ~Through(after[k], k)}
<1>4. B = {}
  <2>1. SUFFICES ASSUME B # {} PROVE FALSE
    OBVIOUS
  <2>2. B \in SUBSET Nat
    BY GzbdConstants
  <2>3. PICK k \in B : \A j \in B : k <= j
    <3> HIDE DEF B
    <3>1. QED
      BY <2>1, <2>2, LeastOf
  <2>4. CASE k = 0
    <3>1. after[k] = s
      BY <1>3, <2>3, <2>4
    <3>2. Through(after[k], k)
      BY <2>4, <3>1 DEF Through
    <3>3. QED
      BY <2>3, <3>2
  <2>5. CASE k # 0
    <3>1. k \in Slots /\ k - 1 \in 0 .. MaxDev /\ k - 1 \notin B
      BY <2>3, <2>5, GzbdConstants DEF Slots
    <3>2. Through(after[k - 1], k - 1)
      BY <3>1
    <3>3. after[k] = RemoveSlot(after[k - 1], k)
      BY <1>3, <2>3, <2>5
    <3>4. Through(after[k], k)
      BY <3>1, <3>2, <3>3, RemoveSlotKeeps
    <3>5. QED
      BY <2>3, <3>4
  <2>6. QED
    BY <2>4, <2>5
<1>5. Through(after[MaxDev], MaxDev)
  BY <1>4, GzbdConstants
<1>6. Sound(after[MaxDev]) /\ Open(after[MaxDev].dz) = {}
  BY <1>5 DEF Through, Open, Slots
<1>7. QED
  BY <1>1, <1>6

-----------------------------------------------------------------------------
(* The invariant, step by step.                                            *)

LEMMA SoundNow ==
  ASSUME DevInv, main = "runs"
  PROVE  Sound(Now) /\ Now.dz = dz /\ Now.fds = fds
  BY DEF DevInv, Sound, Frames, Now

\* What a sound frame becomes is sound.
LEMMA BecomesSound ==
  ASSUME NEW r, Sound(r), Becomes(r)
  PROVE  /\ dz' \in Guis /\ fds' \subseteq 1 .. MaxDev
         /\ Paged(dz') /\ dz'.nr_devs <= Cardinality(Open(dz')) /\ Owned(Now')
  BY DEF Sound, Frames, Becomes, Now, Owned

LEMMA InitInv == Init => DevInv
<1> SUFFICES ASSUME Init PROVE DevInv
  OBVIOUS
<1>1. /\ dz.dev = [i \in Slots |-> [fd |-> -1, page |-> NoPage]] /\ dz.nr_devs = 0
      /\ dz.notebook = NoBook /\ dz.no_dev_frame = TRUE /\ fds = {} /\ main = "runs"
      /\ failed = 0
  BY DEF Init
<1>2. dz \in Guis
  BY GzbdConstants DEF Init, Guis, Devices
<1>3. Open(dz) = {}
  BY <1>1 DEF Open
<1>4. Paged(dz)
  BY <1>1 DEF Paged
<1>5. Owned(Now)
  BY <1>1, <1>3 DEF Owned, Now
<1>6. Counted(dz) /\ Tabbed(dz)
  BY <1>1, <1>3, FS_EmptySet DEF Counted, Tabbed
<1>7. QED
  BY <1>1, <1>2, <1>3, <1>4, <1>5, <1>6, FS_EmptySet, GzbdConstants DEF DevInv, ExitCloses

LEMMA ClosePageInv ==
  ASSUME DevInv, ClosePage
  PROVE  DevInv'
<1>1. main = "runs" /\ dz.notebook # NoBook /\ UNCHANGED <<main, failed>>
  BY DEF ClosePage
<1>2. PICK i \in Range(dz.notebook) : Becomes(RemoveDevice(Now, i))
  BY DEF ClosePage, Now
<1>3. Sound(Now) /\ Now.dz = dz /\ Tabbed(dz) /\ (failed = 0 => Counted(dz))
  BY <1>1, SoundNow DEF DevInv
<1>4. i \in Slots /\ dz.dev[i].fd >= 0
  <2>1. i \in Open(dz)
    BY <1>1, <1>3 DEF Tabbed
  <2>2. QED
    BY <2>1 DEF Open, DevInv, Guis, Devices
<1> DEFINE r == RemoveDevice(Now, i)
<1>5. Sound(r)
  BY <1>3, <1>4, RemoveSound
<1>6. Tabbed(r.dz) /\ (Counted(dz) => Counted(r.dz))
  BY <1>1, <1>3, RemoveTabbed
<1>7. Becomes(r)
  BY <1>2
<1> HIDE DEF r
<1>8. /\ dz' \in Guis /\ fds' \subseteq 1 .. MaxDev
      /\ Paged(dz') /\ dz'.nr_devs <= Cardinality(Open(dz')) /\ Owned(Now')
  BY <1>5, <1>7, BecomesSound
<1>9. Tabbed(dz') /\ (failed = 0 => Counted(dz'))
  BY <1>3, <1>6, <1>7 DEF Becomes
<1>10. QED
  BY <1>1, <1>8, <1>9 DEF DevInv, ExitCloses

\* The tab that dz_if_close_cb finds is the one selected; in an empty notebook it
\* finds a slot that is cleared.
LEMMA CloseCurrentInv ==
  ASSUME DevInv, CloseCurrent
  PROVE  DevInv'
<1>1. main = "runs" /\ dz.notebook # NoBook /\ UNCHANGED <<main, failed>>
  BY DEF CloseCurrent
<1>2. PICK p \in IF dz.notebook = << >> THEN {NoPage} ELSE Range(dz.notebook) :
          /\ DevicesOf(p) # {}
          /\ Becomes(RemoveDevice(Now, CHOOSE i \in DevicesOf(p) : \A j \in DevicesOf(p) : i <= j))
  BY DEF CloseCurrent, Now
<1>3. /\ Sound(Now) /\ Now.dz = dz /\ Tabbed(dz) /\ (failed = 0 => Counted(dz))
      /\ dz \in Guis /\ Paged(dz)
  BY <1>1, SoundNow DEF DevInv
<1> DEFINE i == CHOOSE i \in DevicesOf(p) : \A j \in DevicesOf(p) : i <= j
           r == RemoveDevice(Now, i)
<1>4. i \in DevicesOf(p)
  <2>1. DevicesOf(p) \in SUBSET Nat
    BY SlotsNat DEF DevicesOf
  <2>2. \E k \in DevicesOf(p) : \A j \in DevicesOf(p) : k <= j
    BY <1>2, <2>1, LeastOf
  <2>3. QED
    BY <2>2
<1>5. Becomes(r)
  BY <1>2
<1> HIDE DEF i
<1>6. i \in Slots /\ dz.dev[i].fd >= 0 /\ dz.dev[i].page = p
  BY <1>4 DEF DevicesOf
<1>7. Tabbed(r.dz) /\ (Counted(dz) => Counted(r.dz))
  <2>1. CASE dz.notebook = << >>
    <3>1. Range(dz.notebook) = {}
      BY <2>1 DEF Range
    <3>2. Without(dz.notebook, i) = << >>
      BY <2>1, WithoutEmpty
    <3>3. r.dz.notebook = NoBook \/ r.dz.notebook = << >>
      BY <1>3, <1>6, <3>2, RemoveSound
    <3>4. Tabbed(r.dz)
      BY <3>3 DEF Tabbed, Distinct, Range
    <3>5. ~Counted(dz)
      BY <1>1, <3>1 DEF Counted
    <3>6. QED
      BY <3>4, <3>5
  <2>2. CASE dz.notebook # << >>
    <3>1. p \in Range(dz.notebook) /\ p \in Open(dz)
      BY <1>1, <1>2, <1>3, <2>2 DEF Tabbed
    <3>2. p \in Slots /\ p # NoPage
      BY <3>1, SlotsNat DEF Open
    <3>3. i = p
      BY <1>3, <1>6, <3>2 DEF Paged
    <3>4. i \in Range(Now.dz.notebook)
      BY <1>3, <3>1, <3>3
    <3> HIDE DEF r
    <3>5. LET q == RemoveDevice(Now, i)
          IN  Tabbed(q.dz) /\ (Counted(Now.dz) => Counted(q.dz))
      BY <1>1, <1>3, <3>4, RemoveTabbed
    <3>6. QED
      BY <1>3, <3>5 DEF r
  <2>3. QED
    BY <2>1, <2>2
<1>8. Sound(r)
  BY <1>3, <1>6, RemoveSound
<1> HIDE DEF r
<1>9. /\ dz' \in Guis /\ fds' \subseteq 1 .. MaxDev
      /\ Paged(dz') /\ dz'.nr_devs <= Cardinality(Open(dz')) /\ Owned(Now')
  BY <1>5, <1>8, BecomesSound
<1>10. Tabbed(dz') /\ (failed = 0 => Counted(dz'))
  BY <1>3, <1>5, <1>7 DEF Becomes
<1>11. QED
  BY <1>1, <1>9, <1>10 DEF DevInv, ExitCloses

LEMMA ExitInv ==
  ASSUME DevInv, Exit
  PROVE  DevInv'
<1> DEFINE r == RemoveAll(Now)
<1>1. main = "runs" /\ main' = "left" /\ failed' = failed /\ Becomes(r)
  BY DEF Exit, Now
<1>2. Sound(Now) /\ Now.dz = dz /\ (failed = 0 => Counted(dz))
  BY <1>1, SoundNow DEF DevInv
<1>3. Sound(r) /\ (dz.notebook # NoBook => Open(r.dz) = {})
  BY <1>2, RemoveAllSound
<1>4. failed = 0 => Open(r.dz) = {}
  <2>1. CASE dz.notebook # NoBook
    BY <1>3, <2>1
  <2>2. CASE dz.notebook = NoBook
    BY <1>2, <2>2 DEF RemoveAll, Counted
  <2>3. QED
    BY <2>1, <2>2
<1> HIDE DEF r
<1>5. /\ dz' \in Guis /\ fds' \subseteq 1 .. MaxDev
      /\ Paged(dz') /\ dz'.nr_devs <= Cardinality(Open(dz')) /\ Owned(Now')
  BY <1>1, <1>3, BecomesSound
<1>6. failed = 0 => fds' = {}
  <2>1. ASSUME failed = 0, NEW f \in r.fds PROVE FALSE
    BY <1>3, <1>4, <2>1 DEF Sound, Owned
  <2>2. QED
    BY <1>1, <2>1 DEF Becomes
<1>7. QED
  BY <1>1, <1>5, <1>6 DEF DevInv, ExitCloses

LEMMA SignalInv ==
  ASSUME DevInv, Signal
  PROVE  DevInv'
  BY DEF DevInv, Signal, ExitCloses

LEMMA StutterInv ==
  ASSUME DevInv, UNCHANGED vars
  PROVE  DevInv'
  BY DEF DevInv, vars, ExitCloses, Now

LEMMA SlotToOpen ==
  ASSUME DevInv, main = "runs", Selectable # {}
  PROVE  /\ Slot \in Slots /\ Slot \notin Open(dz) /\ Slot \in Int
         /\ FreeFd \in 1 .. MaxDev /\ FreeFd \notin fds /\ FreeFd \in Int /\ FreeFd > 0
<1>1. Slot \in Selectable
  BY SlotIsFree
<1>2. Slot \in Slots /\ dz.dev[Slot].fd < 0 /\ dz.dev[Slot].fd \in Int
  BY <1>1 DEF Selectable, DevInv, Guis, Devices
<1>3. FreeFd \in (1 .. MaxDev) \ fds
  BY FreeFdIsFree DEF DevInv
<1>4. QED
  BY <1>2, <1>3, GzbdConstants, SlotsNat DEF Open

\* Nothing is left of the open that failed but the count, which is one too low.
LEMMA AddFailsInv ==
  ASSUME DevInv, AddFails
  PROVE  DevInv'
<1> DEFINE i == Slot
           F == FreeFd
           d == [dz EXCEPT !.dev[i].fd = F]
           z == [d EXCEPT !.dev[i] = [fd |-> 0, page |-> NoPage], !.nr_devs = @ - 1]
           s == [dz |-> d, fds |-> fds \cup {F}]
           c == DzClose(s, i)
<1>1. /\ main = "runs" /\ main' = main /\ failed < MaxFailed /\ failed' = failed + 1
      /\ Selectable # {} /\ Becomes(c)
  BY DEF AddFails
<1>2. /\ i \in Slots /\ i \notin Open(dz)
      /\ F \in 1 .. MaxDev /\ F \notin fds /\ F \in Int /\ F > 0
  BY <1>1, SlotToOpen
<1>3. dz \in Guis /\ dz.dev \in [Slots -> Devices]
  BY DEF DevInv, Guis
<1> HIDE DEF i, F
<1>4. /\ d.dev = [dz.dev EXCEPT ![i].fd = F] /\ d.nr_devs = dz.nr_devs
      /\ d.notebook = dz.notebook /\ d.no_dev_frame = dz.no_dev_frame
      /\ DOMAIN d = {"dev", "nr_devs", "notebook", "no_dev_frame"}
  BY <1>3 DEF Guis
<1>5. d.dev[i].fd = F /\ DOMAIN d.dev = Slots /\ \A j \in Slots \ {i} : d.dev[j] = dz.dev[j]
  BY <1>2, <1>3, <1>4 DEF Devices
<1>6. c = [dz |-> z, fds |-> (fds \cup {F}) \ {F}]
  <2>1. s.dz = d /\ s.fds = fds \cup {F}
    OBVIOUS
  <2> HIDE DEF s, d
  <2>2. s.dz.dev[i].fd = F /\ ~(F < 0)
    BY <1>2, <1>5, <2>1
  <2>3. c = [dz  |-> [s.dz EXCEPT !.dev[i] = [fd |-> 0, page |-> NoPage], !.nr_devs = @ - 1],
             fds |-> s.fds \ {F}]
    BY <2>2 DEF DzClose
  <2>4. QED
    BY <2>1, <2>3
<1> HIDE DEF c, d
<1>7. /\ z.dev = [d.dev EXCEPT ![i] = [fd |-> 0, page |-> NoPage]]
      /\ z.nr_devs = dz.nr_devs - 1
      /\ z.notebook = dz.notebook /\ z.no_dev_frame = dz.no_dev_frame
      /\ DOMAIN z = {"dev", "nr_devs", "notebook", "no_dev_frame"}
      /\ z = [k \in DOMAIN z |-> z[k]]
  BY <1>4
<1> HIDE DEF z
<1>8. dz' = z /\ fds' = fds
  <2>1. dz' = z /\ fds' = (fds \cup {F}) \ {F}
    BY <1>1, <1>6 DEF Becomes
  <2>2. (fds \cup {F}) \ {F} = fds
    BY <1>2
  <2>3. QED
    BY <2>1, <2>2
<1>9. /\ z.dev[i] = [fd |-> 0, page |-> NoPage]
      /\ \A j \in Slots \ {i} : z.dev[j] = dz.dev[j]
      /\ DOMAIN z.dev = Slots
  BY <1>2, <1>5, <1>7
<1>10. z \in Guis
  <2>1. z.dev \in [Slots -> Devices]
    <3>1. \A j \in Slots : z.dev[j] \in Devices
      BY <1>3, <1>9, GzbdConstants DEF Devices
    <3>2. z.dev = [j \in Slots |-> z.dev[j]]
      BY <1>5, <1>7
    <3>3. QED
      BY <3>1, <3>2
  <2>2. /\ z.nr_devs \in Int /\ z.notebook \in {NoBook} \cup Seq(Slots)
        /\ z.no_dev_frame \in BOOLEAN
    BY <1>3, <1>7 DEF Guis
  <2>3. QED
    BY <1>7, <2>1, <2>2 DEF Guis
<1>11. Open(z) = Open(dz) /\ \A j \in Open(z) : z.dev[j] = dz.dev[j]
  BY <1>2, <1>9 DEF Open
<1>12. Paged(z)
  BY <1>9 DEF Paged, DevInv
<1>13. z.nr_devs <= Cardinality(Open(z))
  <2>1. dz.nr_devs \in Int /\ Cardinality(Open(dz)) \in Nat /\ dz.nr_devs <= Cardinality(Open(dz))
    BY <1>3, OpenFinite DEF DevInv, Guis
  <2>2. QED
    BY <1>7, <1>11, <2>1
<1>14. Owned(Now)'
  BY <1>1, <1>8, <1>11 DEF DevInv, Owned, Now
<1>15. Tabbed(z)
  BY <1>1, <1>7, <1>11 DEF DevInv, Tabbed
<1>16. failed' \in 0 .. MaxFailed /\ failed' # 0
  BY <1>1, GzbdConstants DEF DevInv
<1>17. QED
  BY <1>1, <1>8, <1>10, <1>12, <1>13, <1>14, <1>15, <1>16 DEF DevInv, ExitCloses

\* A device more: its slot was not in use, so its tab is no other's.
LEMMA AddDeviceInv ==
  ASSUME DevInv, AddDevice
  PROVE  DevInv'
<1> DEFINE i == Slot
           F == FreeFd
           h == HideNodev(dz)
           z == [h EXCEPT !.dev[i] = [fd |-> F, page |-> i], !.nr_devs = @ + 1,
                          !.notebook = Append(@, i)]
           book == IF dz.notebook = NoBook THEN << >> ELSE dz.notebook
           O == Open(dz)
<1>1. /\ main = "runs" /\ UNCHANGED <<main, failed>> /\ Selectable # {}
      /\ dz' = z /\ fds' = fds \cup {F}
  BY DEF AddDevice
<1>2. /\ i \in Slots /\ i \notin O
      /\ F \in 1 .. MaxDev /\ F \notin fds /\ F \in Int /\ F > 0
  BY <1>1, SlotToOpen
<1>3. /\ dz \in Guis /\ dz.dev \in [Slots -> Devices] /\ dz.nr_devs \in Int
      /\ fds \subseteq 1 .. MaxDev /\ Paged(dz)
  BY DEF DevInv, Guis
<1> HIDE DEF i, F
<1>4. /\ h.dev = dz.dev /\ h.nr_devs = dz.nr_devs
      /\ h.notebook = book /\ h.no_dev_frame = FALSE
      /\ DOMAIN h = {"dev", "nr_devs", "notebook", "no_dev_frame"}
  BY <1>3 DEF Guis, HideNodev
<1> HIDE DEF h
<1>5. /\ z.dev = [dz.dev EXCEPT ![i] = [fd |-> F, page |-> i]]
      /\ z.nr_devs = dz.nr_devs + 1
      /\ z.notebook = Append(book, i) /\ z.no_dev_frame = FALSE
      /\ DOMAIN z = {"dev", "nr_devs", "notebook", "no_dev_frame"}
      /\ z = [k \in DOMAIN z |-> z[k]]
  BY <1>4
<1> HIDE DEF z
<1>6. /\ z.dev[i] = [fd |-> F, page |-> i]
      /\ \A j \in Slots \ {i} : z.dev[j] = dz.dev[j]
  BY <1>2, <1>3, <1>5
<1>7. book \in Seq(Slots)
  BY <1>3 DEF Guis
<1>8. Range(book) \subseteq O /\ Distinct(book)
  <2>1. CASE dz.notebook = NoBook
    BY <2>1 DEF Range, Distinct
  <2>2. CASE dz.notebook # NoBook
    BY <1>1, <2>2 DEF DevInv, Tabbed
  <2>3. QED
    BY <2>1, <2>2
<1>9. failed = 0 => Range(book) = O /\ dz.nr_devs = Cardinality(O)
  <2>1. SUFFICES ASSUME failed = 0 PROVE Range(book) = O /\ dz.nr_devs = Cardinality(O)
    OBVIOUS
  <2>2. Counted(dz)
    BY <1>1, <2>1 DEF DevInv
  <2>3. CASE dz.notebook = NoBook
    BY <2>2, <2>3 DEF Range, Counted
  <2>4. CASE dz.notebook # NoBook
    BY <2>2, <2>4 DEF Counted
  <2>5. QED
    BY <2>3, <2>4
<1> HIDE DEF book
<1>10. /\ Append(book, i) \in Seq(Slots) /\ DOMAIN Append(book, i) = 1 .. Len(book) + 1
       /\ \A k \in 1 .. Len(book) : Append(book, i)[k] = book[k]
       /\ Append(book, i)[Len(book) + 1] = i
       /\ Len(book) \in Nat /\ DOMAIN book = 1 .. Len(book)
  BY <1>2, <1>7, AppendProperties
<1>11. Range(Append(book, i)) = Range(book) \cup {i}
  BY <1>10 DEF Range
<1>12. Distinct(Append(book, i))
  <2>1. \A k \in 1 .. Len(book) : book[k] \in O
    BY <1>8, <1>10 DEF Range
  <2>2. \A k \in DOMAIN Append(book, i) : k \in 1 .. Len(book) \/ k = Len(book) + 1
    BY <1>10
  <2>3. QED
    BY <1>2, <1>8, <1>10, <2>1, <2>2 DEF Distinct
<1>13. Append(book, i) # NoBook
  BY <1>10, NoBookNoSeq
<1>14. Open(z) = O \cup {i}
  BY <1>2, <1>6 DEF Open
<1>15. z \in Guis
  <2>1. z.dev \in [Slots -> Devices]
    <3>1. [fd |-> F, page |-> i] \in Devices
      BY <1>2 DEF Devices
    <3>2. QED
      BY <1>3, <1>5, <3>1
  <2>2. z.nr_devs \in Int
    BY <1>3, <1>5
  <2>4. z.no_dev_frame \in BOOLEAN
    BY <1>5, Zenon
  <2>3. z.notebook \in {NoBook} \cup Seq(Slots)
    BY <1>5, <1>10, Zenon
  <2>5. QED
    BY <1>5, <2>1, <2>2, <2>3, <2>4 DEF Guis
<1>16. Paged(z)
  <2>1. SUFFICES ASSUME NEW j \in Slots
                 PROVE  z.dev[j].page = IF z.dev[j].fd > 0 THEN j ELSE NoPage
    BY DEF Paged
  <2>2. CASE j = i
    BY <1>2, <1>6, <2>2
  <2>3. CASE j # i
    BY <1>3, <1>6, <2>3 DEF Paged
  <2>4. QED
    BY <2>2, <2>3
<1>17. /\ Cardinality(Open(z)) = Cardinality(O) + 1
       /\ Cardinality(O) \in Nat /\ dz.nr_devs <= Cardinality(O)
  <2>1. IsFiniteSet(O) /\ Cardinality(O) \in Nat /\ dz.nr_devs <= Cardinality(O)
    BY OpenFinite DEF DevInv
  <2> HIDE DEF O
  <2>2. QED
    BY <1>2, <1>14, <2>1, FS_AddElement
<1>18. Owned(Now)'
  <2>1. \A j \in O : j \in Slots /\ j # i /\ z.dev[j] = dz.dev[j]
    BY <1>2, <1>6 DEF Open
  <2>2. Owned(Now) /\ Now.dz = dz /\ Now.fds = fds
    BY <1>1 DEF DevInv, Now
  <2>3. Now'.dz = z /\ Now'.fds = fds \cup {F}
    BY <1>1 DEF Now
  <2>4. \A j \in Open(z) : z.dev[j].fd \in fds \cup {F}
    BY <1>6, <1>14, <2>1, <2>2 DEF Owned
  <2>5. \A f \in fds \cup {F} : \E j \in Open(z) : z.dev[j].fd = f
    <3>1. TAKE f \in fds \cup {F}
    <3>2. CASE f = F
      BY <1>6, <1>14, <3>2
    <3>3. CASE f # F
      BY <1>14, <2>1, <2>2, <3>3 DEF Owned
    <3>4. QED
      BY <3>2, <3>3
  <2>6. \A j, k \in Open(z) : z.dev[j].fd = z.dev[k].fd => j = k
    <3>1. \A j \in O : z.dev[j].fd # F
      BY <1>2, <2>1, <2>2 DEF Owned
    <3>2. \A j, k \in O : z.dev[j].fd = z.dev[k].fd => j = k
      BY <2>1, <2>2 DEF Owned
    <3>3. QED
      BY <1>6, <1>14, <3>1, <3>2
  <2>7. QED
    BY <2>3, <2>4, <2>5, <2>6 DEF Owned
<1>19. Tabbed(z)
  BY <1>5, <1>8, <1>11, <1>12, <1>14 DEF Tabbed
<1>20. failed = 0 => Counted(z)
  <2>1. SUFFICES ASSUME failed = 0 PROVE Counted(z)
    OBVIOUS
  <2>2. z.nr_devs = Cardinality(Open(z))
    BY <1>5, <1>9, <1>17, <2>1
  <2>3. Open(z) # {} /\ z.notebook # NoBook /\ ~z.no_dev_frame
    BY <1>5, <1>13, <1>14
  <2>4. Range(z.notebook) = Open(z)
    BY <1>5, <1>9, <1>11, <1>14, <2>1
  <2>5. QED
    BY <2>2, <2>3, <2>4 DEF Counted
<1>21. z.nr_devs <= Cardinality(Open(z))
  BY <1>3, <1>5, <1>17
<1>22. fds' \subseteq 1 .. MaxDev
  BY <1>1, <1>2, <1>3
<1>23. QED
  BY <1>1, <1>15, <1>16, <1>18, <1>19, <1>20, <1>21, <1>22 DEF DevInv, ExitCloses

-----------------------------------------------------------------------------
(* What follows from the invariant.                                        *)

LEMMA OwnedFds ==
  ASSUME Owned(Now)
  PROVE  /\ fds = {dz.dev[i].fd : i \in OpenSlots}
         /\ \A i, j \in OpenSlots : dz.dev[i].fd = dz.dev[j].fd => i = j
<1>1. Open(Now.dz) = OpenSlots /\ Now.dz = dz /\ Now.fds = fds
  BY DEF Open, OpenSlots, Now
<1>2. QED
  BY <1>1 DEF Owned

LEMMA InvTyped ==
  ASSUME DevInv
  PROVE  TypeOK
<1>1. dz \in [dev : [Slots -> [fd : -1 .. MaxDev, page : {NoPage} \cup Slots]], nr_devs : Int,
              notebook : {NoBook} \cup Seq(Slots), no_dev_frame : BOOLEAN]
  BY DEF DevInv, Guis, Devices
<1>2. \A i \in Slots : dz.dev[i].page \in {NoPage, i}
  BY DEF DevInv, Paged
<1>3. dz.nr_devs <= Cardinality(OpenSlots)
  BY DEF DevInv, Open, OpenSlots
<1>4. QED
  BY <1>1, <1>2, <1>3 DEF DevInv, TypeOK

LEMMA InvTabs ==
  ASSUME DevInv
  PROVE  TabsAreDevices
<1>1. Open(dz) = OpenSlots
  BY DEF Open, OpenSlots
<1>2. ASSUME main = "runs", dz.notebook # NoBook PROVE Range(dz.notebook) \subseteq OpenSlots
  BY <1>1, <1>2 DEF DevInv, Tabbed
<1>3. ASSUME main = "runs", failed = 0
      PROVE  /\ dz.notebook # NoBook =>
                  Range(dz.notebook) = OpenSlots /\ Len(dz.notebook) = Cardinality(OpenSlots)
             /\ \A i \in OpenSlots : dz.dev[i].page = i
             /\ dz.no_dev_frame <=> OpenSlots = {}
             /\ dz.no_dev_frame <=> dz.notebook = NoBook
  <2>1. Counted(dz) /\ Tabbed(dz) /\ Paged(dz)
    BY <1>3 DEF DevInv
  <2>2. \A i \in OpenSlots : dz.dev[i].page = i
    BY <2>1 DEF Paged, OpenSlots
  <2>3. (dz.no_dev_frame <=> OpenSlots = {}) /\ (dz.no_dev_frame <=> dz.notebook = NoBook)
    BY <1>1, <2>1 DEF Counted
  <2>4. ASSUME dz.notebook # NoBook
        PROVE  Range(dz.notebook) = OpenSlots /\ Len(dz.notebook) = Cardinality(OpenSlots)
    <3> DEFINE book == dz.notebook
               O == OpenSlots
               n == Len(book)
    <3>1. Range(book) = O /\ Distinct(book)
      BY <1>1, <2>1, <2>4 DEF Counted, Tabbed
    <3>2. book \in Seq(Slots) /\ n \in Nat /\ DOMAIN book = 1 .. n
      BY <2>4 DEF DevInv, Guis
    <3>3. book = [k \in 1 .. n |-> book[k]]
      BY <3>2
    <3> HIDE DEF book, O, n
    <3>4. \A k \in 1 .. n : book[k] \in O
      BY <3>1, <3>2 DEF Range
    <3>5. book \in [1 .. n -> O]
      BY <3>3, <3>4
    <3>6. \A x \in O : \E k \in 1 .. n : book[k] = x
      BY <3>1, <3>2 DEF Range
    <3>7. \A j, k \in 1 .. n : book[j] = book[k] => j = k
      BY <3>1, <3>2 DEF Distinct
    <3>8. book \in Bijection(1 .. n, O)
      <4>1. book \in Injection(1 .. n, O)
        BY <3>5, <3>7 DEF Injection, IsInjective
      <4>2. book \in Surjection(1 .. n, O)
        BY <3>5, <3>6 DEF Surjection
      <4>3. QED
        BY <4>1, <4>2 DEF Bijection
    <3>9. ExistsBijection(1 .. n, O)
      BY <3>8 DEF ExistsBijection
    <3>10. Cardinality(O) = n
      BY <3>2, <3>9, FS_CountingElements
    <3>11. QED
      BY <3>1, <3>10 DEF book, O, n
  <2>5. QED
    BY <2>2, <2>3, <2>4
<1>4. QED
  BY <1>2, <1>3 DEF TabsAreDevices

LEMMA DevicesInvariant == Spec => []DevInv
<1>1. Init => DevInv
  BY InitInv
<1>2. DevInv /\ [Next]_vars => DevInv'
  <2>1. SUFFICES ASSUME DevInv, [Next]_vars PROVE DevInv'
    OBVIOUS
  <2>2. CASE AddRefused
    BY <2>1, <2>2, StutterInv DEF AddRefused
  <2>3. CASE AddFails
    BY <2>1, <2>3, AddFailsInv
  <2>4. CASE AddDevice
    BY <2>1, <2>4, AddDeviceInv
  <2>5. CASE CloseCurrent
    BY <2>1, <2>5, CloseCurrentInv
  <2>6. CASE ClosePage
    BY <2>1, <2>6, ClosePageInv
  <2>7. CASE Exit
    BY <2>1, <2>7, ExitInv
  <2>8. CASE Signal
    BY <2>1, <2>8, SignalInv
  <2>9. CASE UNCHANGED vars
    BY <2>1, <2>9, StutterInv
  <2>10. QED
    BY <2>1, <2>2, <2>3, <2>4, <2>5, <2>6, <2>7, <2>8, <2>9 DEF Next
<1>3. QED
  BY <1>1, <1>2, PTL DEF Spec

\* However many slots there are and in whatever order devices are opened, fail to open and
\* are closed: the library has exactly the descriptors of the open slots, each for one slot
\* (dz_open, dz_close), and dz keeps its types.
THEOREM DescriptorsOwned == Spec => []FdsOwned
<1>1. DevInv => FdsOwned
  <2>1. SUFFICES ASSUME DevInv PROVE FdsOwned
    OBVIOUS
  <2>2. TypeOK
    BY <2>1, InvTyped
  <2>3. ASSUME main = "runs" PROVE Owned(Now)
    BY <2>1, <2>3 DEF DevInv
  <2>4. QED
    BY <2>2, <2>3, OwnedFds DEF FdsOwned
<1>2. QED
  BY <1>1, DevicesInvariant, PTL

\* Every tab is an open device's; and as long as no open has failed half-way, every open
\* device has exactly one tab and "No device open" shows when there is none
\* (dz_if_add_device, dz_if_remove_device, the callbacks that close).
THEOREM TabsMatch == Spec => []TabsAreDevices
<1>1. DevInv => TabsAreDevices
  BY InvTabs
<1>2. QED
  BY <1>1, DevicesInvariant, PTL

\* If no open failed half-way, the loop of dz_if_exit_cb and dz_if_delete_cb leaves no
\* descriptor of the library open.
THEOREM LeavingCloses == Spec => []ExitCloses
<1>1. DevInv => ExitCloses
  BY DEF DevInv
<1>2. QED
  BY <1>1, DevicesInvariant, PTL
=============================================================================
