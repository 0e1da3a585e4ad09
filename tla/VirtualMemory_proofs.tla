------------------------ MODULE VirtualMemory_proofs ------------------------
(***************************************************************************)
(* Address spaces stay apart for any number of processes and pages, for    *)
(* all programs, and whatever frames are named by the words that unmmap    *)
(* reads at the wrong address: but for the frames it has freed in use.     *)
(* And _exec maps every page of a program whose loadable headers come      *)
(* first.                                                                  *)
(***************************************************************************)
EXTENDS VirtualMemory, WellFoundedInduction, TLAPS

Slots == 0..(L2 - 1)
UserEntry == 0..(UserL1 - 1)

-----------------------------------------------------------------------------
(* Numbers.                                                                *)

LEMMA LeastMember ==
  ASSUME NEW T, T \subseteq Nat, T # {}
  PROVE  Min(T) \in T
<1> DEFINE R == {ss \in Nat \X Nat : ss[1] < ss[2]}
<1>1. R = OpToRel(<, Nat)
  BY DEF OpToRel
<1>2. IsWellFoundedOn(R, Nat)
  BY <1>1, NatLessThanWellFounded
<1> HIDE DEF R
<1>3. PICK x \in T : \A y \in T : ~(<<y, x>> \in R)
  BY <1>2, WFMin
<1>4. \A y \in T : y < x => <<y, x>> \in R
  BY DEF R
<1>5. \A y \in T : x <= y
  <2>1. \A y \in T : ~(y < x)
    BY <1>3, <1>4
  <2>2. \A y \in T : y \in Int /\ x \in Int
    OBVIOUS
  <2> QED
    BY <2>1, <2>2
<1> QED
  BY <1>3, <1>5 DEF Min

LEMMA Sizes ==
  /\ L2 \in Nat /\ L2 > 0 /\ UserL1 \in Nat /\ UserL1 > 0 /\ KernelL1 \in Nat /\ KernelL1 > 0
  /\ 0 \in Proc /\ Tables \subseteq Nat \ {0} /\ Frames \subseteq Nat \ {0}
  /\ NONE = -1 /\ SECTION = 0
  /\ Entry = 0..(UserL1 + KernelL1 - 1) /\ UserEntry \subseteq Entry
BY L2Assumption, L1Assumption, ProcAssumption, TablesAssumption DEF NONE, SECTION, Entry, UserEntry

LEMMA PagePlace ==
  ASSUME NEW n \in UserPages
  PROVE  n \div L2 \in UserEntry /\ n % L2 \in Slots
<1>1. n \in Nat /\ n < UserL1 * L2 /\ L2 \in Nat /\ L2 > 0 /\ UserL1 \in Nat
  <2>1. UserL1 * L2 \in Int
    BY Sizes
  <2> QED
    BY <2>1, Sizes DEF UserPages
<1> DEFINE q == n \div L2
           r == n % L2
<1>2. q \in Int /\ r \in 0..(L2 - 1) /\ n = L2 * q + r
  BY <1>1
<1> HIDE DEF q, r
<1>3. q >= 0
  <2> SUFFICES ASSUME q <= -1 PROVE FALSE
    BY <1>2
  <2>1. L2 * q <= L2 * (-1)
    BY <1>1, <1>2
  <2> QED
    BY <1>1, <1>2, <2>1
<1>4. q < UserL1
  <2> SUFFICES ASSUME q >= UserL1 PROVE FALSE
    BY <1>1, <1>2
  <2>1. L2 * q >= UserL1 * L2
    BY <1>1, <1>2
  <2>2. L2 * q \in Int /\ UserL1 * L2 \in Int
    BY <1>1, <1>2
  <2> QED
    BY <1>1, <1>2, <2>1, <2>2
<1> QED
  BY <1>1, <1>2, <1>3, <1>4 DEF q, r, UserEntry, Slots

LEMMA PlacePage ==
  ASSUME NEW e \in UserEntry, NEW j \in Slots
  PROVE  e * L2 + j \in UserPages /\ (e * L2 + j) \div L2 = e
<1>1. e \in Nat /\ e <= UserL1 - 1 /\ j \in Nat /\ j < L2 /\ L2 \in Nat /\ L2 > 0 /\ UserL1 \in Nat
  BY Sizes DEF UserEntry, Slots
<1>2. e * L2 \in Nat /\ (UserL1 - 1) * L2 \in Int /\ (UserL1 - 1) * L2 = UserL1 * L2 - L2
      /\ UserL1 * L2 \in Nat
  BY <1>1
<1>3. e * L2 <= (UserL1 - 1) * L2
  BY <1>1
<1>4. (e * L2 + j) \div L2 = e
  BY <1>1
<1> QED
  BY <1>1, <1>2, <1>3, <1>4 DEF UserPages

-----------------------------------------------------------------------------
(* The inductive invariant.                                                *)

TablesApart ==
    /\ \A p, q \in Proc : \A d, e \in UserEntry :
          l1[p][d] # NONE /\ l1[p][d] = l1[q][e] => p = q /\ d = e
    /\ \A t \in Tables : t \in freeTables <=> \A p \in Proc : \A e \in UserEntry : l1[p][e] # t

FramesApart ==
    /\ \A t, u \in Tables : \A j, k \in Slots :
          l2[t][j] # NONE /\ l2[t][j] = l2[u][k] => (t = u /\ j = k) \/ l2[t][j] \in stray
    /\ \A f \in Frames :
          f \in freeFrames => f \in stray \/ \A t \in Tables : \A j \in Slots : l2[t][j] # f
    /\ \A f \in Frames : f \in freeFrames \/ \E t \in Tables : \E j \in Slots : l2[t][j] = f

\* A table that is handed out maps nothing.
FreeTablesEmpty == \A t \in freeTables : l2[t] = Zeroed

\* Whoever has not been forked yet has no table, and whoever is worked on has
\* been forked.
Forked ==
    /\ 0 \in alive
    /\ \A p \in Proc \ alive : \A e \in UserEntry : l1[p][e] = NONE
    /\ op \in {"unmap", "map", "copy"} => who \in alive
    /\ op = "idle" => todo = {}

\* A copy has done the entries below i, in the child only.
Copying ==
    op = "copy" =>
        /\ from \in alive /\ from # who /\ who # 0 /\ i >= 0
        /\ \A e \in UserEntry : e >= i => l1[who][e] = NONE
        /\ \A n \in todo : l1[who][n \div L2] # NONE

KernelMapped ==
    op # "hang" => \A p \in alive : \A e \in Entry :
        e >= UserL1 /\ (op = "copy" /\ p = who => e < i)
        => l1[p][e] = l1[0][e] /\ l1[p][e] # NONE

VMInv ==
    /\ TypeOK /\ TablesApart /\ FramesApart /\ FreeTablesEmpty
    /\ Forked /\ Copying /\ KernelMapped

LEMMA InitVM == Init => VMInv
<1> SUFFICES ASSUME Init PROVE VMInv
  OBVIOUS
<1> USE Sizes DEF Init, Boot, Slots, UserEntry
<1>1. \A p \in Proc : \A e \in Entry : l1[p][e] = IF p = 0 /\ e >= UserL1 THEN SECTION ELSE NONE
  OBVIOUS
<1>2. Zeroed \in [Slots -> Frames \cup {NONE}] /\ \A j \in Slots : Zeroed[j] = NONE
  BY DEF Zeroed
<1>3. \A t \in Tables : l2[t] = Zeroed
  OBVIOUS
<1>4. TypeOK
  BY <1>2 DEF TypeOK
<1>5. TablesApart
  BY <1>1 DEF TablesApart
<1>6. FramesApart
  BY <1>2, <1>3 DEF FramesApart
<1>7. FreeTablesEmpty
  BY <1>3 DEF FreeTablesEmpty
<1>8. Forked /\ Copying
  BY <1>1 DEF Forked, Copying
<1>9. KernelMapped
  BY <1>1 DEF KernelMapped
<1> QED
  BY <1>4, <1>5, <1>6, <1>7, <1>8, <1>9 DEF VMInv

-----------------------------------------------------------------------------
(* The memory changes in two ways only.                                    *)

\* An empty entry gets a free table.
LEMMA TableTaken ==
  ASSUME VMInv, NEW p \in alive, NEW e \in UserEntry, NewTable(p, e), l1[p][e] = NONE,
         UNCHANGED <<freeFrames, stray>>
  PROVE  /\ l1' \in [Proc -> [Entry -> Tables \cup {NONE, SECTION}]]
         /\ \A q \in Proc, d \in Entry : d < UserL1 => l1'[q][d] # SECTION
         /\ l2' = l2 /\ freeTables' \subseteq Tables
         /\ TablesApart' /\ FreeTablesEmpty' /\ FramesApart'
         /\ l1'[p][e] # NONE
         /\ \A q \in Proc, d \in Entry : q # p \/ d # e => l1'[q][d] = l1[q][d]
<1> DEFINE t == Min(freeTables)
<1>1. p \in Proc /\ e \in Entry /\ e < UserL1 /\ freeTables \subseteq Tables /\ TypeOK
  BY Sizes DEF VMInv, TypeOK, UserEntry
<1>2. t \in freeTables
  BY <1>1, LeastMember, Sizes DEF NewTable
<1>3. /\ l1' = [l1 EXCEPT ![p][e] = t] /\ l2' = [l2 EXCEPT ![t] = Zeroed]
      /\ freeTables' = freeTables \ {t}
  BY DEF NewTable
<1> HIDE DEF t
<1>4. t \in Tables /\ t # NONE /\ t # SECTION
  BY <1>1, <1>2, Sizes
<1>5. l1'[p][e] = t /\ \A q \in Proc, d \in Entry : q # p \/ d # e => l1'[q][d] = l1[q][d]
  BY <1>1, <1>3 DEF TypeOK
<1>6. l1' \in [Proc -> [Entry -> Tables \cup {NONE, SECTION}]]
  BY <1>1, <1>3, <1>4 DEF TypeOK
<1>7. \A q \in Proc, d \in Entry : d < UserL1 => l1'[q][d] # SECTION
  <2> SUFFICES ASSUME NEW q \in Proc, NEW d \in Entry, d < UserL1 PROVE l1'[q][d] # SECTION
    OBVIOUS
  <2>1. CASE q = p /\ d = e
    BY <1>4, <1>5, <2>1
  <2>2. CASE q # p \/ d # e
    BY <1>1, <1>5, <2>2 DEF TypeOK
  <2> QED
    BY <2>1, <2>2
<1>8. l2' = l2
  <2>1. l2[t] = Zeroed
    BY <1>2 DEF VMInv, FreeTablesEmpty
  <2> QED
    BY <1>1, <1>3, <1>4, <2>1 DEF TypeOK
<1>9. UserEntry \subseteq Entry
  BY Sizes
<1>10. \A q \in Proc : \A d \in UserEntry : l1[q][d] # t
  BY <1>2, <1>4 DEF VMInv, TablesApart
<1>11. TablesApart'
  <2>1. ASSUME NEW q \in Proc, NEW s \in Proc, NEW d \in UserEntry, NEW f \in UserEntry,
               l1'[q][d] # NONE, l1'[q][d] = l1'[s][f]
        PROVE  q = s /\ d = f
    <3>1. CASE (q # p \/ d # e) /\ (s # p \/ f # e)
      BY <1>5, <1>9, <2>1, <3>1 DEF VMInv, TablesApart
    <3>2. CASE (q = p /\ d = e) /\ (s # p \/ f # e)
      BY <1>5, <1>9, <1>10, <2>1, <3>2
    <3>3. CASE (q # p \/ d # e) /\ (s = p /\ f = e)
      BY <1>5, <1>9, <1>10, <2>1, <3>3
    <3> QED
      BY <3>1, <3>2, <3>3
  <2>2. ASSUME NEW u \in Tables
        PROVE  u \in freeTables' <=> \A q \in Proc : \A d \in UserEntry : l1'[q][d] # u
    <3>1. CASE u = t
      BY <1>1, <1>3, <1>5, <3>1
    <3>2. CASE u # t
      <4>1. u \in freeTables' <=> u \in freeTables
        BY <1>3, <3>2
      <4>2. u \in freeTables <=> \A q \in Proc : \A d \in UserEntry : l1[q][d] # u
        BY DEF VMInv, TablesApart
      <4>3. u # NONE
        BY Sizes
      <4>4. \A q \in Proc : \A d \in UserEntry : l1'[q][d] # u <=> l1[q][d] # u
        BY <1>5, <1>9, <3>2, <4>3
      <4> QED
        BY <4>1, <4>2, <4>4
    <3> QED
      BY <3>1, <3>2
  <2> QED
    BY <2>1, <2>2 DEF TablesApart
<1>12. FreeTablesEmpty'
  BY <1>3, <1>8 DEF VMInv, FreeTablesEmpty, Zeroed
<1>13. FramesApart'
  BY <1>8 DEF VMInv, FramesApart
<1>14. freeTables' \subseteq Tables
  BY <1>1, <1>3
<1>15. l1'[p][e] # NONE
  BY <1>4, <1>5
<1> QED
  BY <1>5, <1>6, <1>7, <1>8, <1>11, <1>12, <1>13, <1>14, <1>15

\* An empty place of a table in use gets a free frame.
LEMMA FrameTaken ==
  ASSUME VMInv, NEW n \in UserPages, NEW p \in Proc, NeedsFrame(p, n), freeFrames # {},
         l2' = [l2 EXCEPT ![l1[p][n \div L2]][n % L2] = Min(freeFrames)],
         freeFrames' = freeFrames \ {Min(freeFrames)}, UNCHANGED <<l1, freeTables, stray>>
  PROVE  /\ l2' \in [Tables -> [Slots -> Frames \cup {NONE}]] /\ freeFrames' \subseteq Frames
         /\ TablesApart' /\ FreeTablesEmpty' /\ FramesApart'
<1> DEFINE t == l1[p][n \div L2]
           j == n % L2
           f == Min(freeFrames)
<1>1. n \div L2 \in UserEntry /\ j \in Slots
  BY PagePlace
<1>2. TypeOK /\ n \div L2 \in Entry /\ n \div L2 < UserL1
  BY <1>1, Sizes DEF VMInv, UserEntry
<1>3. t # NONE /\ t \in Tables /\ l2[t][j] = NONE
  BY <1>2, Sizes DEF NeedsFrame, Slot, TypeOK
<1>4. t \notin freeTables
  BY <1>1, <1>3 DEF VMInv, TablesApart
<1>5. f \in freeFrames /\ f \in Frames /\ f # NONE
  <2>1. freeFrames \subseteq Frames /\ freeFrames \subseteq Nat
    BY <1>2, Sizes DEF TypeOK
  <2> QED
    BY <2>1, LeastMember, Sizes
<1> HIDE DEF t, j, f
<1>6. l2' = [l2 EXCEPT ![t][j] = f] /\ freeFrames' = freeFrames \ {f}
  BY DEF t, j, f
<1>a. l2 \in [Tables -> [Slots -> Frames \cup {NONE}]]
  BY <1>2 DEF TypeOK, Slots
<1>7. l2'[t][j] = f /\ \A u \in Tables, k \in Slots : u # t \/ k # j => l2'[u][k] = l2[u][k]
  BY <1>1, <1>3, <1>6, <1>a
<1>8. l2' \in [Tables -> [Slots -> Frames \cup {NONE}]]
  BY <1>1, <1>3, <1>5, <1>6, <1>a
<1>9. TablesApart'
  BY DEF VMInv, TablesApart
<1>10. FreeTablesEmpty'
  <2>1. \A u \in freeTables : u # t /\ u \in Tables
    BY <1>2, <1>4 DEF TypeOK
  <2>2. \A u \in freeTables : l2'[u] = l2[u]
    BY <1>2, <1>6, <2>1 DEF TypeOK
  <2> QED
    BY <2>2 DEF VMInv, FreeTablesEmpty, Zeroed
<1>11. FramesApart'
  <2>1. FramesApart
    BY DEF VMInv
  <2>2. f \in stray \/ \A u \in Tables : \A k \in Slots : l2[u][k] # f
    BY <1>5, <2>1 DEF FramesApart
  <2>3. ASSUME NEW u \in Tables, NEW v \in Tables, NEW k \in Slots, NEW l \in Slots,
               l2'[u][k] # NONE, l2'[u][k] = l2'[v][l]
        PROVE  (u = v /\ k = l) \/ l2'[u][k] \in stray
    <3>1. CASE (u # t \/ k # j) /\ (v # t \/ l # j)
      BY <1>7, <2>1, <2>3, <3>1 DEF FramesApart
    <3>2. CASE (u = t /\ k = j) /\ (v # t \/ l # j)
      BY <1>7, <2>2, <2>3, <3>2
    <3>3. CASE (u # t \/ k # j) /\ (v = t /\ l = j)
      BY <1>7, <2>2, <2>3, <3>3
    <3> QED
      BY <3>1, <3>2, <3>3
  <2>4. ASSUME NEW g \in Frames, g \in freeFrames', g \notin stray,
               NEW u \in Tables, NEW k \in Slots
        PROVE  l2'[u][k] # g
    <3>1. g \in freeFrames /\ g # f
      BY <1>6, <2>4
    <3>2. l2[u][k] # g
      BY <2>1, <2>4, <3>1 DEF FramesApart
    <3> QED
      BY <1>7, <3>1, <3>2
  <2>5. ASSUME NEW g \in Frames, g \notin freeFrames'
        PROVE  \E u \in Tables : \E k \in Slots : l2'[u][k] = g
    <3>1. CASE g = f
      BY <1>1, <1>3, <1>7, <3>1
    <3>2. CASE g # f
      <4>1. g \notin freeFrames
        BY <1>6, <2>5, <3>2
      <4>2. PICK u \in Tables, k \in Slots : l2[u][k] = g
        BY <2>1, <4>1 DEF FramesApart
      <4>3. g # NONE
        BY Sizes
      <4>4. u # t \/ k # j
        BY <1>3, <4>2, <4>3
      <4>5. l2'[u][k] = g
        BY <1>7, <4>2, <4>4
      <4> QED
        BY <4>5
    <3> QED
      BY <3>1, <3>2
  <2>6. stray' = stray
    OBVIOUS
  <2> QED
    BY <2>3, <2>4, <2>5, <2>6 DEF FramesApart
<1>12. freeFrames' \subseteq Frames
  BY <1>2, <1>6 DEF TypeOK
<1> QED
  BY <1>8, <1>9, <1>10, <1>11, <1>12

-----------------------------------------------------------------------------
(* The steps.                                                              *)

LEMMA SameMemory ==
  ASSUME VMInv, UNCHANGED <<l2, freeTables>>
  PROVE  /\ UNCHANGED l1 => TablesApart'
         /\ FreeTablesEmpty'
         /\ UNCHANGED <<freeFrames, stray>> => FramesApart'
<1>1. UNCHANGED l1 => TablesApart'
  BY DEF VMInv, TablesApart
<1>2. FreeTablesEmpty'
  <2>1. FreeTablesEmpty
    BY DEF VMInv
  <2>2. \A t \in freeTables' : l2'[t] = Zeroed
    BY <2>1 DEF FreeTablesEmpty
  <2> QED
    BY <2>2 DEF FreeTablesEmpty, Zeroed
<1>3. UNCHANGED <<freeFrames, stray>> => FramesApart'
  BY DEF VMInv, FramesApart
<1> QED
  BY <1>1, <1>2, <1>3

LEMMA ExecStep ==
  ASSUME VMInv, Exec
  PROVE  VMInv'
<1>1. PICK p \in alive, img \in Images :
         /\ who' = p
         /\ todo' = ExecPages(img)
         /\ image' = [image EXCEPT ![p] = img]
  BY DEF Exec
<1>2. /\ op = "idle" /\ op' = "unmap" /\ i' = UserL1 - 1
      /\ UNCHANGED <<l1, l2, freeTables, freeFrames, alive, from, stray>>
  BY DEF Exec
<1>3. TypeOK
  BY DEF VMInv
<1>4. Stack \subseteq UserPages /\ ExecPages(img) \subseteq UserPages
  <2>1. \A start, finish : PagesOf(start, finish) \subseteq UserPages
    BY DEF PagesOf
  <2>2. Stack \subseteq UserPages /\ \A h \in Reached(img) : SegmentPages(h) \subseteq UserPages
    BY <2>1 DEF Stack, SegmentPages
  <2>3. ExecPages(img) \subseteq UserPages
    BY <2>2 DEF ExecPages
  <2> QED
    BY <2>2, <2>3
<1>6. todo' \subseteq UserPages /\ image' \in [Proc -> Images \cup {<<>>}] /\ who' \in Proc
      /\ i' \in -1..(UserL1 + KernelL1)
  <2>1. todo' \subseteq UserPages
    BY <1>1, <1>4
  <2>2. who' \in Proc /\ image' \in [Proc -> Images \cup {<<>>}]
    BY <1>1, <1>3 DEF TypeOK
  <2>3. i' \in -1..(UserL1 + KernelL1)
    BY <1>2, Sizes
  <2> QED
    BY <2>1, <2>2, <2>3
<1>7. TypeOK'
  BY <1>2, <1>3, <1>6 DEF TypeOK
<1>8. TablesApart' /\ FreeTablesEmpty' /\ FramesApart'
  BY <1>2, SameMemory
<1>9. Forked' /\ Copying' /\ KernelMapped'
  BY <1>1, <1>2 DEF VMInv, Forked, Copying, KernelMapped
<1> QED
  BY <1>7, <1>8, <1>9 DEF VMInv

LEMMA UnmapStep ==
  ASSUME VMInv, UnmapEntry
  PROVE  VMInv'
<1>1. /\ op = "unmap" /\ i >= 0 /\ i' = i - 1 /\ op' \in {"unmap", "broken"}
      /\ UNCHANGED <<l1, l2, freeTables, alive, who, from, todo, image>>
  BY DEF UnmapEntry
<1>2. TypeOK /\ FramesApart
  BY DEF VMInv
<1>3. PICK N \in SUBSET Frames : freeFrames' = freeFrames \cup N /\ stray' = stray \cup N
  <2>1. CASE UNCHANGED <<freeFrames, stray>>
    <3>1. freeFrames' = freeFrames \cup {} /\ stray' = stray \cup {}
      BY <2>1
    <3> QED
      BY <3>1
  <2>2. CASE ~ UNCHANGED <<freeFrames, stray>>
    <3>1. PICK w \in LowWords :
             freeFrames' = freeFrames \cup Named(w) /\ stray' = stray \cup Named(w)
      BY <2>2 DEF UnmapEntry
    <3>2. w \in [Slots -> Frames \cup {NONE}]
      BY LowWordsAssumption DEF Slots
    <3>3. Named(w) \in SUBSET Frames
      BY <3>2 DEF Named, Entries
    <3> QED
      BY <3>1, <3>3
  <2> QED
    BY <2>1, <2>2
<1>4. i' \in -1..(UserL1 + KernelL1)
  BY <1>1, <1>2, Sizes DEF TypeOK
<1>5. TypeOK'
  BY <1>1, <1>2, <1>3, <1>4 DEF TypeOK
<1>6. TablesApart' /\ FreeTablesEmpty'
  BY <1>1, SameMemory
<1>7. FramesApart'
  BY <1>1, <1>2, <1>3 DEF FramesApart
<1>8. Forked' /\ Copying' /\ KernelMapped'
  BY <1>1 DEF VMInv, Forked, Copying, KernelMapped
<1> QED
  BY <1>5, <1>6, <1>7, <1>8 DEF VMInv

\* The control moves on and the memory stays as it is.
LEMMA ControlSteps ==
  ASSUME VMInv, UnmapEnd \/ MapSkip \/ ExecEnd \/ CopySkip \/ ForkEnd \/ Hang
  PROVE  VMInv'
<1>1. UNCHANGED <<l1, l2, freeTables, freeFrames, alive, who, from, stray, image>>
  BY DEF UnmapEnd, MapSkip, CopyPage, ExecEnd, CopySkip, ForkEnd, Hang
<1>2. TypeOK
  BY DEF VMInv
<1>3. /\ op' \in {"idle", "unmap", "map", "copy", "hang", "broken"} /\ i' \in -1..(UserL1 + KernelL1)
      /\ todo' \subseteq todo
  BY <1>2, Sizes DEF UnmapEnd, MapSkip, ExecEnd, CopySkip, ForkEnd, Hang, CopyPage, loop, TypeOK, FirstShared
<1>4. TypeOK'
  BY <1>1, <1>2, <1>3 DEF TypeOK
<1>5. TablesApart' /\ FreeTablesEmpty' /\ FramesApart'
  BY <1>1, SameMemory
<1>6. Forked'
  BY <1>1 DEF VMInv, Forked, UnmapEnd, MapSkip, ExecEnd, CopySkip, ForkEnd, Hang, CopyPage, loop
<1>7. Copying'
  <2>1. CASE UnmapEnd \/ ExecEnd \/ ForkEnd \/ Hang
    BY <2>1 DEF Copying, UnmapEnd, ExecEnd, ForkEnd, Hang
  <2>2. CASE MapSkip
    BY <1>1, <1>3, <2>2 DEF VMInv, Copying, MapSkip, CopyPage
  <2>3. CASE CopySkip
    <3>1. /\ op = "copy" /\ todo = {} /\ i' = i + 1 /\ UNCHANGED <<op, todo>>
          /\ i \in Int /\ i >= 0
      BY <1>2, <2>3 DEF CopySkip, TypeOK, VMInv, Copying
    <3>2. \A e \in UserEntry : e >= i' => e >= i
      BY <3>1 DEF UserEntry
    <3> QED
      BY <1>1, <3>1, <3>2 DEF VMInv, Copying
  <2> QED
    BY <2>1, <2>2, <2>3
<1>8. KernelMapped'
  <2>1. CASE UnmapEnd \/ ExecEnd \/ MapSkip
    BY <1>1, <2>1 DEF VMInv, KernelMapped, UnmapEnd, ExecEnd, MapSkip, CopyPage
  <2>2. CASE Hang
    BY <2>2 DEF KernelMapped, Hang
  <2>3. CASE CopySkip
    <3>1. op = "copy" /\ op' = "copy" /\ i' = i + 1 /\ i < UserL1 /\ i \in Int
      BY <1>2, <2>3 DEF CopySkip, FirstShared, TypeOK
    <3>2. \A e \in Entry : e >= UserL1 => ~(e < i')
      BY <3>1, Sizes
    <3> QED
      BY <1>1, <3>1, <3>2 DEF VMInv, KernelMapped
  <2>4. CASE ForkEnd
    <3>1. op = "copy" /\ op' = "idle" /\ i = UserL1 + KernelL1
      BY <2>4 DEF ForkEnd
    <3>2. \A e \in Entry : e < i
      BY <3>1, Sizes
    <3> QED
      BY <1>1, <3>1, <3>2 DEF VMInv, KernelMapped
  <2> QED
    BY <2>1, <2>2, <2>3, <2>4
<1> QED
  BY <1>4, <1>5, <1>6, <1>7, <1>8 DEF VMInv

\* The page of this turn is one of those that are left.
LEMMA CurrentPage ==
  ASSUME VMInv, todo # {}
  PROVE  Current \in todo /\ Current \in UserPages
<1>1. todo \subseteq UserPages /\ UserPages \subseteq Nat
  BY DEF VMInv, TypeOK, UserPages
<1>2. Min(todo) \in todo
  BY <1>1, LeastMember
<1> QED
  BY <1>1, <1>2 DEF Current

LEMMA MapTableStep ==
  ASSUME VMInv, MapTable
  PROVE  VMInv'
<1> DEFINE e == Current \div L2
<1>1. /\ op = "map" /\ todo # {} /\ l1[who][e] = NONE /\ NewTable(who, e)
      /\ UNCHANGED <<freeFrames, alive, op, who, from, i, todo, stray, image>>
  <2>1. Current \in todo /\ todo # {}
    BY CurrentPage DEF MapTable
  <2>2. op # "copy"
    BY <2>1 DEF MapTable, NeedsTable, VMInv, Copying
  <2> QED
    BY <2>2 DEF MapTable, NeedsTable, loop
<1>2. e \in UserEntry
  BY <1>1, CurrentPage, PagePlace
<1> HIDE DEF e
<1>3. who \in alive /\ TypeOK
  BY <1>1 DEF VMInv, Forked
<1>4. /\ l1' \in [Proc -> [Entry -> Tables \cup {NONE, SECTION}]]
      /\ \A q \in Proc, d \in Entry : d < UserL1 => l1'[q][d] # SECTION
      /\ l2' = l2 /\ freeTables' \subseteq Tables
      /\ TablesApart' /\ FreeTablesEmpty' /\ FramesApart'
      /\ l1'[who][e] # NONE
      /\ \A q \in Proc, d \in Entry : q # who \/ d # e => l1'[q][d] = l1[q][d]
  BY <1>1, <1>2, <1>3, TableTaken
<1>5. TypeOK'
  BY <1>1, <1>3, <1>4 DEF TypeOK
<1>6. Forked'
  <2>1. \A p \in Proc \ alive : \A d \in UserEntry : l1'[p][d] = NONE
    BY <1>3, <1>4, Sizes DEF VMInv, Forked
  <2> QED
    BY <1>1, <2>1 DEF VMInv, Forked
<1>7. Copying'
  BY <1>1 DEF Copying
<1>8. KernelMapped'
  <2>1. \A d \in Entry : d >= UserL1 => d # e
    BY <1>2, Sizes DEF UserEntry
  <2>2. 0 \in Proc /\ alive \subseteq Proc
    BY <1>3, Sizes DEF TypeOK
  <2>3. \A p \in alive : \A d \in Entry : d >= UserL1 => l1'[p][d] = l1[p][d] /\ l1'[0][d] = l1[0][d]
    BY <1>4, <2>1, <2>2
  <2> QED
    BY <1>1, <2>3 DEF VMInv, KernelMapped
<1> QED
  BY <1>4, <1>5, <1>6, <1>7, <1>8 DEF VMInv

LEMMA MapFrameStep ==
  ASSUME VMInv, MapFrame
  PROVE  VMInv'
<1> DEFINE f == Min(freeFrames)
<1>1. /\ op \in {"map", "copy"} /\ todo # {} /\ NeedsFrame(who, Current) /\ freeFrames # {}
      /\ l2' = [l2 EXCEPT ![l1[who][Current \div L2]][Current % L2] = f]
      /\ freeFrames' = freeFrames \ {f} /\ todo' = todo \ {Current}
      /\ op' \in {op, "hang"} /\ UNCHANGED <<l1, freeTables, alive, who, from, i, stray, image>>
  BY DEF MapFrame, CopyPage
<1>2. Current \in UserPages /\ who \in Proc /\ TypeOK
  BY <1>1, CurrentPage DEF VMInv, TypeOK
<1>3. /\ l2' \in [Tables -> [Slots -> Frames \cup {NONE}]] /\ freeFrames' \subseteq Frames
      /\ TablesApart' /\ FreeTablesEmpty' /\ FramesApart'
  BY <1>1, <1>2, FrameTaken
<1>4. TypeOK'
  BY <1>1, <1>2, <1>3 DEF TypeOK, Slots
<1>5. Forked'
  BY <1>1 DEF VMInv, Forked
<1>6. Copying'
  BY <1>1 DEF VMInv, Copying
<1>7. KernelMapped'
  BY <1>1 DEF VMInv, KernelMapped
<1> QED
  BY <1>3, <1>4, <1>5, <1>6, <1>7 DEF VMInv

LEMMA ForkStep ==
  ASSUME VMInv, Fork
  PROVE  VMInv'
<1>1. PICK p \in alive, c \in Proc \ alive : from' = p /\ who' = c /\ alive' = alive \cup {c}
  BY DEF Fork
<1>2. /\ op = "idle" /\ op' = "copy" /\ i' = 0 /\ todo = {} /\ 0 \in alive
      /\ UNCHANGED <<l1, l2, freeTables, freeFrames, todo, stray, image>>
  BY DEF Fork, VMInv, Forked
<1>3. TypeOK
  BY DEF VMInv
<1>4. 0 \in -1..(UserL1 + KernelL1)
  BY Sizes
<1>5. TypeOK'
  BY <1>1, <1>2, <1>3, <1>4 DEF TypeOK
<1>6. TablesApart' /\ FreeTablesEmpty' /\ FramesApart'
  BY <1>2, SameMemory
<1>7. Forked'
  BY <1>1, <1>2 DEF VMInv, Forked
<1>8. Copying'
  BY <1>1, <1>2 DEF VMInv, Forked, Copying
<1>9. KernelMapped'
  <2>1. \A e \in Entry : e >= UserL1 => ~(e < 0)
    BY Sizes
  <2> QED
    BY <1>1, <1>2, <2>1 DEF VMInv, KernelMapped
<1> QED
  BY <1>5, <1>6, <1>7, <1>8, <1>9 DEF VMInv

LEMMA CopyTableStep ==
  ASSUME VMInv, CopyTable
  PROVE  VMInv'
<1>1. /\ op = "copy" /\ todo = {} /\ i < UserL1 /\ NewTable(who, i) /\ i' = i + 1
      /\ UNCHANGED <<freeFrames, alive, op, who, from, stray, image>>
  BY DEF CopyTable, FirstShared
<1>2. TypeOK /\ who \in alive /\ who \in Proc /\ from # who /\ from \in alive /\ who # 0
      /\ i >= 0 /\ \A d \in UserEntry : d >= i => l1[who][d] = NONE
  BY <1>1 DEF VMInv, TypeOK, Forked, Copying
<1>3. i \in UserEntry /\ i \in Int
  BY <1>1, <1>2, Sizes DEF TypeOK, UserEntry
<1>4. l1[who][i] = NONE
  BY <1>2, <1>3
<1>5. /\ l1' \in [Proc -> [Entry -> Tables \cup {NONE, SECTION}]]
      /\ \A q \in Proc, d \in Entry : d < UserL1 => l1'[q][d] # SECTION
      /\ l2' = l2 /\ freeTables' \subseteq Tables
      /\ TablesApart' /\ FreeTablesEmpty' /\ FramesApart'
      /\ l1'[who][i] # NONE
      /\ \A q \in Proc, d \in Entry : q # who \/ d # i => l1'[q][d] = l1[q][d]
  BY <1>1, <1>2, <1>3, <1>4, TableTaken
<1>6. todo' \subseteq UserPages /\ \A n \in todo' : n \div L2 = i
  <2>1. PICK w \in LowWords : todo' = {i * L2 + j : j \in Entries(w)}
    BY DEF CopyTable
  <2>2. Entries(w) \subseteq Slots
    BY LowWordsAssumption DEF Slots, Entries
  <2>3. \A j \in Slots : i * L2 + j \in UserPages /\ (i * L2 + j) \div L2 = i
    BY <1>3, PlacePage
  <2>4. ASSUME NEW n \in todo' PROVE n \in UserPages /\ n \div L2 = i
    <3>1. PICK j \in Slots : n = i * L2 + j
      BY <2>1, <2>2
    <3> QED
      BY <2>3, <3>1
  <2> QED
    BY <2>4
<1>7. TypeOK'
  <2>1. i' \in -1..(UserL1 + KernelL1)
    BY <1>1, <1>2, <1>3, Sizes
  <2> QED
    BY <1>1, <1>2, <1>5, <1>6, <2>1 DEF TypeOK
<1>8. Forked'
  <2>1. \A p \in Proc \ alive : \A d \in UserEntry : l1'[p][d] = NONE
    BY <1>2, <1>5, Sizes DEF VMInv, Forked
  <2> QED
    BY <1>1, <2>1 DEF VMInv, Forked
<1>9. Copying'
  <2>1. \A d \in UserEntry : d >= i' => l1'[who][d] = NONE
    <3>1. \A d \in UserEntry : d >= i' => d >= i /\ d # i /\ d \in Entry
      BY <1>1, <1>3, Sizes DEF UserEntry
    <3> QED
      BY <1>2, <1>5, <3>1
  <2>2. \A n \in todo' : l1'[who][n \div L2] # NONE
    BY <1>5, <1>6
  <2>3. i' >= 0
    BY <1>1, <1>2, <1>3
  <2> QED
    BY <1>1, <1>2, <2>1, <2>2, <2>3 DEF Copying
<1>10. KernelMapped'
  <2>1. \A d \in Entry : d >= UserL1 => d # i /\ ~(d < i')
    BY <1>1, <1>3, Sizes
  <2>2. 0 \in Proc /\ alive \subseteq Proc
    BY <1>2, Sizes DEF TypeOK
  <2>3. \A p \in alive : \A d \in Entry : d >= UserL1 => l1'[p][d] = l1[p][d] /\ l1'[0][d] = l1[0][d]
    BY <1>5, <2>1, <2>2
  <2> QED
    BY <1>1, <2>1, <2>3 DEF VMInv, KernelMapped
<1> QED
  BY <1>5, <1>7, <1>8, <1>9, <1>10 DEF VMInv

LEMMA KernelCopyStep ==
  ASSUME VMInv, KernelCopy
  PROVE  VMInv'
<1>1. /\ op = "copy" /\ todo = {} /\ i >= UserL1 /\ i < UserL1 + KernelL1 /\ i' = i + 1
      /\ l1' = [l1 EXCEPT ![who][i] = l1[from][i]]
      /\ UNCHANGED <<l2, freeTables, freeFrames, alive, op, who, from, todo, stray, image>>
  BY DEF KernelCopy, FirstShared
<1>2. TypeOK /\ who \in alive /\ who \in Proc /\ from # who /\ from \in alive /\ who # 0
      /\ from \in Proc /\ 0 \in alive /\ 0 \in Proc /\ i \in Int /\ alive \subseteq Proc
  BY <1>1, Sizes DEF VMInv, TypeOK, Forked, Copying
<1>3. i \in Entry
  BY <1>1, <1>2, Sizes
<1>4. l1[from][i] = l1[0][i] /\ l1[from][i] # NONE
  BY <1>1, <1>2, <1>3 DEF VMInv, KernelMapped
<1>5. l1'[who][i] = l1[from][i] /\ \A q \in Proc, d \in Entry : q # who \/ d # i => l1'[q][d] = l1[q][d]
  BY <1>1, <1>2, <1>3 DEF TypeOK
<1>6. \A q \in Proc, d \in UserEntry : l1'[q][d] = l1[q][d]
  <2>1. \A d \in UserEntry : d # i /\ d \in Entry
    BY <1>1, Sizes DEF UserEntry
  <2> QED
    BY <1>5, <2>1
<1>7. TypeOK'
  <2>1. l1[from][i] \in Tables \cup {NONE, SECTION}
    BY <1>2, <1>3 DEF TypeOK
  <2>2. l1' \in [Proc -> [Entry -> Tables \cup {NONE, SECTION}]]
    BY <1>1, <1>2, <1>3, <2>1 DEF TypeOK
  <2>3. \A p \in Proc, e \in Entry : (e < UserL1) => (l1'[p][e] # SECTION)
    <3>1. \A e \in Entry : e < UserL1 => e \in UserEntry
      BY Sizes DEF UserEntry
    <3> QED
      BY <1>2, <1>6, <3>1 DEF TypeOK
  <2>4. i' \in -1..(UserL1 + KernelL1)
    BY <1>1, <1>2, Sizes
  <2> QED
    BY <1>1, <1>2, <2>2, <2>3, <2>4 DEF TypeOK
<1>8. TablesApart'
  BY <1>1, <1>6 DEF VMInv, TablesApart
<1>9. FreeTablesEmpty' /\ FramesApart'
  BY <1>1, SameMemory
<1>10. Forked'
  BY <1>1, <1>2, <1>6 DEF VMInv, Forked
<1>11. Copying'
  <2>1. \A d \in UserEntry : ~(d >= i')
    BY <1>1, <1>2, Sizes DEF UserEntry
  <2>2. i' >= 0
    BY <1>1, <1>2, Sizes
  <2> QED
    BY <1>1, <1>2, <2>1, <2>2 DEF Copying
<1>12. KernelMapped'
  <2> SUFFICES ASSUME NEW p \in alive, NEW e \in Entry, e >= UserL1, p = who => e < i'
               PROVE  l1'[p][e] = l1'[0][e] /\ l1'[p][e] # NONE
    BY <1>1 DEF KernelMapped
  <2>1. l1'[0][e] = l1[0][e]
    BY <1>2, <1>5
  <2>2. CASE p = who /\ e = i
    BY <1>4, <1>5, <2>1, <2>2
  <2>3. CASE p # who \/ e # i
    <3>1. p = who => e < i
      BY <1>1, <1>2, <2>3, Sizes
    <3> QED
      BY <1>1, <1>2, <1>5, <2>1, <2>3, <3>1 DEF VMInv, KernelMapped
  <2> QED
    BY <2>2, <2>3
<1> QED
  BY <1>7, <1>8, <1>9, <1>10, <1>11, <1>12 DEF VMInv

LEMMA NextVM ==
  ASSUME VMInv, [Next]_vars
  PROVE  VMInv'
<1>1. CASE Next
  BY <1>1, ExecStep, UnmapStep, ControlSteps, MapTableStep, MapFrameStep, ForkStep,
     CopyTableStep, KernelCopyStep DEF Next
<1>2. CASE UNCHANGED vars
  <2>1. UNCHANGED <<l1, l2, freeTables, freeFrames, alive, op, who, from, i, todo, stray, image>>
    BY <1>2 DEF vars, loop
  <2>2. TypeOK'
    BY <2>1 DEF VMInv, TypeOK
  <2>3. TablesApart' /\ FreeTablesEmpty' /\ FramesApart'
    BY <2>1, SameMemory
  <2>4. Forked' /\ Copying' /\ KernelMapped'
    BY <2>1 DEF VMInv, Forked, Copying, KernelMapped
  <2> QED
    BY <2>2, <2>3, <2>4 DEF VMInv
<1> QED
  BY <1>1, <1>2

-----------------------------------------------------------------------------
(* What follows from the invariant.                                        *)

LEMMA ApartTables == VMInv => TablesExclusive
<1> SUFFICES ASSUME VMInv PROVE TablesExclusive
  OBVIOUS
<1>1. TablesApart /\ TypeOK
  BY DEF VMInv
<1>2. \A p \in Proc : UserEntries(p) = {e \in UserEntry : l1[p][e] # NONE}
  BY DEF UserEntries, UserEntry
<1>3. \A p, q \in Proc : \A d \in UserEntries(p), e \in UserEntries(q) :
          l1[p][d] = l1[q][e] => p = q /\ d = e
  BY <1>1, <1>2 DEF TablesApart
<1> DEFINE used == UNION {{l1[p][e] : e \in UserEntries(p)} : p \in Proc}
<1>4. ASSUME NEW t \in Tables
      PROVE  t \in used <=> \E p \in Proc : \E e \in UserEntry : l1[p][e] = t
  <2>1. t # NONE
    BY Sizes
  <2>2. ASSUME NEW p \in Proc, NEW e \in UserEntry, l1[p][e] = t PROVE t \in used
    <3>1. e \in UserEntries(p)
      BY <1>2, <2>1, <2>2
    <3>2. t \in {l1[p][d] : d \in UserEntries(p)}
      BY <2>2, <3>1
    <3> QED
      BY <3>2
  <2>3. ASSUME t \in used PROVE \E p \in Proc : \E e \in UserEntry : l1[p][e] = t
    <3>1. PICK p \in Proc : t \in {l1[p][d] : d \in UserEntries(p)}
      BY <2>3
    <3>2. PICK d \in UserEntries(p) : t = l1[p][d]
      BY <3>1
    <3> QED
      BY <1>2, <3>2
  <2> QED
    BY <2>2, <2>3
<1>5. \A t \in Tables : t \in freeTables <=> t \notin used
  BY <1>1, <1>4 DEF TablesApart
<1>6. freeTables = Tables \ used
  <2> HIDE DEF used
  <2> QED
    BY <1>1, <1>5 DEF TypeOK
<1> QED
  BY <1>3, <1>6 DEF TablesExclusive

LEMMA AccountedFrames == VMInv => FramesAccounted
<1> SUFFICES ASSUME VMInv PROVE FramesAccounted
  OBVIOUS
<1>1. TypeOK /\ FramesApart
  BY DEF VMInv
<1>2. \A x \in Places : x[1] \in Tables /\ x[2] \in Slots /\ l2[x[1]][x[2]] # NONE
                        /\ x = <<x[1], x[2]>>
  BY DEF Places, Slots
<1>3. ASSUME NEW x \in Places, NEW y \in Places, l2[x[1]][x[2]] = l2[y[1]][y[2]]
      PROVE  x = y \/ l2[x[1]][x[2]] \in stray
  <2>1. (x[1] = y[1] /\ x[2] = y[2]) \/ l2[x[1]][x[2]] \in stray
    BY <1>1, <1>2, <1>3 DEF FramesApart
  <2> QED
    BY <1>2, <2>1
<1>4. ASSUME NEW t \in Tables, NEW j \in Slots, l2[t][j] # NONE PROVE l2[t][j] \in Held
  <2>1. <<t, j>> \in Places /\ <<t, j>>[1] = t /\ <<t, j>>[2] = j
    BY <1>4 DEF Places, Slots
  <2> QED
    BY <2>1 DEF Held
<1>5. Held \subseteq Frames
  <2>1. ASSUME NEW t \in Tables, NEW j \in Slots PROVE l2[t][j] \in Frames \cup {NONE}
    BY <1>1 DEF TypeOK, Slots
  <2>2. \A x \in Places : l2[x[1]][x[2]] \in Frames
    BY <1>2, <2>1
  <2> QED
    BY <2>2 DEF Held
<1>6. ASSUME NEW f \in Frames, f \notin freeFrames PROVE f \in Held
  <2>1. PICK t \in Tables, j \in Slots : l2[t][j] = f
    BY <1>1, <1>6 DEF FramesApart
  <2>2. f # NONE
    BY Sizes
  <2> QED
    BY <1>4, <2>1, <2>2
<1>7. ASSUME NEW f \in freeFrames \cap Held PROVE f \in stray
  <2>1. PICK x \in Places : f = l2[x[1]][x[2]]
    BY DEF Held
  <2>2. f \in Frames
    BY <1>5
  <2> QED
    BY <1>1, <1>2, <2>1, <2>2 DEF FramesApart
<1>8. freeFrames \subseteq Frames
  BY <1>1 DEF TypeOK
<1> QED
  BY <1>3, <1>5, <1>6, <1>7, <1>8 DEF FramesAccounted

LEMMA KernelForAll == VMInv => KernelShared
BY DEF VMInv, KernelMapped, KernelShared

-----------------------------------------------------------------------------
\* The invariant holds, whatever the words at the wrong addresses are.
THEOREM VMInvariance == Spec => []VMInv
BY InitVM, NextVM, PTL DEF Spec

\* Address spaces are apart for any number of processes, pages and programs, and
\* whatever frames the words name that unmmap and copy_mem_img take for tables: no
\* table serves two entries, every process maps the whole kernel, no frame is
\* forgotten, and one that is in two places was freed by unmmap while in use.
THEOREM SpacesApart == Spec => []AddressSpacesApart
<1>1. VMInv => AddressSpacesApart
  BY ApartTables, AccountedFrames, KernelForAll DEF VMInv, AddressSpacesApart
<1> QED
  BY <1>1, VMInvariance, PTL

-----------------------------------------------------------------------------
(* Exec asks for every page that the program, its load and its stack touch. *)

Headers(img) == {img[k] : k \in DOMAIN img}

LEMMA HeaderFacts ==
  ASSUME NEW img \in Images, NEW h \in Headers(img)
  PROVE  /\ h.vaddr \in Nat /\ h.offset \in Nat /\ h.memsz \in Nat \ {0}
         /\ h.vaddr + h.memsz + 2 * Block <= KERNEL_BASE
         /\ h.vaddr % Block = h.offset % Block
<1>1. PICK k \in 1..Len(img) : h = img[k]
  BY ImagesAssumption DEF Headers
<1> QED
  BY <1>1, ImagesAssumption, CongruenceAssumption

\* Quotient and remainder.
LEMMA Parts ==
  ASSUME NEW d \in Nat \ {0}, NEW c \in Nat
  PROVE  /\ c \div d \in Nat /\ c % d \in Nat /\ c % d < d /\ c % d <= c
         /\ c = (c \div d) * d + (c % d) /\ (c \div d) * d \in Nat
         /\ (c \div d) * d <= c /\ c < (c \div d) * d + d
<1>1. c % d \in Nat /\ c % d < d
  OBVIOUS
<1>2. c = (c \div d) * d + (c % d)
  OBVIOUS
<1>3. c \div d \in Nat
  OBVIOUS
<1>4. (c \div d) * d \in Nat
  BY <1>3
<1> DEFINE m == (c \div d) * d
           r == c % d
<1>5. m \in Nat /\ r \in Nat /\ r < d /\ c = m + r
  BY <1>1, <1>2, <1>4
<1> HIDE DEF m, r
<1>6. r <= c /\ m <= c /\ c < m + d
  BY <1>5
<1> QED
  BY <1>1, <1>2, <1>3, <1>4, <1>6 DEF m, r

LEMMA WholeParts ==
  ASSUME NEW d \in Nat \ {0}, NEW c \in Nat, c % d = 0
  PROVE  c = (c \div d) * d
<1> DEFINE m == (c \div d) * d
           r == c % d
<1>1. c = m + r
  BY Parts
<1>2. m \in Nat
  BY Parts
<1>3. r = 0
  OBVIOUS
<1> HIDE DEF m, r
<1> QED
  BY <1>1, <1>2, <1>3 DEF m

LEMMA Products ==
  ASSUME NEW d \in Nat \ {0}, NEW a \in Nat, NEW b \in Nat, a <= b
  PROVE  a * d <= b * d /\ a * d \in Nat /\ b * d \in Nat
OBVIOUS

\* The multiples of d up to c are those up to the last one below c.
LEMMA LastMultiple ==
  ASSUME NEW d \in Nat \ {0}, NEW c \in Nat, NEW a \in Nat, a * d <= c
  PROVE  a <= c \div d /\ a * d <= (c \div d) * d
<1> DEFINE q == c \div d
<1>1. q \in Nat /\ q * d \in Nat /\ a * d \in Nat /\ c < q * d + d
  BY Parts
<1> HIDE DEF q
<1>2. a <= q
  <2> SUFFICES ASSUME q + 1 <= a PROVE FALSE
    BY <1>1
  <2>1. (q + 1) * d <= a * d
    BY <1>1, Products
  <2>2. (q + 1) * d = q * d + d
    BY <1>1
  <2> QED
    BY <1>1, <2>1, <2>2
<1>3. a * d <= q * d
  BY <1>1, <1>2, Products
<1> QED
  BY <1>2, <1>3 DEF q

\* What lies less than a block before v, in the same block, is in the same page.
LEMMA SamePage ==
  ASSUME NEW P \in Nat \ {0}, NEW B \in Nat \ {0}, P % B = 0,
         NEW v \in Nat, NEW r \in Nat, r <= v % B
  PROVE  v - r \in Nat /\ v \div P \in Nat /\ v \div P <= (v - r) \div P
<1> DEFINE c == P \div B
           a == v \div P
           b == v \div B
           m == v % B
<1>1. c \in Nat /\ P = c * B
  BY Parts, WholeParts, Zenon
<1>2. a \in Nat /\ a * P \in Nat /\ a * P <= v
  BY Parts, Zenon
<1>3. b \in Nat /\ b * B \in Nat /\ m \in Nat /\ v = b * B + m
  <2>1. b \in Nat /\ b * B \in Nat /\ m \in Nat
    BY Parts, Zenon
  <2>2. v = b * B + m
    OBVIOUS
  <2> QED
    BY <2>1, <2>2
<1>4. r <= m
  OBVIOUS
<1>5. \A k \in Nat : k * B <= v => k * B <= b * B
  BY LastMultiple, Zenon
<1>6. \A k \in Nat, w \in Nat : k * P <= w => k <= w \div P
  BY LastMultiple, Zenon
<1> HIDE DEF c, a, b, m
<1>7. a * P = (a * c) * B /\ a * c \in Nat
  BY <1>1, <1>2
<1>8. a * P <= b * B
  BY <1>2, <1>5, <1>7
<1>9. v - r \in Nat /\ a * P <= v - r
  BY <1>2, <1>3, <1>4, <1>8
<1>10. a <= (v - r) \div P
  BY <1>2, <1>6, <1>9
<1> QED
  BY <1>2, <1>9, <1>10 DEF a

\* The bytes of a segment's blocks: no fewer than it has in memory, and at most
\* a block more at either end.
LEMMA BlocksHold ==
  ASSUME NEW img \in Images, NEW h \in Headers(img)
  PROVE  /\ Blocks(h) * Block \in Nat \ {0}
         /\ h.memsz <= Blocks(h) * Block /\ Blocks(h) * Block <= h.memsz + 2 * Block
<1> DEFINE o == h.offset
           s == h.memsz
           last == (o + s - 1) \div Block
           first == o \div Block
<1>1. o \in Nat /\ s \in Nat /\ s > 0 /\ Block \in Nat \ {0}
  BY HeaderFacts, PageAssumption
<1>2. Blocks(h) = last + 1 - first
  BY DEF Blocks
<1> HIDE DEF o, s
<1>3. o + s - 1 \in Nat
  BY <1>1
<1>4. last \in Nat /\ last * Block \in Nat /\ last * Block <= o + s - 1 /\ o + s - 1 < last * Block + Block
  BY <1>1, <1>3, Parts, Zenon
<1>5. first \in Nat /\ first * Block \in Nat /\ first * Block <= o /\ o < first * Block + Block
  BY <1>1, Parts, Zenon
<1> HIDE DEF last, first
<1>6. Blocks(h) * Block = last * Block + Block - first * Block
  BY <1>1, <1>2, <1>4, <1>5
<1>7. s <= Blocks(h) * Block /\ Blocks(h) * Block <= s + 2 * Block
  BY <1>1, <1>4, <1>5, <1>6
<1>8. Blocks(h) * Block \in Nat \ {0}
  BY <1>1, <1>4, <1>5, <1>6
<1> QED
  BY <1>7, <1>8 DEF s

\* Any page between the first one of the segment and the last byte of its blocks
\* is one that mmap visits.
LEMMA SegmentPage ==
  ASSUME NEW img \in Images, NEW h \in Headers(img), NEW n \in Nat, h.vaddr \div Page <= n,
         n * Page < h.vaddr + Blocks(h) * Block
  PROVE  n \in SegmentPages(h)
<1> DEFINE v == h.vaddr
           nB == Blocks(h) * Block
           N == UserL1 * L2
<1>1. v \in Nat /\ v + h.memsz + 2 * Block <= N * Page /\ Page \in Nat \ {0} /\ Block \in Nat
      /\ h.memsz \in Nat
  BY HeaderFacts, PageAssumption DEF KERNEL_BASE
<1>2. nB \in Nat /\ nB <= h.memsz + 2 * Block
  BY BlocksHold
<1>3. N \in Nat
  BY Sizes
<1> HIDE DEF v, nB, N
<1>4. v \div Page \in Nat /\ v \div Page <= n
  BY <1>1, Parts, Zenon DEF v
<1>5. (v \div Page) * Page <= n * Page /\ n * Page \in Nat
  BY <1>1, <1>4, Products
<1>6. n < N
  <2> SUFFICES ASSUME N <= n PROVE FALSE
    BY <1>3
  <2>1. N * Page <= n * Page /\ N * Page \in Nat
    BY <1>1, <1>3, Products
  <2> QED
    BY <1>1, <1>2, <1>5, <2>1 DEF v, nB
<1>7. n \in UserPages
  BY <1>3, <1>6 DEF UserPages, N
<1> QED
  BY <1>5, <1>7 DEF SegmentPages, PagesOf, v

\* The card writes no page before the segment's first one, although the load
\* begins up to half a block before it, nor one beyond its last block.
LEMMA LoadInSegment ==
  ASSUME NEW img \in Images, NEW h \in Headers(img)
  PROVE  LoadedPages(h) \subseteq SegmentPages(h)
<1> DEFINE v == h.vaddr
           r == (h.offset % Block) % (Block \div 2)
           va == v - r
           nB == Blocks(h) * Block
<1>1. v \in Nat /\ h.offset \in Nat /\ Block \in Nat \ {0} /\ Page \in Nat \ {0}
      /\ Block \div 2 \in Nat \ {0} /\ v % Block = h.offset % Block /\ Page % Block = 0
  BY HeaderFacts, PageAssumption
<1>2. nB \in Nat \ {0}
  BY BlocksHold
<1>3. r \in Nat /\ r <= v % Block
  <2>1. h.offset % Block \in Nat
    BY <1>1, Parts, Zenon
  <2>2. r \in Nat /\ r <= h.offset % Block
    <3> DEFINE c == h.offset % Block
               d == Block \div 2
    <3>1. c \in Nat /\ d \in Nat \ {0}
      BY <1>1, <2>1
    <3> HIDE DEF c, d
    <3>2. c % d \in Nat /\ c % d <= c
      BY <3>1, Parts, Zenon
    <3> QED
      BY <3>2 DEF c, d, r
  <2> QED
    BY <1>1, <2>2
<1>4. va \in Nat /\ va <= v /\ v \div Page \in Nat /\ v \div Page <= va \div Page
  <2> HIDE DEF v, r
  <2>1. v \in Nat /\ Page % Block = 0 /\ Block \in Nat \ {0} /\ Page \in Nat \ {0}
        /\ r \in Nat /\ r <= v % Block
    BY <1>1, <1>3 DEF v
  <2>2. va \in Nat /\ v \div Page \in Nat /\ v \div Page <= va \div Page
    BY <2>1, SamePage, Zenon
  <2> QED
    BY <2>1, <2>2
<1> HIDE DEF v, r, nB
<1> HIDE DEF va
<1>7. va \div Page \in Nat /\ (va \div Page) * Page <= va /\ (va \div Page) * Page \in Nat
  BY <1>1, <1>4, Parts, Zenon
<1>8. /\ (nB - 1) \div Page \in Nat /\ ((nB - 1) \div Page) * Page \in Nat
      /\ ((nB - 1) \div Page) * Page <= nB - 1
  <2>1. nB - 1 \in Nat
    BY <1>2
  <2> QED
    BY <1>1, <2>1, Parts, Zenon
<1>9. ASSUME NEW k \in 0..((nB - 1) \div Page)
      PROVE  va \div Page + k \in SegmentPages(h)
  <2> DEFINE m == va \div Page
             l == (nB - 1) \div Page
             n == m + k
  <2>1. m \in Nat /\ k \in Nat /\ l \in Nat /\ k <= l /\ m * Page \in Nat /\ m * Page <= va
        /\ v \div Page <= m /\ v \div Page \in Nat /\ l * Page <= nB - 1
    BY <1>4, <1>7, <1>8
  <2> HIDE DEF m, l
  <2>2. k * Page <= l * Page /\ k * Page \in Nat /\ l * Page \in Nat
    BY <1>1, <2>1, Products
  <2>3. n * Page = m * Page + k * Page
    BY <1>1, <2>1
  <2>4. n * Page < v + nB
    <3>1. v \in Nat /\ nB \in Nat /\ va \in Nat /\ va <= v
      BY <1>1, <1>2, <1>4 DEF v
    <3> QED
      BY <2>1, <2>2, <2>3, <3>1
  <2>5. n \in Nat /\ v \div Page <= n
    BY <2>1
  <2>6. n \in SegmentPages(h)
    BY <2>4, <2>5, SegmentPage DEF v, nB
  <2> QED
    BY <2>6 DEF m
<1> QED
  BY <1>9 DEF LoadedPages, va, nB, r, v

\* So are the pages of the segment in memory.
LEMMA MemoryInSegment ==
  ASSUME NEW img \in Images, NEW h \in Headers(img)
  PROVE  (h.vaddr \div Page)..((h.vaddr + h.memsz - 1) \div Page) \subseteq SegmentPages(h)
<1> DEFINE end == h.vaddr + h.memsz - 1
<1>1. h.vaddr \in Nat /\ h.memsz \in Nat /\ end \in Nat /\ Page \in Nat \ {0}
      /\ end < h.vaddr + h.memsz
  BY HeaderFacts, PageAssumption
<1>2. h.vaddr \div Page \in Nat /\ end \div Page \in Nat /\ (end \div Page) * Page <= end
      /\ (end \div Page) * Page \in Nat
  <2> HIDE DEF end
  <2> QED
    BY <1>1, Parts, Zenon
<1>3. Blocks(h) * Block \in Nat /\ h.memsz <= Blocks(h) * Block
  BY BlocksHold
<1> HIDE DEF end
<1>4. ASSUME NEW n \in (h.vaddr \div Page)..(end \div Page)
      PROVE  n \in SegmentPages(h)
  <2>1. n \in Nat /\ h.vaddr \div Page <= n /\ n <= end \div Page
    BY <1>2
  <2>2. n * Page <= (end \div Page) * Page /\ n * Page \in Nat
    BY <1>1, <1>2, <2>1, Products
  <2>3. n * Page < h.vaddr + Blocks(h) * Block
    BY <1>1, <1>2, <1>3, <2>2
  <2> QED
    BY <2>1, <2>3, SegmentPage
<1> QED
  BY <1>4 DEF end

LEMMA ExecAsksForAll ==
  ASSUME NEW img \in Images, LoadFirst(img)
  PROVE  Needs(img) \subseteq ExecPages(img)
<1>1. ASSUME NEW k \in DOMAIN img, img[k].load
      PROVE  LoadedPages(img[k])
             \cup ((img[k].vaddr \div Page)..((img[k].vaddr + img[k].memsz - 1) \div Page))
             \subseteq ExecPages(img)
  <2>1. img[k] \in Reached(img)
    BY <1>1 DEF LoadFirst, Reached
  <2>2. SegmentPages(img[k]) \subseteq ExecPages(img)
    BY <2>1 DEF ExecPages
  <2>3. img[k] \in Headers(img)
    BY DEF Headers
  <2> QED
    BY <2>2, <2>3, LoadInSegment, MemoryInSegment
<1>2. Stack \subseteq ExecPages(img)
  BY DEF ExecPages
<1> QED
  BY <1>1, <1>2 DEF Needs

-----------------------------------------------------------------------------
(* What is mapped stays mapped.                                            *)

Kept ==
    /\ \A p \in Proc : \A e \in UserEntry : l1[p][e] # NONE => l1'[p][e] = l1[p][e]
    /\ \A t \in Tables : \A j \in Slots : l2[t][j] # NONE => l2'[t][j] # NONE

LEMMA TableKeeps ==
  ASSUME VMInv, NEW p \in alive, NEW e \in UserEntry, NewTable(p, e), l1[p][e] = NONE,
         UNCHANGED <<freeFrames, stray>>
  PROVE  Kept
<1>1. /\ l2' = l2
      /\ \A q \in Proc, d \in Entry : q # p \/ d # e => l1'[q][d] = l1[q][d]
  BY TableTaken
<1> QED
  BY <1>1, Sizes DEF Kept

LEMMA StepKeeps ==
  ASSUME VMInv, Next
  PROVE  Kept
<1>1. TypeOK
  BY DEF VMInv
<1>2. CASE UNCHANGED <<l1, l2>>
  BY <1>2 DEF Kept
<1>3. CASE MapTable
  <2>1. Current \in todo /\ Current \in UserPages
    BY <1>3, CurrentPage DEF MapTable
  <2> DEFINE e == Current \div L2
  <2>2. /\ op \in {"map", "copy"} /\ l1[who][e] = NONE /\ NewTable(who, e) /\ UNCHANGED <<freeFrames, stray>>
    BY <1>3 DEF MapTable, NeedsTable
  <2>3. e \in UserEntry /\ who \in alive
    BY <2>1, <2>2, PagePlace DEF VMInv, Forked
  <2> QED
    BY <2>2, <2>3, TableKeeps
<1>4. CASE MapFrame
  <2> DEFINE t == l1[who][Current \div L2]
             j == Current % L2
             f == Min(freeFrames)
  <2>1. freeFrames # {} /\ l1' = l1 /\ l2' = [l2 EXCEPT ![t][j] = f]
    BY <1>4 DEF MapFrame
  <2>2. f # NONE
    <3>1. freeFrames \subseteq Frames /\ freeFrames \subseteq Nat
      BY <1>1, Sizes DEF TypeOK
    <3> QED
      BY <2>1, <3>1, LeastMember, Sizes
  <2> HIDE DEF t, j, f
  <2>3. \A u \in Tables : \A k \in Slots : l2'[u][k] = l2[u][k] \/ l2'[u][k] = f
    BY <1>1, <2>1 DEF TypeOK, Slots
  <2> QED
    BY <2>1, <2>2, <2>3 DEF Kept
<1>5. CASE CopyTable
  <2>1. /\ op = "copy" /\ i < UserL1 /\ NewTable(who, i) /\ UNCHANGED <<freeFrames, stray>>
    BY <1>5 DEF CopyTable, FirstShared
  <2>2. who \in alive /\ i >= 0 /\ \A d \in UserEntry : d >= i => l1[who][d] = NONE
    BY <2>1 DEF VMInv, Forked, Copying
  <2>3. i \in UserEntry /\ i >= i
    BY <1>1, <2>1, <2>2, Sizes DEF TypeOK, UserEntry
  <2>4. l1[who][i] = NONE
    BY <2>2, <2>3
  <2> QED
    BY <2>1, <2>2, <2>3, <2>4, TableKeeps
<1>6. CASE KernelCopy
  <2>1. l2' = l2 /\ l1' = [l1 EXCEPT ![who][i] = l1[from][i]] /\ i >= UserL1
    BY <1>6 DEF KernelCopy, FirstShared
  <2>2. \A d \in UserEntry : d # i /\ d \in Entry
    BY <2>1, Sizes DEF UserEntry
  <2>3. \A q \in Proc : \A d \in UserEntry : l1'[q][d] = l1[q][d]
    BY <1>1, <2>1, <2>2 DEF TypeOK
  <2> QED
    BY <2>1, <2>3 DEF Kept
<1>7. CASE Exec \/ UnmapEntry \/ UnmapEnd \/ MapSkip \/ ExecEnd \/ Fork \/ CopySkip \/ ForkEnd \/ Hang
  <2>1. UNCHANGED <<l1, l2>>
    BY <1>7 DEF Exec, UnmapEntry, UnmapEnd, MapSkip, ExecEnd, Fork, CopySkip, ForkEnd, Hang
  <2> QED
    BY <1>2, <2>1
<1> QED
  BY <1>3, <1>4, <1>5, <1>6, <1>7 DEF Next

LEMMA KeptMapped ==
  ASSUME VMInv, Kept, NEW p \in Proc
  PROVE  Mapped(p) \subseteq Mapped(p)'
<1> SUFFICES ASSUME NEW n \in Mapped(p) PROVE n \in Mapped(p)'
  OBVIOUS
<1> DEFINE e == n \div L2
           j == n % L2
<1>1. n \in UserPages /\ Slot(p, n) # NONE
  BY DEF Mapped
<1>2. e \in UserEntry /\ j \in Slots
  BY <1>1, PagePlace
<1>3. l1[p][e] # NONE /\ l2[l1[p][e]][j] # NONE
  BY <1>1 DEF Slot
<1> HIDE DEF e, j
<1>4. l1[p][e] \in Tables
  BY <1>2, <1>3, Sizes DEF VMInv, TypeOK, UserEntry
<1>5. l1'[p][e] = l1[p][e] /\ l2'[l1[p][e]][j] # NONE
  BY <1>2, <1>3, <1>4 DEF Kept
<1>6. Slot(p, n)' # NONE
  BY <1>3, <1>5 DEF Slot, e, j
<1> QED
  BY <1>1, <1>6 DEF Mapped

-----------------------------------------------------------------------------
(* Exec maps what it asked for.                                            *)

\* What the last program of a process needs.
Required(p) == IF image[p] # <<>> /\ LoadFirst(image[p]) THEN Needs(image[p]) ELSE {}

ImageInv ==
    /\ \A p \in Proc \ alive : Required(p) = {}
    /\ \A p \in Proc : p # who \/ op \in {"idle", "copy"} => Required(p) \subseteq Mapped(p)
    /\ op \in {"unmap", "map"} => Required(who) \subseteq Mapped(who) \cup todo

LEMMA InitImage == Init => ImageInv
BY DEF Init, ImageInv, Required

\* The page of this turn is mapped after it, and no other leaves the list.
LEMMA TurnMaps ==
  ASSUME VMInv, MapFrame \/ MapSkip
  PROVE  todo \subseteq todo' \cup Mapped(who)'
<1>1. /\ op \in {"map", "copy"} /\ todo # {} /\ todo' = todo \ {Current} /\ UNCHANGED <<l1, who>>
  BY DEF MapFrame, MapSkip, CopyPage
<1>2. Current \in UserPages /\ TypeOK /\ who \in Proc
  BY <1>1, CurrentPage DEF VMInv, TypeOK
<1>a. PICK n \in UserPages, p \in Proc : n = Current /\ p = who
  BY <1>2
<1>3. Slot(p, n)' # NONE
  <2>1. CASE MapSkip
    <3>1. Slot(p, n) # NONE /\ l2' = l2
      BY <1>a, <2>1 DEF MapSkip
    <3> QED
      BY <1>1, <3>1 DEF Slot
  <2>2. CASE MapFrame
    <3> DEFINE t == l1[p][n \div L2]
               j == n % L2
               f == Min(freeFrames)
    <3>1. freeFrames # {} /\ l2' = [l2 EXCEPT ![t][j] = f] /\ t # NONE
      BY <1>a, <2>2 DEF MapFrame, NeedsFrame
    <3>2. n \div L2 \in UserEntry /\ j \in Slots
      BY PagePlace
    <3>3. t \in Tables
      BY <1>2, <3>1, <3>2, Sizes DEF TypeOK, UserEntry
    <3>4. f # NONE
      <4>1. freeFrames \subseteq Frames /\ freeFrames \subseteq Nat
        BY <1>2, Sizes DEF TypeOK
      <4> QED
        BY <3>1, <4>1, LeastMember, Sizes
    <3>5. l2'[t][j] = f
      <4> HIDE DEF t, j, f
      <4> QED
        BY <1>2, <3>1, <3>2, <3>3 DEF TypeOK, Slots
    <3> QED
      BY <1>1, <3>1, <3>4, <3>5 DEF Slot
  <2> QED
    BY <2>1, <2>2
<1>4. n \in Mapped(p)'
  BY <1>3 DEF Mapped
<1> QED
  BY <1>1, <1>a, <1>4

\* A step that starts no exec: the conjuncts from what op, who and todo become.
LEMMA GoesOn ==
  ASSUME VMInv, ImageInv, Next, UNCHANGED image, alive \subseteq alive',
         \A p \in Proc : p # who' \/ op' \in {"idle", "copy"} =>
            p # who \/ op \in {"idle", "copy"} \/ (op = "map" /\ todo = {}),
         op' \in {"unmap", "map"} =>
            /\ op \in {"unmap", "map"} /\ UNCHANGED who
            /\ todo \subseteq todo' \cup Mapped(who)'
  PROVE  ImageInv'
<1>1. \A p \in Proc : Mapped(p) \subseteq Mapped(p)'
  BY StepKeeps, KeptMapped
<1>a. \A p \in Proc : Required(p)' = Required(p)
  BY DEF Required
<1>2. \A p \in Proc \ alive' : Required(p)' = {}
  BY <1>a DEF ImageInv
<1>3. ASSUME NEW p \in Proc, p # who' \/ op' \in {"idle", "copy"}
      PROVE  Required(p)' \subseteq Mapped(p)'
  <2>1. Required(p) \subseteq Mapped(p)
    BY <1>3 DEF ImageInv
  <2> QED
    BY <1>1, <1>a, <2>1
<1>4. ASSUME op' \in {"unmap", "map"}, NEW p \in Proc, p = who
      PROVE  Required(p)' \subseteq Mapped(p)' \cup todo'
  <2>1. Required(p) \subseteq Mapped(p) \cup todo
    BY <1>4 DEF ImageInv
  <2>2. todo \subseteq todo' \cup Mapped(p)'
    BY <1>4
  <2> QED
    BY <1>1, <1>a, <2>1, <2>2
<1>5. who \in Proc
  BY DEF VMInv, TypeOK
<1>6. op' \in {"unmap", "map"} => Required(who)' \subseteq Mapped(who)' \cup todo'
  BY <1>4, <1>5
<1> QED
  BY <1>2, <1>3, <1>6 DEF ImageInv

LEMMA ExecImage ==
  ASSUME VMInv, ImageInv, Exec
  PROVE  ImageInv'
<1>1. PICK p \in alive, img \in Images :
         who' = p /\ todo' = ExecPages(img) /\ image' = [image EXCEPT ![p] = img]
  BY DEF Exec
<1>2. op = "idle" /\ op' = "unmap" /\ alive' = alive /\ alive \subseteq Proc /\ p \in Proc
      /\ image \in [Proc -> Images \cup {<<>>}]
  BY DEF Exec, VMInv, TypeOK
<1>3. \A q \in Proc : Mapped(q) \subseteq Mapped(q)'
  BY StepKeeps, KeptMapped DEF Next
<1>a. \A q \in Proc : q # p => Required(q)' = Required(q)
  BY <1>1, <1>2 DEF Required
<1>4. \A q \in Proc \ alive' : Required(q)' = {}
  BY <1>1, <1>2, <1>a DEF ImageInv
<1>5. ASSUME NEW q \in Proc, q # p PROVE Required(q)' \subseteq Mapped(q)'
  <2>1. Required(q)' = Required(q) /\ Required(q) \subseteq Mapped(q)
    BY <1>2, <1>5, <1>a DEF ImageInv
  <2> QED
    BY <1>3, <2>1
<1>6. Required(p)' \subseteq todo'
  <2>1. image'[p] = img
    BY <1>1, <1>2
  <2> QED
    BY <1>1, <2>1, ExecAsksForAll DEF Required
<1> QED
  BY <1>1, <1>2, <1>4, <1>5, <1>6 DEF ImageInv

LEMMA NextImage ==
  ASSUME VMInv, ImageInv, [Next]_vars
  PROVE  ImageInv'
<1>1. CASE Exec
  BY <1>1, ExecImage
<1>2. CASE UnmapEntry \/ UnmapEnd \/ MapTable
  <2>1. /\ UNCHANGED <<image, alive, who, todo>> /\ op' \in {"unmap", "map", "copy", "broken"} /\ Next
        /\ (op' = "copy" => op = "copy") /\ (op' \in {"unmap", "map"} => op \in {"unmap", "map"})
    BY <1>2 DEF UnmapEntry, UnmapEnd, MapTable, loop, Next
  <2> QED
    BY <2>1, GoesOn
<1>3. CASE MapFrame \/ MapSkip
  <2>1. UNCHANGED <<image, alive, who>> /\ op' \in {op, "hang"} /\ op \in {"map", "copy"} /\ Next
    BY <1>3 DEF MapFrame, MapSkip, CopyPage, Next
  <2>2. todo \subseteq todo' \cup Mapped(who)'
    BY <1>3, TurnMaps
  <2> QED
    BY <2>1, <2>2, GoesOn
<1>4. CASE ExecEnd
  <2>1. UNCHANGED <<image, alive, who>> /\ op = "map" /\ todo = {} /\ op' = "idle" /\ Next
    BY <1>4 DEF ExecEnd, Next
  <2> QED
    BY <2>1, GoesOn
<1>5. CASE Fork \/ CopySkip \/ CopyTable \/ KernelCopy \/ ForkEnd
  <2>1. UNCHANGED image /\ alive \subseteq alive' /\ op \in {"idle", "copy"}
        /\ op' \in {"idle", "copy"} /\ Next
    BY <1>5 DEF Fork, CopySkip, CopyTable, KernelCopy, ForkEnd, Next
  <2> QED
    BY <2>1, GoesOn
<1>6. CASE Hang
  <2>1. UNCHANGED <<image, alive, who>> /\ op' = "hang" /\ Next
    BY <1>6 DEF Hang, Next
  <2> QED
    BY <2>1, GoesOn
<1>7. CASE UNCHANGED vars
  <2>1. UNCHANGED <<l1, l2, alive, op, who, todo, image>>
    BY <1>7 DEF vars, loop
  <2>2. Mapped(who)' = Mapped(who) /\ \A p \in Proc : Mapped(p)' = Mapped(p)
    BY <2>1 DEF Mapped, Slot
  <2> QED
    BY <2>1, <2>2 DEF ImageInv, Required
<1> QED
  BY <1>1, <1>2, <1>3, <1>4, <1>5, <1>6, <1>7 DEF Next

\* When exec returns, every page that the program, its load and its stack touch
\* is mapped, for any page and block size and any program headers that agree
\* with their file about the place in a block, those to load before all others;
\* and it stays mapped.
THEOREM ExecMaps == Spec => []ExecMapsImage
<1>1. Init => VMInv /\ ImageInv
  BY InitVM, InitImage
<1>2. (VMInv /\ ImageInv) /\ [Next]_vars => (VMInv /\ ImageInv)'
  BY NextVM, NextImage
<1>3. VMInv /\ ImageInv => ExecMapsImage
  BY DEF VMInv, TypeOK, ImageInv, Required, ExecMapsImage
<1> QED
  BY <1>1, <1>2, <1>3, PTL DEF Spec
=============================================================================
