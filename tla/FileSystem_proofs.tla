-------------------------- MODULE FileSystem_proofs -------------------------
(***************************************************************************)
(* For every set of names, processes and blocks.  The list of files: no    *)
(* two entries have one descriptor, and an entry that a process holds      *)
(* survives whatever the others call, even after deletions, which damage   *)
(* the chains of blocks.  The chains: without deletions they end, no block *)
(* is in two of them, and they implement the files of FileStore.           *)
(***************************************************************************)
EXTENDS FileSystem, FiniteSetTheorems, SequenceTheorems, WellFoundedInduction, TLAPS

-----------------------------------------------------------------------------
(* Lists of entries.                                                       *)

Entries(F, O, N) == [fd : Nat, first : F, occupied : O, name : N]
IsList(s) == \E F, O, N : s \in Seq(Entries(F, O, N))
Distinct(s) == \A i, j \in DOMAIN s : s[i].fd = s[j].fd => i = j

LEMMA Least ==
  ASSUME NEW T, T \subseteq Nat, T # {}
  PROVE  \E x \in T : \A y \in T : ~(y < x)
<1> DEFINE R == {ss \in Nat \X Nat : ss[1] < ss[2]}
<1>1. R = OpToRel(<, Nat)
  BY DEF OpToRel
<1>2. IsWellFoundedOn(R, Nat)
  BY <1>1, NatLessThanWellFounded
<1> HIDE DEF R
<1>3. PICK x \in T : \A y \in T : ~(<<y, x>> \in R)
  BY <1>2, WFMin
<1>4. \A y \in T : y < x => <<y, x>> \in R
  BY DEF R
<1> QED
  BY <1>3, <1>4

\* The search by descriptor finds the first entry that has it.
LEMMA PositionFacts ==
  ASSUME IsList(files), NEW fd, Found(fd)
  PROVE  Position(fd) \in DOMAIN files /\ files[Position(fd)].fd = fd
<1> DEFINE T == {i \in DOMAIN files : files[i].fd = fd}
<1>1. DOMAIN files = 1..Len(files) /\ Len(files) \in Nat
  BY DEF IsList
<1>2. T \subseteq Nat /\ T # {}
  BY <1>1 DEF Found
<1>3. PICK x \in T : \A y \in T : ~(y < x)
  <2> HIDE DEF T
  <2> QED
    BY <1>2, Least
<1>4. x \in DOMAIN files /\ files[x].fd = fd /\ \A j \in 1..(x - 1) : files[j].fd # fd
  BY <1>1, <1>3
<1> QED
  BY <1>4 DEF Position

\* create_file_from_name finds a number that is not in use: there are more
\* candidates than files.
LEMMA FreshNumber ==
  ASSUME IsList(files)
  PROVE  FreshFd \in 1..(Len(files) + 1) /\ ~Found(FreshFd)
<1> DEFINE n == Len(files)
           S == 1..(n + 1)
<1>1. DOMAIN files = 1..n /\ n \in Nat
  BY DEF IsList
<1>2. \E fd \in S : ~Found(fd)
  <2> SUFFICES ASSUME \A fd \in S : Found(fd) PROVE FALSE
    OBVIOUS
  <2> DEFINE f == [fd \in S |-> CHOOSE i \in 1..n : files[i].fd = fd]
  <2>1. \A fd \in S : f[fd] \in 1..n /\ files[f[fd]].fd = fd
    BY <1>1 DEF Found
  <2>2. f \in [S -> 1..n]
    BY <2>1
  <2>3. IsFiniteSet(S) /\ Cardinality(S) = n + 1 /\ IsFiniteSet(1..n) /\ Cardinality(1..n) = n
    <3>1. 1 \in Int /\ n \in Int /\ n + 1 \in Int
      BY <1>1
    <3>2. \A b \in Int : /\ IsFiniteSet(1..b)
                         /\ Cardinality(1..b) = IF 1 > b THEN 0 ELSE b - 1 + 1
      BY <3>1, FS_Interval, Zenon
    <3> HIDE DEF n
    <3> QED
      BY <1>1, <3>1, <3>2
  <2> HIDE DEF f, S
  <2>4. Cardinality(1..n) < Cardinality(S)
    BY <1>1, <2>3
  <2>5. PICK x, y \in S : x # y /\ f[x] = f[y]
    BY <2>2, <2>3, <2>4, FS_PigeonHole
  <2> QED
    BY <2>1, <2>5
<1> DEFINE T == {fd \in S : ~Found(fd)}
<1>3. PICK x \in T : \A y \in T : ~(y < x)
  <2>1. T \subseteq Nat /\ T # {}
    BY <1>1, <1>2
  <2> HIDE DEF T
  <2> QED
    BY <2>1, Least
<1>4. x \in S /\ ~Found(x) /\ \A g \in 1..(x - 1) : Found(g)
  BY <1>1, <1>3
<1> QED
  BY <1>1, <1>4 DEF FreshFd

LEMMA FreshFacts ==
  ASSUME IsList(files)
  PROVE  FreshFd \in Nat /\ ~Found(FreshFd)
BY FreshNumber

NewEntry == [fd : Nat, first : {NULL}, occupied : {-1}, name : {""}]

LEMMA Prepended ==
  ASSUME NEW s, IsList(s), Distinct(s), NEW r \in NewEntry, \A i \in DOMAIN s : s[i].fd # r.fd,
         NEW one \in Seq({r}), Len(one) = 1, NEW t, t = one \o s
  PROVE  /\ IsList(t) /\ Distinct(t)
         /\ \A i \in DOMAIN s : i + 1 \in DOMAIN t /\ t[i + 1] = s[i]
<1>1. PICK F, O, N : s \in Seq(Entries(F, O, N))
  BY DEF IsList
<1> DEFINE D == Entries(F, O, N)
           E == Entries(F \cup {NULL}, O \cup {-1}, N \cup {""})
<1>2. D \subseteq E /\ r \in E
  BY DEF Entries, NewEntry
<1> HIDE DEF D, E
<1>3. s \in Seq(E) /\ one \in Seq(E) /\ one[1] = r
  <2>1. s \in Seq(D)
    BY <1>1 DEF D
  <2>2. s \in Seq(E)
    BY <1>2, <2>1
  <2>3. one[1] = r
    <3>1. 1 \in 1..Len(one) /\ one \in Seq({r})
      OBVIOUS
    <3>2. one[1] \in {r}
      BY <3>1, ElementOfSeq
    <3> QED
      BY <3>2
  <2>4. one = [i \in 1..1 |-> one[i]]
    OBVIOUS
  <2>5. one \in Seq(E)
    BY <1>2, <2>3, <2>4
  <2> QED
    BY <2>2, <2>3, <2>5
<1>4. /\ t \in Seq(E) /\ Len(t) = 1 + Len(s)
      /\ \A i \in 1..(1 + Len(s)) : t[i] = IF i <= 1 THEN one[i] ELSE s[i - 1]
  <2>1. t \in Seq(E) /\ Len(t) = Len(one) + Len(s)
    BY <1>3, ConcatProperties
  <2>2. \A i \in 1..(Len(one) + Len(s)) :
           t[i] = IF i <= Len(one) THEN one[i] ELSE s[i - Len(one)]
    BY <1>3, ConcatProperties
  <2> QED
    BY <2>1, <2>2
<1>5. DOMAIN s = 1..Len(s) /\ Len(s) \in Nat /\ DOMAIN t = 1..(1 + Len(s))
  BY <1>3, <1>4
<1>6. IsList(t)
  BY <1>4 DEF IsList, E
<1>7. \A i \in DOMAIN s : i + 1 \in DOMAIN t /\ t[i + 1] = s[i]
  BY <1>4, <1>5
<1>8. Distinct(t)
  <2> SUFFICES ASSUME NEW i \in DOMAIN t, NEW j \in DOMAIN t, t[i].fd = t[j].fd PROVE i = j
    BY DEF Distinct
  <2>1. i \in 1..(1 + Len(s)) /\ j \in 1..(1 + Len(s)) /\ i \in Int /\ j \in Int
    BY <1>5
  <2>2. (i = 1 /\ t[i] = r) \/ (i - 1 \in DOMAIN s /\ t[i] = s[i - 1])
    BY <1>3, <1>4, <1>5, <2>1
  <2>3. (j = 1 /\ t[j] = r) \/ (j - 1 \in DOMAIN s /\ t[j] = s[j - 1])
    BY <1>3, <1>4, <1>5, <2>1
  <2>4. CASE i = 1 /\ t[i] = r /\ ~(j = 1)
    BY <2>3, <2>4
  <2>5. CASE j = 1 /\ t[j] = r /\ ~(i = 1)
    BY <2>2, <2>5
  <2>6. CASE i - 1 \in DOMAIN s /\ t[i] = s[i - 1] /\ j - 1 \in DOMAIN s /\ t[j] = s[j - 1]
    <3>1. i - 1 = j - 1
      BY <2>6 DEF Distinct
    <3> QED
      BY <2>1, <3>1
  <2> QED
    BY <2>2, <2>3, <2>4, <2>5, <2>6
<1> QED
  BY <1>6, <1>7, <1>8

\* A list with one field of one entry changed.
Changed(s, p, t) ==
    /\ DOMAIN t = DOMAIN s
    /\ \A i \in DOMAIN s : t[i].fd = s[i].fd /\ (i # p => t[i] = s[i])

LEMMA Updated ==
  ASSUME NEW s, IsList(s), Distinct(s), NEW p \in DOMAIN s, NEW v, NEW t,
         \/ t = [s EXCEPT ![p].occupied = v]
         \/ t = [s EXCEPT ![p].first = v]
  PROVE  IsList(t) /\ Distinct(t) /\ Changed(s, p, t)
<1>1. PICK F, O, N : s \in Seq(Entries(F, O, N))
  BY DEF IsList
<1> DEFINE E == Entries(F \cup {v}, O \cup {v}, N)
<1>2. DOMAIN s = 1..Len(s) /\ Len(s) \in Nat /\ \A i \in DOMAIN s : s[i] \in Entries(F, O, N)
  BY <1>1
<1>3. DOMAIN t = DOMAIN s /\ \A i \in DOMAIN s : i # p => t[i] = s[i]
  BY <1>2
<1>4. t[p] \in E /\ t[p].fd = s[p].fd
  <2>1. t[p] = [s[p] EXCEPT !.occupied = v] \/ t[p] = [s[p] EXCEPT !.first = v]
    BY <1>2
  <2>2. s[p] \in Entries(F, O, N)
    BY <1>2
  <2> HIDE DEF E
  <2> QED
    BY <2>1, <2>2 DEF Entries, E
<1>5. \A i \in DOMAIN s : t[i] \in E
  <2>1. Entries(F, O, N) \subseteq E
    BY DEF Entries
  <2> HIDE DEF E
  <2> QED
    BY <1>2, <1>3, <1>4, <2>1
<1>6. t \in Seq(E)
  <2>1. t = [i \in 1..Len(s) |-> t[i]]
    BY <1>2, <1>3
  <2> HIDE DEF E
  <2> QED
    BY <1>2, <1>5, <2>1
<1>7. IsList(t)
  BY <1>6 DEF IsList
<1>8. Changed(s, p, t)
  BY <1>3, <1>4 DEF Changed
<1>9. Distinct(t)
  BY <1>8 DEF Changed, Distinct
<1> QED
  BY <1>7, <1>8, <1>9

LEMMA Removed ==
  ASSUME NEW s, IsList(s), Distinct(s), NEW p \in DOMAIN s, NEW t, t = RemoveAt(s, p)
  PROVE  /\ IsList(t) /\ Distinct(t)
         /\ \A i \in DOMAIN s : i # p => \E j \in DOMAIN t : t[j] = s[i]
<1>1. PICK F, O, N : s \in Seq(Entries(F, O, N))
  BY DEF IsList
<1> DEFINE E == Entries(F, O, N)
           a == SubSeq(s, 1, p - 1)
           b == SubSeq(s, p + 1, Len(s))
<1>2. /\ DOMAIN s = 1..Len(s) /\ Len(s) \in Nat /\ p \in 1..Len(s)
      /\ \A i \in 1..Len(s) : s[i] \in E
  BY <1>1
<1> HIDE DEF E
<1>3. a \in Seq(E) /\ Len(a) = p - 1 /\ \A i \in 1..(p - 1) : a[i] = s[i]
  BY <1>2, SubSeqProperties
<1>4. b \in Seq(E) /\ Len(b) = Len(s) - p /\ \A i \in 1..(Len(s) - p) : b[i] = s[p + i]
  BY <1>2, SubSeqProperties
<1>5. t = a \o b
  BY DEF RemoveAt
<1> HIDE DEF a, b
<1>6. t \in Seq(E) /\ Len(t) = Len(s) - 1
  <2>1. a \o b \in Seq(E) /\ Len(a \o b) = Len(a) + Len(b)
    BY <1>3, <1>4, ConcatProperties
  <2> QED
    BY <1>2, <1>3, <1>4, <1>5, <2>1
<1>7. \A i \in 1..(Len(s) - 1) : t[i] = IF i < p THEN s[i] ELSE s[i + 1]
  <2>1. \A i \in 1..(Len(a) + Len(b)) : (a \o b)[i] = IF i <= Len(a) THEN a[i] ELSE b[i - Len(a)]
    BY <1>3, <1>4, ConcatProperties
  <2> SUFFICES ASSUME NEW i \in 1..(Len(s) - 1)
               PROVE  t[i] = IF i < p THEN s[i] ELSE s[i + 1]
    OBVIOUS
  <2>2. CASE i < p
    BY <1>2, <1>3, <1>4, <1>5, <2>1, <2>2
  <2>3. CASE ~(i < p)
    <3>1. t[i] = b[i - (p - 1)] /\ i - (p - 1) \in 1..(Len(s) - p)
      BY <1>2, <1>3, <1>4, <1>5, <2>1, <2>3
    <3>2. p + (i - (p - 1)) = i + 1
      BY <1>2
    <3> QED
      BY <1>4, <2>3, <3>1, <3>2
  <2> QED
    BY <2>2, <2>3
<1>8. DOMAIN t = 1..(Len(s) - 1)
  BY <1>6
<1>9. IsList(t)
  BY <1>6 DEF IsList, E
<1>10. Distinct(t)
  <2> SUFFICES ASSUME NEW i \in DOMAIN t, NEW j \in DOMAIN t, t[i].fd = t[j].fd PROVE i = j
    BY DEF Distinct
  <2> DEFINE k == IF i < p THEN i ELSE i + 1
             l == IF j < p THEN j ELSE j + 1
  <2>1. t[i] = s[k] /\ k \in DOMAIN s
    BY <1>2, <1>7, <1>8
  <2>2. t[j] = s[l] /\ l \in DOMAIN s
    BY <1>2, <1>7, <1>8
  <2>3. k = l
    <3> HIDE DEF k, l
    <3> QED
      BY <2>1, <2>2 DEF Distinct
  <2> QED
    BY <1>2, <1>8, <2>3
<1>11. ASSUME NEW i \in DOMAIN s, i # p PROVE \E j \in DOMAIN t : t[j] = s[i]
  <2> DEFINE j == IF i < p THEN i ELSE i - 1
  <2>1. j \in DOMAIN t /\ t[j] = s[i]
    BY <1>2, <1>7, <1>8, <1>11
  <2> QED
    BY <2>1
<1> QED
  BY <1>9, <1>10, <1>11

-----------------------------------------------------------------------------
(* The invariant, and what a step does to an entry that is held.           *)

\* The files in a checkpoint.
SavedEntries(F, N) == [fd : Nat, name : N, first : F]
IsSavedList(s) == \E F, N : s \in Seq(SavedEntries(F, N))

FilesInv ==
    /\ IsList(files) /\ FdsDistinct
    /\ IsSavedList(image.files) /\ Distinct(image.files)

\* An entry is left alone by those who do not hold it.
HeldEntriesStay ==
    \A i \in DOMAIN files :
          /\ files[i].occupied # -1 /\ state' = "up"
          /\ reply'.call # "none" /\ reply'.pid # files[i].occupied
          => \E j \in DOMAIN files' : files'[j] = files[i]

LEMMA DistinctFds == FdsDistinct <=> Distinct(files)
BY DEF FdsDistinct, Distinct

\* The list changes in one entry, which the caller may touch, or not at all.
LEMMA Touched ==
  ASSUME IsList(files), NEW pid, NEW fd, Found(fd), Permitted(pid, fd), reply'.pid = pid,
         \A i \in DOMAIN files : i # Position(fd) => \E j \in DOMAIN files' : files'[j] = files[i]
  PROVE  HeldEntriesStay
<1>1. files[Position(fd)].occupied \in {-1, pid}
  BY DEF Permitted, Entry
<1> QED
  BY <1>1 DEF HeldEntriesStay

LEMMA InitFiles == Init => FilesInv
<1> SUFFICES ASSUME Init PROVE FilesInv
  OBVIOUS
<1>1. files = <<>> /\ image.files = <<>>
  BY DEF Init, NoImage
<1>2. IsList(files)
  <2>1. files \in Seq(Entries({}, {}, {}))
    BY <1>1
  <2> QED
    BY <2>1 DEF IsList
<1>3. IsSavedList(image.files)
  <2>1. image.files \in Seq(SavedEntries({}, {}))
    BY <1>1
  <2> QED
    BY <2>1 DEF IsSavedList
<1> QED
  BY <1>1, <1>2, <1>3 DEF FilesInv, FdsDistinct, Distinct

LEMMA SameFiles ==
  ASSUME FilesInv, UNCHANGED <<files, image>>
  PROVE  FilesInv' /\ HeldEntriesStay
BY DEF FilesInv, IsList, FdsDistinct, IsSavedList, Distinct, HeldEntriesStay

LEMMA CreateStep ==
  ASSUME FilesInv, NEW pid, NEW name, _create(pid, name)
  PROVE  FilesInv' /\ HeldEntriesStay
<1>1. UNCHANGED image
  BY DEF _create
<1>2. CASE UNCHANGED files
  BY <1>1, <1>2, SameFiles
<1>3. CASE ~UNCHANGED files
  <2> DEFINE r == [fd |-> FreshFd, first |-> NULL, occupied |-> -1, name |-> ""]
             one == <<r>>
  <2>1. files' = one \o files
    BY <1>3 DEF _create
  <2>2. IsList(files) /\ Distinct(files)
    BY DistinctFds DEF FilesInv
  <2>3. FreshFd \in Nat /\ \A i \in DOMAIN files : files[i].fd # FreshFd
    BY <2>2, FreshFacts DEF Found
  <2>4. r \in NewEntry /\ r.fd = FreshFd
    BY <2>3 DEF NewEntry
  <2> HIDE DEF r
  <2>5. one \in Seq({r}) /\ Len(one) = 1
    OBVIOUS
  <2> HIDE DEF one
  <2>6. \A i \in DOMAIN files : files[i].fd # r.fd
    BY <2>3, <2>4
  <2>7. /\ IsList(files') /\ Distinct(files')
        /\ \A i \in DOMAIN files : i + 1 \in DOMAIN files' /\ files'[i + 1] = files[i]
    BY <2>1, <2>2, <2>4, <2>5, <2>6, Prepended
  <2> QED
    BY <1>1, <2>7 DEF FilesInv, IsList, FdsDistinct, Distinct, IsSavedList, HeldEntriesStay
<1> QED
  BY <1>2, <1>3

\* One field of the first entry with a descriptor is set.
LEMMA FieldStep ==
  ASSUME FilesInv, NEW pid, NEW fd, Found(fd), Permitted(pid, fd), NEW v, UNCHANGED image,
         \/ files' = [files EXCEPT ![Position(fd)].occupied = v]
         \/ files' = [files EXCEPT ![Position(fd)].first = v]
  PROVE  FilesInv' /\ (reply'.pid = pid => HeldEntriesStay)
<1>1. IsList(files) /\ Distinct(files)
  BY DistinctFds DEF FilesInv
<1>2. Position(fd) \in DOMAIN files
  BY <1>1, PositionFacts
<1>3. IsList(files') /\ Distinct(files') /\ Changed(files, Position(fd), files')
  BY <1>1, <1>2, Updated
<1>4. reply'.pid = pid => HeldEntriesStay
  BY <1>1, <1>3, Touched DEF Changed
<1> QED
  BY <1>3, <1>4 DEF FilesInv, IsList, FdsDistinct, Distinct, IsSavedList

LEMMA OwnerStep ==
  ASSUME FilesInv, NEW call, NEW pid, NEW fd, NEW name, NEW owner,
         SetOccupied(call, pid, fd, name, owner), UNCHANGED image
  PROVE  FilesInv' /\ HeldEntriesStay
<1>1. CASE UNCHANGED files
  BY <1>1, SameFiles
<1>2. CASE ~UNCHANGED files
  <2>1. /\ Found(fd) /\ Permitted(pid, fd) /\ reply'.pid = pid
        /\ files' = [files EXCEPT ![Position(fd)].occupied = owner]
    BY <1>2 DEF SetOccupied, Reply, Moves
  <2> QED
    BY <2>1, FieldStep
<1> QED
  BY <1>1, <1>2

LEMMA WriteStep ==
  ASSUME FilesInv, NEW pid, NEW fd, NEW buf, _write(pid, fd, buf)
  PROVE  FilesInv' /\ HeldEntriesStay
<1>1. UNCHANGED image
  BY DEF _write
<1>2. CASE UNCHANGED files
  BY <1>1, <1>2, SameFiles
<1>3. CASE ~UNCHANGED files
  <2>1. /\ Found(fd) /\ Permitted(pid, fd) /\ reply'.pid = pid
        /\ files' = [files EXCEPT ![Position(fd)].first =
                                   IF Entry(fd).first = NULL THEN free_head ELSE @]
    BY <1>3 DEF _write, memory, Reply, Moves
  <2> DEFINE v == IF Entry(fd).first = NULL THEN free_head ELSE Entry(fd).first
  <2>2. files' = [files EXCEPT ![Position(fd)].first = v]
    BY <2>1 DEF Entry
  <2> HIDE DEF v
  <2>3. Found(fd) /\ Permitted(pid, fd) /\ reply'.pid = pid
    BY <2>1
  <2>4. FilesInv' /\ (reply'.pid = pid => HeldEntriesStay)
    BY <1>1, <2>2, <2>3, FieldStep
  <2> QED
    BY <2>3, <2>4
<1> QED
  BY <1>2, <1>3

LEMMA ReplyPid ==
  ASSUME NEW pid, NEW call, NEW fd, NEW arg, NEW value, Reply(pid, call, fd, arg, value)
  PROVE  reply'.pid = pid
BY DEF Reply, Moves

LEMMA DeleteStep ==
  ASSUME FilesInv, NEW pid, NEW fd, _delete(pid, fd)
  PROVE  FilesInv' /\ HeldEntriesStay
<1>1. UNCHANGED image
  BY DEF _delete
<1>2. CASE UNCHANGED files
  BY <1>1, <1>2, SameFiles
<1>3. CASE ~UNCHANGED files
  <2>a. Found(fd) /\ Permitted(pid, fd)
    BY <1>3 DEF _delete, memory
  <2>b. files' = RemoveAt(files, Position(fd))
    BY <1>3, <2>a DEF _delete
  <2>c. reply'.pid = pid \/ state' # "up"
    <3>1. \/ Reply(pid, "delete", fd, "", 0)
          \/ state' = IF Entry(fd).first = NULL THEN "wild" ELSE "hang"
      BY <2>a DEF _delete
    <3>2. Reply(pid, "delete", fd, "", 0) => reply'.pid = pid
      BY ReplyPid
    <3>3. "wild" # "up" /\ "hang" # "up"
      OBVIOUS
    <3> QED
      BY <3>1, <3>2, <3>3
  <2>1. /\ Found(fd) /\ Permitted(pid, fd) /\ files' = RemoveAt(files, Position(fd))
        /\ reply'.pid = pid \/ state' # "up"
    BY <2>a, <2>b, <2>c
  <2>2. IsList(files) /\ Distinct(files)
    BY DistinctFds DEF FilesInv
  <2>3. Position(fd) \in DOMAIN files
    BY <2>1, <2>2, PositionFacts
  <2>4. /\ IsList(files') /\ Distinct(files')
        /\ \A i \in DOMAIN files : i # Position(fd) => \E j \in DOMAIN files' : files'[j] = files[i]
    BY <2>1, <2>2, <2>3, Removed
  <2>5. HeldEntriesStay
    <3>1. CASE reply'.pid = pid
      BY <2>1, <2>2, <2>4, <3>1, Touched
    <3>2. CASE state' # "up"
      BY <3>2 DEF HeldEntriesStay
    <3> QED
      BY <2>1, <3>1, <3>2
  <2> QED
    BY <1>1, <2>4, <2>5 DEF FilesInv, IsList, FdsDistinct, Distinct, IsSavedList
<1> QED
  BY <1>2, <1>3

LEMMA CheckpointStep ==
  ASSUME FilesInv, checkpoint_fs
  PROVE  FilesInv' /\ HeldEntriesStay
<1>1. UNCHANGED files /\ reply' = NoReply
  BY DEF checkpoint_fs, memory
<1>2. HeldEntriesStay
  BY <1>1 DEF HeldEntriesStay, NoReply
<1>3. CASE UNCHANGED image
  BY <1>1, <1>3, SameFiles
<1>4. CASE ~UNCHANGED image
  <2> DEFINE saved(i) == [fd |-> files[i].fd, name |-> files[i].name,
                          first |-> ondisk_addr[files[i].first]]
  <2>1. image'.files = [i \in DOMAIN files |-> saved(i)]
    BY <1>4 DEF checkpoint_fs
  <2>2. PICK F, O, N : files \in Seq(Entries(F, O, N))
    BY DEF FilesInv, IsList
  <2>3. /\ DOMAIN files = 1..Len(files) /\ Len(files) \in Nat
        /\ \A i \in DOMAIN files : files[i] \in Entries(F, O, N)
    BY <2>2
  <2> DEFINE G == {ondisk_addr[files[i].first] : i \in DOMAIN files}
             E == SavedEntries(G, N)
  <2>4. \A i \in DOMAIN files : saved(i) \in E /\ saved(i).fd = files[i].fd
    BY <2>3 DEF Entries, SavedEntries
  <2> HIDE DEF saved, E
  <2>5. image'.files \in Seq(E)
    BY <2>1, <2>3, <2>4
  <2>6. IsSavedList(image'.files)
    BY <2>5 DEF IsSavedList, E
  <2>7. Distinct(image'.files)
    <3>1. DOMAIN image'.files = DOMAIN files
      BY <2>1
    <3>2. \A i \in DOMAIN files : image'.files[i].fd = files[i].fd
      BY <2>1, <2>4
    <3> QED
      BY <3>1, <3>2 DEF FilesInv, FdsDistinct, Distinct
  <2> QED
    BY <1>1, <1>2, <2>6, <2>7 DEF FilesInv, IsList, FdsDistinct, Distinct, IsSavedList
<1> QED
  BY <1>3, <1>4

LEMMA LoadStep ==
  ASSUME FilesInv, load_fs
  PROVE  FilesInv' /\ HeldEntriesStay
<1>1. UNCHANGED image /\ reply' = NoReply
  BY DEF load_fs
<1>2. HeldEntriesStay
  BY <1>1 DEF HeldEntriesStay, NoReply
<1>3. CASE UNCHANGED files
  BY <1>1, <1>3, SameFiles
<1>4. CASE ~UNCHANGED files
  <2> DEFINE s == image.files
             loaded(i) == [fd |-> s[i].fd, name |-> s[i].name, first |-> s[i].first,
                           occupied |-> -1]
  <2>1. files' = [i \in DOMAIN s |-> loaded(i)]
    BY <1>4 DEF load_fs, memory
  <2>2. PICK F, N : s \in Seq(SavedEntries(F, N))
    BY DEF FilesInv, IsSavedList
  <2>3. /\ DOMAIN s = 1..Len(s) /\ Len(s) \in Nat
        /\ \A i \in DOMAIN s : s[i] \in SavedEntries(F, N)
    BY <2>2
  <2> DEFINE E == Entries(F, {-1}, N)
  <2>4. \A i \in DOMAIN s : loaded(i) \in E /\ loaded(i).fd = s[i].fd
    BY <2>3 DEF Entries, SavedEntries
  <2>5. Distinct(s)
    BY DEF FilesInv
  <2> HIDE DEF loaded, E, s
  <2>6. files' \in Seq(E)
    BY <2>1, <2>3, <2>4
  <2>7. IsList(files')
    BY <2>6 DEF IsList, E
  <2>8. Distinct(files')
    BY <2>1, <2>4, <2>5 DEF Distinct
  <2> QED
    BY <1>1, <1>2, <2>7, <2>8 DEF FilesInv, IsList, FdsDistinct, Distinct, IsSavedList
<1> QED
  BY <1>3, <1>4

LEMMA FormatStep ==
  ASSUME FilesInv, build_fs
  PROVE  FilesInv' /\ HeldEntriesStay
<1>1. files' = <<>> /\ UNCHANGED image /\ reply' = NoReply
  BY DEF build_fs
<1>2. IsList(files')
  <2>1. files' \in Seq(Entries({}, {}, {}))
    BY <1>1
  <2> QED
    BY <2>1 DEF IsList
<1>3. Distinct(files')
  BY <1>1 DEF Distinct
<1> QED
  BY <1>1, <1>2, <1>3
     DEF FilesInv, IsList, FdsDistinct, Distinct, IsSavedList, HeldEntriesStay, NoReply

LEMMA NextFiles ==
  ASSUME FilesInv, [Next]_vars
  PROVE  FilesInv' /\ (~UNCHANGED vars => HeldEntriesStay)
<1>1. CASE checkpoint_fs \/ load_fs \/ build_fs
  BY <1>1, CheckpointStep, LoadStep, FormatStep
<1>2. ASSUME NEW pid, NEW name, _create(pid, name) \/ _open(pid, name)
      PROVE  FilesInv' /\ HeldEntriesStay
  <2>1. CASE _create(pid, name)
    BY <2>1, CreateStep
  <2>2. CASE _open(pid, name)
    <3>1. UNCHANGED image
      BY <2>2 DEF _open
    <3>2. CASE UNCHANGED files
      BY <3>1, <3>2, SameFiles
    <3>3. CASE ~UNCHANGED files
      <4>1. SetOccupied("open", pid, FnameToFd(name), name, pid)
        BY <2>2, <3>3 DEF _open
      <4> QED
        BY <3>1, <4>1, OwnerStep
    <3> QED
      BY <3>2, <3>3
  <2> QED
    BY <1>2, <2>1, <2>2
<1>3. ASSUME NEW pid, NEW fd, NEW n, _close(pid, fd) \/ _read(pid, fd, n) \/ _delete(pid, fd)
      PROVE  FilesInv' /\ HeldEntriesStay
  <2>1. CASE _close(pid, fd)
    BY <2>1, OwnerStep DEF _close
  <2>2. CASE _read(pid, fd, n)
    BY <2>2, SameFiles DEF _read, memory
  <2>3. CASE _delete(pid, fd)
    BY <2>3, DeleteStep
  <2> QED
    BY <1>3, <2>1, <2>2, <2>3
<1>4. ASSUME NEW pid, NEW fd, NEW buf, _write(pid, fd, buf)
      PROVE  FilesInv' /\ HeldEntriesStay
  BY <1>4, WriteStep
<1>5. CASE UNCHANGED vars
  BY <1>5, SameFiles DEF vars, memory
<1> QED
  BY <1>1, <1>2, <1>3, <1>4, <1>5 DEF Next, Call

-----------------------------------------------------------------------------
\* What is needed of the list of files, in memory and in the checkpoint, holds.
THEOREM FilesInvariance == Spec => []FilesInv
BY InitFiles, NextFiles, PTL DEF Spec

\* A descriptor names one file, however many were created, deleted, saved and
\* loaded before.
THEOREM DescriptorsDistinct == Spec => []FdsDistinct
<1>1. FilesInv => FdsDistinct
  BY DEF FilesInv
<1> QED
  BY <1>1, FilesInvariance, PTL

\* An open file is left alone by every process but the one that opened it.
THEOREM OwnersProtected == Spec => OpenFilesProtected
<1>1. FilesInv /\ [Next]_vars => [HeldEntriesStay]_vars
  BY NextFiles
<1>2. Spec => [][HeldEntriesStay]_vars
  BY <1>1, FilesInvariance, PTL DEF Spec
<1> QED
  BY <1>2 DEF OpenFilesProtected, HeldEntriesStay

-----------------------------------------------------------------------------
(* Chains of blocks.                                                       *)

\* s is the chain that begins at from.
Threads(from, s, next) ==
    /\ s \in Seq(Block)
    /\ from = IF Len(s) = 0 THEN NULL ELSE s[1]
    /\ \A i \in 1..Len(s) : next[s[i]] = IF i < Len(s) THEN s[i + 1] ELSE NULL

Injective(s) == \A i, j \in 1..Len(s) : s[i] = s[j] => i = j

LEMMA BlockFacts ==
  /\ Blocks \in Nat \ {0} /\ NULL = 0 /\ NULL \notin Block /\ NULL \in Link
  /\ Block \subseteq Link
<1>1. Blocks \in Nat \ {0}
  BY ConstantsAssumption, Zenon
<1> QED
  BY <1>1 DEF NULL, Block, Link

LEMMA ThreadFacts ==
  ASSUME NEW from, NEW s, NEW next, Threads(from, s, next)
  PROVE  Len(s) \in Nat /\ \A i \in 1..Len(s) : s[i] \in Block /\ s[i] # NULL
<1>1. s \in Seq(Block)
  BY DEF Threads
<1> QED
  BY <1>1, BlockFacts

\* Following k links along a chain.
LEMMA AfterThread ==
  ASSUME NEW from, NEW s, NEW next, Threads(from, s, next), NEW k \in Nat
  PROVE  After(from, k, next) = IF k < Len(s) THEN s[k + 1] ELSE NULL
<1> DEFINE F(g) == [n \in 0..k |-> IF n = 0 THEN from
                                   ELSE IF g[n - 1] = NULL THEN NULL ELSE next[g[n - 1]]]
           at == CHOOSE g : g = F(g)
           met == [n \in 0..k |-> IF n < Len(s) THEN s[n + 1] ELSE NULL]
<1>1. Len(s) \in Nat /\ \A i \in 1..Len(s) : s[i] \in Block /\ s[i] # NULL
  BY ThreadFacts
<1>2. met = F(met)
  <2>1. ASSUME NEW n \in 0..k PROVE met[n] = F(met)[n]
    <3>1. CASE n = 0
      BY <1>1, <3>1 DEF Threads
    <3>2. CASE n # 0
      <4>1. n - 1 \in 0..k /\ n \in Nat
        BY <3>2
      <4>2. met[n - 1] = IF n - 1 < Len(s) THEN s[n] ELSE NULL
        BY <4>1
      <4>3. CASE n - 1 < Len(s)
        <5>1. n \in 1..Len(s)
          BY <1>1, <3>2, <4>1, <4>3
        <5>2. next[s[n]] = IF n < Len(s) THEN s[n + 1] ELSE NULL
          BY <5>1 DEF Threads
        <5> QED
          BY <1>1, <3>2, <4>2, <4>3, <5>1, <5>2
      <4>4. CASE ~(n - 1 < Len(s))
        BY <1>1, <3>2, <4>1, <4>2, <4>4
      <4> QED
        BY <4>3, <4>4
    <3> QED
      BY <3>1, <3>2
  <2> QED
    BY <2>1
<1>3. at = F(at)
  BY <1>2
<1> HIDE DEF at, met
<1>4. \A n \in 0..k : at[n] = met[n]
  <2> DEFINE bad == {n \in 0..k : at[n] # met[n]}
  <2>1. SUFFICES ASSUME bad # {} PROVE FALSE
    OBVIOUS
  <2>2. PICK n \in bad : \A i \in bad : ~(i < n)
    <3>1. bad \subseteq Nat
      OBVIOUS
    <3> QED
      BY <2>1, <3>1, Least
  <2>3. n \in 0..k /\ n # 0
    <3>1. 0 \in 0..k
      OBVIOUS
    <3>2. at[0] = F(at)[0] /\ met[0] = F(met)[0]
      BY <1>2, <1>3
    <3> QED
      BY <2>2, <3>1, <3>2
  <2>4. n - 1 \in 0..k /\ n - 1 \notin bad
    BY <2>2, <2>3
  <2>5. at[n - 1] = met[n - 1]
    BY <2>4
  <2>6. at[n] = F(at)[n] /\ met[n] = F(met)[n]
    BY <1>2, <1>3
  <2> QED
    BY <2>2, <2>3, <2>5, <2>6
<1>5. After(from, k, next) = at[k]
  BY DEF After, at
<1> QED
  BY <1>4, <1>5 DEF met

\* A walk of n turns along a chain meets its first blocks.
LEMMA ReachedThread ==
  ASSUME NEW from, NEW s, NEW next, Threads(from, s, next), NEW n \in Nat
  PROVE  Reached(from, n, next) = [i \in 1..(IF n < Len(s) THEN n ELSE Len(s)) |-> s[i]]
<1> DEFINE m == IF n < Len(s) THEN n ELSE Len(s)
           turns == {k \in 0..(n - 1) : After(from, k, next) # NULL}
<1>1. Len(s) \in Nat /\ (\A i \in 1..Len(s) : s[i] \in Block /\ s[i] # NULL) /\ m \in Nat
  BY ThreadFacts
<1>2. \A k \in Nat : After(from, k, next) = IF k < Len(s) THEN s[k + 1] ELSE NULL
  BY AfterThread
<1>3. turns = 0..(m - 1)
  BY <1>1, <1>2
<1>4. Cardinality(0..(m - 1)) = m
  <2>1. 0 \in Int /\ m - 1 \in Int
    BY <1>1
  <2>2. Cardinality(0..(m - 1)) = IF 0 > m - 1 THEN 0 ELSE m - 1 - 0 + 1
    <3> HIDE DEF m
    <3> QED
      BY <2>1, FS_Interval, Zenon
  <2> QED
    BY <1>1, <2>2
<1>5. ASSUME NEW i \in 1..m PROVE After(from, i - 1, next) = s[i]
  <2>1. i - 1 \in Nat /\ i - 1 < Len(s) /\ i - 1 + 1 = i
    BY <1>1
  <2> QED
    BY <1>2, <2>1
<1> HIDE DEF m, turns
<1>6. Reached(from, n, next) = [i \in 1..m |-> After(from, i - 1, next)]
  BY <1>3, <1>4 DEF Reached, turns
<1> QED
  BY <1>5, <1>6 DEF m

\* A chain without repetitions is no longer than there are blocks, so that a
\* walk over it ends.
LEMMA ChainThread ==
  ASSUME NEW from, NEW s, NEW next, Threads(from, s, next), Injective(s)
  PROVE  Chain(from, next) = s /\ Ends(from, next) /\ Len(s) <= Blocks
<1>1. s \in Seq(Block) /\ Len(s) \in Nat /\ Blocks \in Nat \ {0}
  BY BlockFacts DEF Threads
<1>2. Len(s) <= Blocks
  <2> SUFFICES ASSUME Blocks < Len(s) PROVE FALSE
    BY <1>1
  <2>1. IsFiniteSet(1..Len(s)) /\ Cardinality(1..Len(s)) = Len(s)
        /\ IsFiniteSet(Block) /\ Cardinality(Block) = Blocks
    <3>1. 1 \in Int /\ Len(s) \in Int /\ Blocks \in Int
      BY <1>1
    <3>2. \A b \in Int : /\ IsFiniteSet(1..b)
                         /\ Cardinality(1..b) = IF 1 > b THEN 0 ELSE b - 1 + 1
      BY <3>1, FS_Interval, Zenon
    <3> QED
      BY <1>1, <3>1, <3>2 DEF Block
  <2>2. s \in [1..Len(s) -> Block]
    BY <1>1
  <2>3. PICK x, y \in 1..Len(s) : x # y /\ s[x] = s[y]
    BY <2>1, <2>2, FS_PigeonHole
  <2> QED
    BY <2>3 DEF Injective
<1>3. Reached(from, Blocks, next) = [i \in 1..Len(s) |-> s[i]]
  <2>1. Reached(from, Blocks, next) = [i \in 1..(IF Blocks < Len(s) THEN Blocks ELSE Len(s)) |-> s[i]]
    BY <1>1, ReachedThread
  <2> QED
    BY <1>1, <1>2, <2>1
<1>4. s = [i \in 1..Len(s) |-> s[i]]
  BY <1>1
<1>5. After(from, Blocks, next) = NULL
  BY <1>1, <1>2, AfterThread
<1> QED
  BY <1>2, <1>3, <1>4, <1>5 DEF Chain, Ends

\* The first n elements, those after them, and one chain behind another.
FirstOf(s, n) == [i \in 1..n |-> s[i]]
RestOf(s, n) == [i \in 1..(Len(s) - n) |-> s[i + n]]
Joined(s, t) == [i \in 1..(Len(s) + Len(t)) |-> IF i <= Len(s) THEN s[i] ELSE t[i - Len(s)]]

LEMMA ListedFunction ==
  ASSUME NEW S, NEW n \in Nat, NEW f, f = [i \in 1..n |-> f[i]], \A i \in 1..n : f[i] \in S
  PROVE  f \in Seq(S) /\ Len(f) = n
<1>1. f \in [1..n -> S]
  OBVIOUS
<1>2. f \in Seq(S)
  BY <1>1
<1> QED
  BY <1>1, <1>2

LEMMA FirstFacts ==
  ASSUME NEW s \in Seq(Block), NEW n \in 0..Len(s)
  PROVE  /\ FirstOf(s, n) \in Seq(Block) /\ Len(FirstOf(s, n)) = n
         /\ \A i \in 1..n : FirstOf(s, n)[i] = s[i]
<1>1. n \in Nat /\ Len(s) \in Nat /\ \A i \in 1..n : s[i] \in Block
  OBVIOUS
<1> DEFINE f == FirstOf(s, n)
<1>2. f = [i \in 1..n |-> f[i]] /\ \A i \in 1..n : f[i] = s[i]
  BY DEF FirstOf
<1> HIDE DEF f
<1>3. f \in Seq(Block) /\ Len(f) = n
  BY <1>1, <1>2, ListedFunction
<1> QED
  BY <1>2, <1>3 DEF f

LEMMA RestFacts ==
  ASSUME NEW s \in Seq(Block), NEW n \in 0..Len(s)
  PROVE  /\ RestOf(s, n) \in Seq(Block) /\ Len(RestOf(s, n)) = Len(s) - n
         /\ \A i \in 1..(Len(s) - n) : RestOf(s, n)[i] = s[i + n]
<1> DEFINE m == Len(s) - n
<1>1. m \in Nat /\ \A i \in 1..m : s[i + n] \in Block
  OBVIOUS
<1> DEFINE f == RestOf(s, n)
<1>2. f = [i \in 1..m |-> f[i]] /\ \A i \in 1..m : f[i] = s[i + n]
  BY DEF RestOf
<1> HIDE DEF f, m
<1>3. f \in Seq(Block) /\ Len(f) = m
  BY <1>1, <1>2, ListedFunction
<1> QED
  BY <1>2, <1>3 DEF f, m

LEMMA JoinedFacts ==
  ASSUME NEW s \in Seq(Block), NEW t \in Seq(Block)
  PROVE  /\ Joined(s, t) \in Seq(Block) /\ Len(Joined(s, t)) = Len(s) + Len(t)
         /\ \A i \in 1..Len(s) : Joined(s, t)[i] = s[i]
         /\ \A i \in 1..Len(t) : Joined(s, t)[Len(s) + i] = t[i]
<1> DEFINE m == Len(s) + Len(t)
           f == Joined(s, t)
<1>1. Len(s) \in Nat /\ Len(t) \in Nat /\ m \in Nat
  OBVIOUS
<1>2. f = [i \in 1..m |-> f[i]]
  BY DEF Joined
<1>3. \A i \in 1..m : f[i] = IF i <= Len(s) THEN s[i] ELSE t[i - Len(s)]
  BY DEF Joined
<1> HIDE DEF f
<1>4. \A i \in 1..Len(s) : f[i] = s[i]
  BY <1>1, <1>3
<1>5. ASSUME NEW i \in 1..Len(t) PROVE f[Len(s) + i] = t[i]
  <2>1. Len(s) + i \in 1..m /\ ~(Len(s) + i <= Len(s)) /\ Len(s) + i - Len(s) = i
    BY <1>1
  <2> QED
    BY <1>3, <2>1
<1>6. ASSUME NEW i \in 1..m PROVE f[i] \in Block
  <2>1. CASE i <= Len(s)
    BY <1>1, <1>4, <2>1
  <2>2. CASE ~(i <= Len(s))
    <3>1. i - Len(s) \in 1..Len(t)
      BY <1>1, <2>2
    <3> QED
      BY <1>3, <2>2, <3>1
  <2> QED
    BY <2>1, <2>2
<1> HIDE DEF m
<1>7. f \in Seq(Block) /\ Len(f) = m
  BY <1>1, <1>2, <1>6, ListedFunction
<1> QED
  BY <1>4, <1>5, <1>7 DEF f, m

\* Links of other blocks do not matter to a chain.
LEMMA Rerouted ==
  ASSUME NEW from, NEW s, NEW next, NEW new, Threads(from, s, next),
         \A i \in 1..Len(s) : new[s[i]] = next[s[i]]
  PROVE  Threads(from, s, new)
BY DEF Threads

\* The null pointer in the n-th block makes two chains of one.
LEMMA CutThread ==
  ASSUME NEW from, NEW s, NEW next \in [Block -> Link], Threads(from, s, next), Injective(s),
         NEW n \in 1..Len(s), NEW new, new = [next EXCEPT ![s[n]] = NULL]
  PROVE  /\ Threads(from, FirstOf(s, n), new)
         /\ Threads(After(from, n, next), RestOf(s, n), new)
<1>1. s \in Seq(Block) /\ Len(s) \in Nat /\ n \in 0..Len(s) /\ n \in Nat /\ n > 0
      /\ \A i \in 1..Len(s) : s[i] \in Block /\ next[s[i]] = IF i < Len(s) THEN s[i + 1] ELSE NULL
  BY DEF Threads
<1>2. new[s[n]] = NULL /\ \A i \in 1..Len(s) : i # n => new[s[i]] = next[s[i]]
  BY <1>1 DEF Injective
<1> DEFINE f == FirstOf(s, n)
           g == RestOf(s, n)
<1>3. f \in Seq(Block) /\ Len(f) = n /\ \A i \in 1..n : f[i] = s[i]
  BY <1>1, FirstFacts
<1>4. g \in Seq(Block) /\ Len(g) = Len(s) - n /\ \A i \in 1..(Len(s) - n) : g[i] = s[i + n]
  BY <1>1, RestFacts
<1> HIDE DEF f, g
<1>5. Threads(from, f, new)
  <2>1. from = IF Len(f) = 0 THEN NULL ELSE f[1]
    BY <1>1, <1>3 DEF Threads
  <2>2. ASSUME NEW i \in 1..Len(f) PROVE new[f[i]] = IF i < Len(f) THEN f[i + 1] ELSE NULL
    <3>1. CASE i = n
      BY <1>2, <1>3, <3>1
    <3>2. CASE i # n
      BY <1>1, <1>2, <1>3, <3>2
    <3> QED
      BY <3>1, <3>2
  <2> QED
    BY <1>3, <2>1, <2>2 DEF Threads
<1>6. Threads(After(from, n, next), g, new)
  <2>1. After(from, n, next) = IF n < Len(s) THEN s[n + 1] ELSE NULL
    BY <1>1, AfterThread
  <2>2. After(from, n, next) = IF Len(g) = 0 THEN NULL ELSE g[1]
    <3>1. CASE n < Len(s)
      <4>1. 1 \in 1..(Len(s) - n) /\ 1 + n = n + 1
        BY <1>1, <3>1
      <4>2. g[1] = s[n + 1] /\ Len(g) # 0
        BY <1>1, <1>4, <3>1, <4>1
      <4> QED
        BY <2>1, <3>1, <4>2
    <3>2. CASE ~(n < Len(s))
      BY <1>1, <1>4, <2>1, <3>2
    <3> QED
      BY <3>1, <3>2
  <2>3. ASSUME NEW i \in 1..Len(g) PROVE new[g[i]] = IF i < Len(g) THEN g[i + 1] ELSE NULL
    <3>1. i + n \in 1..Len(s) /\ i + n # n /\ g[i] = s[i + n] /\ i \in Nat
      BY <1>1, <1>4
    <3>2. new[g[i]] = IF i + n < Len(s) THEN s[i + n + 1] ELSE NULL
      BY <1>1, <1>2, <3>1
    <3>3. CASE i < Len(g)
      <4>1. i + 1 \in 1..(Len(s) - n) /\ i + 1 + n = i + n + 1 /\ i + n < Len(s)
        BY <1>1, <1>4, <3>1, <3>3
      <4>2. g[i + 1] = s[i + n + 1]
        BY <1>4, <4>1
      <4> QED
        BY <3>2, <3>3, <4>1, <4>2
    <3>4. CASE ~(i < Len(g))
      <4>1. ~(i + n < Len(s))
        BY <1>1, <1>4, <3>1, <3>4
      <4> QED
        BY <3>2, <3>4, <4>1
    <3> QED
      BY <3>3, <3>4
  <2> QED
    BY <1>4, <2>2, <2>3 DEF Threads
<1> QED
  BY <1>5, <1>6 DEF f, g

\* A link from the last block of one chain to the first of another makes one of two.
LEMMA JoinThread ==
  ASSUME NEW from, NEW s, NEW p, NEW t, NEW next \in [Block -> Link],
         Threads(from, s, next), Threads(p, t, next), Injective(s), Len(s) > 0,
         \A i \in 1..Len(s), j \in 1..Len(t) : s[i] # t[j],
         NEW new, new = [next EXCEPT ![s[Len(s)]] = p]
  PROVE  Threads(from, Joined(s, t), new)
<1> DEFINE f == Joined(s, t)
           l == Len(s)
<1>1. s \in Seq(Block) /\ t \in Seq(Block) /\ l \in Nat /\ Len(t) \in Nat /\ l > 0
      /\ (\A i \in 1..l : s[i] \in Block /\ next[s[i]] = IF i < l THEN s[i + 1] ELSE NULL)
      /\ \A i \in 1..Len(t) : t[i] \in Block /\ next[t[i]] = IF i < Len(t) THEN t[i + 1] ELSE NULL
  BY DEF Threads
<1>2. f \in Seq(Block) /\ Len(f) = l + Len(t) /\ (\A i \in 1..l : f[i] = s[i])
      /\ \A i \in 1..Len(t) : f[l + i] = t[i]
  BY <1>1, JoinedFacts
<1>3. p = IF Len(t) = 0 THEN NULL ELSE t[1]
  BY DEF Threads
<1>4. /\ new[s[l]] = p
      /\ \A i \in 1..l : i # l => new[s[i]] = next[s[i]]
      /\ \A i \in 1..Len(t) : new[t[i]] = next[t[i]]
  <2>1. l \in 1..l
    BY <1>1
  <2>2. s[l] \in Block
    BY <1>1, <2>1
  <2>3. \A i \in 1..l : i # l => s[i] # s[l]
    BY <2>1 DEF Injective
  <2>4. \A i \in 1..Len(t) : t[i] # s[l]
    BY <2>1
  <2> QED
    BY <1>1, <2>2, <2>3, <2>4
<1>5. from = IF Len(f) = 0 THEN NULL ELSE f[1]
  <2>1. from = s[1] /\ 1 \in 1..l
    BY <1>1 DEF Threads
  <2> HIDE DEF f, l
  <2> QED
    BY <1>1, <1>2, <2>1
<1> HIDE DEF f, l
<1>6. ASSUME NEW i \in 1..Len(f) PROVE new[f[i]] = IF i < Len(f) THEN f[i + 1] ELSE NULL
  <2>1. CASE i < l
    <3>1. i \in 1..l /\ i + 1 \in 1..l /\ i # l /\ i < Len(f)
      BY <1>1, <1>2, <2>1
    <3>2. f[i] = s[i] /\ f[i + 1] = s[i + 1]
      BY <1>2, <3>1
    <3> QED
      BY <1>1, <1>4, <2>1, <3>1, <3>2
  <2>2. CASE i = l
    <3>1. f[i] = s[l] /\ new[f[i]] = p
      BY <1>1, <1>2, <1>4, <2>2
    <3>2. CASE Len(t) = 0
      BY <1>1, <1>2, <1>3, <2>2, <3>1, <3>2
    <3>3. CASE Len(t) # 0
      <4>1. 1 \in 1..Len(t) /\ i < Len(f) /\ i + 1 = l + 1
        BY <1>1, <1>2, <2>2, <3>3
      <4>2. f[i + 1] = t[1]
        BY <1>2, <4>1
      <4> QED
        BY <1>3, <3>1, <3>3, <4>1, <4>2
    <3> QED
      BY <3>2, <3>3
  <2>3. CASE i > l
    <3> DEFINE j == i - l
    <3>1. j \in 1..Len(t) /\ i = l + j /\ l + (j + 1) = i + 1 /\ (i < Len(f) <=> j < Len(t))
      BY <1>1, <1>2, <2>3
    <3> HIDE DEF j
    <3>2. f[i] = t[j] /\ new[f[i]] = next[t[j]]
      BY <1>2, <1>4, <3>1
    <3>3. CASE j < Len(t)
      <4>1. j + 1 \in 1..Len(t)
        BY <1>1, <3>1, <3>3
      <4>2. f[i + 1] = t[j + 1]
        BY <1>2, <3>1, <4>1
      <4> QED
        BY <1>1, <3>1, <3>2, <3>3, <4>2
    <3>4. CASE ~(j < Len(t))
      BY <1>1, <3>1, <3>2, <3>4
    <3> QED
      BY <3>3, <3>4
  <2> QED
    BY <1>1, <1>2, <2>1, <2>2, <2>3
<1>7. Threads(from, f, new)
  BY <1>2, <1>5, <1>6 DEF Threads
<1> QED
  BY <1>7 DEF f

-----------------------------------------------------------------------------
(* All chains of a file system together.                                   *)

\* w[x] is the chain at heads[x], and no block is in two places.
Layout(w, heads, next) ==
    /\ \A x \in DOMAIN heads : Threads(heads[x], w[x], next)
    /\ \A x, y \in DOMAIN heads : \A i \in 1..Len(w[x]), j \in 1..Len(w[y]) :
          w[x][i] = w[y][j] => x = y /\ i = j

LEMMA LayoutFacts ==
  ASSUME NEW w, NEW heads, NEW next, Layout(w, heads, next), NEW x \in DOMAIN heads
  PROVE  /\ Threads(heads[x], w[x], next) /\ Injective(w[x])
         /\ w[x] \in Seq(Block) /\ Len(w[x]) \in Nat
         /\ Chain(heads[x], next) = w[x] /\ Ends(heads[x], next)
<1>1. Threads(heads[x], w[x], next)
  BY DEF Layout
<1>2. Injective(w[x])
  BY DEF Layout, Injective
<1>3. w[x] \in Seq(Block) /\ Len(w[x]) \in Nat
  BY <1>1 DEF Threads
<1> QED
  BY <1>1, <1>2, <1>3, ChainThread

LEMMA LayoutDisjoint ==
  ASSUME NEW w, NEW heads, NEW next, Layout(w, heads, next)
  PROVE  Disjoint(heads, next)
<1>1. \A x \in DOMAIN heads : Ends(heads[x], next) /\ Chain(heads[x], next) = w[x]
                              /\ DOMAIN w[x] = 1..Len(w[x])
  BY LayoutFacts
<1>2. ASSUME NEW x \in DOMAIN heads, NEW y \in DOMAIN heads, x # y
      PROVE  ToSet(Chain(heads[x], next)) \cap ToSet(Chain(heads[y], next)) = {}
  <2>1. \A i \in 1..Len(w[x]), j \in 1..Len(w[y]) : w[x][i] # w[y][j]
    BY <1>2 DEF Layout
  <2> QED
    BY <1>1, <2>1 DEF ToSet
<1> QED
  BY <1>1, <1>2 DEF Disjoint

\* What an append does to the heads, the links and the chains, where pos is the
\* file or, if the append is refused, 0.
AppendHeads(heads, w, next, n, pos) ==
    [x \in DOMAIN heads |-> IF x = 0 THEN After(heads[0], n, next)
                            ELSE IF x = pos /\ Len(w[pos]) = 0 THEN heads[0] ELSE heads[x]]
AppendLinks(heads, w, next, n, pos) ==
    LET cut == [next EXCEPT ![w[0][n]] = NULL]
    IN  IF pos = 0 \/ Len(w[pos]) = 0 THEN cut
        ELSE [cut EXCEPT ![w[pos][Len(w[pos])]] = heads[0]]
AppendChains(heads, w, n, pos) ==
    [x \in DOMAIN heads |-> IF x = 0 THEN RestOf(w[0], n)
                            ELSE IF x = pos THEN Joined(w[pos], FirstOf(w[0], n)) ELSE w[x]]

\* Place i of the new chain x is place j of the old chain y.
Origin(w, n, pos, x, i, y, j) ==
    /\ j \in 1..Len(w[y])
    /\ x = 0 => y = 0 /\ j = i + n
    /\ x # 0 /\ x = pos /\ i <= Len(w[pos]) => y = pos /\ j = i
    /\ x # 0 /\ x = pos /\ ~(i <= Len(w[pos])) => y = 0 /\ i = Len(w[pos]) + j /\ j <= n
    /\ x # 0 /\ x # pos => y = x /\ j = i

\* Every place in the new chains is one in the old chains.
LEMMA AppendOrigin ==
  ASSUME NEW w, NEW heads, NEW next, Layout(w, heads, next), 0 \in DOMAIN heads,
         NEW pos \in DOMAIN heads, NEW n \in 1..Len(w[0]), NEW x \in DOMAIN heads,
         NEW u, u = AppendChains(heads, w, n, pos),
         NEW i \in 1..Len(u[x])
  PROVE  \E y \in DOMAIN heads, j \in Nat : u[x][i] = w[y][j] /\ Origin(w, n, pos, x, i, y, j)
<1>1. w[0] \in Seq(Block) /\ w[pos] \in Seq(Block) /\ Len(w[0]) \in Nat /\ Len(w[pos]) \in Nat
      /\ n \in 0..Len(w[0]) /\ n \in Nat
  BY LayoutFacts
<1>2. CASE x = 0
  <2> DEFINE g == RestOf(w[0], n)
  <2>1. u[x] = g
    BY <1>2 DEF AppendChains
  <2>2. Len(g) = Len(w[0]) - n /\ \A k \in 1..(Len(w[0]) - n) : g[k] = w[0][k + n]
    BY <1>1, RestFacts
  <2> HIDE DEF g
  <2>a. i \in 1..(Len(w[0]) - n)
    BY <2>1, <2>2
  <2>b. i + n \in 1..Len(w[0]) /\ i + n \in Nat
    BY <1>1, <2>a
  <2>3. i + n \in 1..Len(w[0]) /\ i + n \in Nat /\ u[x][i] = w[0][i + n]
    BY <2>1, <2>2, <2>a, <2>b
  <2> QED
    BY <1>1, <1>2, <2>3 DEF Origin
<1>3. CASE x # 0 /\ x = pos
  <2> DEFINE f == FirstOf(w[0], n)
             h == Joined(w[pos], f)
             l == Len(w[pos])
  <2>1. u[x] = h
    BY <1>3 DEF AppendChains
  <2>2. f \in Seq(Block) /\ Len(f) = n /\ \A k \in 1..n : f[k] = w[0][k]
    BY <1>1, FirstFacts
  <2> HIDE DEF f
  <2>3. Len(h) = l + n /\ (\A k \in 1..l : h[k] = w[pos][k]) /\ \A k \in 1..n : h[l + k] = f[k]
    BY <1>1, <2>2, JoinedFacts
  <2> HIDE DEF h
  <2>4. CASE i <= l
    <3>1. i \in 1..l /\ u[x][i] = w[pos][i]
      BY <1>1, <2>1, <2>3, <2>4
    <3> QED
      BY <1>1, <1>3, <2>4, <3>1 DEF Origin
  <2>5. CASE ~(i <= l)
    <3> DEFINE j == i - l
    <3>1. j \in 1..n /\ i = l + j /\ j \in 1..Len(w[0]) /\ j <= n
      BY <1>1, <2>1, <2>3, <2>5
    <3> HIDE DEF j
    <3>2. u[x][i] = w[0][j]
      BY <2>1, <2>2, <2>3, <3>1
    <3> QED
      BY <1>1, <1>3, <2>5, <3>1, <3>2 DEF Origin
  <2> QED
    BY <2>4, <2>5
<1>4. CASE x # 0 /\ x # pos
  <2>1. u[x] = w[x]
    BY <1>4 DEF AppendChains
  <2> QED
    BY <1>1, <1>4, <2>1 DEF Origin
<1> QED
  BY <1>2, <1>3, <1>4

LEMMA AppendApart ==
  ASSUME NEW w, NEW heads, NEW next, Layout(w, heads, next), 0 \in DOMAIN heads,
         NEW pos \in DOMAIN heads, NEW n \in 1..Len(w[0]),
         NEW u, u = AppendChains(heads, w, n, pos),
         NEW x \in DOMAIN heads, NEW y \in DOMAIN heads,
         NEW i \in 1..Len(u[x]), NEW j \in 1..Len(u[y]), u[x][i] = u[y][j]
  PROVE  x = y /\ i = j
<1>1. PICK a \in DOMAIN heads, k \in Nat : u[x][i] = w[a][k] /\ Origin(w, n, pos, x, i, a, k)
  BY AppendOrigin
<1>2. PICK b \in DOMAIN heads, l \in Nat : u[y][j] = w[b][l] /\ Origin(w, n, pos, y, j, b, l)
  BY AppendOrigin
<1>3. a = b /\ k = l
  <2>1. w[a][k] = w[b][l]
    BY <1>1, <1>2
  <2>2. k \in 1..Len(w[a]) /\ l \in 1..Len(w[b])
    BY <1>1, <1>2 DEF Origin
  <2> QED
    BY <2>1, <2>2 DEF Layout
<1>4. n \in Nat /\ Len(w[pos]) \in Nat /\ i \in Int /\ j \in Int /\ i >= 1 /\ j >= 1
  BY LayoutFacts
<1>5. CASE x = 0
  <2>1. y = 0
    BY <1>1, <1>2, <1>3, <1>4, <1>5 DEF Origin
  <2> QED
    BY <1>1, <1>2, <1>3, <1>4, <1>5, <2>1 DEF Origin
<1>6. CASE y = 0
  <2>1. x = 0
    BY <1>1, <1>2, <1>3, <1>4, <1>6 DEF Origin
  <2> QED
    BY <1>5, <2>1
<1>7. CASE x # 0 /\ y # 0
  BY <1>1, <1>2, <1>3, <1>4, <1>7 DEF Origin
<1> QED
  BY <1>5, <1>6, <1>7

LEMMA AppendLayout ==
  ASSUME NEW w, NEW heads, NEW next \in [Block -> Link], Layout(w, heads, next),
         0 \in DOMAIN heads, NEW pos \in DOMAIN heads, NEW n \in 1..Len(w[0])
  PROVE  Layout(AppendChains(heads, w, n, pos), AppendHeads(heads, w, next, n, pos),
                AppendLinks(heads, w, next, n, pos))
<1> DEFINE s == w[0]
           f == FirstOf(s, n)
           g == RestOf(s, n)
           u == AppendChains(heads, w, n, pos)
           cut == [next EXCEPT ![s[n]] = NULL]
           new == AppendLinks(heads, w, next, n, pos)
           H == AppendHeads(heads, w, next, n, pos)
<1>1. \A x \in DOMAIN heads : Threads(heads[x], w[x], next) /\ Injective(w[x])
                              /\ w[x] \in Seq(Block) /\ Len(w[x]) \in Nat
  BY LayoutFacts
<1>2. Threads(heads[0], f, cut) /\ Threads(After(heads[0], n, next), g, cut)
  BY <1>1, CutThread
<1>3. f \in Seq(Block) /\ Len(f) = n /\ (\A i \in 1..n : f[i] = s[i])
      /\ g \in Seq(Block) /\ Len(g) = Len(s) - n /\ \A i \in 1..(Len(s) - n) : g[i] = s[i + n]
  <2>1. n \in 0..Len(s)
    BY <1>1
  <2> QED
    BY <1>1, <2>1, FirstFacts, RestFacts
<1>4. s[n] \in Block /\ cut \in [Block -> Link]
  BY <1>1, BlockFacts
<1>5. ASSUME NEW x \in DOMAIN heads, x # 0 PROVE Threads(heads[x], w[x], cut)
  <2>1. \A i \in 1..Len(w[x]) : w[x][i] # s[n]
    BY <1>5 DEF Layout
  <2>2. \A i \in 1..Len(w[x]) : w[x][i] \in Block
    BY <1>1
  <2>3. \A i \in 1..Len(w[x]) : cut[w[x][i]] = next[w[x][i]]
    BY <2>1, <2>2
  <2> HIDE DEF cut
  <2> QED
    BY <1>1, <2>3, Rerouted
<1> HIDE DEF cut, f, g
<1>6. /\ DOMAIN H = DOMAIN heads
      /\ H[0] = After(heads[0], n, next)
      /\ pos # 0 => H[pos] = IF Len(w[pos]) = 0 THEN heads[0] ELSE heads[pos]
      /\ \A x \in DOMAIN heads : x # 0 /\ x # pos => H[x] = heads[x]
  BY DEF AppendHeads
<1>7. /\ u[0] = g
      /\ pos # 0 => u[pos] = Joined(w[pos], f)
      /\ \A x \in DOMAIN heads : x # 0 /\ x # pos => u[x] = w[x]
  BY DEF AppendChains, f, g
<1>8. new = IF pos = 0 \/ Len(w[pos]) = 0 THEN cut ELSE [cut EXCEPT ![w[pos][Len(w[pos])]] = heads[0]]
  BY DEF AppendLinks, cut
<1> HIDE DEF u, H, new
<1>9. ASSUME NEW x \in DOMAIN heads PROVE Threads(H[x], u[x], new)
  <2>1. CASE pos = 0
    <3>1. new = cut
      BY <1>8, <2>1
    <3>2. CASE x = 0
      BY <1>2, <1>6, <1>7, <3>1, <3>2
    <3>3. CASE x # 0
      BY <1>5, <1>6, <1>7, <2>1, <3>1, <3>3
    <3> QED
      BY <3>2, <3>3
  <2>2. CASE pos # 0 /\ Len(w[pos]) = 0
    <3>1. new = cut
      BY <1>8, <2>2
    <3>2. Joined(w[pos], f) = f
      <4> DEFINE h == Joined(w[pos], f)
      <4>1. h \in Seq(Block) /\ Len(h) = Len(f) /\ \A i \in 1..Len(f) : h[i] = f[i]
        <5>1. Len(h) = Len(w[pos]) + Len(f) /\ h \in Seq(Block)
              /\ \A i \in 1..Len(f) : h[Len(w[pos]) + i] = f[i]
          BY <1>1, <1>3, JoinedFacts
        <5> HIDE DEF h
        <5>2. \A i \in 1..Len(f) : Len(w[pos]) + i = i
          BY <2>2
        <5>3. n \in Nat
          BY <1>1
        <5> QED
          BY <1>3, <2>2, <5>1, <5>2, <5>3
      <4> HIDE DEF h
      <4> QED
        BY <1>3, <4>1 DEF h
    <3>3. CASE x = 0
      BY <1>2, <1>6, <1>7, <3>1, <3>3
    <3>4. CASE x = pos
      BY <1>2, <1>6, <1>7, <2>2, <3>1, <3>2, <3>4
    <3>5. CASE x # 0 /\ x # pos
      BY <1>5, <1>6, <1>7, <3>1, <3>5
    <3> QED
      BY <3>3, <3>4, <3>5
  <2>3. CASE pos # 0 /\ Len(w[pos]) # 0
    <3> DEFINE last == w[pos][Len(w[pos])]
    <3>1. new = [cut EXCEPT ![last] = heads[0]] /\ Len(w[pos]) > 0 /\ Len(w[pos]) \in 1..Len(w[pos])
      BY <1>1, <1>8, <2>3
    <3>2. last \in Block
      BY <1>1, <3>1
    <3>3. ASSUME NEW y \in DOMAIN heads, y # pos, NEW i \in 1..Len(w[y])
          PROVE  w[y][i] # last /\ w[y][i] \in Block
      BY <1>1, <3>1, <3>3 DEF Layout
    <3> HIDE DEF last
    <3>4. \A b \in Block : b # last => new[b] = cut[b]
      BY <1>4, <3>1, <3>2
    <3>5. CASE x = 0
      <4>1. ASSUME NEW i \in 1..Len(g) PROVE g[i] \in Block /\ g[i] # last
        <5>1. i + n \in 1..Len(s) /\ g[i] = s[i + n]
          BY <1>1, <1>3
        <5> QED
          BY <2>3, <3>3, <5>1
      <4>2. Threads(After(heads[0], n, next), g, new)
        BY <1>2, <3>4, <4>1, Rerouted
      <4> QED
        BY <1>6, <1>7, <3>5, <4>2
    <3>6. CASE x = pos
      <4>1. \A i \in 1..Len(w[pos]), j \in 1..Len(f) : w[pos][i] # f[j]
        <5>1. \A j \in 1..Len(f) : j \in 1..Len(s) /\ f[j] = s[j]
          BY <1>1, <1>3
        <5> QED
          BY <2>3, <5>1 DEF Layout
      <4>2. Threads(heads[pos], w[pos], cut) /\ Injective(w[pos])
        BY <1>1, <1>5, <2>3
      <4>3. Threads(heads[pos], Joined(w[pos], f), new)
        BY <1>2, <1>4, <3>1, <4>1, <4>2, JoinThread DEF last
      <4> QED
        BY <1>6, <1>7, <2>3, <3>6, <4>3
    <3>7. CASE x # 0 /\ x # pos
      <4>1. Threads(heads[x], w[x], cut)
        BY <1>5, <3>7
      <4>2. \A i \in 1..Len(w[x]) : new[w[x][i]] = cut[w[x][i]]
        BY <3>3, <3>4, <3>7
      <4>3. Threads(heads[x], w[x], new)
        BY <4>1, <4>2, Rerouted
      <4> QED
        BY <1>6, <1>7, <3>7, <4>3
    <3> QED
      BY <3>5, <3>6, <3>7
  <2> QED
    BY <2>1, <2>2, <2>3
<1>10. \A x, y \in DOMAIN heads : \A i \in 1..Len(u[x]), j \in 1..Len(u[y]) :
          u[x][i] = u[y][j] => x = y /\ i = j
  BY AppendApart DEF u
<1>11. Layout(u, H, new)
  BY <1>6, <1>9, <1>10 DEF Layout
<1> QED
  BY <1>11 DEF u, H, new

-----------------------------------------------------------------------------
(* The chains of the files and of the free blocks.                         *)

Laid(entries, free, next) == \E w : Layout(w, Heads(entries, free), next)

LEMMA HeadsFacts ==
  ASSUME NEW s, NEW free, Len(s) \in Nat
  PROVE  /\ DOMAIN Heads(s, free) = 0..Len(s) /\ 0 \in DOMAIN Heads(s, free)
         /\ Heads(s, free)[0] = free
         /\ \A i \in 1..Len(s) : i \in DOMAIN Heads(s, free) /\ Heads(s, free)[i] = s[i].first
BY DEF Heads

LEMMA SameHeads ==
  ASSUME NEW s, NEW t, NEW free, Len(s) \in Nat, Len(t) = Len(s),
         \A i \in 1..Len(s) : t[i].first = s[i].first
  PROVE  Heads(t, free) = Heads(s, free)
<1>1. ASSUME NEW i \in 0..Len(s) PROVE Heads(t, free)[i] = Heads(s, free)[i]
  BY <1>1, HeadsFacts
<1>2. Heads(t, free) = [i \in 0..Len(s) |-> Heads(t, free)[i]]
  BY DEF Heads
<1>3. Heads(s, free) = [i \in 0..Len(s) |-> Heads(s, free)[i]]
  BY DEF Heads
<1> QED
  BY <1>1, <1>2, <1>3

\* A formatted card has all its blocks in the free list.
LEMMA FormattedLaid ==
  ASSUME NEW next, next = [b \in Block |-> IF b = Blocks THEN NULL ELSE b + 1]
  PROVE  /\ Laid(<<>>, 1, next) /\ next \in [Block -> Link]
         /\ Chain(1, next) = [i \in 1..Blocks |-> i]
<1> DEFINE s == [i \in 1..Blocks |-> i]
           w == [x \in {0} |-> s]
<1>1. Blocks \in Nat /\ Blocks > 0 /\ Block = 1..Blocks /\ NULL = 0 /\ Link = 0..Blocks
  BY BlockFacts DEF Block, Link
<1>2. s \in Seq(Block) /\ Len(s) = Blocks /\ \A i \in 1..Blocks : s[i] = i
  BY <1>1
<1> HIDE DEF s
<1>3. Threads(1, s, next)
  <2>1. ASSUME NEW i \in 1..Len(s) PROVE next[s[i]] = IF i < Len(s) THEN s[i + 1] ELSE NULL
    <3>1. s[i] = i /\ i \in Block /\ next[i] = IF i = Blocks THEN NULL ELSE i + 1
      BY <1>1, <1>2
    <3>2. i # Blocks => i + 1 \in 1..Blocks /\ i < Len(s)
      BY <1>1, <1>2
    <3> QED
      BY <1>1, <1>2, <3>1, <3>2
  <2>2. s[1] = 1 /\ Len(s) # 0
    BY <1>1, <1>2
  <2> QED
    BY <1>2, <2>1, <2>2 DEF Threads
<1>4. Heads(<<>>, 1) = [x \in {0} |-> 1]
  BY DEF Heads
<1>5. Injective(s)
  BY <1>2 DEF Injective
<1>6. Layout(w, Heads(<<>>, 1), next)
  BY <1>3, <1>4, <1>5 DEF Layout, Injective
<1>7. Laid(<<>>, 1, next)
  BY <1>6 DEF Laid
<1>8. next \in [Block -> Link]
  BY <1>1
<1>9. Chain(1, next) = s
  BY <1>3, <1>5, ChainThread
<1> QED
  BY <1>7, <1>8, <1>9 DEF s

\* A new file has an empty chain.
LEMMA CreatedLaid ==
  ASSUME NEW s, NEW t, NEW free, NEW next, Len(s) \in Nat, Len(t) = Len(s) + 1,
         t[1].first = NULL, \A i \in 1..Len(s) : t[i + 1].first = s[i].first,
         Laid(s, free, next)
  PROVE  Laid(t, free, next)
<1>1. PICK w : Layout(w, Heads(s, free), next)
  BY DEF Laid
<1> DEFINE from(x) == IF x = 0 THEN 0 ELSE x - 1
           u == [x \in 0..Len(t) |-> IF x = 1 THEN <<>> ELSE w[from(x)]]
           H == Heads(s, free)
           K == Heads(t, free)
<1>2. DOMAIN H = 0..Len(s) /\ H[0] = free /\ \A i \in 1..Len(s) : H[i] = s[i].first
  BY HeadsFacts
<1>3. DOMAIN K = 0..Len(t) /\ K[0] = free /\ \A i \in 1..Len(t) : K[i] = t[i].first
  <2>1. Len(t) \in Nat
    OBVIOUS
  <2> QED
    BY <2>1, HeadsFacts
<1>4. ASSUME NEW x \in 0..Len(t), x # 1
      PROVE  from(x) \in DOMAIN H /\ K[x] = H[from(x)] /\ u[x] = w[from(x)]
  <2>1. CASE x = 0
    BY <1>2, <1>3, <2>1
  <2>2. CASE x # 0
    <3>1. x - 1 \in 1..Len(s) /\ x - 1 + 1 = x /\ x \in 1..Len(t)
      BY <1>4, <2>2
    <3> QED
      BY <1>2, <1>3, <1>4, <2>2, <3>1
  <2> QED
    BY <2>1, <2>2
<1>5. K[1] = NULL /\ u[1] = <<>>
  BY <1>3
<1>6. \A x, y \in 0..Len(t) : x # 1 /\ y # 1 /\ from(x) = from(y) => x = y
  OBVIOUS
<1> HIDE DEF from, u, H, K
<1>7. ASSUME NEW x \in DOMAIN K PROVE Threads(K[x], u[x], next)
  <2>1. CASE x = 1
    <3>1. <<>> \in Seq(Block) /\ Len(<<>>) = 0
      OBVIOUS
    <3>2. Threads(NULL, <<>>, next)
      BY <3>1 DEF Threads
    <3> QED
      BY <1>5, <2>1, <3>2
  <2>2. CASE x # 1
    BY <1>1, <1>3, <1>4, <2>2 DEF Layout, H
  <2> QED
    BY <2>1, <2>2
<1>8. ASSUME NEW x \in DOMAIN K, NEW y \in DOMAIN K, NEW i \in 1..Len(u[x]), NEW j \in 1..Len(u[y]),
             u[x][i] = u[y][j]
      PROVE  x = y /\ i = j
  <2>1. x # 1 /\ y # 1
    BY <1>5
  <2>2. /\ from(x) \in DOMAIN H /\ u[x] = w[from(x)]
        /\ from(y) \in DOMAIN H /\ u[y] = w[from(y)]
    BY <1>3, <1>4, <2>1
  <2>3. \A a, b \in DOMAIN H : \A m \in 1..Len(w[a]), n \in 1..Len(w[b]) :
          w[a][m] = w[b][n] => a = b /\ m = n
    BY <1>1 DEF Layout, H
  <2>4. from(x) = from(y) /\ i = j
    BY <1>8, <2>2, <2>3
  <2> QED
    BY <1>3, <1>6, <2>1, <2>4
<1>9. Layout(u, K, next)
  BY <1>7, <1>8 DEF Layout
<1> QED
  BY <1>9 DEF Laid, K

-----------------------------------------------------------------------------
(* The inductive invariant of the chains.                                  *)

FileEntry == [fd : Fds, first : Link, occupied : Pids \cup {-1}, name : {""}]
SavedFile == [fd : Fds, name : {""}, first : Link]

ChainInv ==
    /\ TypeOK /\ image.files \in Seq(SavedFile)
    /\ ondisk_addr = Same
    /\ Laid(files, free_head, next_block)
    /\ image.valid => /\ Laid(image.files, image.free, image.next)
                      /\ \A i \in DOMAIN image.files : image.files[i].first # NULL

LEMMA InitChains == Init => ChainInv
<1> SUFFICES ASSUME Init PROVE ChainInv
  OBVIOUS
<1>1. /\ state = "up" /\ files = <<>> /\ free_head = 1 /\ image = NoImage /\ ondisk_addr = Same
      /\ next_block = [b \in Block |-> IF b = Blocks THEN NULL ELSE b + 1]
      /\ disk = [a \in Link |-> NoData]
  BY DEF Init, Same
<1>2. Laid(<<>>, 1, next_block) /\ next_block \in [Block -> Link]
  BY <1>1, FormattedLaid
<1>3. NULL \in Link /\ 1 \in Link /\ Same \in [Block -> Link]
  BY BlockFacts DEF Link, Block, Same
<1>4. image.valid = FALSE /\ image.files = <<>> /\ image.next \in [Block -> Link] /\ image.free \in Link
  BY <1>1, <1>3 DEF NoImage
<1>5. files \in Seq(FileEntry) /\ image.files \in Seq(SavedFile)
  BY <1>1, <1>4
<1>6. disk \in [Link -> Data \cup {NoData}]
  BY <1>1
<1>7. TypeOK
  BY <1>1, <1>2, <1>3, <1>4, <1>5, <1>6 DEF TypeOK, FileEntry
<1> QED
  BY <1>1, <1>2, <1>4, <1>5, <1>7 DEF ChainInv

LEMMA ApartChains ==
  ASSUME ChainInv, FilesInv
  PROVE  FilesApart
<1>1. Disjoint(Heads(files, free_head), next_block)
  BY LayoutDisjoint DEF ChainInv, Laid
<1> QED
  BY <1>1 DEF ChainInv, FilesInv, FilesApart, ChainsDisjoint

-----------------------------------------------------------------------------
(* What append_file does.                                                  *)

\* Taking blocks from the free list leaves the files alone.
LEMMA CutOther ==
  ASSUME NEW w, NEW heads, NEW next \in [Block -> Link], Layout(w, heads, next),
         0 \in DOMAIN heads, NEW n \in 1..Len(w[0]), NEW x \in DOMAIN heads, x # 0
  PROVE  Threads(heads[x], w[x], [next EXCEPT ![w[0][n]] = NULL])
<1> DEFINE cut == [next EXCEPT ![w[0][n]] = NULL]
<1>1. Threads(heads[x], w[x], next) /\ \A i \in 1..Len(w[x]) : w[x][i] \in Block
  BY LayoutFacts, ThreadFacts
<1>2. \A i \in 1..Len(w[x]) : w[x][i] # w[0][n]
  BY DEF Layout
<1>3. \A i \in 1..Len(w[x]) : cut[w[x][i]] = next[w[x][i]]
  BY <1>1, <1>2
<1> HIDE DEF cut
<1>4. Threads(heads[x], w[x], cut)
  BY <1>1, <1>3, Rerouted
<1> QED
  BY <1>4 DEF cut

LEMMA TypedChains ==
  ASSUME ChainInv
  PROVE  /\ files \in Seq(FileEntry) /\ Len(files) \in Nat /\ next_block \in [Block -> Link]
         /\ image.files \in Seq(SavedFile) /\ Len(image.files) \in Nat
<1>1. files \in Seq(FileEntry) /\ next_block \in [Block -> Link] /\ image.files \in Seq(SavedFile)
  <2>1. TypeOK /\ image.files \in Seq(SavedFile)
    BY DEF ChainInv
  <2>2. files \in Seq(FileEntry)
    BY <2>1, Zenon DEF TypeOK, FileEntry
  <2>3. next_block \in [Block -> Link]
    BY <2>1, Zenon DEF TypeOK
  <2> QED
    BY <2>1, <2>2, <2>3
<1>2. Len(files) \in Nat
  <2> HIDE DEF FileEntry
  <2> QED
    BY <1>1
<1>3. Len(image.files) \in Nat
  BY <1>1
<1> QED
  BY <1>1, <1>2, <1>3

LEMMA AllocForm ==
  ASSUME ChainInv, NEW w, Layout(w, Heads(files, free_head), next_block), NEW n \in Nat, CanAlloc(n)
  PROVE  n \in 1..Len(w[0]) /\ AllocCut(n) = [next_block EXCEPT ![w[0][n]] = NULL]
<1>1. Len(files) \in Nat
  BY TypedChains
<1>2. Threads(free_head, w[0], next_block) /\ Len(w[0]) \in Nat
  <2>1. 0 \in DOMAIN Heads(files, free_head) /\ Heads(files, free_head)[0] = free_head
    BY <1>1, HeadsFacts
  <2> QED
    BY <2>1, LayoutFacts
<1>3. n > 0 /\ After(free_head, n - 1, next_block) # NULL
  BY DEF CanAlloc
<1>4. n - 1 \in Nat /\ n - 1 + 1 = n
  BY <1>3
<1>5. After(free_head, n - 1, next_block) = IF n - 1 < Len(w[0]) THEN w[0][n] ELSE NULL
  BY <1>2, <1>4, AfterThread
<1>6. n \in 1..Len(w[0]) /\ After(free_head, n - 1, next_block) = w[0][n]
  BY <1>2, <1>3, <1>4, <1>5
<1> QED
  BY <1>6 DEF AllocCut

\* The first n blocks of the free list have gone behind the chain pos.
Moved(w, n, pos) ==
    /\ n \in 1..Len(w[0]) /\ pos \in DOMAIN Heads(files, free_head)
    /\ Heads(files', free_head') = AppendHeads(Heads(files, free_head), w, next_block, n, pos)
    /\ next_block' = AppendLinks(Heads(files, free_head), w, next_block, n, pos)

\* k of the n blocks that sent is for have reached the card.
Sent(w, n, k, sent) ==
    /\ disk' = Stored(SubSeq(FirstOf(w[0], n), 1, k), sent)
    /\ state' = IF k < n THEN "hang" ELSE state

\* The reply to a write that was accepted.
Delivered(pos, sent) ==
    /\ reply'.call = "write" /\ reply'.value = 0
    /\ reply'.fd = files[pos].fd /\ reply'.data = sent

\* No blocks were moved, or none is told of.
Quiet == Operation' = Store!NoOp

LEMMA QuietReply ==
  ASSUME NEW pid, NEW call, NEW fd, NEW arg, NEW value, Reply(pid, call, fd, arg, value),
         call \notin {"write", "read"} \/ value # 0
  PROVE  Quiet
<1>1. reply'.call = call /\ reply'.value = value
  BY DEF Reply, Moves
<1> QED
  BY <1>1 DEF Quiet, Operation, Store!NoOp

LEMMA QuietWithout ==
  ASSUME reply' = NoReply \/ state' # "up"
  PROVE  Quiet
<1>1. CASE reply' = NoReply
  <2>1. reply'.call = "none"
    BY <1>1 DEF NoReply
  <2> QED
    BY <2>1 DEF Quiet, Operation, Store!NoOp
<1>2. CASE state' # "up"
  BY <1>2 DEF Quiet, Operation, Store!NoOp, Up
<1> QED
  BY <1>1, <1>2

Accepted(w, n, pos, k, sent) ==
    /\ Moved(w, n, pos) /\ Sent(w, n, k, sent) /\ Delivered(pos, sent)
    /\ files' = [files EXCEPT ![pos].first = IF files[pos].first = NULL THEN free_head ELSE @]

Refused(w, n) == Moved(w, n, 0) /\ UNCHANGED <<state, files, disk>>

LEMMA RefusedForm ==
  ASSUME ChainInv, NEW w, Layout(w, Heads(files, free_head), next_block), NEW n \in Nat,
         CanAlloc(n), free_head' = AllocHead(n), next_block' = AllocCut(n),
         UNCHANGED <<state, files, disk>>
  PROVE  Refused(w, n)
<1> DEFINE H == Heads(files, free_head)
<1>1. Len(files) \in Nat
  BY TypedChains
<1>2. DOMAIN H = 0..Len(files) /\ H[0] = free_head /\ 0 \in DOMAIN H
      /\ \A i \in 1..Len(files) : H[i] = files[i].first
  BY <1>1, HeadsFacts
<1>3. n \in 1..Len(w[0]) /\ AllocCut(n) = [next_block EXCEPT ![w[0][n]] = NULL]
  BY AllocForm
<1>4. next_block' = AppendLinks(H, w, next_block, n, 0)
  BY <1>3 DEF AppendLinks
<1>5. Heads(files', free_head') = AppendHeads(H, w, next_block, n, 0)
  <2> DEFINE K == Heads(files, free_head')
             G == AppendHeads(H, w, next_block, n, 0)
  <2>1. K = [x \in 0..Len(files) |-> K[x]] /\ K[0] = free_head'
        /\ \A i \in 1..Len(files) : K[i] = files[i].first
    BY <1>1, HeadsFacts DEF Heads
  <2>2. G = [x \in 0..Len(files) |-> G[x]] /\ G[0] = After(free_head, n, next_block)
        /\ \A i \in 1..Len(files) : G[i] = H[i]
    BY <1>2 DEF AppendHeads
  <2>3. free_head' = After(free_head, n, next_block)
    BY DEF AllocHead
  <2> HIDE DEF K, G, H
  <2>4. \A x \in 0..Len(files) : K[x] = G[x]
    BY <1>1, <1>2, <2>1, <2>2, <2>3
  <2>5. K = G
    BY <2>1, <2>2, <2>4
  <2> QED
    BY <2>5 DEF K, G, H
<1> QED
  BY <1>2, <1>3, <1>4, <1>5 DEF Refused, Moved

LEMMA AcceptedForm ==
  ASSUME ChainInv, NEW w, Layout(w, Heads(files, free_head), next_block), NEW n \in Nat,
         CanAlloc(n), NEW pos \in 1..Len(files), NEW first, first = files[pos].first,
         NEW linked, linked = IF first = NULL THEN AllocCut(n)
                              ELSE [AllocCut(n) EXCEPT ![LastBlock(first, AllocCut(n))] = free_head]
  PROVE  /\ first # NULL => Ends(first, AllocCut(n))
         /\ linked = AppendLinks(Heads(files, free_head), w, next_block, n, pos)
         /\ Targets(free_head, n, linked) = FirstOf(w[0], n) /\ Len(FirstOf(w[0], n)) = n
         /\ first = NULL <=> Len(w[pos]) = 0
<1> DEFINE H == Heads(files, free_head)
           f == FirstOf(w[0], n)
           cut == [next_block EXCEPT ![w[0][n]] = NULL]
<1>1. Len(files) \in Nat /\ next_block \in [Block -> Link]
  BY TypedChains
<1>2. /\ 0 \in DOMAIN H /\ H[0] = free_head /\ pos \in DOMAIN H /\ H[pos] = first /\ pos # 0
      /\ Layout(w, H, next_block)
  BY <1>1, HeadsFacts
<1>3. n \in 1..Len(w[0]) /\ AllocCut(n) = cut
  BY AllocForm
<1> HIDE DEF H
<1>4. /\ Threads(first, w[pos], next_block) /\ Injective(w[pos]) /\ w[pos] \in Seq(Block)
      /\ Threads(free_head, w[0], next_block) /\ Injective(w[0]) /\ w[0] \in Seq(Block)
  BY <1>2, LayoutFacts DEF H
<1>5. Threads(first, w[pos], cut)
  <2>1. Threads(H[pos], w[pos], cut)
    BY <1>1, <1>2, <1>3, CutOther, Zenon
  <2> QED
    BY <1>2, <2>1
<1>6. Threads(free_head, f, cut)
  BY <1>1, <1>3, <1>4, CutThread
<1>7. f \in Seq(Block) /\ Len(f) = n /\ \A i \in 1..n : f[i] = w[0][i]
  <2>1. n \in 0..Len(w[0])
    BY <1>3
  <2> QED
    BY <1>4, <2>1, FirstFacts
<1>8. Chain(first, cut) = w[pos] /\ Ends(first, cut)
  BY <1>4, <1>5, ChainThread
<1>9. first = NULL <=> Len(w[pos]) = 0
  <2>1. first = IF Len(w[pos]) = 0 THEN NULL ELSE w[pos][1]
    BY <1>4 DEF Threads
  <2>2. Len(w[pos]) \in Nat /\ \A i \in 1..Len(w[pos]) : w[pos][i] # NULL
    BY <1>4, ThreadFacts
  <2> QED
    BY <2>1, <2>2
<1>10. linked = AppendLinks(H, w, next_block, n, pos)
  <2>1. LastBlock(first, cut) = w[pos][Len(w[pos])]
    BY <1>8 DEF LastBlock, Last
  <2> QED
    BY <1>2, <1>3, <1>9, <2>1 DEF AppendLinks
<1>11. Threads(free_head, f, linked)
  <2>1. CASE first = NULL
    BY <1>3, <1>6, <2>1
  <2>2. CASE first # NULL
    <3> DEFINE l == w[pos][Len(w[pos])]
    <3>1. linked = [cut EXCEPT ![l] = free_head]
      <4>1. LastBlock(first, cut) = l
        BY <1>8 DEF LastBlock, Last
      <4> HIDE DEF cut
      <4> QED
        BY <1>3, <2>2, <4>1
    <3>2. Len(w[pos]) \in 1..Len(w[pos])
      BY <1>4, <1>9, <2>2
    <3>3. ASSUME NEW i \in 1..Len(f) PROVE f[i] # l /\ f[i] \in Block
      <4>1. i \in 1..Len(w[0]) /\ f[i] = w[0][i]
        BY <1>3, <1>7
      <4>2. w[0][i] # l
        BY <1>2, <3>2, <4>1 DEF Layout, H
      <4> QED
        BY <1>4, <4>1, <4>2
    <3>4. cut \in [Block -> Link]
      BY <1>1, BlockFacts
    <3> HIDE DEF cut, l, f
    <3>5. \A i \in 1..Len(f) : linked[f[i]] = cut[f[i]]
      BY <3>1, <3>3, <3>4
    <3> QED
      BY <1>6, <3>5 DEF Threads
  <2> QED
    BY <2>1, <2>2
<1> HIDE DEF f
<1>12. Targets(free_head, n, linked) = f
  <2>1. Reached(free_head, n, linked) = [i \in 1..n |-> f[i]]
    <3>1. Reached(free_head, n, linked) = [i \in 1..(IF n < Len(f) THEN n ELSE Len(f)) |-> f[i]]
      BY <1>11, ReachedThread
    <3> QED
      BY <1>7, <3>1
  <2>2. [i \in 1..n |-> f[i]] = f
    BY <1>7
  <2>3. Reached(free_head, n, linked) = f /\ DOMAIN f = 1..n
    BY <1>7, <2>1, <2>2
  <2>4. Targets(free_head, n, linked) = [i \in DOMAIN f |-> ondisk_addr[f[i]]]
    BY <2>3 DEF Targets
  <2>5. \A i \in DOMAIN f : ondisk_addr[f[i]] = f[i]
    BY <1>7, <2>3 DEF ChainInv, Same
  <2> QED
    BY <2>2, <2>3, <2>4, <2>5
<1> QED
  BY <1>3, <1>7, <1>8, <1>9, <1>10, <1>12 DEF f, H

LEMMA EntryFields ==
  ASSUME NEW D, NEW F, NEW O, NEW N, NEW r \in [fd : D, first : F, occupied : O, name : N], NEW v
  PROVE  /\ [r EXCEPT !.first = v].first = v /\ [r EXCEPT !.occupied = v].first = r.first
         /\ v \in F => [r EXCEPT !.first = v] \in [fd : D, first : F, occupied : O, name : N]
         /\ v \in O => [r EXCEPT !.occupied = v] \in [fd : D, first : F, occupied : O, name : N]
         /\ [r EXCEPT !.first = v].fd = r.fd /\ [r EXCEPT !.occupied = v].fd = r.fd
         /\ r.fd \in D /\ r.first \in F /\ r.occupied \in O /\ r.name \in N
OBVIOUS

\* An append is refused before or after it took its blocks, or moves them to the
\* end of the file and sends them to the card, up to the first failure.
LEMMA WriteForm ==
  ASSUME ChainInv, FilesInv, NEW w, Layout(w, Heads(files, free_head), next_block),
         NEW pid, NEW fd, NEW n \in Nat, NEW buf \in [1..n -> Data], _write(pid, fd, buf)
  PROVE  /\ UNCHANGED <<ondisk_addr, image>>
         /\ \/ Quiet /\ UNCHANGED <<state, next_block, free_head, files, disk>>
            \/ Quiet /\ Refused(w, n)
            \/ \E pos \in 1..Len(files), k \in 0..n, sent \in [1..n -> Data] :
                  Accepted(w, n, pos, k, sent)
<1>1. Len(buf) = n /\ DOMAIN buf = 1..n
  OBVIOUS
<1>2. UNCHANGED <<ondisk_addr, image>>
  BY DEF _write, memory
<1>3. CASE ~CanAlloc(n)
  <2>1. Reply(pid, "write", fd, buf, -1) /\ UNCHANGED <<state, memory, disk>>
    BY <1>1, <1>3, Zenon DEF _write
  <2>2. Quiet
    BY <2>1, QuietReply
  <2> QED
    BY <1>2, <2>1, <2>2 DEF memory
<1>4. CASE CanAlloc(n) /\ (~Found(fd) \/ ~Permitted(pid, fd))
  <2>1. /\ free_head' = AllocHead(n) /\ next_block' = AllocCut(n)
        /\ UNCHANGED <<state, files, disk>>
        /\ Reply(pid, "write", fd, buf, IF Found(fd) THEN -3 ELSE -2)
    BY <1>1, <1>4 DEF _write
  <2>2. Quiet
    <3>1. (IF Found(fd) THEN -3 ELSE -2) # 0
      OBVIOUS
    <3> QED
      BY <2>1, <3>1, QuietReply
  <2> QED
    BY <1>2, <1>4, <2>1, <2>2, RefusedForm
<1>5. CASE CanAlloc(n) /\ Found(fd) /\ Permitted(pid, fd)
  <2>1. IsList(files)
    BY DEF FilesInv
  <2>2. PICK pos : pos = Position(fd)
    OBVIOUS
  <2>3. Len(files) \in Nat /\ files \in Seq(FileEntry) /\ DOMAIN files = 1..Len(files)
    BY TypedChains
  <2>4. pos \in 1..Len(files)
    BY <1>5, <2>1, <2>2, <2>3, PositionFacts
  <2> DEFINE first == files[pos].first
             linked == IF first = NULL THEN AllocCut(n)
                       ELSE [AllocCut(n) EXCEPT ![LastBlock(first, AllocCut(n))] = free_head]
             f == FirstOf(w[0], n)
             addrs == Targets(free_head, n, linked)
  <2>5. Entry(fd).first = first
    BY <2>2 DEF Entry
  <2>6. /\ first # NULL => Ends(first, AllocCut(n))
        /\ linked = AppendLinks(Heads(files, free_head), w, next_block, n, pos)
        /\ addrs = f /\ Len(f) = n
        /\ first = NULL <=> Len(w[pos]) = 0
    <3> HIDE DEF first, linked, f, addrs
    <3>1. /\ first = files[pos].first
          /\ linked = IF first = NULL THEN AllocCut(n)
                      ELSE [AllocCut(n) EXCEPT ![LastBlock(first, AllocCut(n))] = free_head]
      BY DEF first, linked
    <3>2. /\ first # NULL => Ends(first, AllocCut(n))
          /\ linked = AppendLinks(Heads(files, free_head), w, next_block, n, pos)
          /\ Targets(free_head, n, linked) = FirstOf(w[0], n) /\ Len(FirstOf(w[0], n)) = n
          /\ first = NULL <=> Len(w[pos]) = 0
      BY <1>5, <2>4, <3>1, AcceptedForm
    <3> QED
      BY <3>2 DEF f, addrs
  <2>7. /\ free_head' = AllocHead(n) /\ next_block' = linked
        /\ files' = [files EXCEPT ![pos].first = IF first = NULL THEN free_head ELSE @]
        /\ \E k \in 0..Len(addrs), sent \in Received(buf) :
              /\ disk' = Stored(SubSeq(addrs, 1, k), sent)
              /\ state' = IF k < Len(addrs) THEN "hang" ELSE IF k < n THEN "wild" ELSE state
              /\ Moves(pid, "write", fd, buf, 0, sent)
    <3>1. ~(~Found(fd) \/ ~Permitted(pid, fd)) /\ ~(first # NULL /\ ~Ends(first, AllocCut(n)))
      BY <1>5, <2>6
    <3> DEFINE fails == first # NULL /\ ~Ends(first, AllocCut(n))
               sending == \E k \in 0..Len(addrs), sent \in Received(buf) :
                 /\ disk' = Stored(SubSeq(addrs, 1, k), sent)
                 /\ state' = IF k < Len(addrs) THEN "hang" ELSE IF k < n THEN "wild" ELSE state
                 /\ Moves(pid, "write", fd, buf, 0, sent)
    <3>2. /\ free_head' = AllocHead(n)
          /\ IF fails THEN TRUE
             ELSE /\ next_block' = linked
                  /\ files' = [files EXCEPT ![pos].first = IF first = NULL THEN free_head ELSE @]
                  /\ sending
      BY <1>1, <1>5, <2>2, <2>5, Zenon DEF _write
    <3> QED
      BY <3>1, <3>2
  <2> HIDE DEF linked, addrs, first, f
  <2>8. files' = [files EXCEPT ![pos].first = IF files[pos].first = NULL THEN free_head ELSE files[pos].first]
    BY <2>7 DEF first
  <2>9. PICK k \in 0..n, sent \in [1..n -> Data] :
              /\ disk' = Stored(SubSeq(f, 1, k), sent)
              /\ state' = IF k < n THEN "hang" ELSE state
              /\ Moves(pid, "write", fd, buf, 0, sent)
    <3>1. Received(buf) \subseteq [1..n -> Data]
      BY <1>1 DEF Received
    <3>2. PICK k \in 0..n, sent \in Received(buf) :
              /\ disk' = Stored(SubSeq(f, 1, k), sent)
              /\ state' = IF k < n THEN "hang" ELSE IF k < n THEN "wild" ELSE state
              /\ Moves(pid, "write", fd, buf, 0, sent)
      BY <2>6, <2>7
    <3> QED
      BY <3>1, <3>2
  <2>10. Moved(w, n, pos)
    <3> DEFINE H == Heads(files, free_head)
               K == Heads(files', free_head')
               G == AppendHeads(H, w, next_block, n, pos)
    <3>1. DOMAIN H = 0..Len(files) /\ H[0] = free_head /\ 0 \in DOMAIN H /\ pos \in DOMAIN H
          /\ \A i \in 1..Len(files) : H[i] = files[i].first
      BY <2>3, <2>4, HeadsFacts
    <3>2. n \in 1..Len(w[0])
      BY <1>5, AllocForm
    <3>3. /\ Len(files') = Len(files)
          /\ files'[pos].first = IF first = NULL THEN free_head ELSE first
          /\ \A i \in 1..Len(files) : i # pos => files'[i].first = files[i].first
      <4>1. files' = [files EXCEPT ![pos] = [files[pos] EXCEPT !.first = IF first = NULL THEN free_head ELSE first]]
        BY <2>8 DEF first
      <4>2. files' \in [1..Len(files) -> {files'[i] : i \in 1..Len(files)}]
        BY <2>3, <4>1
      <4>3. Len(files') = Len(files)
        BY <2>3, <4>2
      <4>4. \A i \in 1..Len(files) : i # pos => files'[i] = files[i]
        BY <2>3, <4>1
      <4>5. files'[pos] = [files[pos] EXCEPT !.first = IF first = NULL THEN free_head ELSE first]
        BY <2>3, <2>4, <4>1
      <4>6. files'[pos].first = IF first = NULL THEN free_head ELSE first
        <5>1. files[pos] \in FileEntry
          BY <2>3, <2>4
        <5>2. \A v : [files[pos] EXCEPT !.first = v].first = v
          BY <5>1, EntryFields, Zenon DEF FileEntry
        <5> QED
          BY <4>5, <5>2
      <4>7. \A i \in 1..Len(files) : i # pos => files'[i].first = files[i].first
        BY <4>4
      <4> QED
        BY <4>3, <4>6, <4>7
    <3>4. K = [x \in 0..Len(files) |-> K[x]] /\ K[0] = free_head'
          /\ \A i \in 1..Len(files) : K[i] = files'[i].first
      BY <2>3, <3>3, HeadsFacts DEF Heads
    <3>5. /\ G = [x \in 0..Len(files) |-> G[x]]
          /\ G[0] = After(free_head, n, next_block)
          /\ G[pos] = IF Len(w[pos]) = 0 THEN free_head ELSE H[pos]
          /\ \A i \in 1..Len(files) : i # pos => G[i] = H[i]
      <4> HIDE DEF H
      <4>1. \A x \in 0..Len(files) :
               G[x] = IF x = 0 THEN After(H[0], n, next_block)
                      ELSE IF x = pos /\ Len(w[pos]) = 0 THEN H[0] ELSE H[x]
        BY <3>1 DEF AppendHeads
      <4>2. G = [x \in 0..Len(files) |-> G[x]]
        BY <3>1 DEF AppendHeads
      <4> HIDE DEF G
      <4>3. 0 \in 0..Len(files) /\ pos \in 0..Len(files) /\ pos # 0
            /\ \A i \in 1..Len(files) : i \in 0..Len(files) /\ i # 0
        BY <2>3, <2>4
      <4> QED
        BY <3>1, <4>1, <4>2, <4>3
    <3>6. free_head' = After(free_head, n, next_block)
      BY <2>7 DEF AllocHead
    <3>7. H[pos] = first
      BY <2>4, <3>1 DEF first
    <3> HIDE DEF K, G, H
    <3>8. ASSUME NEW x \in 0..Len(files) PROVE K[x] = G[x]
      <4>1. CASE x = 0
        BY <3>4, <3>5, <3>6, <4>1
      <4>2. CASE x = pos
        BY <2>4, <2>6, <3>3, <3>4, <3>5, <3>7, <4>2
      <4>3. CASE x # 0 /\ x # pos
        <5>1. x \in 1..Len(files)
          BY <2>3, <4>3
        <5> QED
          BY <3>1, <3>3, <3>4, <3>5, <4>3, <5>1
      <4> QED
        BY <4>1, <4>2, <4>3
    <3>9. K = G
      BY <3>4, <3>5, <3>8
    <3>10. next_block' = AppendLinks(H, w, next_block, n, pos)
      BY <2>6, <2>7 DEF H
    <3> QED
      BY <3>1, <3>2, <3>9, <3>10 DEF Moved, K, G, H
  <2>11. Delivered(pos, sent)
    <3>1. files[pos].fd = fd
      BY <1>5, <2>1, <2>2, PositionFacts
    <3> QED
      BY <2>9, <3>1 DEF Delivered, Moves
  <2>12. Accepted(w, n, pos, k, sent)
    BY <2>8, <2>9, <2>10, <2>11 DEF Accepted, Sent, f
  <2> QED
    BY <1>2, <2>4, <2>12
<1> QED
  BY <1>3, <1>4, <1>5

-----------------------------------------------------------------------------
(* Every call but delete keeps the chains apart.                           *)

LEMMA ListChanged ==
  ASSUME ChainInv, UNCHANGED <<state, next_block, ondisk_addr, free_head, disk, image>>,
         files' \in Seq(FileEntry), Laid(files', free_head, next_block)
  PROVE  ChainInv'
<1>1. TypeOK
  BY DEF ChainInv
<1>2. TypeOK'
  BY <1>1, Zenon DEF TypeOK, FileEntry
<1> QED
  BY <1>2 DEF ChainInv, Laid

LEMMA CreateChains ==
  ASSUME ChainInv, FilesInv, NEW pid, NEW name, _create(pid, name)
  PROVE  ChainInv'
<1>1. UNCHANGED <<state, next_block, ondisk_addr, free_head, disk, image>>
  BY Zenon DEF _create
<1>2. files \in Seq(FileEntry) /\ Len(files) \in Nat /\ Laid(files, free_head, next_block)
  BY TypedChains DEF ChainInv
<1>3. CASE UNCHANGED files
  BY <1>1, <1>2, <1>3, ListChanged
<1>4. CASE ~UNCHANGED files
  <2> DEFINE r == [fd |-> FreshFd, first |-> NULL, occupied |-> -1, name |-> ""]
  <2>1. files' = <<r>> \o files
    BY <1>4, Zenon DEF _create
  <2>a. Len(files) < MaxFiles
    BY Zenon DEF _create
  <2>2. FreshFd \in Fds
    <3>1. IsList(files)
      BY DEF FilesInv
    <3>2. FreshFd \in 1..(Len(files) + 1)
      BY <3>1, FreshNumber
    <3>3. MaxFiles \in Nat
      BY ConstantsAssumption, Zenon
    <3> QED
      BY <1>2, <2>a, <3>2, <3>3 DEF Fds
  <2>3. r \in FileEntry /\ r.first = NULL
    <3>1. NULL \in Link /\ -1 \in Pids \cup {-1}
      BY BlockFacts
    <3> QED
      BY <2>2, <3>1 DEF FileEntry
  <2> HIDE DEF r
  <2>4. <<r>> \in Seq(FileEntry) /\ Len(<<r>>) = 1 /\ <<r>>[1] = r
    <3> HIDE DEF FileEntry
    <3> QED
      BY <2>3
  <2>5. /\ files' \in Seq(FileEntry) /\ Len(files') = Len(files) + 1
        /\ files'[1] = r /\ \A i \in 1..Len(files) : files'[i + 1] = files[i]
    <3> DEFINE one == <<r>>
    <3>1. files' = one \o files /\ one \in Seq(FileEntry) /\ Len(one) = 1 /\ one[1] = r
      BY <2>1, <2>4
    <3> HIDE DEF one, FileEntry
    <3>2. /\ files' \in Seq(FileEntry) /\ Len(files') = 1 + Len(files)
          /\ \A i \in 1..Len(one) + Len(files) :
                files'[i] = IF i <= Len(one) THEN one[i] ELSE files[i - Len(one)]
      BY <1>2, <3>1, ConcatProperties, Zenon
    <3>3. ASSUME NEW i \in 1..Len(files) PROVE files'[i + 1] = files[i]
      <4>1. i + 1 \in 1..Len(one) + Len(files) /\ ~(i + 1 <= Len(one)) /\ i + 1 - Len(one) = i
        BY <1>2, <3>1
      <4> QED
        BY <3>2, <4>1
    <3>4. files'[1] = one[1]
      <4>1. 1 \in 1..Len(one) + Len(files) /\ 1 <= Len(one)
        BY <1>2, <3>1
      <4> QED
        BY <3>2, <4>1
    <3> QED
      BY <1>2, <3>1, <3>2, <3>3, <3>4
  <2>6. Laid(files', free_head, next_block)
    BY <1>2, <2>3, <2>5, CreatedLaid
  <2> QED
    BY <1>1, <2>5, <2>6, ListChanged
<1> QED
  BY <1>3, <1>4

LEMMA OwnerChains ==
  ASSUME ChainInv, FilesInv, NEW call, NEW pid, NEW fd, NEW name, NEW owner \in Pids \cup {-1},
         SetOccupied(call, pid, fd, name, owner),
         UNCHANGED <<state, next_block, ondisk_addr, free_head, disk, image>>
  PROVE  ChainInv'
<1>1. files \in Seq(FileEntry) /\ Len(files) \in Nat /\ Laid(files, free_head, next_block)
      /\ DOMAIN files = 1..Len(files)
  <2>1. files \in Seq(FileEntry) /\ Len(files) \in Nat /\ Laid(files, free_head, next_block)
    BY TypedChains DEF ChainInv
  <2> QED
    BY <2>1
<1>2. CASE UNCHANGED files
  BY <1>1, <1>2, ListChanged
<1>3. CASE ~UNCHANGED files
  <2>1. Found(fd) /\ files' = [files EXCEPT ![Position(fd)].occupied = owner]
    BY <1>3 DEF SetOccupied
  <2>2. PICK pos : pos = Position(fd)
    OBVIOUS
  <2>3. pos \in 1..Len(files)
    BY <1>1, <2>1, <2>2, PositionFacts DEF FilesInv
  <2>4. files' = [files EXCEPT ![pos] = [files[pos] EXCEPT !.occupied = owner]]
    BY <2>1, <2>2
  <2> DEFINE e == [files[pos] EXCEPT !.occupied = owner]
  <2>5. files[pos] \in FileEntry
    BY <1>1, <2>3
  <2>6. e \in FileEntry /\ e.first = files[pos].first
    BY <2>5, EntryFields, Zenon DEF FileEntry
  <2> HIDE DEF e, FileEntry
  <2>7. files' \in Seq(FileEntry) /\ Len(files') = Len(files)
        /\ \A i \in 1..Len(files) : files'[i] = IF i = pos THEN e ELSE files[i]
    <3>1. files' = [files EXCEPT ![pos] = e]
      BY <2>4 DEF e
    <3> QED
      BY <1>1, <2>3, <2>6, <3>1
  <2>8. \A i \in 1..Len(files) : files'[i].first = files[i].first
    BY <2>6, <2>7
  <2>9. Heads(files', free_head) = Heads(files, free_head)
    BY <1>1, <2>7, <2>8, SameHeads
  <2>10. Laid(files', free_head, next_block)
    BY <1>1, <2>9 DEF Laid
  <2> QED
    BY <2>7, <2>10, ListChanged
<1> QED
  BY <1>2, <1>3

\* The card d has what was sent in the first k blocks of s.
Wrote(d, s, k, sent) ==
    /\ \A i \in 1..k : d[s[i]] = sent[i]
    /\ \A a \in Link : (\A i \in 1..k : s[i] # a) => d[a] = disk[a]

\* The card after k of n blocks have been sent to different places.
LEMMA StoredFacts ==
  ASSUME NEW s \in Seq(Block), Injective(s), NEW n \in 1..Len(s), NEW k \in 0..n,
         NEW sent \in [1..n -> Data], disk \in [Link -> Data \cup {NoData}],
         NEW d, d = Stored(SubSeq(FirstOf(s, n), 1, k), sent)
  PROVE  d \in [Link -> Data \cup {NoData}] /\ Wrote(d, s, k, sent)
<1> DEFINE f == FirstOf(s, n)
           g == SubSeq(f, 1, k)
<1>1. n \in Nat /\ k \in Nat /\ k <= n /\ Len(s) \in Nat /\ n \in 0..Len(s)
  OBVIOUS
<1>2. f \in Seq(Block) /\ Len(f) = n /\ \A i \in 1..n : f[i] = s[i]
  BY <1>1, FirstFacts
<1> HIDE DEF f
<1>3. g \in Seq(Block) /\ Len(g) = k /\ \A i \in 1..k : g[i] = s[i]
  <2>1. g = [i \in 1..k |-> f[i]]
    BY <1>1
  <2> HIDE DEF g
  <2>2. \A i \in 1..k : i \in 1..n /\ i \in 1..Len(s)
    BY <1>1
  <2>3. \A i \in 1..k : g[i] = s[i] /\ s[i] \in Block
    BY <1>2, <2>1, <2>2
  <2>4. g = [i \in 1..k |-> g[i]] /\ \A i \in 1..k : g[i] \in Block
    BY <2>1, <2>3
  <2> QED
    BY <1>1, <2>3, <2>4, ListedFunction
<1> DEFINE place(a) == CHOOSE i \in DOMAIN g : g[i] = a /\ \A j \in DOMAIN g : g[j] = a => j <= i
<1>4. d = [a \in Link |-> IF a \in ToSet(g) THEN sent[place(a)] ELSE disk[a]]
  BY DEF Stored, f
<1> HIDE DEF g
<1>5. DOMAIN g = 1..k
  BY <1>3
<1>6. \A i, j \in 1..k : g[i] = g[j] => i = j
  <2>1. \A i \in 1..k : i \in 1..Len(s)
    BY <1>1
  <2> QED
    BY <1>3, <2>1 DEF Injective
<1>7. ASSUME NEW i \in 1..k PROVE place(g[i]) = i
  <2>1. \A j \in DOMAIN g : g[j] = g[i] => j = i
    BY <1>5, <1>6
  <2>2. i \in DOMAIN g /\ i <= i
    BY <1>5
  <2> QED
    BY <2>1, <2>2
<1> HIDE DEF place
<1>8. \A a : a \in ToSet(g) <=> \E i \in 1..k : g[i] = a
  BY <1>5 DEF ToSet
<1>9. ASSUME NEW i \in 1..k PROVE d[s[i]] = sent[i]
  <2>1. s[i] \in Link /\ s[i] = g[i] /\ g[i] \in ToSet(g)
    BY <1>1, <1>3, <1>8, BlockFacts
  <2> QED
    BY <1>4, <1>7, <2>1
<1>10. ASSUME NEW a \in Link, \A i \in 1..k : s[i] # a PROVE d[a] = disk[a]
  BY <1>3, <1>4, <1>8, <1>10
<1>11. ASSUME NEW a \in Link PROVE d[a] \in Data \cup {NoData}
  <2>1. CASE \A i \in 1..k : s[i] # a
    BY <1>10, <2>1
  <2>2. CASE \E i \in 1..k : s[i] = a
    <3>1. PICK i \in 1..k : s[i] = a
      BY <2>2
    <3>2. i \in 1..n
      BY <1>1
    <3> QED
      BY <1>9, <3>1, <3>2
  <2> QED
    BY <2>1, <2>2
<1>12. d \in [Link -> Data \cup {NoData}]
  BY <1>4, <1>11
<1> QED
  BY <1>9, <1>10, <1>12 DEF Wrote

\* The links stay links.
LEMMA MovedLinks ==
  ASSUME ChainInv, NEW w, Layout(w, Heads(files, free_head), next_block),
         NEW n, NEW pos, Moved(w, n, pos)
  PROVE  /\ next_block' \in [Block -> Link] /\ free_head' \in Link
         /\ Layout(AppendChains(Heads(files, free_head), w, n, pos),
                   Heads(files', free_head'), next_block')
<1> DEFINE H == Heads(files, free_head)
<1>1. next_block \in [Block -> Link] /\ Len(files) \in Nat
  BY TypedChains
<1>2. 0 \in DOMAIN H /\ H[0] = free_head
  BY <1>1, HeadsFacts
<1>3. /\ n \in 1..Len(w[0]) /\ pos \in DOMAIN H
      /\ Heads(files', free_head') = AppendHeads(H, w, next_block, n, pos)
      /\ next_block' = AppendLinks(H, w, next_block, n, pos)
  BY DEF Moved
<1> HIDE DEF H
<1>a. Layout(w, H, next_block)
  BY DEF H
<1>4. Layout(AppendChains(H, w, n, pos), Heads(files', free_head'), next_block')
  BY <1>1, <1>2, <1>3, <1>a, AppendLayout
<1>5. Threads(free_head, w[0], next_block) /\ Len(w[0]) \in Nat
  BY <1>2, <1>a, LayoutFacts
<1>6. free_head \in Link /\ NULL \in Link
  BY <1>5, ThreadFacts, BlockFacts DEF Threads
<1>7. next_block' \in [Block -> Link]
  BY <1>1, <1>2, <1>3, <1>6 DEF AppendLinks
<1>8. free_head' \in Link
  <2>1. n \in Nat
    BY <1>3, <1>5
  <2>2. After(free_head, n, next_block) = IF n < Len(w[0]) THEN w[0][n + 1] ELSE NULL
    BY <1>5, <2>1, AfterThread
  <2>3. After(free_head, n, next_block) \in Link
    <3>1. n < Len(w[0]) => n + 1 \in 1..Len(w[0])
      BY <1>5, <2>1
    <3> QED
      BY <1>5, <1>6, <2>2, <3>1, ThreadFacts, BlockFacts
  <2>4. Heads(files', free_head')[0] = free_head'
    BY DEF Heads
  <2>5. AppendHeads(H, w, next_block, n, pos)[0] = After(free_head, n, next_block)
    BY <1>2 DEF AppendHeads
  <2> QED
    BY <1>3, <2>3, <2>4, <2>5
<1> QED
  BY <1>4, <1>7, <1>8 DEF H

LEMMA WriteChains ==
  ASSUME ChainInv, FilesInv, NEW pid, NEW fd, NEW n \in Nat, NEW buf \in [1..n -> Data],
         _write(pid, fd, buf)
  PROVE  ChainInv'
<1>1. PICK w : Layout(w, Heads(files, free_head), next_block)
  BY DEF ChainInv, Laid
<1>2. /\ UNCHANGED <<ondisk_addr, image>>
      /\ \/ Quiet /\ UNCHANGED <<state, next_block, free_head, files, disk>>
         \/ Quiet /\ Refused(w, n)
         \/ \E pos \in 1..Len(files), k \in 0..n, sent \in [1..n -> Data] :
               Accepted(w, n, pos, k, sent)
  BY <1>1, WriteForm
<1>3. /\ files \in Seq(FileEntry) /\ Len(files) \in Nat /\ next_block \in [Block -> Link]
      /\ Laid(files, free_head, next_block)
  BY TypedChains DEF ChainInv
<1>4. CASE UNCHANGED <<state, next_block, free_head, files, disk>>
  BY <1>2, <1>3, <1>4, ListChanged
<1>5. ASSUME NEW pos, Moved(w, n, pos), files' \in Seq(FileEntry),
             disk' \in [Link -> Data \cup {NoData}], state' \in {"up", "hang", "wild"}
      PROVE  ChainInv'
  <2>1. /\ next_block' \in [Block -> Link] /\ free_head' \in Link
        /\ Laid(files', free_head', next_block')
    BY <1>1, <1>5, MovedLinks DEF Laid
  <2>2. TypeOK
    BY DEF ChainInv
  <2>3. TypeOK'
    BY <1>2, <1>5, <2>1, <2>2, Zenon DEF TypeOK, FileEntry
  <2> QED
    BY <1>2, <2>1, <2>3 DEF ChainInv, Laid
<1>6. disk \in [Link -> Data \cup {NoData}] /\ state \in {"up", "hang", "wild"} /\ free_head \in Link
  <2>1. TypeOK
    BY DEF ChainInv
  <2> QED
    BY <2>1, Zenon DEF TypeOK
<1>7. CASE Refused(w, n)
  BY <1>3, <1>5, <1>6, <1>7 DEF Refused
<1>8. ASSUME NEW pos \in 1..Len(files), NEW k \in 0..n, NEW sent \in [1..n -> Data],
             Accepted(w, n, pos, k, sent)
      PROVE  ChainInv'
  <2>1. /\ Moved(w, n, pos) /\ Sent(w, n, k, sent) /\ n \in 1..Len(w[0])
        /\ files' = [files EXCEPT ![pos].first = IF files[pos].first = NULL THEN free_head ELSE files[pos].first]
    BY <1>8 DEF Accepted, Moved
  <2>2. files' \in Seq(FileEntry)
    <3> DEFINE v == IF files[pos].first = NULL THEN free_head ELSE files[pos].first
               e == [files[pos] EXCEPT !.first = v]
    <3>1. files[pos] \in FileEntry
      BY <1>3
    <3>2. files[pos].first \in Link
      BY <3>1, EntryFields, Zenon DEF FileEntry
    <3>3. v \in Link
      BY <1>6, <3>2
    <3>4. files' = [files EXCEPT ![pos] = e]
      BY <2>1
    <3> HIDE DEF v
    <3>5. e \in FileEntry
      BY <3>1, <3>3, EntryFields, Zenon DEF FileEntry
    <3> HIDE DEF e, FileEntry
    <3> QED
      BY <1>3, <3>4, <3>5
  <2>3. w[0] \in Seq(Block) /\ Injective(w[0])
    <3>1. 0 \in DOMAIN Heads(files, free_head)
      BY <1>3, HeadsFacts
    <3> QED
      BY <1>1, <3>1, LayoutFacts
  <2>4. disk' \in [Link -> Data \cup {NoData}]
    BY <1>6, <2>1, <2>3, StoredFacts DEF Sent
  <2>5. state' \in {"up", "hang", "wild"}
    BY <1>6, <2>1 DEF Sent
  <2> QED
    BY <1>5, <2>1, <2>2, <2>4, <2>5
<1> QED
  BY <1>2, <1>4, <1>7, <1>8

LEMMA SavedFields ==
  /\ \A e \in SavedFile : e.fd \in Fds /\ e.name \in {""} /\ e.first \in Link
  /\ \A fd \in Fds, name \in {""}, first \in Link :
        /\ [fd |-> fd, name |-> name, first |-> first] \in SavedFile
        /\ [fd |-> fd, name |-> name, first |-> first].first = first
        /\ [fd |-> fd, name |-> name, first |-> first, occupied |-> -1] \in FileEntry
        /\ [fd |-> fd, name |-> name, first |-> first, occupied |-> -1].first = first
<1>1. -1 \in Pids \cup {-1}
  OBVIOUS
<1> QED
  BY <1>1, Zenon DEF SavedFile, FileEntry

\* A checkpoint has the chains of the memory it is taken from.
LEMMA CheckpointChains ==
  ASSUME ChainInv, checkpoint_fs
  PROVE  ChainInv'
<1>1. /\ UNCHANGED <<next_block, ondisk_addr, free_head, files, disk>>
      /\ state' \in {"up", "hang", "wild"}
  <2>1. state \in {"up", "hang", "wild"}
    BY Zenon DEF ChainInv, TypeOK
  <2> QED
    BY <2>1, Zenon DEF checkpoint_fs, memory
<1>2. /\ files \in Seq(FileEntry) /\ Len(files) \in Nat /\ next_block \in [Block -> Link]
      /\ Laid(files, free_head, next_block) /\ free_head \in Link /\ ondisk_addr = Same /\ TypeOK
  <2>1. TypeOK
    BY DEF ChainInv
  <2>2. free_head \in Link
    BY <2>1, Zenon DEF TypeOK
  <2> QED
    BY <2>1, <2>2, TypedChains DEF ChainInv
<1>3. CASE UNCHANGED image
  <2>1. TypeOK'
    BY <1>1, <1>2, <1>3, Zenon DEF TypeOK
  <2> QED
    BY <1>1, <1>3, <2>1 DEF ChainInv, Laid
<1>4. CASE ~UNCHANGED image
  <2> DEFINE saved(i) == [fd |-> files[i].fd, name |-> files[i].name,
                          first |-> ondisk_addr[files[i].first]]
  <2>1. /\ ~\E i \in DOMAIN files : files[i].first = NULL
        /\ image' = [free |-> free_head, next |-> next_block, valid |-> TRUE,
                     files |-> [i \in DOMAIN files |-> saved(i)]]
    BY <1>4, Zenon DEF checkpoint_fs
  <2>2. DOMAIN files = 1..Len(files)
    BY <1>2
  <2>3. /\ image'.free = free_head /\ image'.next = next_block /\ image'.valid = TRUE
        /\ image'.files = [i \in 1..Len(files) |-> saved(i)]
    BY <2>1, <2>2
  <2>4. ASSUME NEW i \in 1..Len(files)
        PROVE  saved(i) \in SavedFile /\ saved(i).first = files[i].first /\ files[i].first # NULL
    <3>1. files[i] \in FileEntry
      BY <1>2, <2>4
    <3>2. files[i].fd \in Fds /\ files[i].name \in {""} /\ files[i].first \in Link
      BY <3>1, EntryFields, Zenon DEF FileEntry
    <3>3. files[i].first # NULL
      BY <2>1, <2>2
    <3>4. files[i].first \in Block
      <4>1. \A a \in Link : a # NULL => a \in Block
        BY BlockFacts DEF Block, Link
      <4> QED
        BY <3>2, <3>3, <4>1, Zenon
    <3>5. ondisk_addr[files[i].first] = files[i].first
      BY <1>2, <3>4 DEF Same
    <3>6. saved(i) = [fd |-> files[i].fd, name |-> files[i].name, first |-> files[i].first]
      BY <3>5
    <3> DEFINE e == [fd |-> files[i].fd, name |-> files[i].name, first |-> files[i].first]
    <3> HIDE DEF saved
    <3>7. e \in SavedFile /\ e.first = files[i].first
      BY <3>2, SavedFields, Zenon
    <3>8. saved(i) = e
      BY <3>6
    <3> HIDE DEF e
    <3>9. saved(i) \in SavedFile /\ saved(i).first = files[i].first
      BY <3>7, <3>8
    <3> QED
      BY <3>3, <3>9
  <2> HIDE DEF saved
  <2>5. /\ image'.files \in Seq(SavedFile) /\ Len(image'.files) = Len(files)
        /\ \A i \in 1..Len(files) : image'.files[i] = saved(i)
    <3>1. PICK f : f = image'.files
      OBVIOUS
    <3>2. f = [i \in 1..Len(files) |-> f[i]] /\ \A i \in 1..Len(files) : f[i] = saved(i)
      BY <2>3, <3>1
    <3>3. \A i \in 1..Len(files) : f[i] \in SavedFile
      BY <2>4, <3>2
    <3>4. f \in Seq(SavedFile) /\ Len(f) = Len(files)
      BY <1>2, <3>2, <3>3, ListedFunction
    <3> QED
      BY <3>1, <3>2, <3>4
  <2>6. \A i \in 1..Len(files) : image'.files[i].first = files[i].first
    BY <2>4, <2>5
  <2>7. Heads(image'.files, free_head) = Heads(files, free_head)
    BY <1>2, <2>5, <2>6, SameHeads
  <2>8. Laid(image'.files, image'.free, image'.next)
    BY <1>2, <2>3, <2>7 DEF Laid
  <2>9. \A i \in DOMAIN image'.files : image'.files[i].first # NULL
    <3>1. DOMAIN image'.files = 1..Len(files)
      BY <1>2, <2>5
    <3> QED
      BY <2>4, <2>5, <2>6, <3>1
  <2>10. TypeOK'
    <3>1. image'.valid \in BOOLEAN /\ image'.next \in [Block -> Link] /\ image'.free \in Link
      BY <1>2, <2>3
    <3> QED
      BY <1>1, <1>2, <3>1, Zenon DEF TypeOK
  <2> QED
    BY <1>1, <1>2, <2>5, <2>8, <2>9, <2>10 DEF ChainInv, Laid
<1> QED
  BY <1>3, <1>4

\* A restart finds the chains of the checkpoint.
LEMMA LoadChains ==
  ASSUME ChainInv, load_fs
  PROVE  ChainInv'
<1>1. /\ image.valid /\ UNCHANGED <<disk, image>> /\ state' \in {"up", "hang", "wild"}
  BY Zenon DEF load_fs
<1>2. /\ image.files \in Seq(SavedFile) /\ Len(image.files) \in Nat /\ TypeOK
      /\ Laid(image.files, image.free, image.next)
      /\ image.next \in [Block -> Link] /\ image.free \in Link
  <2>1. TypeOK
    BY DEF ChainInv
  <2>2. image.next \in [Block -> Link] /\ image.free \in Link
    BY <2>1, Zenon DEF TypeOK
  <2> QED
    BY <1>1, <2>1, <2>2, TypedChains DEF ChainInv
<1>3. CASE UNCHANGED memory
  <2>1. UNCHANGED <<next_block, ondisk_addr, free_head, files>>
    BY <1>3 DEF memory
  <2>2. TypeOK'
    BY <1>1, <1>2, <2>1, Zenon DEF TypeOK
  <2> QED
    BY <1>1, <2>1, <2>2 DEF ChainInv, Laid
<1>4. CASE ~UNCHANGED memory
  <2> DEFINE g == image.files
             entry(i) == [fd |-> g[i].fd, name |-> g[i].name, first |-> g[i].first, occupied |-> -1]
  <2>1. /\ next_block' = image.next /\ ondisk_addr' = Same /\ free_head' = image.free
        /\ files' = [i \in DOMAIN g |-> entry(i)]
    BY <1>4, Zenon DEF load_fs, LoadedFree, Same
  <2> HIDE DEF g
  <2>2. g \in Seq(SavedFile) /\ Len(g) \in Nat /\ DOMAIN g = 1..Len(g)
    <3>1. g \in Seq(SavedFile) /\ Len(g) \in Nat
      BY <1>2 DEF g
    <3> QED
      BY <3>1
  <2>3. ASSUME NEW i \in 1..Len(g)
        PROVE  entry(i) \in FileEntry /\ entry(i).first = g[i].first
    <3>1. g[i] \in SavedFile
      BY <2>2
    <3>2. g[i].fd \in Fds /\ g[i].name \in {""} /\ g[i].first \in Link
      BY <3>1, SavedFields, Zenon
    <3> QED
      BY <3>2, SavedFields, Zenon
  <2> HIDE DEF entry
  <2>4. /\ files' \in Seq(FileEntry) /\ Len(files') = Len(g)
        /\ \A i \in 1..Len(g) : files'[i] = entry(i)
    <3>1. files' = [i \in 1..Len(g) |-> files'[i]] /\ \A i \in 1..Len(g) : files'[i] = entry(i)
      BY <2>1, <2>2
    <3>2. \A i \in 1..Len(g) : files'[i] \in FileEntry
      BY <2>3, <3>1
    <3>3. files' \in Seq(FileEntry) /\ Len(files') = Len(g)
      BY <2>2, <3>1, <3>2, ListedFunction
    <3> QED
      BY <3>1, <3>3
  <2>5. \A i \in 1..Len(g) : files'[i].first = g[i].first
    BY <2>3, <2>4
  <2>6. Heads(files', image.free) = Heads(g, image.free)
    BY <2>2, <2>4, <2>5, SameHeads
  <2>7. Laid(files', free_head', next_block')
    BY <1>2, <2>1, <2>6 DEF Laid, g
  <2>8. Same \in [Block -> Link]
    BY BlockFacts DEF Same
  <2>9. TypeOK'
    BY <1>1, <1>2, <2>1, <2>4, <2>8, Zenon DEF TypeOK, FileEntry
  <2> QED
    BY <1>1, <2>1, <2>7, <2>9 DEF ChainInv, Laid, Same
<1> QED
  BY <1>3, <1>4

\* A formatted card has one chain.
LEMMA FormatChains ==
  ASSUME ChainInv, build_fs
  PROVE  ChainInv'
<1>1. /\ ~image.valid /\ UNCHANGED <<disk, image>> /\ state' = "up" /\ files' = <<>>
      /\ free_head' = 1 /\ ondisk_addr' = Same
      /\ next_block' = [b \in Block |-> IF b = Blocks THEN NULL ELSE b + 1]
  BY Zenon DEF build_fs, Same
<1>2. Laid(files', free_head', next_block') /\ next_block' \in [Block -> Link]
  BY <1>1, FormattedLaid
<1>3. Same \in [Block -> Link] /\ 1 \in Link
  BY BlockFacts DEF Same, Link
<1>4. files' \in Seq(FileEntry)
  BY <1>1
<1>5. TypeOK
  BY DEF ChainInv
<1>6. TypeOK'
  BY <1>1, <1>2, <1>3, <1>4, <1>5, Zenon DEF TypeOK, FileEntry
<1> QED
  BY <1>1, <1>2, <1>6 DEF ChainInv, Laid, Same

LEMMA NextChains ==
  ASSUME ChainInv, FilesInv, [Next]_vars, "delete" \notin Calls
  PROVE  ChainInv'
<1>1. TypeOK
  BY DEF ChainInv
<1>2. CASE UNCHANGED <<state, memory, disk, image>>
  <2>1. UNCHANGED <<state, next_block, ondisk_addr, free_head, files, disk, image>>
    BY <1>2 DEF memory
  <2>2. TypeOK'
    BY <1>1, <2>1, Zenon DEF TypeOK
  <2> QED
    BY <2>1, <2>2 DEF ChainInv, Laid
<1>3. CASE checkpoint_fs \/ load_fs \/ build_fs
  BY <1>3, CheckpointChains, LoadChains, FormatChains
<1>4. ASSUME NEW pid \in Pids, NEW name \in Names, _create(pid, name) \/ _open(pid, name)
      PROVE  ChainInv'
  <2>1. CASE _create(pid, name)
    BY <2>1, CreateChains
  <2>2. CASE _open(pid, name)
    <3>1. UNCHANGED <<state, next_block, ondisk_addr, free_head, disk, image>>
      BY <2>2, Zenon DEF _open
    <3>2. CASE UNCHANGED files
      BY <1>2, <3>1, <3>2 DEF memory
    <3>3. CASE ~UNCHANGED files
      <4>1. SetOccupied("open", pid, FnameToFd(name), name, pid)
        BY <2>2, <3>3, Zenon DEF _open
      <4> QED
        BY <3>1, <4>1, OwnerChains
    <3> QED
      BY <3>2, <3>3
  <2> QED
    BY <1>4, <2>1, <2>2
<1>5. ASSUME NEW pid \in Pids, NEW fd, NEW n, _close(pid, fd) \/ _read(pid, fd, n)
      PROVE  ChainInv'
  <2>1. CASE _close(pid, fd)
    <3>1. /\ UNCHANGED <<state, next_block, ondisk_addr, free_head, disk, image>>
          /\ SetOccupied("close", pid, fd, "", -1) /\ -1 \in Pids \cup {-1}
      BY <2>1, Zenon DEF _close
    <3> QED
      BY <3>1, OwnerChains, Zenon
  <2>2. CASE _read(pid, fd, n)
    BY <1>2, <2>2, Zenon DEF _read
  <2> QED
    BY <1>5, <2>1, <2>2
<1>6. ASSUME NEW pid \in Pids, NEW fd, NEW n \in 0..MaxSize, NEW buf \in [1..n -> Data],
             _write(pid, fd, buf)
      PROVE  ChainInv'
  <2>1. MaxSize \in Nat
    BY ConstantsAssumption, Zenon
  <2>2. n \in Nat
    BY <2>1
  <2> QED
    BY <1>6, <2>2, WriteChains
<1> QED
  BY <1>2, <1>3, <1>4, <1>5, <1>6, Zenon DEF Next, Call, Issued, vars

\* As long as no file is deleted, no block is in two files, or in a file and
\* in the free list, and every walk along a chain ends: whatever is created,
\* appended, saved and loaded, and wherever the power fails.
THEOREM FilesKeptApart ==
  ASSUME "delete" \notin Calls
  PROVE  Spec => []FilesApart
<1>1. Init => ChainInv
  BY InitChains
<1>2. ChainInv /\ FilesInv /\ [Next]_vars => ChainInv'
  BY NextChains
<1>3. ChainInv /\ FilesInv => FilesApart
  BY ApartChains
<1> QED
  BY <1>1, <1>2, <1>3, FilesInvariance, PTL DEF Spec

-----------------------------------------------------------------------------
(* The refinement of FileStore.                                            *)

\* FilesOf over the contents d of the card.
ContentsOn(first, next, addr, d) ==
    LET chain == Chain(first, next)
    IN  [i \in DOMAIN chain |-> d[addr[chain[i]]]]

FilesOn(entries, next, addr, d) ==
    [fd \in {entries[i].fd : i \in DOMAIN entries} |->
        LET i == CHOOSE j \in DOMAIN entries : entries[j].fd = fd
        IN  ContentsOn(entries[i].first, next, addr, d)]

\* What a chain of blocks holds.
Held(s, d) == [k \in 1..Len(s) |-> d[s[k]]]

IsFunction(f) == f = [x \in DOMAIN f |-> f[x]]

LEMMA SameFunction ==
  ASSUME NEW f, NEW g, IsFunction(f), IsFunction(g), DOMAIN f = DOMAIN g,
         \A x \in DOMAIN f : f[x] = g[x]
  PROVE  f = g
BY DEF IsFunction

\* A list of entries with what the refinement needs of it.
LaidList(s, w, free, next) ==
    /\ Len(s) \in Nat /\ DOMAIN s = 1..Len(s) /\ Distinct(s)
    /\ Layout(w, Heads(s, free), next)

\* F has the contents of the chains w under the descriptors of s.
Lists(F, s, w, d) ==
    /\ IsFunction(F) /\ DOMAIN F = {s[i].fd : i \in 1..Len(s)}
    /\ \A i \in 1..Len(s) : F[s[i].fd] = Held(w[i], d)

LEMMA FilesOnFacts ==
  ASSUME NEW s, NEW w, NEW free, NEW next, LaidList(s, w, free, next), NEW d
  PROVE  Lists(FilesOn(s, next, Same, d), s, w, d)
<1> DEFINE F == FilesOn(s, next, Same, d)
<1>1. IsFunction(F) /\ DOMAIN F = {s[i].fd : i \in 1..Len(s)}
  BY DEF FilesOn, LaidList, IsFunction
<1>2. ASSUME NEW i \in 1..Len(s) PROVE F[s[i].fd] = Held(w[i], d)
  <2> DEFINE j == CHOOSE k \in DOMAIN s : s[k].fd = s[i].fd
  <2>1. i \in DOMAIN s
    BY DEF LaidList
  <2>2. F[s[i].fd] = ContentsOn(s[j].first, next, Same, d)
    BY <2>1 DEF FilesOn
  <2>3. j \in DOMAIN s /\ s[j].fd = s[i].fd
    BY <2>1
  <2> HIDE DEF j
  <2>4. j = i
    BY <2>1, <2>3 DEF LaidList, Distinct
  <2>5. i \in DOMAIN Heads(s, free) /\ Heads(s, free)[i] = s[i].first
    BY HeadsFacts DEF LaidList
  <2>6. /\ Chain(s[i].first, next) = w[i] /\ w[i] \in Seq(Block) /\ Len(w[i]) \in Nat
    BY <2>5, LayoutFacts DEF LaidList
  <2>7. DOMAIN w[i] = 1..Len(w[i]) /\ \A k \in 1..Len(w[i]) : Same[w[i][k]] = w[i][k]
    BY <2>6 DEF Same
  <2>8. ContentsOn(s[i].first, next, Same, d) = Held(w[i], d)
    BY <2>6, <2>7 DEF ContentsOn, Held
  <2> QED
    BY <2>2, <2>4, <2>8
<1> QED
  BY <1>1, <1>2 DEF Lists

\* The contents depend on the descriptors and the first blocks alone.
LEMMA FilesOnSame ==
  ASSUME NEW s, NEW t, DOMAIN t = DOMAIN s,
         \A i \in DOMAIN s : t[i].fd = s[i].fd /\ t[i].first = s[i].first,
         NEW next, NEW addr, NEW d
  PROVE  FilesOn(t, next, addr, d) = FilesOn(s, next, addr, d)
<1> DEFINE S == {s[i].fd : i \in DOMAIN s}
           at(u, fd) == CHOOSE j \in DOMAIN u : u[j].fd = fd
<1>1. S = {t[i].fd : i \in DOMAIN t}
  OBVIOUS
<1>2. ASSUME NEW fd \in S
      PROVE  at(t, fd) = at(s, fd) /\ t[at(s, fd)].first = s[at(s, fd)].first
  <2>1. \A j : (j \in DOMAIN t /\ t[j].fd = fd) <=> (j \in DOMAIN s /\ s[j].fd = fd)
    OBVIOUS
  <2>2. at(t, fd) = at(s, fd)
    BY <2>1
  <2>3. at(s, fd) \in DOMAIN s
    OBVIOUS
  <2> QED
    BY <2>2, <2>3
<1>3. /\ FilesOn(s, next, addr, d) = [fd \in S |-> ContentsOn(s[at(s, fd)].first, next, addr, d)]
      /\ FilesOn(t, next, addr, d) = [fd \in S |-> ContentsOn(t[at(t, fd)].first, next, addr, d)]
  BY <1>1 DEF FilesOn
<1> HIDE DEF S, at
<1> QED
  BY <1>2, <1>3

LEMMA FilesOnEmpty ==
  ASSUME NEW next, NEW addr, NEW d
  PROVE  FilesOn(<<>>, next, addr, d) = Store!NoFiles
<1>1. {<<>>[i].fd : i \in DOMAIN <<>>} = {}
  OBVIOUS
<1> QED
  BY <1>1 DEF FilesOn, Store!NoFiles

\* Transfers to other blocks do not change the files.
Untouched(s, w, d, e) ==
    \A i \in 1..Len(s) : \A k \in 1..Len(w[i]) : e[w[i][k]] = d[w[i][k]]

LEMMA FilesOnUntouched ==
  ASSUME NEW s, NEW w, NEW free, NEW next, LaidList(s, w, free, next), NEW d, NEW e,
         Untouched(s, w, d, e)
  PROVE  FilesOn(s, next, Same, e) = FilesOn(s, next, Same, d)
<1>1. PICK F, G : F = FilesOn(s, next, Same, d) /\ G = FilesOn(s, next, Same, e)
  OBVIOUS
<1>2. Lists(F, s, w, d) /\ Lists(G, s, w, e)
  BY <1>1, FilesOnFacts, Zenon
<1>3. \A i \in 1..Len(s) : Held(w[i], e) = Held(w[i], d)
  BY DEF Held, Untouched
<1>4. IsFunction(F) /\ IsFunction(G) /\ DOMAIN F = DOMAIN G
  BY <1>2 DEF Lists
<1>5. \A x \in DOMAIN F : F[x] = G[x]
  BY <1>2, <1>3 DEF Lists
<1> QED
  BY <1>1, <1>4, <1>5, SameFunction

\* What the refinement maps to the variables of FileStore.
MemoryStore == FilesOf(IF Up THEN files ELSE <<>>, next_block, ondisk_addr)
MemoryFree == IF Up THEN Len(Chain(free_head, next_block)) ELSE 0
Kept == FilesOf(image.files, image.next, Same)
KeptFree == Len(Chain(image.free, image.next))

Mapped ==
    /\ MemoryStore = IF state = "up" THEN FilesOn(files, next_block, ondisk_addr, disk)
                     ELSE Store!NoFiles
    /\ MemoryFree = IF state = "up" THEN Len(Chain(free_head, next_block)) ELSE 0
    /\ Kept = FilesOn(image.files, image.next, Same, disk)
    /\ KeptFree = Len(Chain(image.free, image.next))

LEMMA MappedAlways == Mapped
<1>1. \A s, next, addr : FilesOf(s, next, addr) = FilesOn(s, next, addr, disk)
  BY DEF FilesOf, FilesOn, Contents, ContentsOn
<1>2. CASE Up
  BY <1>1, <1>2 DEF Mapped, MemoryStore, MemoryFree, Kept, KeptFree, Up
<1>3. CASE ~Up
  BY <1>1, <1>3, FilesOnEmpty DEF Mapped, MemoryStore, MemoryFree, Kept, KeptFree, Up
<1> QED
  BY <1>2, <1>3

\* A restart has no block in its free list that the checkpoint has in a file.
FreeKept ==
    \A b \in ToSet(Chain(free_head, next_block)) : b \in ToSet(Chain(image.free, image.next))

SInv ==
    /\ ChainInv /\ FilesInv
    /\ IF image.valid THEN FreeKept ELSE image = NoImage

LEMMA NullChain == \A next : Chain(NULL, next) = <<>>
<1> SUFFICES ASSUME NEW next PROVE Chain(NULL, next) = <<>>
  OBVIOUS
<1>1. <<>> \in Seq(Block) /\ Len(<<>>) = 0
  OBVIOUS
<1>2. Threads(NULL, <<>>, next) /\ Injective(<<>>)
  BY <1>1 DEF Threads, Injective
<1> QED
  BY <1>2, ChainThread

LEMMA InitStore == Init => SInv /\ Store!Init
<1> SUFFICES ASSUME Init PROVE SInv /\ Store!Init
  OBVIOUS
<1>1. /\ state = "up" /\ files = <<>> /\ free_head = 1 /\ image = NoImage
      /\ next_block = [b \in Block |-> IF b = Blocks THEN NULL ELSE b + 1]
  BY DEF Init
<1>2. image.valid = FALSE /\ image.files = <<>> /\ image.free = NULL
  BY <1>1 DEF NoImage
<1>3. ChainInv /\ FilesInv
  BY InitChains, InitFiles
<1>4. Chain(free_head, next_block) = [i \in 1..Blocks |-> i]
  BY <1>1, FormattedLaid
<1>5. Len(Chain(free_head, next_block)) = Blocks
  BY <1>4, BlockFacts
<1>6. Chain(NULL, image.next) = <<>>
  BY NullChain
<1>7. /\ MemoryStore = Store!NoFiles /\ Kept = Store!NoFiles
      /\ MemoryFree = Blocks /\ KeptFree = 0
  BY <1>1, <1>2, <1>5, <1>6, MappedAlways, FilesOnEmpty DEF Mapped
<1>8. Store!Init
  <2>1. reply.call = "none"
    BY DEF Init, NoReply
  <2>2. Operation = Store!NoOp
    BY <2>1 DEF Operation, Store!NoOp
  <2> QED
    BY <1>1, <1>2, <1>7, <2>2 DEF Store!Init, MemoryStore, MemoryFree, Kept, KeptFree, Up
<1> QED
  BY <1>1, <1>2, <1>3, <1>8 DEF SInv

\* A step of FileStore, or nothing that it can see.
Implemented == [Store!Next]_(Store!vars)

LEMMA MappedNext == Mapped'
BY MappedAlways, PTL

LEMMA StopImplemented ==
  ASSUME state' # "up", UNCHANGED <<image, Kept>>
  PROVE  Implemented
<1>1. KeptFree' = KeptFree
  BY DEF KeptFree
<1>2. MemoryStore' = Store!NoFiles /\ MemoryFree' = 0
  BY MappedNext DEF Mapped
<1>3. Store!Stop
  BY <1>1, <1>2, QuietWithout DEF Store!Stop, Quiet, Up, MemoryStore, MemoryFree, Kept, KeptFree
<1> QED
  BY <1>3 DEF Implemented, Store!Next

LEMMA QuietImplemented ==
  ASSUME UNCHANGED <<state, image, MemoryStore, MemoryFree, Kept>>, Quiet
  PROVE  Implemented
<1>1. KeptFree' = KeptFree
  BY DEF KeptFree
<1>2. Store!Other
  BY <1>1 DEF Store!Other, Quiet, Up, MemoryStore, MemoryFree, Kept, KeptFree
<1> QED
  BY <1>2 DEF Implemented, Store!Next

LEMMA StutterImplemented ==
  ASSUME UNCHANGED vars
  PROVE  Implemented
<1>2. UNCHANGED <<state, files, disk, image, next_block, ondisk_addr, free_head, reply>>
  BY DEF vars, memory
<1>3. UNCHANGED <<MemoryStore, MemoryFree, Kept, KeptFree>>
  BY <1>2, MappedAlways, MappedNext DEF Mapped
<1>4. UNCHANGED Operation
  BY <1>2 DEF Operation, Up
<1>5. UNCHANGED Store!vars
  BY <1>2, <1>3, <1>4 DEF Store!vars, Up, MemoryStore, MemoryFree, Kept, KeptFree
<1> QED
  BY <1>5 DEF Implemented

\* The files of the checkpoint are safe from transfers to free blocks.
LEMMA KeptStays ==
  ASSUME SInv, UNCHANGED image,
         \A b \in Block : b \in ToSet(Chain(free_head, next_block)) \/ disk'[b] = disk[b]
  PROVE  Kept' = Kept
<1>1. /\ Kept = FilesOn(image.files, image.next, Same, disk)
      /\ Kept' = FilesOn(image.files, image.next, Same, disk')
  BY MappedAlways, MappedNext DEF Mapped
<1>2. CASE image.valid
  <2>1. FreeKept /\ ChainInv /\ FilesInv
    BY <1>2 DEF SInv
  <2>2. PICK w : Layout(w, Heads(image.files, image.free), image.next)
    BY <1>2, <2>1 DEF ChainInv, Laid
  <2>3. Len(image.files) \in Nat /\ DOMAIN image.files = 1..Len(image.files)
    <3>1. image.files \in Seq(SavedFile)
      BY <2>1, TypedChains
    <3> HIDE DEF SavedFile
    <3> QED
      BY <3>1
  <2>4. LaidList(image.files, w, image.free, image.next)
    BY <2>1, <2>2, <2>3 DEF LaidList, FilesInv
  <2> DEFINE H == Heads(image.files, image.free)
  <2>5. 0 \in DOMAIN H /\ H[0] = image.free /\ \A i \in 1..Len(image.files) : i \in DOMAIN H
    BY <2>3, HeadsFacts
  <2> HIDE DEF H
  <2>a. Layout(w, H, image.next)
    BY <2>2 DEF H
  <2>6. Chain(image.free, image.next) = w[0] /\ w[0] \in Seq(Block)
    BY <2>5, <2>a, LayoutFacts
  <2>7. ASSUME NEW i \in 1..Len(image.files), NEW k \in 1..Len(w[i])
        PROVE  disk'[w[i][k]] = disk[w[i][k]]
    <3>1. w[i][k] \in Block
      BY <2>5, <2>7, <2>a, LayoutFacts
    <3>2. ASSUME w[i][k] \in ToSet(w[0]) PROVE FALSE
      <4>1. PICK j \in 1..Len(w[0]) : w[0][j] = w[i][k]
        <5>1. DOMAIN w[0] = 1..Len(w[0])
          BY <2>6
        <5> QED
          BY <3>2, <5>1 DEF ToSet
      <4>2. i = 0
        BY <2>5, <2>7, <2>a, <4>1 DEF Layout
      <4> QED
        BY <2>3, <2>7, <4>2
    <3>3. w[i][k] \notin ToSet(Chain(free_head, next_block))
      BY <2>1, <2>6, <3>2 DEF FreeKept
    <3> QED
      BY <3>1, <3>3
  <2> QED
    <3>1. PICK e : e = disk'
      OBVIOUS
    <3>2. Untouched(image.files, w, disk, e)
      BY <2>7, <3>1 DEF Untouched
    <3>3. FilesOn(image.files, image.next, Same, e) = FilesOn(image.files, image.next, Same, disk)
      <4>1. PICK t, next, free : t = image.files /\ next = image.next /\ free = image.free
        OBVIOUS
      <4>2. LaidList(t, w, free, next) /\ Untouched(t, w, disk, e)
        BY <2>4, <3>2, <4>1, Zenon
      <4>3. FilesOn(t, next, Same, e) = FilesOn(t, next, Same, disk)
        BY <4>2, FilesOnUntouched
      <4> QED
        BY <4>1, <4>3
    <3> QED
      BY <1>1, <3>1, <3>3
<1>3. CASE ~image.valid
  <2>1. image.files = <<>>
    BY <1>3 DEF SInv, NoImage
  <2> QED
    BY <1>1, <2>1, FilesOnEmpty
<1> QED
  BY <1>2, <1>3

\* What changes neither descriptors nor first blocks is invisible.
LEMMA ListImplemented ==
  ASSUME SInv, Quiet, UNCHANGED <<state, next_block, ondisk_addr, free_head, disk, image>>,
         DOMAIN files' = DOMAIN files,
         \A i \in DOMAIN files : files'[i].fd = files[i].fd /\ files'[i].first = files[i].first
  PROVE  Implemented /\ (ChainInv' /\ FilesInv' => SInv')
<1>1. FilesOn(files', next_block, ondisk_addr, disk) = FilesOn(files, next_block, ondisk_addr, disk)
  BY FilesOnSame
<1>2. MemoryStore' = MemoryStore /\ MemoryFree' = MemoryFree /\ Kept' = Kept
  BY <1>1, MappedAlways, MappedNext DEF Mapped
<1>3. Implemented
  BY <1>2, QuietImplemented
<1> QED
  BY <1>3 DEF SInv, FreeKept

LEMMA OwnerForm ==
  ASSUME ChainInv, FilesInv, NEW call, NEW pid, NEW fd, NEW name, NEW owner,
         SetOccupied(call, pid, fd, name, owner)
  PROVE  /\ DOMAIN files' = DOMAIN files
         /\ \A i \in DOMAIN files : files'[i].fd = files[i].fd /\ files'[i].first = files[i].first
         /\ call \notin {"write", "read"} => Quiet
<1>a. call \notin {"write", "read"} => Quiet
  <2>1. PICK value : Reply(pid, call, fd, name, value)
    BY Zenon DEF SetOccupied
  <2> QED
    BY <2>1, QuietReply
<1>1. files \in Seq(FileEntry) /\ DOMAIN files = 1..Len(files)
  <2>1. files \in Seq(FileEntry)
    BY TypedChains
  <2> HIDE DEF FileEntry
  <2> QED
    BY <2>1
<1>2. CASE UNCHANGED files
  BY <1>2, <1>a
<1>3. CASE ~UNCHANGED files
  <2>1. Found(fd) /\ files' = [files EXCEPT ![Position(fd)].occupied = owner]
    BY <1>3 DEF SetOccupied
  <2>2. PICK pos : pos = Position(fd)
    OBVIOUS
  <2>3. pos \in DOMAIN files
    BY <2>1, <2>2, PositionFacts DEF FilesInv
  <2> DEFINE e == [files[pos] EXCEPT !.occupied = owner]
  <2>4. files' = [files EXCEPT ![pos] = e]
    BY <2>1, <2>2
  <2>5. files[pos] \in FileEntry
    BY <1>1, <2>3
  <2>6. e.first = files[pos].first /\ e.fd = files[pos].fd
    BY <2>5, EntryFields, Zenon DEF FileEntry
  <2> HIDE DEF e
  <2> QED
    BY <1>a, <2>3, <2>4, <2>6
<1> QED
  BY <1>2, <1>3

LEMMA CheckpointImplemented ==
  ASSUME SInv, state = "up", checkpoint_fs
  PROVE  Implemented /\ (ChainInv' /\ FilesInv' => SInv')
<1>1. UNCHANGED <<next_block, ondisk_addr, free_head, files, disk>>
  BY Zenon DEF checkpoint_fs, memory
<1>2. CASE state' # state
  <2>1. UNCHANGED image /\ (state' = "wild" \/ state' = "hang")
    BY <1>2, Zenon DEF checkpoint_fs
  <2>2. Kept' = Kept
    BY <1>1, <2>1, KeptStays
  <2>3. Implemented
    BY <2>1, <2>2, StopImplemented
  <2> QED
    BY <1>1, <2>1, <2>3 DEF SInv, FreeKept
<1>3. CASE state' = state
  <2> DEFINE saved(i) == [fd |-> files[i].fd, name |-> files[i].name,
                          first |-> ondisk_addr[files[i].first]]
  <2>1. /\ state' = state /\ ~\E i \in DOMAIN files : files[i].first = NULL
        /\ image' = [free |-> free_head, next |-> next_block, valid |-> TRUE,
                     files |-> [i \in DOMAIN files |-> saved(i)]]
    <3>1. state' # "wild" /\ state' # "hang"
      BY <1>3
    <3> QED
      BY <1>3, <3>1, Zenon DEF checkpoint_fs
  <2>2. PICK g : g = image'.files
    OBVIOUS
  <2>3. /\ image'.free = free_head /\ image'.next = next_block /\ image'.valid = TRUE
        /\ g = [i \in DOMAIN files |-> saved(i)]
    BY <2>1, <2>2
  <2>4. ASSUME NEW i \in DOMAIN files
        PROVE  g[i].fd = files[i].fd /\ g[i].first = files[i].first
    <3>1. files[i].first \in Link /\ files[i].first # NULL
      <4>1. files[i] \in FileEntry
        <5>1. files \in Seq(FileEntry)
          BY TypedChains DEF SInv
        <5> HIDE DEF FileEntry
        <5> QED
          BY <5>1
      <4> QED
        BY <2>1, <4>1, EntryFields, Zenon DEF FileEntry
    <3>2. \A a \in Link : a # NULL => a \in Block
      BY BlockFacts DEF Block, Link
    <3>3. files[i].first \in Block
      BY <3>1, <3>2, Zenon
    <3>4. ondisk_addr = Same
      BY DEF SInv, ChainInv
    <3>5. ondisk_addr[files[i].first] = files[i].first
      BY <3>3, <3>4 DEF Same
    <3>6. saved(i).fd = files[i].fd /\ saved(i).first = files[i].first
      BY <3>5
    <3> HIDE DEF saved
    <3> QED
      BY <2>3, <3>6
  <2>5. DOMAIN g = DOMAIN files
    BY <2>3
  <2>6. FilesOn(g, next_block, Same, disk) = FilesOn(files, next_block, Same, disk)
    BY <2>4, <2>5, FilesOnSame
  <2>7. ondisk_addr = Same
    BY DEF SInv, ChainInv
  <2>8. /\ Kept' = MemoryStore /\ KeptFree' = MemoryFree
        /\ MemoryStore' = MemoryStore /\ MemoryFree' = MemoryFree
    BY <1>1, <2>1, <2>2, <2>3, <2>6, <2>7, MappedAlways, MappedNext DEF Mapped
  <2>a. Quiet
    <3>1. reply' = NoReply
      BY Zenon DEF checkpoint_fs
    <3> QED
      BY <3>1, QuietWithout
  <2>9. Store!Checkpoint
    BY <2>a, <2>1, <2>3, <2>8 DEF Store!Checkpoint, Quiet, Up, MemoryStore, MemoryFree, Kept, KeptFree
  <2>10. FreeKept' /\ image'.valid
    BY <1>1, <2>3 DEF FreeKept
  <2> QED
    BY <2>9, <2>10 DEF Implemented, Store!Next, SInv
<1> QED
  BY <1>2, <1>3

LEMMA LoadImplemented ==
  ASSUME SInv, load_fs
  PROVE  Implemented /\ (ChainInv' /\ FilesInv' => SInv')
<1>1. image.valid /\ UNCHANGED <<disk, image>>
  BY Zenon DEF load_fs
<1>2. Kept' = Kept /\ KeptFree' = KeptFree
  BY <1>1, KeptStays DEF KeptFree
<1>3. CASE UNCHANGED memory /\ state' = "hang"
  <2>1. Implemented
    BY <1>1, <1>2, <1>3, StopImplemented
  <2> QED
    BY <1>1, <1>3, <2>1 DEF SInv, FreeKept, memory
<1>4. CASE ~(UNCHANGED memory /\ state' = "hang")
  <2> DEFINE g == image.files
             entry(i) == [fd |-> g[i].fd, name |-> g[i].name, first |-> g[i].first, occupied |-> -1]
  <2>1. /\ next_block' = image.next /\ ondisk_addr' = Same /\ free_head' = image.free
        /\ files' = [i \in DOMAIN g |-> entry(i)]
    BY <1>4, Zenon DEF load_fs, LoadedFree, Same
  <2> HIDE DEF g
  <2>2. DOMAIN files' = DOMAIN g
    BY <2>1
  <2>3. \A i \in DOMAIN g : files'[i].fd = g[i].fd /\ files'[i].first = g[i].first
    BY <2>1
  <2>4. PICK t : t = files'
    OBVIOUS
  <2>5. FilesOn(t, image.next, Same, disk) = FilesOn(g, image.next, Same, disk)
    BY <2>2, <2>3, <2>4, FilesOnSame
  <2>6. ASSUME state' = "up" PROVE Implemented
    <3>1. MemoryStore' = Kept /\ MemoryFree' = KeptFree
      BY <1>1, <2>1, <2>4, <2>5, <2>6, MappedAlways, MappedNext DEF Mapped, g
    <3>a. Quiet
      <4>1. reply' = NoReply
        BY Zenon DEF load_fs
      <4> QED
        BY <4>1, QuietWithout
    <3>2. Store!Resume
      BY <1>1, <1>2, <2>6, <3>1, <3>a DEF Store!Resume, Quiet, Up, MemoryStore, MemoryFree, Kept, KeptFree
    <3> QED
      BY <3>2 DEF Implemented, Store!Next
  <2>7. ASSUME state' # "up" PROVE Implemented
    BY <1>1, <1>2, <2>7, StopImplemented
  <2>8. FreeKept'
    BY <1>1, <2>1 DEF FreeKept
  <2> QED
    BY <1>1, <2>6, <2>7, <2>8 DEF SInv
<1> QED
  BY <1>3, <1>4

LEMMA FormatImplemented ==
  ASSUME SInv, build_fs
  PROVE  Implemented /\ (ChainInv' /\ FilesInv' => SInv')
<1>1. /\ ~image.valid /\ UNCHANGED <<disk, image>> /\ state' = "up" /\ files' = <<>>
      /\ free_head' = 1
      /\ next_block' = [b \in Block |-> IF b = Blocks THEN NULL ELSE b + 1]
  BY Zenon DEF build_fs
<1>2. Kept' = Kept /\ KeptFree' = KeptFree
  BY <1>1, KeptStays DEF KeptFree
<1>3. Chain(free_head', next_block') = [i \in 1..Blocks |-> i]
  BY <1>1, FormattedLaid
<1>4. Len(Chain(free_head', next_block')) = Blocks
  BY <1>3, BlockFacts
<1>5. MemoryStore' = Store!NoFiles /\ MemoryFree' = Blocks
  BY <1>1, <1>4, MappedNext, FilesOnEmpty DEF Mapped
<1>a. Quiet
  <2>1. reply' = NoReply
    BY Zenon DEF build_fs
  <2> QED
    BY <2>1, QuietWithout
<1>6. Store!Format
  BY <1>1, <1>2, <1>5, <1>a DEF Store!Format, Quiet, Up, MemoryStore, MemoryFree, Kept, KeptFree
<1> QED
  BY <1>1, <1>6 DEF Implemented, Store!Next, SInv

LEMMA PrependFacts ==
  ASSUME NEW S, NEW s \in Seq(S), NEW r, NEW t, t = <<r>> \o s
  PROVE  Len(t) = Len(s) + 1 /\ t[1] = r /\ \A i \in 1..Len(s) : t[i + 1] = s[i]
<1> DEFINE one == <<r>>
           T == S \cup {r}
<1>1. t = one \o s /\ one \in Seq(T) /\ Len(one) = 1 /\ one[1] = r /\ s \in Seq(T) /\ Len(s) \in Nat
  OBVIOUS
<1> HIDE DEF one, T
<1>2. /\ Len(t) = Len(one) + Len(s)
      /\ \A i \in 1..Len(one) + Len(s) : t[i] = IF i <= Len(one) THEN one[i] ELSE s[i - Len(one)]
  <2>1. /\ Len(one \o s) = Len(one) + Len(s)
        /\ \A i \in 1..Len(one) + Len(s) :
             (one \o s)[i] = IF i <= Len(one) THEN one[i] ELSE s[i - Len(one)]
    BY <1>1, ConcatProperties, Zenon
  <2> QED
    BY <1>1, <2>1
<1>3. ASSUME NEW i \in 1..Len(s) PROVE t[i + 1] = s[i]
  <2>1. i + 1 \in 1..Len(one) + Len(s) /\ ~(i + 1 <= Len(one)) /\ i + 1 - Len(one) = i
    BY <1>1
  <2> QED
    BY <1>2, <2>1
<1>4. t[1] = one[1]
  <2>1. 1 \in 1..Len(one) + Len(s) /\ 1 <= Len(one)
    BY <1>1
  <2> QED
    BY <1>2, <2>1
<1> QED
  BY <1>1, <1>2, <1>3, <1>4

LEMMA TypedNext ==
  ASSUME ChainInv'
  PROVE  files' \in Seq(FileEntry) /\ Len(files') \in Nat
<1>1. files' \in Seq(FileEntry)
  <2>1. TypeOK'
    BY DEF ChainInv
  <2> QED
    BY <2>1, Zenon DEF TypeOK, FileEntry
<1> HIDE DEF FileEntry
<1> QED
  BY <1>1

\* A new file has a number of its own and is empty.
LEMMA CreateImplemented ==
  ASSUME SInv, state = "up", NEW pid, NEW name, _create(pid, name), ChainInv', FilesInv'
  PROVE  Implemented /\ SInv'
<1>1. UNCHANGED <<state, next_block, ondisk_addr, free_head, disk, image>>
  BY Zenon DEF _create
<1>a. Quiet
  <2>1. PICK fd, value : Reply(pid, "create", fd, name, value)
    BY Zenon DEF _create
  <2> QED
    BY <2>1, QuietReply
<1>2. CASE UNCHANGED files
  BY <1>1, <1>2, <1>a, ListImplemented
<1>3. CASE ~UNCHANGED files
  <2> DEFINE r == [fd |-> FreshFd, first |-> NULL, occupied |-> -1, name |-> ""]
             n == Len(files)
  <2>1. files' = <<r>> \o files
    BY <1>3, Zenon DEF _create
  <2>a. n < MaxFiles
    BY Zenon DEF _create
  <2>2. /\ files \in Seq(FileEntry) /\ n \in Nat /\ DOMAIN files = 1..n /\ IsList(files)
        /\ ondisk_addr = Same
    <3>1. files \in Seq(FileEntry) /\ n \in Nat
      BY TypedChains DEF SInv
    <3>2. DOMAIN files = 1..n
      <4> HIDE DEF FileEntry
      <4> QED
        BY <3>1
    <3> QED
      BY <3>1, <3>2 DEF SInv, FilesInv, ChainInv
  <2>3. r.fd = FreshFd /\ r.first = NULL
    OBVIOUS
  <2>4. FreshFd \in Fds /\ ~Found(FreshFd)
    <3>1. FreshFd \in 1..(n + 1) /\ ~Found(FreshFd)
      BY <2>2, FreshNumber
    <3>2. MaxFiles \in Nat
      BY ConstantsAssumption, Zenon
    <3> QED
      BY <2>2, <2>a, <3>1, <3>2 DEF Fds
  <2> HIDE DEF r
  <2>5. PICK t : t = files'
    OBVIOUS
  <2>6. /\ Len(t) = n + 1 /\ t[1] = r /\ \A i \in 1..n : t[i + 1] = files[i]
    <3> HIDE DEF FileEntry
    <3> QED
      BY <2>1, <2>2, <2>5, PrependFacts
  <2>7. t \in Seq(FileEntry) /\ DOMAIN t = 1..(n + 1)
    <3>1. t \in Seq(FileEntry)
      BY <2>5, TypedNext
    <3> HIDE DEF FileEntry
    <3> QED
      BY <2>2, <2>6, <3>1
  <2>8. Distinct(files) /\ Distinct(t)
    BY <2>5 DEF SInv, FilesInv, FdsDistinct, Distinct
  <2>9. PICK w : Layout(w, Heads(files, free_head), next_block)
    BY DEF SInv, ChainInv, Laid
  <2>10. PICK u : Layout(u, Heads(t, free_head), next_block)
    BY <1>1, <2>5 DEF ChainInv, Laid
  <2>11. LaidList(files, w, free_head, next_block) /\ LaidList(t, u, free_head, next_block)
    BY <2>2, <2>6, <2>7, <2>8, <2>9, <2>10 DEF LaidList
  <2>12. PICK F, G : /\ F = FilesOn(files, next_block, Same, disk)
                     /\ G = FilesOn(t, next_block, Same, disk)
    OBVIOUS
  <2>13. Lists(F, files, w, disk) /\ Lists(G, t, u, disk)
    BY <2>11, <2>12, FilesOnFacts, Zenon
  <2>14. \A i \in 1..n : u[i + 1] = w[i]
    <3>1. ASSUME NEW i \in 1..n PROVE u[i + 1] = w[i]
      <4>1. i \in DOMAIN Heads(files, free_head) /\ Heads(files, free_head)[i] = files[i].first
        BY <2>2, HeadsFacts
      <4>2. i + 1 \in 1..Len(t) /\ Len(t) \in Nat /\ t[i + 1] = files[i]
        BY <2>2, <2>6
      <4>3. i + 1 \in DOMAIN Heads(t, free_head) /\ Heads(t, free_head)[i + 1] = files[i].first
        BY <4>2, HeadsFacts
      <4>4. Chain(files[i].first, next_block) = w[i]
        BY <2>9, <4>1, LayoutFacts
      <4>5. Chain(files[i].first, next_block) = u[i + 1]
        BY <2>10, <4>3, LayoutFacts
      <4> QED
        BY <4>4, <4>5
    <3> QED
      BY <3>1
  <2>15. u[1] = <<>>
    <3>1. 1 \in 1..Len(t) /\ Len(t) \in Nat
      BY <2>2, <2>6
    <3>2. 1 \in DOMAIN Heads(t, free_head) /\ Heads(t, free_head)[1] = NULL
      BY <2>3, <2>6, <3>1, HeadsFacts
    <3> QED
      BY <2>10, <3>2, LayoutFacts, NullChain
  <2>16. /\ DOMAIN G = DOMAIN F \cup {FreshFd} /\ FreshFd \notin DOMAIN F
         /\ G[FreshFd] = <<>> /\ \A x \in DOMAIN F : G[x] = F[x]
    <3>1. DOMAIN F = {files[i].fd : i \in 1..n} /\ DOMAIN G = {t[i].fd : i \in 1..(n + 1)}
      BY <2>6, <2>13 DEF Lists
    <3>2. ASSUME NEW x \in DOMAIN F PROVE x \in DOMAIN G /\ G[x] = F[x]
      <4>1. PICK i \in 1..n : x = files[i].fd
        BY <3>1
      <4>2. i + 1 \in 1..Len(t) /\ t[i + 1].fd = x
        BY <2>2, <2>6, <4>1
      <4>3. G[x] = Held(u[i + 1], disk) /\ F[x] = Held(w[i], disk)
        BY <2>13, <4>1, <4>2 DEF Lists
      <4> QED
        BY <2>6, <2>14, <3>1, <4>2, <4>3
    <3>3. ASSUME NEW x \in DOMAIN G PROVE x = FreshFd \/ x \in DOMAIN F
      <4>1. PICK i \in 1..(n + 1) : x = t[i].fd
        BY <3>1
      <4>2. CASE i = 1
        BY <2>3, <2>6, <4>1, <4>2
      <4>3. CASE i # 1
        <5>1. i - 1 \in 1..n /\ i - 1 + 1 = i
          BY <2>2, <4>3
        <5>2. t[i] = files[i - 1]
          BY <2>6, <5>1
        <5> QED
          BY <3>1, <4>1, <5>1, <5>2
      <4> QED
        BY <4>2, <4>3
    <3>4. FreshFd \notin DOMAIN F
      BY <2>2, <2>4, <3>1 DEF Found
    <3>5. FreshFd \in DOMAIN G /\ G[FreshFd] = Held(u[1], disk)
      <4>1. 1 \in 1..Len(t) /\ t[1].fd = FreshFd
        BY <2>2, <2>3, <2>6
      <4> QED
        BY <2>6, <2>13, <3>1, <4>1 DEF Lists
    <3>6. Held(u[1], disk) = <<>>
      BY <2>15 DEF Held
    <3> QED
      BY <3>2, <3>3, <3>4, <3>5, <3>6
  <2>17. G = [x \in DOMAIN F \cup {FreshFd} |-> IF x = FreshFd THEN <<>> ELSE F[x]]
    <3>1. IsFunction(G)
      BY <2>13 DEF Lists
    <3> QED
      BY <2>16, <3>1 DEF IsFunction
  <2>18. MemoryStore = F /\ MemoryStore' = G /\ MemoryFree' = MemoryFree /\ Kept' = Kept
         /\ KeptFree' = KeptFree
    BY <1>1, <2>2, <2>5, <2>12, MappedAlways, MappedNext DEF Mapped
  <2>19. Store!Create
    <3>1. FreshFd \in Fds \ DOMAIN MemoryStore
      BY <2>4, <2>16, <2>18
    <3>2. MemoryStore' = [x \in DOMAIN MemoryStore \cup {FreshFd} |->
                             IF x = FreshFd THEN <<>> ELSE MemoryStore[x]]
      BY <2>17, <2>18
    <3>3. Up /\ UNCHANGED <<Up, MemoryFree, image.valid, Kept, KeptFree>>
      BY <1>1, <2>18 DEF Up
    <3> QED
      BY <1>a, <3>1, <3>2, <3>3 DEF Store!Create, Quiet, MemoryStore, MemoryFree, Kept, KeptFree
  <2>20. SInv'
    BY <1>1 DEF SInv, FreeKept
  <2> QED
    BY <2>19, <2>20 DEF Implemented, Store!Next
<1> QED
  BY <1>2, <1>3

\* The free list after blocks have been taken from it.
LEMMA TakenFree ==
  ASSUME ChainInv, ChainInv', NEW w, Layout(w, Heads(files, free_head), next_block),
         NEW n, NEW pos, Moved(w, n, pos)
  PROVE  /\ w[0] \in Seq(Block) /\ Injective(w[0]) /\ n \in 1..Len(w[0])
         /\ DOMAIN w[0] = 1..Len(w[0]) /\ Len(w[0]) \in Nat /\ n \in Nat
         /\ Chain(free_head, next_block) = w[0]
         /\ Chain(free_head', next_block') = RestOf(w[0], n)
<1> DEFINE H == Heads(files, free_head)
           K == Heads(files', free_head')
           u == AppendChains(H, w, n, pos)
<1>1. Len(files) \in Nat /\ Len(files') \in Nat
  BY TypedChains, TypedNext
<1>2. 0 \in DOMAIN H /\ H[0] = free_head
  BY <1>1, HeadsFacts
<1>3. 0 \in DOMAIN K /\ K[0] = free_head'
  BY <1>1, HeadsFacts
<1>4. Layout(u, K, next_block')
  BY MovedLinks
<1>5. u[0] = RestOf(w[0], n)
  BY <1>2 DEF AppendChains
<1> HIDE DEF H, K, u
<1>6. Chain(free_head', next_block') = RestOf(w[0], n)
  BY <1>3, <1>4, <1>5, LayoutFacts
<1>7. w[0] \in Seq(Block) /\ Injective(w[0]) /\ Chain(free_head, next_block) = w[0]
  BY <1>2, LayoutFacts DEF H
<1>8. n \in 1..Len(w[0])
  BY DEF Moved
<1>9. DOMAIN w[0] = 1..Len(w[0]) /\ Len(w[0]) \in Nat
  BY <1>7
<1> QED
  BY <1>6, <1>7, <1>8, <1>9

LEMMA TakenKept ==
  ASSUME SInv, ChainInv', FilesInv', UNCHANGED image,
         NEW w, Layout(w, Heads(files, free_head), next_block),
         NEW n, NEW pos, Moved(w, n, pos)
  PROVE  SInv'
<1>1. /\ w[0] \in Seq(Block) /\ n \in Nat /\ n \in 1..Len(w[0]) /\ DOMAIN w[0] = 1..Len(w[0])
      /\ Chain(free_head, next_block) = w[0]
      /\ Chain(free_head', next_block') = RestOf(w[0], n)
  BY TakenFree DEF SInv
<1>2. ASSUME NEW b \in ToSet(RestOf(w[0], n)) PROVE b \in ToSet(w[0])
  <2>1. PICK i \in 1..(Len(w[0]) - n) : b = w[0][i + n]
    BY <1>2 DEF ToSet, RestOf
  <2>2. i + n \in 1..Len(w[0])
    BY <1>1
  <2> QED
    BY <1>1, <2>1, <2>2 DEF ToSet
<1>3. FreeKept => FreeKept'
  BY <1>1, <1>2 DEF FreeKept
<1> QED
  BY <1>3 DEF SInv

\* Lists of files seen through their chains.
LEMMA MemoryLaid ==
  ASSUME ChainInv, FilesInv, NEW w, Layout(w, Heads(files, free_head), next_block)
  PROVE  LaidList(files, w, free_head, next_block)
<1>1. files \in Seq(FileEntry)
  BY TypedChains
<1>2. Len(files) \in Nat /\ DOMAIN files = 1..Len(files)
  <2> HIDE DEF FileEntry
  <2> QED
    BY <1>1
<1> QED
  BY <1>2 DEF LaidList, FilesInv, FdsDistinct, Distinct

\* A refused append loses the blocks that it took.
LEMMA RefusedImplemented ==
  ASSUME SInv, state = "up", ChainInv', FilesInv', UNCHANGED <<ondisk_addr, image>>,
         NEW w, Layout(w, Heads(files, free_head), next_block),
         NEW n \in 0..MaxSize, Refused(w, n), Quiet
  PROVE  Implemented /\ SInv'
<1>1. Moved(w, n, 0) /\ UNCHANGED <<state, files, disk>>
  BY DEF Refused
<1>2. SInv'
  BY <1>1, TakenKept
<1>3. /\ w[0] \in Seq(Block) /\ Len(w[0]) \in Nat /\ n \in 1..Len(w[0])
      /\ Chain(free_head, next_block) = w[0]
      /\ Chain(free_head', next_block') = RestOf(w[0], n)
  BY <1>1, TakenFree DEF SInv
<1>4. Len(RestOf(w[0], n)) = Len(w[0]) - n
  <2>1. n \in 0..Len(w[0])
    BY <1>3
  <2> QED
    BY <1>3, <2>1, RestFacts
<1> DEFINE H == Heads(files, free_head)
           u == AppendChains(H, w, n, 0)
<1>5. PICK next, free : next = next_block' /\ free = free_head'
  OBVIOUS
<1>6. Layout(u, Heads(files, free), next)
  <2>1. Layout(u, Heads(files', free_head'), next_block')
    BY <1>1, MovedLinks DEF SInv
  <2> QED
    BY <1>1, <1>5, <2>1
<1>7. LaidList(files, w, free_head, next_block)
  BY MemoryLaid DEF SInv
<1>8. LaidList(files, u, free, next)
  BY <1>6, <1>7 DEF LaidList
<1>9. \A i \in 1..Len(files) : u[i] = w[i]
  <2>1. ASSUME NEW i \in 1..Len(files) PROVE u[i] = w[i]
    <3>1. i \in DOMAIN H /\ i # 0
      BY <1>7, HeadsFacts DEF LaidList
    <3> QED
      BY <3>1 DEF AppendChains
  <2> QED
    BY <2>1
<1> HIDE DEF H, u
<1>10. PICK F, G : /\ F = FilesOn(files, next_block, Same, disk)
                   /\ G = FilesOn(files, next, Same, disk)
  OBVIOUS
<1>11. Lists(F, files, w, disk) /\ Lists(G, files, u, disk)
  BY <1>7, <1>8, <1>10, FilesOnFacts, Zenon
<1>12. F = G
  <2>1. IsFunction(F) /\ IsFunction(G) /\ DOMAIN F = DOMAIN G
    BY <1>11 DEF Lists
  <2>2. \A x \in DOMAIN F : F[x] = G[x]
    BY <1>9, <1>11 DEF Lists
  <2> QED
    BY <2>1, <2>2, SameFunction
<1>13. ondisk_addr = Same
  BY DEF SInv, ChainInv
<1>14. /\ MemoryStore' = MemoryStore /\ Kept' = Kept /\ KeptFree' = KeptFree
       /\ MemoryFree = Len(w[0]) /\ MemoryFree' = Len(w[0]) - n
  BY <1>1, <1>3, <1>4, <1>5, <1>10, <1>12, <1>13, MappedAlways, MappedNext DEF Mapped
<1>15. Store!Lose
  <2>1. n \in 1..MaxSize /\ n <= MemoryFree /\ MemoryFree' = MemoryFree - n
    <3>1. MaxSize \in Nat
      BY ConstantsAssumption, Zenon
    <3> QED
      BY <1>3, <1>14, <3>1
  <2>2. \E k \in 1..MaxSize : k <= MemoryFree /\ MemoryFree' = MemoryFree - k
    BY <2>1
  <2>3. Up /\ UNCHANGED <<Up, MemoryStore, image.valid, Kept, KeptFree>>
    BY <1>1, <1>14 DEF Up
  <2> QED
    BY <2>2, <2>3 DEF Store!Lose, Quiet, MemoryStore, MemoryFree, Kept, KeptFree
<1> QED
  BY <1>2, <1>15 DEF Implemented, Store!Next

\* The card e has in the blocks s what d has; it has what was sent in n of c.
Unwritten(s, d, e) == \A i \in 1..Len(s) : e[s[i]] = d[s[i]]
Written(c, n, sent, e) == \A i \in 1..n : e[c[i]] = sent[i]

\* What a longer chain holds.
LEMMA HeldJoined ==
  ASSUME NEW s \in Seq(Block), NEW c \in Seq(Block), NEW n \in 1..Len(c), NEW d, NEW e,
         NEW sent \in [1..n -> Data], Unwritten(s, d, e), Written(c, n, sent, e)
  PROVE  Held(Joined(s, FirstOf(c, n)), e) = Held(s, d) \o sent
<1> DEFINE f == FirstOf(c, n)
           t == Joined(s, f)
           m == Len(s)
<1>1. m \in Nat /\ n \in Nat /\ n \in 0..Len(c)
  OBVIOUS
<1>2. f \in Seq(Block) /\ Len(f) = n /\ \A i \in 1..n : f[i] = c[i]
  BY <1>1, FirstFacts
<1> HIDE DEF f
<1>3. /\ Len(t) = m + n
      /\ \A i \in 1..m : t[i] = s[i]
      /\ \A i \in 1..n : t[m + i] = f[i]
  BY <1>2, JoinedFacts
<1> HIDE DEF t
<1> DEFINE p == Held(s, d)
           q == Held(t, e)
<1>4. p = [i \in 1..m |-> p[i]] /\ \A i \in 1..m : p[i] = d[s[i]]
  BY DEF Held
<1>5. q = [i \in 1..(m + n) |-> q[i]] /\ \A i \in 1..(m + n) : q[i] = e[t[i]]
  BY <1>3 DEF Held
<1> HIDE DEF p, q
<1> DEFINE S == {p[i] : i \in 1..m} \cup Data
<1>6. p \in Seq(S) /\ Len(p) = m
  BY <1>1, <1>4, ListedFunction
<1>7. sent \in Seq(S) /\ Len(sent) = n
  BY <1>1
<1> DEFINE r == p \o sent
<1>8. r = [i \in 1..(m + n) |-> r[i]]
      /\ \A i \in 1..(m + n) : r[i] = IF i <= m THEN p[i] ELSE sent[i - m]
  <2> HIDE DEF S
  <2>1. /\ r \in Seq(S) /\ Len(r) = Len(p) + Len(sent)
        /\ \A i \in 1..Len(p) + Len(sent) : r[i] = IF i <= Len(p) THEN p[i] ELSE sent[i - Len(p)]
    BY <1>6, <1>7, ConcatProperties, Zenon
  <2> HIDE DEF r
  <2>2. r = [i \in 1..Len(r) |-> r[i]]
    BY <2>1
  <2>3. Len(p) + Len(sent) = m + n
    BY <1>6, <1>7
  <2> QED
    BY <1>6, <1>7, <2>1, <2>2, <2>3
<1> HIDE DEF r, S
<1>9. ASSUME NEW i \in 1..(m + n) PROVE q[i] = r[i]
  <2>1. CASE i <= m
    <3>1. i \in 1..m
      BY <1>1, <2>1
    <3>2. q[i] = e[s[i]] /\ e[s[i]] = d[s[i]]
      BY <1>3, <1>5, <3>1 DEF Unwritten
    <3>3. r[i] = p[i] /\ p[i] = d[s[i]]
      BY <1>4, <1>8, <2>1, <3>1
    <3> QED
      BY <3>2, <3>3
  <2>2. CASE ~(i <= m)
    <3>1. i - m \in 1..n /\ m + (i - m) = i
      BY <1>1, <2>2
    <3>2. PICK j \in 1..n : j = i - m /\ i = m + j
      BY <3>1
    <3>3. t[i] = c[j]
      BY <1>2, <1>3, <3>2
    <3>4. q[i] = e[c[j]] /\ e[c[j]] = sent[j]
      BY <1>5, <3>2, <3>3 DEF Written
    <3>5. r[i] = sent[i - m]
      BY <1>8, <2>2
    <3> QED
      BY <3>2, <3>4, <3>5
  <2> QED
    BY <2>1, <2>2
<1>10. q = r
  BY <1>5, <1>8, <1>9
<1> QED
  BY <1>10 DEF q, r, p, t, f

\* File pos of s has grown by what was sent.
GrownBy(s, t, w, u, d, e, pos, sent) ==
    /\ Distinct(s) /\ DOMAIN s = 1..Len(s) /\ Len(t) = Len(s)
    /\ \A i \in 1..Len(s) : t[i].fd = s[i].fd
    /\ \A i \in 1..Len(s) : i # pos => Held(u[i], e) = Held(w[i], d)
    /\ Held(u[pos], e) = Held(w[pos], d) \o sent

Extended(F, G, fd, sent) == fd \in DOMAIN F /\ G = [F EXCEPT ![fd] = @ \o sent]

\* A list in which one file has grown.
LEMMA Grown ==
  ASSUME NEW s, NEW t, NEW w, NEW u, NEW d, NEW e, NEW F, NEW G, NEW pos \in 1..Len(s), NEW sent,
         Lists(F, s, w, d), Lists(G, t, u, e), GrownBy(s, t, w, u, d, e, pos, sent)
  PROVE  Extended(F, G, s[pos].fd, sent)
<1> DEFINE fd == s[pos].fd
           E == [F EXCEPT ![fd] = @ \o sent]
<1>1. /\ IsFunction(F) /\ IsFunction(G) /\ DOMAIN F = {s[i].fd : i \in 1..Len(s)}
      /\ DOMAIN G = DOMAIN F
  <2>1. {t[i].fd : i \in 1..Len(t)} = {s[i].fd : i \in 1..Len(s)}
    BY DEF GrownBy
  <2> QED
    BY <2>1 DEF Lists
<1>2. fd \in DOMAIN F
  BY <1>1
<1>3. IsFunction(E) /\ DOMAIN E = DOMAIN F
      /\ \A x \in DOMAIN F : E[x] = IF x = fd THEN F[fd] \o sent ELSE F[x]
  BY <1>2 DEF IsFunction
<1> HIDE DEF E
<1>4. ASSUME NEW x \in DOMAIN F PROVE G[x] = E[x]
  <2>1. PICK i \in 1..Len(s) : x = s[i].fd
    BY <1>1
  <2>2. G[x] = Held(u[i], e) /\ F[x] = Held(w[i], d)
    BY <2>1 DEF Lists, GrownBy
  <2>3. CASE i = pos
    BY <1>3, <2>1, <2>2, <2>3 DEF GrownBy
  <2>4. CASE i # pos
    <3>1. x # fd
      BY <2>1, <2>4 DEF GrownBy, Distinct
    <3> QED
      BY <1>3, <2>2, <2>4, <3>1 DEF GrownBy
  <2> QED
    BY <2>3, <2>4
<1>5. G = E
  BY <1>1, <1>3, <1>4, SameFunction
<1> QED
  BY <1>2, <1>5 DEF E, Extended

\* An accepted append puts what the card received behind the file, or the card
\* fails and the kernel hangs.
LEMMA AcceptedImplemented ==
  ASSUME SInv, state = "up", ChainInv', FilesInv', UNCHANGED <<ondisk_addr, image>>,
         NEW w, Layout(w, Heads(files, free_head), next_block),
         NEW n \in 0..MaxSize, NEW pos \in 1..Len(files), NEW k \in 0..n,
         NEW sent \in [1..n -> Data], Accepted(w, n, pos, k, sent)
  PROVE  Implemented /\ SInv'
<1> DEFINE c == w[0]
<1>1. /\ Moved(w, n, pos) /\ state' = IF k < n THEN "hang" ELSE state
      /\ disk' = Stored(SubSeq(FirstOf(c, n), 1, k), sent)
      /\ files' = [files EXCEPT ![pos].first = IF files[pos].first = NULL THEN free_head
                                               ELSE files[pos].first]
  BY DEF Accepted, Sent
<1>2. SInv'
  BY <1>1, TakenKept
<1>3. /\ c \in Seq(Block) /\ Injective(c) /\ Len(c) \in Nat /\ n \in 1..Len(c) /\ n \in Nat
      /\ DOMAIN c = 1..Len(c)
      /\ Chain(free_head, next_block) = c /\ Chain(free_head', next_block') = RestOf(c, n)
  BY <1>1, TakenFree DEF SInv
<1>4. PICK e : e = disk'
  OBVIOUS
<1>5. /\ \A i \in 1..k : e[c[i]] = sent[i]
      /\ \A a \in Link : (\A i \in 1..k : c[i] # a) => e[a] = disk[a]
  <2>1. disk \in [Link -> Data \cup {NoData}]
    <3>1. TypeOK
      BY DEF SInv, ChainInv
    <3> QED
      BY <3>1, Zenon DEF TypeOK
  <2> HIDE DEF c
  <2>2. e = Stored(SubSeq(FirstOf(c, n), 1, k), sent)
    BY <1>1, <1>4
  <2>3. Wrote(e, c, k, sent)
    BY <1>3, <2>1, <2>2, StoredFacts
  <2> QED
    BY <2>3 DEF Wrote
<1>6. ASSUME NEW b \in Block, b \notin ToSet(c) PROVE e[b] = disk[b]
  <2>1. \A i \in 1..k : i \in 1..Len(c)
    BY <1>3
  <2>2. \A i \in 1..k : c[i] # b
    BY <1>3, <1>6, <2>1 DEF ToSet
  <2>3. b \in Link
    BY BlockFacts
  <2> QED
    BY <1>5, <2>2, <2>3
<1>7. Kept' = Kept /\ KeptFree' = KeptFree
  <2>1. \A b \in Block : b \in ToSet(Chain(free_head, next_block)) \/ disk'[b] = disk[b]
    BY <1>3, <1>4, <1>6
  <2> QED
    BY <2>1, KeptStays DEF KeptFree
<1>8. ASSUME k < n PROVE Implemented
  BY <1>1, <1>7, <1>8, StopImplemented
<1>9. ASSUME ~(k < n) PROVE Implemented
  <2>1. k = n /\ state' = state
    BY <1>1, <1>3, <1>9
  <2> DEFINE H == Heads(files, free_head)
             u == AppendChains(H, w, n, pos)
  <2>2. PICK t, next, free : t = files' /\ next = next_block' /\ free = free_head'
    OBVIOUS
  <2>3. Layout(u, Heads(t, free), next)
    <3>1. Layout(u, Heads(files', free_head'), next_block')
      BY <1>1, MovedLinks DEF SInv
    <3> QED
      BY <2>2, <3>1
  <2>4. LaidList(files, w, free_head, next_block)
    BY MemoryLaid DEF SInv
  <2>5. t \in Seq(FileEntry) /\ files \in Seq(FileEntry) /\ Distinct(t)
    BY <2>2, TypedNext, TypedChains DEF SInv, FilesInv, FdsDistinct, Distinct
  <2>6. /\ Len(t) = Len(files) /\ DOMAIN t = 1..Len(files) /\ DOMAIN files = 1..Len(files)
        /\ Len(files) \in Nat
    <3>1. DOMAIN t = DOMAIN files
      BY <1>1, <2>2
    <3> HIDE DEF FileEntry
    <3> QED
      BY <2>5, <3>1
  <2>7. \A i \in 1..Len(files) : t[i].fd = files[i].fd
    <3> DEFINE v == IF files[pos].first = NULL THEN free_head ELSE files[pos].first
               r == [files[pos] EXCEPT !.first = v]
    <3>1. t = [files EXCEPT ![pos] = r]
      BY <1>1, <2>2
    <3>2. files[pos] \in FileEntry
      BY <2>5
    <3> HIDE DEF v
    <3>3. r.fd = files[pos].fd
      BY <3>2, EntryFields, Zenon DEF FileEntry
    <3> HIDE DEF r, FileEntry
    <3> QED
      BY <2>6, <3>1, <3>3
  <2>8. LaidList(t, u, free, next)
    BY <2>3, <2>5, <2>6 DEF LaidList
  <2>9. ASSUME NEW i \in 1..Len(files), NEW j \in 1..Len(w[i]) PROVE e[w[i][j]] = disk[w[i][j]]
    <3>1. i \in DOMAIN H /\ 0 \in DOMAIN H
      BY <2>6, <2>9, HeadsFacts
    <3>2. w[i][j] \in Block
      BY <2>9, <3>1, LayoutFacts
    <3>3. w[i][j] \notin ToSet(c)
      <4>1. \A x \in 1..Len(c) : c[x] # w[i][j]
        BY <2>6, <2>9, <3>1 DEF Layout
      <4> QED
        BY <1>3, <4>1 DEF ToSet
    <3> QED
      BY <1>6, <3>2, <3>3
  <2>10. \A i \in 1..Len(files) : i # pos => Held(u[i], e) = Held(w[i], disk)
    <3>1. ASSUME NEW i \in 1..Len(files), i # pos PROVE Held(u[i], e) = Held(w[i], disk)
      <4>1. i \in DOMAIN H /\ i # 0
        BY <2>6, <3>1, HeadsFacts
      <4>2. u[i] = w[i]
        BY <3>1, <4>1 DEF AppendChains
      <4> HIDE DEF u
      <4> QED
        BY <2>9, <4>2 DEF Held
    <3> QED
      BY <3>1
  <2>11. Held(u[pos], e) = Held(w[pos], disk) \o sent
    <3>1. pos \in DOMAIN H /\ pos # 0
      BY <2>6, HeadsFacts
    <3>2. u[pos] = Joined(w[pos], FirstOf(c, n))
      BY <3>1 DEF AppendChains
    <3>3. w[pos] \in Seq(Block)
      BY <3>1, LayoutFacts
    <3>4. Written(c, n, sent, e)
      BY <1>5, <2>1 DEF Written
    <3>5. Unwritten(w[pos], disk, e)
      BY <2>9 DEF Unwritten
    <3> HIDE DEF c, u
    <3>6. Held(Joined(w[pos], FirstOf(c, n)), e) = Held(w[pos], disk) \o sent
      BY <1>3, <3>3, <3>4, <3>5, HeldJoined
    <3> QED
      BY <3>2, <3>6
  <2> HIDE DEF H, u
  <2>12. PICK F, G : /\ F = FilesOn(files, next_block, Same, disk)
                     /\ G = FilesOn(t, next, Same, e)
    OBVIOUS
  <2>13. Lists(F, files, w, disk) /\ Lists(G, t, u, e)
    BY <2>4, <2>8, <2>12, FilesOnFacts, Zenon
  <2>14. files[pos].fd \in DOMAIN F /\ G = [F EXCEPT ![files[pos].fd] = @ \o sent]
    <3>1. Distinct(files)
      BY <2>4 DEF LaidList
    <3>2. GrownBy(files, t, w, u, disk, e, pos, sent)
      BY <2>6, <2>7, <2>10, <2>11, <3>1 DEF GrownBy
    <3>3. PICK s : s = files
      OBVIOUS
    <3>4. PICK d : d = disk
      OBVIOUS
    <3>5. /\ Lists(F, s, w, d) /\ Lists(G, t, u, e) /\ GrownBy(s, t, w, u, d, e, pos, sent)
          /\ pos \in 1..Len(s)
      BY <2>13, <3>2, <3>3, <3>4
    <3>6. Extended(F, G, s[pos].fd, sent)
      BY <3>5, Grown, Zenon
    <3> QED
      BY <3>3, <3>6 DEF Extended
  <2>15. Len(RestOf(c, n)) = Len(c) - n
    <3>1. n \in 0..Len(c)
      BY <1>3
    <3> QED
      BY <1>3, <3>1, RestFacts
  <2>16. ondisk_addr = Same
    BY DEF SInv, ChainInv
  <2>17. /\ MemoryStore = F /\ MemoryStore' = G
         /\ MemoryFree = Len(c) /\ MemoryFree' = Len(c) - n
    BY <1>3, <1>4, <2>1, <2>2, <2>12, <2>15, <2>16, MappedAlways, MappedNext DEF Mapped
  <2>18. Store!Append_
    <3>1. n \in 1..MaxSize /\ n <= MemoryFree /\ MemoryFree' = MemoryFree - n
      <4>1. MaxSize \in Nat
        BY ConstantsAssumption, Zenon
      <4> QED
        BY <1>3, <2>17, <4>1
    <3>2. /\ files[pos].fd \in DOMAIN MemoryStore
          /\ MemoryStore' = [MemoryStore EXCEPT ![files[pos].fd] = @ \o sent]
      BY <2>14, <2>17
    <3>a. Operation' = [call |-> "write", fd |-> files[pos].fd, data |-> sent, n |-> n]
      <4>1. Len(sent) = n
        BY <1>3
      <4>2. Up'
        BY <2>1 DEF Up
      <4> QED
        BY <4>1, <4>2 DEF Accepted, Delivered, Operation
    <3>3. \E fd \in DOMAIN MemoryStore, m \in 1..MaxSize : \E buf \in [1..m -> Data] :
             /\ m <= MemoryFree /\ MemoryFree' = MemoryFree - m
             /\ MemoryStore' = [MemoryStore EXCEPT ![fd] = @ \o buf]
             /\ Operation' = [call |-> "write", fd |-> fd, data |-> buf, n |-> m]
      BY <3>1, <3>2, <3>a
    <3>4. Up /\ UNCHANGED <<Up, image.valid, Kept, KeptFree>>
      BY <1>7, <2>1 DEF Up
    <3> QED
      BY <3>3, <3>4 DEF Store!Append_, Store!Op, MemoryStore, MemoryFree, Kept, KeptFree
  <2> QED
    BY <2>18 DEF Implemented, Store!Next
<1> QED
  BY <1>2, <1>8, <1>9

\* A read returns the first blocks of the file, or none.
LEMMA ReadImplemented ==
  ASSUME SInv, state = "up", NEW pid, NEW fd \in Fds, NEW n \in 0..MaxSize, _read(pid, fd, n)
  PROVE  Implemented /\ (ChainInv' /\ FilesInv' => SInv')
<1>1. UNCHANGED <<state, next_block, ondisk_addr, free_head, files, disk, image>>
  BY Zenon DEF _read, memory
<1>2. CASE Reply(pid, "read", fd, n, -1)
  <2>1. Quiet
    BY <1>2, QuietReply
  <2> QED
    BY <1>1, <2>1, ListImplemented
<1>3. CASE Moves(pid, "read", fd, n, 0, BlocksRead(pid, fd, n))
  <2> DEFINE read == BlocksRead(pid, fd, n)
  <2>1. Operation' = [call |-> "read", fd |-> fd, data |-> read, n |-> n]
    <3>1. Up'
      BY <1>1 DEF Up
    <3>2. /\ reply'.call = "read" /\ reply'.fd = fd /\ reply'.arg = n /\ reply'.value = 0
          /\ reply'.data = read
      BY <1>3 DEF Moves
    <3> HIDE DEF read
    <3> QED
      BY <3>1, <3>2 DEF Operation
  <2>2. UNCHANGED <<MemoryStore, MemoryFree, Kept, KeptFree>>
    BY <1>1, MappedAlways, MappedNext DEF Mapped
  <2>3. Up /\ UNCHANGED <<Up, image.valid>>
    BY <1>1 DEF Up
  <2>4. ASSUME \/ read = <<>>
               \/ fd \in DOMAIN MemoryStore /\ \E k \in 0..n :
                     /\ k = n \/ (k < n /\ k = Len(MemoryStore[fd]))
                     /\ k <= Len(MemoryStore[fd])
                     /\ read = [i \in 1..k |-> MemoryStore[fd][i]]
        PROVE  Implemented
    <3> HIDE DEF read
    <3>1. \E g \in Fds, m \in 0..MaxSize :
             \/ Operation' = [call |-> "read", fd |-> g, data |-> <<>>, n |-> m]
             \/ g \in DOMAIN MemoryStore /\ \E k \in 0..m :
                   /\ k = m \/ (k < m /\ k = Len(MemoryStore[g]))
                   /\ k <= Len(MemoryStore[g])
                   /\ Operation' = [call |-> "read", fd |-> g, n |-> m,
                                    data |-> [i \in 1..k |-> MemoryStore[g][i]]]
      BY <2>1, <2>4
    <3>2. Store!Read
      BY <2>2, <2>3, <3>1 DEF Store!Read, Store!Op, MemoryStore, MemoryFree, Kept, KeptFree
    <3> QED
      BY <3>2 DEF Implemented, Store!Next
  <2>5. CASE ~Found(fd) \/ ~Permitted(pid, fd)
    <3>1. read = <<>>
      BY <2>5 DEF BlocksRead
    <3> QED
      BY <1>1, <2>4, <3>1 DEF SInv, FreeKept
  <2>6. CASE Found(fd) /\ Permitted(pid, fd)
    <3>1. PICK pos : pos = Position(fd)
      OBVIOUS
    <3>2. files \in Seq(FileEntry) /\ Len(files) \in Nat /\ IsList(files) /\ DOMAIN files = 1..Len(files)
      <4>1. files \in Seq(FileEntry) /\ Len(files) \in Nat /\ IsList(files)
        BY TypedChains DEF SInv, FilesInv
      <4> HIDE DEF FileEntry
      <4> QED
        BY <4>1
    <3>3. pos \in 1..Len(files) /\ files[pos].fd = fd
      BY <2>6, <3>1, <3>2, PositionFacts
    <3>4. PICK w : Layout(w, Heads(files, free_head), next_block)
      BY DEF SInv, ChainInv, Laid
    <3>5. PICK F : F = FilesOn(files, next_block, Same, disk)
      OBVIOUS
    <3>6. Lists(F, files, w, disk)
      <4>1. LaidList(files, w, free_head, next_block)
        BY <3>4, MemoryLaid DEF SInv
      <4> QED
        BY <3>5, <4>1, FilesOnFacts, Zenon
    <3>7. ondisk_addr = Same /\ MemoryStore = F
      <4>1. ondisk_addr = Same
        BY DEF SInv, ChainInv
      <4> QED
        BY <3>5, <4>1, MappedAlways DEF Mapped
    <3>8. PICK c : c = w[pos]
      OBVIOUS
    <3>9. /\ fd \in DOMAIN MemoryStore /\ MemoryStore[fd] = Held(c, disk)
      BY <3>3, <3>6, <3>7, <3>8 DEF Lists
    <3>10. Threads(files[pos].first, c, next_block) /\ c \in Seq(Block)
      <4>1. pos \in DOMAIN Heads(files, free_head) /\ Heads(files, free_head)[pos] = files[pos].first
        BY <3>2, <3>3, HeadsFacts
      <4> QED
        BY <3>4, <3>8, <4>1, LayoutFacts
    <3>11. /\ Len(c) \in Nat /\ \A i \in 1..Len(c) : Same[c[i]] = c[i]
      BY <3>10 DEF Same
    <3> DEFINE k == IF n < Len(c) THEN n ELSE Len(c)
               h == Held(c, disk)
    <3>12. n \in Nat
      <4>1. MaxSize \in Nat
        BY ConstantsAssumption, Zenon
      <4> QED
        BY <4>1
    <3>13. Reached(files[pos].first, n, next_block) = [i \in 1..k |-> c[i]]
      BY <3>10, <3>12, ReachedThread
    <3>14. read = [i \in 1..k |-> disk[Same[c[i]]]]
      <4> HIDE DEF k
      <4> QED
        BY <2>6, <3>1, <3>7, <3>13 DEF BlocksRead, Entry
    <3>15. k \in 0..n /\ k <= Len(c) /\ (k = n \/ (k < n /\ k = Len(c))) /\ \A i \in 1..k : i \in 1..Len(c)
      BY <3>11, <3>12
    <3>16. Len(h) = Len(c) /\ \A i \in 1..Len(c) : h[i] = disk[c[i]]
      BY <3>11 DEF Held
    <3> HIDE DEF k, h, read
    <3>17. read = [i \in 1..k |-> h[i]]
      BY <3>11, <3>14, <3>15, <3>16
    <3>18. Implemented
      BY <2>4, <3>9, <3>15, <3>16, <3>17 DEF read, h
    <3> QED
      BY <1>1, <3>18 DEF SInv, FreeKept
  <2> QED
    BY <2>5, <2>6
<1> QED
  BY <1>2, <1>3 DEF _read

LEMMA NextStore ==
  ASSUME SInv, [Next]_vars, "delete" \notin Calls
  PROVE  SInv' /\ Implemented
<1>1. ChainInv /\ FilesInv /\ ChainInv' /\ FilesInv'
  <2>1. ChainInv /\ FilesInv
    BY DEF SInv
  <2> QED
    BY <2>1, NextChains, NextFiles
<1>2. CASE UNCHANGED vars
  <2>1. UNCHANGED <<next_block, free_head, image>>
    BY <1>2 DEF vars, memory
  <2>2. SInv'
    BY <1>1, <2>1 DEF SInv, FreeKept
  <2> QED
    BY <1>2, <2>2, StutterImplemented
<1>3. CASE (state = "up" /\ checkpoint_fs) \/ load_fs \/ build_fs
  BY <1>1, <1>3, CheckpointImplemented, LoadImplemented, FormatImplemented
<1>4. ASSUME NEW pid \in Pids, NEW name \in Names, state = "up", _create(pid, name) \/ _open(pid, name)
      PROVE  SInv' /\ Implemented
  <2>1. CASE _create(pid, name)
    BY <1>1, <1>4, <2>1, CreateImplemented
  <2>2. CASE _open(pid, name)
    <3>1. UNCHANGED <<state, next_block, ondisk_addr, free_head, disk, image>>
      BY <2>2, Zenon DEF _open
    <3>2. CASE UNCHANGED files
      <4>1. PICK fd, value : Reply(pid, "open", fd, name, value)
        BY <2>2, Zenon DEF _open, SetOccupied
      <4>2. "open" \notin {"write", "read"}
        OBVIOUS
      <4>3. Quiet
        BY <4>1, <4>2, QuietReply, Zenon
      <4>4. DOMAIN files' = DOMAIN files
            /\ \A i \in DOMAIN files : files'[i].fd = files[i].fd /\ files'[i].first = files[i].first
        BY <3>2
      <4> QED
        BY <1>1, <3>1, <4>3, <4>4, ListImplemented
    <3>3. CASE ~UNCHANGED files
      <4>1. SetOccupied("open", pid, FnameToFd(name), name, pid)
        BY <2>2, <3>3, Zenon DEF _open
      <4>2. /\ DOMAIN files' = DOMAIN files
            /\ \A i \in DOMAIN files : files'[i].fd = files[i].fd /\ files'[i].first = files[i].first
            /\ Quiet
        BY <1>1, <4>1, OwnerForm
      <4> QED
        BY <1>1, <3>1, <4>2, ListImplemented
    <3> QED
      BY <3>2, <3>3
  <2> QED
    BY <1>4, <2>1, <2>2
<1>5. ASSUME NEW pid \in Pids, NEW fd \in Fds, NEW n \in 0..MaxSize, state = "up",
             _close(pid, fd) \/ _read(pid, fd, n)
      PROVE  SInv' /\ Implemented
  <2>1. CASE _close(pid, fd)
    <3>1. /\ UNCHANGED <<state, next_block, ondisk_addr, free_head, disk, image>>
          /\ SetOccupied("close", pid, fd, "", -1)
      BY <2>1, Zenon DEF _close
    <3>2. /\ DOMAIN files' = DOMAIN files
          /\ \A i \in DOMAIN files : files'[i].fd = files[i].fd /\ files'[i].first = files[i].first
          /\ Quiet
      <4>1. "close" \notin {"write", "read"}
        OBVIOUS
      <4> QED
        BY <1>1, <3>1, <4>1, OwnerForm, Zenon
    <3> QED
      BY <1>1, <3>1, <3>2, ListImplemented, Zenon
  <2>2. CASE _read(pid, fd, n)
    BY <1>1, <1>5, <2>2, ReadImplemented
  <2> QED
    BY <1>5, <2>1, <2>2
<1>6. ASSUME NEW pid \in Pids, NEW fd, NEW n \in 0..MaxSize, NEW buf \in [1..n -> Data],
             state = "up", _write(pid, fd, buf)
      PROVE  SInv' /\ Implemented
  <2>1. n \in Nat
    <3>1. MaxSize \in Nat
      BY ConstantsAssumption, Zenon
    <3> QED
      BY <3>1
  <2>2. PICK w : Layout(w, Heads(files, free_head), next_block)
    BY <1>1 DEF ChainInv, Laid
  <2>3. /\ UNCHANGED <<ondisk_addr, image>>
        /\ \/ Quiet /\ UNCHANGED <<state, next_block, free_head, files, disk>>
           \/ Quiet /\ Refused(w, n)
           \/ \E pos \in 1..Len(files), k \in 0..n, sent \in [1..n -> Data] :
                 Accepted(w, n, pos, k, sent)
    BY <1>1, <1>6, <2>1, <2>2, WriteForm
  <2>4. CASE Quiet /\ UNCHANGED <<state, next_block, free_head, files, disk>>
    BY <1>1, <2>3, <2>4, ListImplemented
  <2>5. CASE Quiet /\ Refused(w, n)
    BY <1>1, <1>6, <2>2, <2>3, <2>5, RefusedImplemented
  <2>6. ASSUME NEW pos \in 1..Len(files), NEW k \in 0..n, NEW sent \in [1..n -> Data],
               Accepted(w, n, pos, k, sent)
        PROVE  SInv' /\ Implemented
    BY <1>1, <1>6, <2>2, <2>3, <2>6, AcceptedImplemented
  <2> QED
    BY <2>3, <2>4, <2>5, <2>6
<1> QED
  <2>1. MaxSize \in Nat
    BY ConstantsAssumption, Zenon
  <2>2. ASSUME NEW pid \in Pids, NEW fd \in Fds, state = "up", _close(pid, fd)
        PROVE  SInv' /\ Implemented
    <3>1. 0 \in 0..MaxSize
      BY <2>1
    <3> QED
      BY <1>5, <2>2, <3>1
  <2> QED
    BY <1>2, <1>3, <1>4, <1>5, <1>6, <2>2, Zenon DEF Next, Call, Issued

\* As long as no file is deleted, the file system is a store of append-only
\* files: a write adds the blocks that its transfers delivered to its own file
\* and to no other, a read returns the first blocks of its file, and a restart
\* returns to the files of the last checkpoint, none of which a later append has
\* damaged.  What a transfer delivers may be anything (Received).
THEOREM StoreImplemented ==
  ASSUME "delete" \notin Calls
  PROVE  Spec => ImplementsStore
<1>1. Init => SInv /\ Store!Init
  BY InitStore
<1>2. SInv /\ [Next]_vars => SInv' /\ [Store!Next]_Store!vars
  BY NextStore DEF Implemented
<1> QED
  BY <1>1, <1>2, PTL DEF Spec, ImplementsStore, Store!Spec
=============================================================================
