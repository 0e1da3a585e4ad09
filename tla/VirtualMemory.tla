---------------------------- MODULE VirtualMemory ---------------------------
(***************************************************************************)
(* kern/mm/mmap.c and its callers _fork and _exec of kern/syscall.c: the   *)
(* two-level page tables of the processes, the frames and second-level     *)
(* tables they are built from, and the part of the kernel they all map.    *)
(* The loops over the first level and over the pages advance one turn per  *)
(* step; no second call starts before the first one ends.                  *)
(*                                                                         *)
(* A second-level table and a frame stand for what slb_alloc_align and     *)
(* pages_alloc hand out.  Lines 30 and 130 take the base field of an       *)
(* entry, which is the address of the table divided by its size, for the   *)
(* address itself: what they read there is not a table but some words of   *)
(* the lowest 4 MB of memory, and LowWords says what these may be: zeros,  *)
(* or words that name frames, whoever uses them.  (A word that names other *)
(* memory makes pages_free write there, which is not modelled.)            *)
(***************************************************************************)
EXTENDS Integers, FiniteSets, FiniteSetsExt, Sequences

CONSTANTS Proc,         \* pids, from 0
          UserL1,       \* first-level entries of the user half
          KernelL1,     \* first-level entries of the kernel half
          L2,           \* entries of a second-level table
          Page, Block,  \* bytes of a page and of a disk block
          Images,       \* sequences of program headers [load, vaddr, offset,
                        \* memsz], load saying whether the type is PT_LOAD
          StackPages,   \* the pages below KERNEL_BASE mapped as a stack
          Tables, Frames,   \* sets of numbers
          LowWords      \* functions 0..L2-1 -> Frames \cup {NONE}

ASSUME ProcAssumption == Proc = 0..(Cardinality(Proc) - 1) /\ 0 \in Proc
ASSUME L1Assumption == UserL1 \in Nat \ {0} /\ KernelL1 \in Nat \ {0}
ASSUME L2Assumption == L2 \in Nat \ {0}
ASSUME PageAssumption ==
    Block \in Nat \ {0} /\ Page \in Nat \ {0} /\ Block % 2 = 0 /\ Page % Block = 0
ASSUME TablesAssumption == Tables \subseteq Nat \ {0} /\ Frames \subseteq Nat \ {0}
NONE == -1

ASSUME LowWordsAssumption ==
    LowWords # {} /\ LowWords \subseteq [0..(L2 - 1) -> Frames \cup {NONE}]

SECTION == 0            \* a one-megabyte section of the kernel
KERNEL_BASE == UserL1 * L2 * Page
Entry == 0..(UserL1 + KernelL1 - 1)
UserPages == 0..(UserL1 * L2 - 1)

ASSUME ImagesAssumption ==
    \A img \in Images :
        /\ Len(img) \in Nat \ {0} /\ DOMAIN img = 1..Len(img)
        /\ \A k \in 1..Len(img) :
              /\ img[k].load \in BOOLEAN
              /\ img[k].vaddr \in Nat /\ img[k].offset \in Nat /\ img[k].memsz \in Nat \ {0}
              /\ img[k].vaddr + img[k].memsz + 2 * Block <= KERNEL_BASE
\* Linkers place a segment at the same distance from a block boundary in memory
\* and in the file (ELF asks it of pages, which are whole blocks).
ASSUME CongruenceAssumption ==
    \A img \in Images : \A k \in 1..Len(img) : img[k].vaddr % Block = img[k].offset % Block
ASSUME StackAssumption == StackPages \in 1..(UserL1 * L2)

VARIABLES
    l1,          \* the first-level table of each process: NONE, a second-level
                 \* table or SECTION, by entry
    l2,          \* the frame in each entry of each second-level table, or NONE
    freeTables, freeFrames,
    alive,       \* the processes that have a page table
    op,          \* "idle", "unmap" (in unmmap), "map" (in mmap), "copy" (in
                 \* copy_mem_img), "hang" (out of memory, or in the data abort
                 \* handler) or "broken" (the list of free frames is no list)
    who, from,   \* the process worked on, and the one copied
    i,           \* the loop over the first level
    todo,        \* the pages that are still to be mapped
    stray,       \* history: the frames that unmmap freed by the wrong address
    image        \* history: the program of the last exec of a process, or <<>>

loop == <<op, who, from, i>>
vars == <<l1, l2, freeTables, freeFrames, alive, op, who, from, i, todo, stray, image>>

Slot(p, n) ==
    IF l1[p][n \div L2] = NONE THEN NONE ELSE l2[l1[p][n \div L2]][n % L2]
Mapped(p) == {n \in UserPages : Slot(p, n) # NONE}
Zeroed == [j \in 0..(L2 - 1) |-> NONE]

TypeOK ==
    /\ l1 \in [Proc -> [Entry -> Tables \cup {NONE, SECTION}]]
    /\ \A p \in Proc, e \in Entry : (e < UserL1) => (l1[p][e] # SECTION)
    /\ l2 \in [Tables -> [0..(L2 - 1) -> Frames \cup {NONE}]]
    /\ freeTables \subseteq Tables /\ freeFrames \subseteq Frames
    /\ alive \subseteq Proc
    /\ op \in {"idle", "unmap", "map", "copy", "hang", "broken"}
    /\ who \in Proc /\ from \in Proc
    /\ i \in -1..(UserL1 + KernelL1)
    /\ todo \subseteq UserPages
    /\ stray \subseteq Frames
    /\ image \in [Proc -> Images \cup {<<>>}]

\* prepare_page_table and mmu_high_main: sections for the kernel, nothing below.
Boot(p) == [e \in Entry |-> IF p = 0 /\ e >= UserL1 THEN SECTION ELSE NONE]

Init ==
    /\ l1 = [p \in Proc |-> Boot(p)]
    /\ l2 = [t \in Tables |-> Zeroed]
    /\ freeTables = Tables
    /\ freeFrames = Frames
    /\ alive = {0}
    /\ op = "idle" /\ who = 0 /\ from = 0 /\ i = 0
    /\ todo = {} /\ stray = {}
    /\ image = [p \in Proc |-> <<>>]

-----------------------------------------------------------------------------
(* What _exec maps.                                                        *)

\* Mutant of Blocks: the last block is not counted.
BlocksShort(h) == (h.offset + h.memsz - 1) \div Block - h.offset \div Block

\* end_id - start_id, the blocks of the file that hold the segment.
Blocks(h) == (h.offset + h.memsz - 1) \div Block + 1 - h.offset \div Block

\* mmap(start, finish): the pages it visits.
PagesOf(start, finish) ==
    {n \in UserPages : start <= n * Page /\ n * Page < finish}

\* The pages _exec maps for one program header.
SegmentPages(h) ==
    PagesOf((h.vaddr \div Page) * Page, h.vaddr + Blocks(h) * Block)

Stack == PagesOf(KERNEL_BASE - StackPages * Page, KERNEL_BASE)

\* The headers the loop of _exec maps.  Behind a header that is not PT_LOAD it
\* forgets to advance phoff, and reads that header until its turns are over.
Reached(img) ==
    {img[k] : k \in {m \in DOMAIN img : \A n \in 1..m : img[n].load}}

\* All that _exec maps, in the order of the pages and not of the calls.
ExecPages(img) == (UNION {SegmentPages(h) : h \in Reached(img)}) \cup Stack

\* sd_dma_spin_load: the pages whose frames the card writes.  It starts at the
\* page of vaddr - offset, offset being kept in eight bits (half a block), and
\* goes to the next page whenever it has filled one.
LoadedPages(h) ==
    LET va == h.vaddr - ((h.offset % Block) % (Block \div 2))
    IN  {va \div Page + k : k \in 0..((Blocks(h) * Block - 1) \div Page)}

\* The pages a program needs: those of its segments, of its load, its stack.
Needs(img) ==
    Stack \cup UNION {LoadedPages(img[k])
                      \cup ((img[k].vaddr \div Page)..
                            ((img[k].vaddr + img[k].memsz - 1) \div Page)) :
                      k \in {m \in DOMAIN img : img[m].load}}

-----------------------------------------------------------------------------
(* _exec.                                                                  *)

Exec ==
    /\ op = "idle"
    /\ \E p \in alive, img \in Images :
          /\ who' = p
          /\ todo' = ExecPages(img)
          /\ image' = [image EXCEPT ![p] = img]
    /\ op' = "unmap"
    /\ i' = UserL1 - 1
    /\ UNCHANGED <<l1, l2, freeTables, freeFrames, alive, from, stray>>

\* The words that name a frame, and the frames they name.
Entries(w) == {j \in DOMAIN w : w[j] # NONE}
Named(w) == {w[j] : j \in Entries(w)}

\* A frame is given back that is free already, or given back twice.
FreedAgain(w) ==
    \/ Named(w) \cap freeFrames # {}
    \/ \E j, k \in Entries(w) : j # k /\ w[j] = w[k]

\* One turn of unmmap: the frames named by the words at the wrong address are
\* freed, slb_free_align finds no pool there, and the entry stays as it is.
\* After pages_free of a free frame the list holds it twice or is a cycle.
UnmapEntry ==
    /\ op = "unmap" /\ i >= 0
    /\ \/ l1[who][i] = NONE /\ UNCHANGED <<op, freeFrames, stray>>
       \/ /\ l1[who][i] # NONE
          /\ \E w \in LowWords :
                /\ stray' = stray \cup Named(w)
                /\ freeFrames' = freeFrames \cup Named(w)
                /\ op' = IF FreedAgain(w) THEN "broken" ELSE op
    /\ i' = i - 1
    /\ UNCHANGED <<l1, l2, freeTables, alive, who, from, todo, image>>

UnmapEnd ==
    /\ op = "unmap" /\ i < 0
    /\ op' = "map"
    /\ UNCHANGED <<l1, l2, freeTables, freeFrames, alive, who, from, i, todo, stray, image>>

-----------------------------------------------------------------------------
(* mmap, and the mapping half of copy_mem_img.                             *)

\* The page of this turn.
Current == Min(todo)

\* The entry has no second-level table yet.
NeedsTable(p, e) == l1[p][e] = NONE

\* slb_alloc_align(PTE_L2SIZE, PTE_L2ALIGN), cleared, into the entry.
NewTable(p, e) ==
    /\ freeTables # {}
    /\ LET t == Min(freeTables)
       IN  /\ l1' = [l1 EXCEPT ![p][e] = t]
           /\ l2' = [l2 EXCEPT ![t] = Zeroed]
           /\ freeTables' = freeTables \ {t}

MapTable ==
    /\ op \in {"map", "copy"} /\ todo # {}
    /\ NeedsTable(who, Current \div L2)
    /\ NewTable(who, Current \div L2)
    /\ UNCHANGED <<freeFrames, alive, loop, todo, stray, image>>

\* The page has a table but no frame.
NeedsFrame(p, n) == l1[p][n \div L2] # NONE /\ Slot(p, n) = NONE

\* copy_mem_img copies a page it has mapped, through two physical addresses as
\* the running process happens to map them: they may be anything of its own, or
\* nothing, and the handler of the data abort does not return.
CopyPage ==
    /\ op' = op \/ (op = "copy" /\ op' = "hang")
    /\ UNCHANGED <<who, from, i>>

\* pages_alloc(PAGE_L2SIZE), the first that is free, into the second-level entry.
MapFrame ==
    /\ op \in {"map", "copy"} /\ todo # {}
    /\ NeedsFrame(who, Current)
    /\ freeFrames # {}
    /\ LET f == Min(freeFrames)
       IN  /\ l2' = [l2 EXCEPT ![l1[who][Current \div L2]][Current % L2] = f]
           /\ freeFrames' = freeFrames \ {f}
    /\ todo' = todo \ {Current}
    /\ CopyPage
    /\ UNCHANGED <<l1, freeTables, alive, stray, image>>

\* A page that is mapped already keeps its frame.
MapSkip ==
    /\ op \in {"map", "copy"} /\ todo # {}
    /\ Slot(who, Current) # NONE
    /\ todo' = todo \ {Current}
    /\ CopyPage
    /\ UNCHANGED <<l1, l2, freeTables, freeFrames, alive, stray, image>>

\* The last mmap of _exec returns.
ExecEnd ==
    /\ op = "map" /\ todo = {}
    /\ op' = "idle"
    /\ i' = 0
    /\ UNCHANGED <<l1, l2, freeTables, freeFrames, alive, who, from, todo, stray, image>>

-----------------------------------------------------------------------------
(* _fork and copy_mem_img.                                                 *)

\* The new process has an empty first-level table.
Fork ==
    /\ op = "idle"
    /\ \E p \in alive, c \in Proc \ alive :
          /\ c = Cardinality(alive)
          /\ from' = p
          /\ who' = c
          /\ alive' = alive \cup {c}
    /\ op' = "copy"
    /\ i' = 0
    /\ UNCHANGED <<l1, l2, freeTables, freeFrames, todo, stray, image>>

\* Mutant of FirstShared: one entry too low.
FirstSharedLow == UserL1 - 1

\* KERNEL_BASE / PAGE_L1SIZE.
FirstShared == UserL1

CopySkip ==
    /\ op = "copy" /\ todo = {} /\ i < FirstShared
    /\ l1[from][i] = NONE
    /\ i' = i + 1
    /\ UNCHANGED <<l1, l2, freeTables, freeFrames, alive, op, who, from, todo, stray, image>>

\* The child gets a table, and a page for each word at the wrong address that
\* looks like an entry of the parent's table.
CopyTable ==
    /\ op = "copy" /\ todo = {} /\ i < FirstShared
    /\ l1[from][i] # NONE
    /\ NewTable(who, i)
    /\ \E w \in LowWords : todo' = {i * L2 + j : j \in Entries(w)}
    /\ i' = i + 1
    /\ UNCHANGED <<freeFrames, alive, op, who, from, stray, image>>

\* The kernel half is the same for all: the entry itself is copied.
KernelCopy ==
    /\ op = "copy" /\ todo = {} /\ i >= FirstShared /\ i < UserL1 + KernelL1
    /\ l1' = [l1 EXCEPT ![who][i] = l1[from][i]]
    /\ i' = i + 1
    /\ UNCHANGED <<l2, freeTables, freeFrames, alive, op, who, from, todo, stray, image>>

ForkEnd ==
    /\ op = "copy" /\ todo = {} /\ i = UserL1 + KernelL1
    /\ op' = "idle"
    /\ i' = 0
    /\ UNCHANGED <<l1, l2, freeTables, freeFrames, alive, who, from, todo, stray, image>>

\* pages_alloc stops the kernel when it has nothing to give, for a frame or for
\* a pool of tables.
Hang ==
    /\ \/ /\ op \in {"map", "copy"} /\ todo # {}
          /\ \/ NeedsTable(who, Current \div L2) /\ freeTables = {}
             \/ NeedsFrame(who, Current) /\ freeFrames = {}
       \/ op = "copy" /\ todo = {} /\ i < FirstShared
          /\ l1[from][i] # NONE /\ freeTables = {}
    /\ op' = "hang"
    /\ UNCHANGED <<l1, l2, freeTables, freeFrames, alive, who, from, i, todo, stray, image>>

Next ==
    \/ Exec \/ UnmapEntry \/ UnmapEnd
    \/ MapTable \/ MapFrame \/ MapSkip \/ ExecEnd
    \/ Fork \/ CopySkip \/ CopyTable \/ KernelCopy \/ ForkEnd
    \/ Hang

Spec == Init /\ [][Next]_vars

-----------------------------------------------------------------------------
(* Properties.                                                             *)

UserEntries(p) == {e \in 0..(UserL1 - 1) : l1[p][e] # NONE}
Places == {x \in Tables \X (0..(L2 - 1)) : l2[x[1]][x[2]] # NONE}

Held == {l2[x[1]][x[2]] : x \in Places}

\* However processes fork and exec over each other's remains, every frame is
\* free or in a table, none is forgotten (mmap, mmap.c:77-86); and but for the
\* frames that unmmap freed through a wrong address while they were in use, a
\* frame is in one entry of one table only, or free (mmap.c:30-36).
FramesAccounted ==
    /\ Frames = freeFrames \cup Held
    /\ freeFrames \cap Held \subseteq stray
    /\ \A x, y \in Places :
          l2[x[1]][x[2]] = l2[y[1]][y[2]] => x = y \/ l2[x[1]][x[2]] \in stray

\* A second-level table serves one entry of one process, or is free, so that
\* mapping a page of one process maps it for no other (mmap.c:58-69, 110-128).
TablesExclusive ==
    /\ \A p, q \in Proc : \A d \in UserEntries(p), e \in UserEntries(q) :
          l1[p][d] = l1[q][e] => p = q /\ d = e
    /\ freeTables = Tables \ UNION {{l1[p][e] : e \in UserEntries(p)} : p \in Proc}

\* Every process that may run maps the whole kernel as process 0 does, or the
\* first trap after a switch to it has no handler (copy_mem_img, mmap.c:110-115).
KernelShared ==
    op = "idle" => \A p \in alive : \A e \in Entry :
        e >= UserL1 => l1[p][e] = l1[0][e] /\ l1[p][e] # NONE

\* No segment to load comes after a header of another kind.
LoadFirst(img) ==
    \A k \in DOMAIN img : \A m \in 1..k : img[k].load => img[m].load

\* When exec returns, every page that the program, its load and its stack touch
\* is mapped, whatever its alignment in memory and in the file, if its headers of
\* other kinds come last (syscall.c:258-272).
ExecMapsImage ==
    op = "idle" => \A p \in alive :
        image[p] # <<>> /\ LoadFirst(image[p]) => Needs(image[p]) \subseteq Mapped(p)

\* Exec allocates memory for each segment of any program (syscall.c:249-269).
ExecMapsEachSegment ==
    op = "idle" => \A p \in alive : image[p] # <<>> => Needs(image[p]) \subseteq Mapped(p)

\* When unmmap has ended, _exec has removed the mapping of user space
\* (syscall.c:227, mmap.c:26-40).
ExecRemovesMapping == op = "unmap" /\ i < 0 => Mapped(who) = {}

\* When copy_mem_img ends, the child maps every page that its parent maps
\* (syscall.c:190, mmap.c:130-149).
ForkCopiesPages ==
    op = "copy" /\ todo = {} /\ i = UserL1 + KernelL1 => Mapped(from) \subseteq Mapped(who)

\* Processes are apart in user space and share the kernel: whatever one maps,
\* copies or leaves behind, no other can see or miss it, but for frames that were
\* freed in use (mmap.c:17-149).
AddressSpacesApart == TypeOK /\ FramesAccounted /\ TablesExclusive /\ KernelShared
=============================================================================
