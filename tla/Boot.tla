-------------------------------- MODULE Boot --------------------------------
(***************************************************************************)
(* From reset to the kernel: firmware_bootmain, mbr_bootmain and kinit as  *)
(* callers of the SD driver and the timer, and the transfers of the        *)
(* running kernel.                                                         *)
(*                                                                         *)
(* The card holds the MBR in block 0 and the kernel's ELF image from block *)
(* ELF_ADDR on; bytes of it are their own positions, so that a byte tells  *)
(* where it comes from.  A program header is the two bytes at its place.   *)
(***************************************************************************)
EXTENDS SdDriver

CONSTANTS MBR, MBR_BUFFER, BUFFER,   \* 0x100000, 0x1300002 and 0x1200000
          MbrValid,        \* the MBR ends in 0x55, 0xAA
          ELF_ADDR,        \* the first sector of the second partition
          PHOFF, PHENTSIZE,
          Segment,         \* the program headers: offset, paddr, filesz
          KernelCalls,     \* transfers of the running kernel
          CallBound        \* bound: how many of them

ASSUME BootAssumption ==
    /\ {MBR, MBR_BUFFER, BUFFER} \subseteq Memory /\ ELF_ADDR \in 1..Blocks
    /\ PHOFF \in Nat /\ PHENTSIZE \in Nat /\ MbrValid \in BOOLEAN /\ CallBound \in Nat

VARIABLES
    at,      \* where the boot is: the call to make next
    seg,     \* segments loaded; then calls of the kernel
    read_ok  \* history: every read of mbr_bootmain has returned 0

vars == <<sd_vars, at, seg, read_ok>>

TypeOK ==
    /\ SdTypeOK
    /\ at \in {"FW", "FW_SD", "FW_CARD", "FW_READ", "FW_CHECK", "MBR_ELF", "MBR_LOOP",
               "MBR_SEGMENT", "KINIT", "KINIT_SD", "KINIT_CARD", "KERNEL", "SPIN", "LOST"}
    /\ seg \in 0..Len(Segment) + CallBound
    /\ read_ok \in BOOLEAN

Init == SdInit /\ at = "FW" /\ seg = 0 /\ read_ok = TRUE

-----------------------------------------------------------------------------
Between == Idle /\ ~Waiting      \* calls
Go(place, n) == at' = place /\ seg' = n
Simple(fn) == Call(fn, 0, 0, 0, <<>>)
Read(pa, count, offset) == Call("sd_dma_spin_read", pa, count, offset, <<>>)
Others == UNCHANGED <<host, engine, card, memory, disk, call, ret, faults>>

\* Memory from pa on holds the card's blocks from block on.
Holds(pa, count, block) ==
    \A b \in 0..count * SECTOR - 1 : memory[pa + b] = FirstImage[block * SECTOR + b]

\* firmware_bootmain.
FwSleep == at = "FW" /\ sleep(1) /\ Others /\ Go("FW_SD", seg) /\ UNCHANGED read_ok
FwInit == at = "FW_SD" /\ Between /\ Simple("sd_init") /\ Go("FW_CARD", seg) /\ UNCHANGED read_ok
FwCard ==
    /\ at = "FW_CARD" /\ Between
    /\ Simple("sd_spin_init_mem_card") /\ Go("FW_READ", seg) /\ UNCHANGED read_ok

\* Mutant of CardAccepted: only the first of the two good results is taken.
CardAcceptedSd == ret = 0
CardAccepted == ret \in {0, 1}

FwRead ==
    /\ at = "FW_READ" /\ Between /\ CardAccepted
    /\ Read(MBR, 1, 0) /\ Go("FW_CHECK", seg) /\ UNCHANGED read_ok

MbrChecked == ret = 0 /\ MbrValid /\ Holds(MBR, 1, 0)

\* Its while (1).
FwSpin ==
    /\ Between
    /\ (at = "FW_READ" /\ ~CardAccepted) \/ (at = "FW_CHECK" /\ ~MbrChecked)
    /\ Go("SPIN", seg) /\ UNCHANGED <<sd_vars, read_ok>>

\* mbr_bootmain: results of reads are not looked at; what they left in the
\* buffers is used, and where that is not the card's, control is lost.
MbrRead ==
    /\ at = "FW_CHECK" /\ Between /\ MbrChecked
    /\ Read(MBR_BUFFER, 1, 0) /\ Go("MBR_ELF", seg) /\ UNCHANGED read_ok

Noted == read_ok' = (read_ok /\ ret = 0)

MbrElf ==
    /\ at = "MBR_ELF" /\ Between /\ Holds(MBR_BUFFER, 1, 0)
    /\ Read(BUFFER, 3, ELF_ADDR) /\ Go("MBR_LOOP", 0) /\ Noted

Phoff == PHOFF + seg * PHENTSIZE
ElfThere == seg > 0 \/ Holds(BUFFER, 1, ELF_ADDR)

MbrHeader ==
    /\ at = "MBR_LOOP" /\ Between /\ ElfThere /\ seg < Len(Segment)
    /\ Read(BUFFER, 2, ELF_ADDR + (Phoff \div SECTOR))
    /\ Go("MBR_SEGMENT", seg) /\ Noted

HeaderThere ==
    \A b \in 0..PHENTSIZE - 1 :
       memory[BUFFER + (Phoff % SECTOR) + b] = FirstImage[ELF_ADDR * SECTOR + Phoff + b]

\* offset is an u8: half a sector is as far as it counts.
Offset(s) == (s.offset % SECTOR) % (SECTOR \div 2)
StartId(s) == s.offset \div SECTOR

\* Mutant of EndId: the sector of the last byte is not loaded.
EndIdShort(s) == (s.offset + s.filesz - 1) \div SECTOR
EndId(s) == ((s.offset + s.filesz - 1) \div SECTOR) + 1

MbrSegment ==
    /\ at = "MBR_SEGMENT" /\ Between /\ HeaderThere
    /\ LET s == Segment[seg + 1] IN
       Read(s.paddr - Offset(s), EndId(s) - StartId(s), StartId(s) + ELF_ADDR)
    /\ Go("MBR_LOOP", seg + 1) /\ Noted

MbrLost ==
    /\ Between
    /\ \/ at = "MBR_ELF" /\ ~Holds(MBR_BUFFER, 1, 0)
       \/ at = "MBR_LOOP" /\ ~ElfThere
       \/ at = "MBR_SEGMENT" /\ ~HeaderThere
    /\ Go("LOST", seg) /\ UNCHANGED <<sd_vars, read_ok>>

MbrEnter ==
    /\ at = "MBR_LOOP" /\ Between /\ ElfThere /\ seg = Len(Segment)
    /\ Go("KINIT", seg) /\ Noted /\ UNCHANGED sd_vars

\* kinit: the same again, and no result is looked at.
KinitSleep == at = "KINIT" /\ sleep(1) /\ Others /\ Go("KINIT_SD", seg) /\ UNCHANGED read_ok
KinitSd ==
    /\ at = "KINIT_SD" /\ Between
    /\ Simple("sd_init") /\ Go("KINIT_CARD", seg) /\ UNCHANGED read_ok
KinitCard ==
    /\ at = "KINIT_CARD" /\ Between
    /\ Simple("sd_spin_init_mem_card") /\ Go("KERNEL", Len(Segment)) /\ UNCHANGED read_ok

\* load_fs, checkpoint_fs, read, write and _exec.
Kernel ==
    /\ at = "KERNEL" /\ Between /\ seg < Len(Segment) + CallBound
    /\ \E c \in KernelCalls : Call(c.fn, c.pa, c.count, c.offset, c.pages)
    /\ Go("KERNEL", seg + 1) /\ UNCHANGED read_ok

\* Sectors are asked for, and a load names frames enough for them (walk_v2p
\* masks the low bits of an entry).  Half a sector is a byte at least.
ASSUME TransferAssumption ==
    /\ SECTOR > 1
    /\ Segment \in Seq([offset : Nat, paddr : Nat, filesz : Nat \ {0}])
    /\ \A n \in 1..Len(Segment) : Segment[n].paddr >= Offset(Segment[n])
    /\ \A c \in KernelCalls :
         /\ c.fn \in Transfers /\ c.pa \in Nat /\ c.count \in Nat \ {0} /\ c.offset \in Nat
         /\ c.pages \in Seq(Nat)
         /\ c.fn = "sd_dma_spin_load" =>
              /\ \A i \in 1..Len(c.pages) : c.pages[i] % PAGE = 0
              /\ c.count * SECTOR <= Len(c.pages) * PAGE

\* The image and what the kernel asks for are on the card.
ASSUME CardAssumption ==
    /\ ELF_ADDR + 3 <= Blocks
    /\ \A n \in 1..Len(Segment) :
         /\ ELF_ADDR + ((PHOFF + (n - 1) * PHENTSIZE) \div SECTOR) + 2 <= Blocks
         /\ ELF_ADDR + EndId(Segment[n]) <= Blocks
    /\ \A c \in KernelCalls : c.offset + c.count <= Blocks

\* Where segment s goes, and what is read to get it there.
Loaded(s) == s.paddr..s.paddr + s.filesz - 1
Touched(s) ==
    s.paddr - Offset(s)..s.paddr - Offset(s) + (EndId(s) - StartId(s)) * SECTOR - 1

\* Segments keep clear of the buffer (bootmain.c:5) and of what was loaded
\* before them; their first bytes are as far into a sector as offset counts.
ASSUME LayoutAssumption ==
    \A n \in 1..Len(Segment) :
        /\ Segment[n].offset % SECTOR < SECTOR \div 2
        /\ Touched(Segment[n]) \subseteq Memory
        /\ Loaded(Segment[n]) \cap (BUFFER..BUFFER + 2 * SECTOR - 1) = {}
        /\ \A m \in 1..n - 1 : Loaded(Segment[m]) \cap Touched(Segment[n]) = {}

BootStep ==
    \/ FwSleep \/ FwInit \/ FwCard \/ FwRead \/ FwSpin \/ MbrRead \/ MbrElf \/ MbrHeader
    \/ MbrSegment \/ MbrLost \/ MbrEnter \/ KinitSleep \/ KinitSd \/ KinitCard

Next == BootStep \/ Kernel \/ (SdNext /\ UNCHANGED <<at, seg, read_ok>>)

Spec == Init /\ [][Next]_vars
FairSpec == Spec /\ SdFair /\ WF_vars(BootStep)

-----------------------------------------------------------------------------
(* Properties.                                                             *)

\* When the kernel is entered and every read returned 0, each byte of each
\* segment is at its address: no transfer of a segment or header undid an
\* earlier one, none was short or shifted.
ImageLoaded ==
    at = "KINIT" /\ read_ok =>
        \A n \in 1..Len(Segment) : \A k \in 0..Segment[n].filesz - 1 :
            memory[Segment[n].paddr + k]
              = FirstImage[ELF_ADDR * SECTOR + Segment[n].offset + k]

\* With a valid MBR, a card that is addressed by sectors (cardtype is 1, SDHC) and
\* no fault, the kernel boots.
Boots == <>(at = "KERNEL" \/ faults.n > 0 \/ ~card.inserted)

\* Seen through its calls, the driver is a block device.
Request ==
    IF call.fn \notin Transfers THEN [dir |-> "none", bytes |-> <<>>, offset |-> 0]
    ELSE [dir |-> IF call.fn = "sd_dma_spin_write" THEN "write" ELSE "read",
          bytes |-> Bytes(call), offset |-> FirstBlock(call.offset)]
Storage == INSTANCE BlockDevice WITH
    request <- Request, done <- IF call.fn \in Transfers THEN engine.moved ELSE 0, result <- ret
IsBlockDevice == Storage!Spec

\* Up to the kernel's entry nothing goes wrong unseen: commands are clocked, and
\* an image whose reads all returned 0 is complete (bootmain.c:41-54).
BootSafe == TypeOK /\ CommandsClocked /\ ImageLoaded

\* What is not so, although doc/labs/lab0-prerequisites.markdown:49 asks for "A
\* working SD or SDHC card" and the firmware accepts both: without a fault the boot
\* loader finds the image.  It counts in sectors, and an SD(SC) card in bytes.
ImageFound == at = "LOST" => faults.n > 0 \/ ~card.inserted
=============================================================================
