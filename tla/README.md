# TLA+ specifications of the AIMv6 ARM kernel

TLA+ models, TLC runs and TLAPS proofs for the kernel in `src/`: a small
Unix-like kernel for one Cortex-A9 core of the Zynq7000 (`kern/`, `drivers/`,
`include/`), with round-robin processes, two-level page tables, a page and a
slab allocator, a file system on an SD card and the boot loader that starts it,
and the beginnings of a port to MIPS64 (Loongson 3A).

The modules are translated from the C and assembly code, function by function.
`PROJECT.json` lists, for every definition, the lines it stands for; the runs, their
properties, and for each property a small change of the code ("mutant of ..." in the
modules) that violates it; the hazards of the code; the finding; and the theorems.

## 1. Inventory

### Components, their state and their operations

| Component | Source | State | Operations |
|---|---|---|---|
| Scheduling policy | `kern/sched/policy_rr.c` | six `queue_t` of linked elements: NEW, READY, RUNNING, WAIT, ZOMBIE, ABORT | the nine `sched_*` transitions of the policy interface, `queue_push`, `queue_pop` |
| Processes | `kern/sched/sched_main.c`, `sched_init.c`, `kern/syscall.c` | `pcb_list`, `cnt_pcb`, each `pcb_t` (status, ppid, page table, saved registers); the CPU's registers and TTBR0; the timer | `new_pcb`, `init_sched`, `_fork`, `_exec`, `_wait`, `_exit`, `_getpid`, `_getppid`, `context_switch` |
| Exceptions and interrupts | `kern/arch/armv7a-le/zynq7000/`, `kern/init/armv7a-le/zynq7000/interrupt.c` | banked registers, one static context for each mode, the common stack, the registers of the interrupt controller | entry and exit sequences of all vectors, `int_ent_*`, `interrupt_init` |
| Page allocator | `kern/mm/pages_manage.c` | the free list, threaded through the free pages | `init_pspace`, `pages_alloc`, `pages_free`, `pages_split` |
| Slab and kmalloc | `kern/mm/slb.c`, `kmemory_manage.c` | the list of caches, each with pools and their free lists | `slb_init`, `slb_alloc_align`, `slb_free_align`, `kmalloc`, `kmfree` |
| Page tables | `kern/mm/mmap.c`, `pte.c`, `mmu_low.c`, `mmu_high.c` | a first-level table for each process, second-level tables | `mmap`, `unmmap`, `copy_mem_img`, the tables of the boot |
| File system | `kern/fs/fs_manage.c` and the file calls of `kern/syscall.c` | the table of blocks and links, the free list, the list of files; the card | create, open, close, read, write, delete, `checkpoint_fs`, `load_fs`, `build_fs` |
| SD driver | `drivers/sd/` | the controller's registers, the state of the card | `sd_init`, `sd_spin_send_cmd`, `sd_spin_init_mem_card`, DMA read, write and load |
| Boot loader, firmware, `kinit` | `boot/`, `firmware/`, `kern/init/init.c` | the memory they fill | read the MBR, read headers and segments, jump |
| Clock and delays | `drivers/clock/gtc-a9mpcore.c` | a 64-bit counter that runs | `gtc_get_time`, `sleep`, `usleep` |
| Integer division | `drivers/misc/division-arm.c` | none | `__aeabi_uidivmod` and its relatives |
| Console and C library | `drivers/serial/`, `lib/` | the FIFOs of the UART; memory | `uart_*`, `memcpy`, `memset`, `vsnprintf` |
| Debug information | `kern/debug/`, `tools/stab/` | the table of stabs; a position in a file | `get_debug_info`, `readstab32`, `readstab64` |
| MIPS64 port | `boot/arch/mips64/`, `kern/arch/mips64/` | the COUNT register, the RTC, an IDE disk | `_boot`, `probe_count_freq`, `usleep`, `setup_arch` |
| AHCI driver | `drivers/ata/` | the registers of each port, command lists and FIS areas in memory | `ahci_init_port` and what it calls |

`PROJECT.json` says for each of these how far it is modelled; section 6 below
lists what is left out.

### How they interact

* A user program enters the kernel by `SVC`; the timer does by IRQ.  Both
  entries save the registers in a static context, find the running PCB as the
  head of the RUNNING queue, and copy the context into it.  Handlers run with
  IRQs masked, so none interrupts another, except that nothing masks FIQ.  What is
  *not* atomic is the outside world: which program runs when, when the timer
  fires, what the SD controller, the card and the adapter of a disk do between two
  accesses of a polling driver, when a counter carries, when the power fails.
* `syscall.c` calls the scheduler (`new_pcb`, `sched_mature`, ...), the page
  tables (`copy_mem_img`, `unmmap`, `mmap`), the card, and the file system.
* `policy_rr.c` takes its queue elements from the slab, page tables come from
  the slab and the page allocator, the slab takes its pools from the page
  allocator, and the file system its tables from `kmalloc`.
* `context_switch` moves statuses through the policy, saves and restores
  registers, and changes TTBR0.
* Firmware, boot loader, `kinit` and the file system call the SD driver, which
  calls `usleep`; the firmware hands the UART to the kernel while bytes may be
  in its FIFO.

### What is hard to test, and what makes each component correct

* *Policy*: head, tail and middle cases of `queue_pop`, and transitions in
  orders no test tries.  The linked lists must stay six disjoint FIFO queues,
  each holding exactly the PCBs with its status.
* *Processes*: interleavings of forks, exits, waits and preemptions with the
  static contexts the handlers share.  The CPU must execute the one RUNNING
  process on its own table with its own registers; a preempted process must
  resume where it stopped; no ready process may be overtaken or starve.
* *Exceptions*: an exception between any two instructions of an entry or exit
  sequence.  Programs must get back every register, handlers must not share
  their stack, and every interrupt must be ended at the controller.
* *Page allocator*: a long history of allocations and frees in any order.  The
  in-place list must stay sorted, merged and complete, so that a request hangs
  the kernel only when no run of pages is long enough.
* *Slab*: the allocator allocates its own descriptors, recursively.  No two
  pieces of memory in use may overlap; counts and pages must stay exact.
* *Page tables*: exec over what an earlier program left mapped, fork after
  that.  No frame or table in two places, none forgotten; the kernel mapped
  everywhere; every byte of a program mapped whatever its alignment.
* *File system*: chains of blocks, the free list and the checkpoint are the
  same table; appends, deletions, failed transfers and restarts between them.
  Chains must be disjoint, a file must hold what was appended to it, a restart
  must come back to the last checkpoint, a descriptor must name one file.
* *SD driver and boot*: interrupts of the DMA engine at page boundaries,
  stale status bits, faults and removal in the middle of a command.  A call
  must return, fail only for a cause, and a transfer that reports success must have
  moved exactly its blocks; the kernel entered must be all there.
* *Clock*: a carry between the two halves of a read; no delay may be too short.
* *Division, library, console*: boundaries of words and buffers, bytes left in
  a FIFO at a hand-over.
* *MIPS port*: a counter that overflows while it is measured, and an adapter
  that reads and writes memory by itself while the driver sets it up.

## 2. Modules

| Module | Role |
|---|---|
| `QueueOps` | operators on queues as sequences (push, first occurrence, pop, move), shared |
| `RunQueues` | abstract specification of a scheduling policy: six sequences |
| `PolicyRR`, `MCPolicyRR` | `policy_rr.c` with its pointers; implements `RunQueues` |
| `Process` | boot, system calls, interrupts, context switches over the queues |
| `Exceptions` | entry, exit and switch at the level of registers, with the interrupt controller |
| `PageAllocator` | abstract specification of the page allocator: a set of free frames |
| `PagesManage` | `pages_manage.c` pointer by pointer; implements `PageAllocator` |
| `Slab`, `MCSlab` | `slb.c` and `kmemory_manage.c` over byte addresses |
| `VirtualMemory`, `MCVirtualMemory` | `mmap.c` under `_fork` and `_exec` |
| `FileStore` | abstract specification of the file system: files as sequences, the checkpoint |
| `FileSystem` | `fs_manage.c` with its links and the card; implements `FileStore` |
| `Gtc` | the timer's read and the delays |
| `SdDriver` (extends `Gtc`) | the SD driver against controller, DMA engine and card |
| `BlockDevice` | abstract specification of the driver: transfers of whole blocks, or failure |
| `Boot` (extends `SdDriver`), `MCBoot` | firmware, boot loader and kernel as callers; implements `BlockDevice` |
| `Division` | the division of `division-arm.c`, step by step |
| `Libc` | `memcpy`, `memset`, `vsnprintf` |
| `Console` (extends `Libc`) | the UART driver, its FIFOs, the hand-over from firmware to kernel |
| `Stabs` | `get_debug_info` and the two readers of stab sections |
| `Library`, `MCLibrary` | `Division`, `Console` and `Stabs` together, one series of calls in each behaviour |
| `MipsBoot` | the MIPS boot sector, the clock, the search for a disk |
| `Ahci` | `ahci_init_port` against the adapter |
| `Mips`, `MCMips` | `MipsBoot` or `Ahci` in each behaviour |
| `Scheduling_proofs`, `Exceptions_proofs`, `Memory_proofs`, `VirtualMemory_proofs`, `FileSystem_proofs`, `Drivers_proofs`, `Library_proofs`, `Mips_proofs` | theorems; `Scheduling_proofs` is about `QueueOps`, `PolicyRR` and `Process`, `Memory_proofs` about `PagesManage` and `Slab`, `Drivers_proofs` about `Gtc`, `Division`, `Ahci` and `SdDriver` under `Boot`, `Library_proofs` about `Libc`, `Console` and `Stabs`, `Mips_proofs` about `MipsBoot` |

Composition is by extension where components step together (`Gtc` under
`SdDriver` under `Boot`, `Libc` under `Console`), and by abstraction elsewhere:
`Process` is written over `QueueOps`, the vocabulary of `RunQueues`, which
`PolicyRR` is shown to implement; `Slab` and `VirtualMemory` take pages as
`PageAllocator` gives them (a run of free frames, or a stopped kernel), which
`PagesManage` is shown to implement; `FileSystem` takes transfers of whole
blocks that succeed or fail, which is what `BlockDevice` promises and the
driver is shown to implement.

### How state and actions correspond to the code

**PolicyRR.**  `head`/`tail` are the fields of the six queues, `pcb`/`next`
those of the elements, by address.  `QueuePush` and `QueuePop` follow the C
pointer by pointer; each action is one of the `sched_*` functions.  The
refinement mapping walks each list from its head.

**Process.**  A PCB is its pid and a register file is (program counter, r0,
mode).  `Fork`, `Exec`, `Wait`/`WaitIterate`, `Exit`, `Tick`, ... are whole
handlers: entry, system call, context switch, return.  `owner` (whose
instructions the CPU executes) and `logical` (the registers as the process last
left them) are history variables; they let the properties say that the CPU and
the saved registers are the right ones.  `state` says whether the kernel is
booting, running, in `_wait`'s loop, in the data-abort handler for good
(`int_ent_data_abort` after a null running PCB) or has written past `pcb_list`.

**Exceptions.**  A register holds a token that says which program put it
there and in which state of that program, or that it is an address in a
vector's code; r2 to r7 are one register and r8 to r12 another, because FIQ banks
the latter.  A group of instructions that saves, switches mode, calls C or
restores is a step, so an unmasked exception comes between any two of them;
`pc.late` counts the instructions by which a return address is off, which the C entries
correct by 4.  `gic.step` counts the stores of `interrupt_init`; `EarlyException` is an
interrupt between `asm_sctlr` and `init_context_container` (`interrupt.c:37-38`), which
finds no context to save to (`Lost`).  A system call may never return: `Spin` is a call
or a switch in a loop with IRQs masked (`_wait`, `pages_alloc` out of memory; `gets`
without a key), and the core stays at its C entry (`Stuck`).  `logical` is again a
history of what each program should see.

**PagesManage.**  One action per turn of the search loops and one for
everything that follows the search (split, unlink, link, merge).  An address is
a frame number.  `nodes` and `owned` are history variables: the areas on the
list and the frames that callers hold.

**Slab.**  Addresses are bytes.  A free list is the sequence of its
addresses; a call is one step.  `Alloc` gives the possible results of
`slb_alloc_align` with its nested call for a descriptor, none if the pages run
out on the way.  `held` and `lost` are history variables: what callers hold and
what they gave back in vain.

**VirtualMemory.**  `l1` and `l2` are the tables; an L2 table and a frame are
numbers.  Each turn of a loop of `unmmap`, `mmap` and `copy_mem_img` is a step.
A program is the sequence of its headers, of which `ExecPages` follows those that the
loop of `_exec` reads: behind one that is not PT_LOAD it reads the same again.
`LowWords` is the possible contents of the memory that `unmmap` and
`copy_mem_img` read by mistake for a table (section 4): each word names no frame, or
any.  `stray` is a history of the frames that `unmmap` freed so; one that was free
already leaves the list of the page allocator `"broken"`, and the model stops.
`copy_mem_img` may abort on the address it copies from or to (`CopyPage`), as well.

**FileSystem.**  `next_block` and `ondisk_addr` are `db_table`; a `datablock_t`
and an address on the card are numbers.  Each system call is a step; a
transfer may fail at any block, power may fail between any two steps.  `Received` is
what the DMA engine finds at V2P of the user address that `_write` passes: anything
(`fs_manage.c:261` subtracts `KERNEL_BASE` from an address of user space).  The
action of the abstract `FileStore` therefore has what the transfers delivered, and
`ImplementsStore` says that this, and nothing else, is added to the file and read again.

**Gtc, SdDriver, Boot.**  The counter's two halves are read HI, LO, HI, each a
step, and the counter ticks in between.  In the driver every access to a
register that the controller also changes is a step; `call` is the running
function with its locals.  The environment is the controller (reset, clock,
answers, completion bits), its DMA engine (a block at a time, a stop at each
page boundary) and the card (its state in the initialisation, busy answers);
faults are commands without an answer, errors in the data and removal.  `Boot`
adds `at`, the next call of the firmware, of `mbr_bootmain` or of `kinit`;
bytes of the card are their own positions, so that each byte of memory tells
where it came from.

**Library.**  `Division` has a step for each turn of its two loops.  `Libc` has
the head, word and tail parts of a copy, and each item of a format.  `Console`
has the firmware's greeting, the kernel's `uart_init` in the middle of it,
single register accesses of `putchar` and `getchar`, and a line that takes and
brings bytes at any time.  `Stabs` has the search of `get_debug_info`, with the
stab it overwrites, and the position in the file of the readers.

**Mips.**  `MipsBoot.at` is the next statement of `_boot` or `setup_arch`; COUNT
advances by up to `Lag` between two reads and wraps, `second` is the RTC.
`ReadData` reads words while the disk asks for more (its DRQ, at its own will), up to
`Exceeds`.  In `Ahci` each access to a register of a port is a step of the
driver; a port has its link (DET, IPM: devices may sleep), BSY, DRQ and errors, and
the adapter follows the bits ST, FRE and CI with CR, FR and completions at
its own time, writing FISes and data to the addresses the port holds then.

## 3. Runs

Each property comes with a mutant of the code for which TLC finds it violated
under the bounds of the run, so none holds for want of states.  Several properties are
conjunctions of named parts; the table names the parts.

| Run | Bounds | What it shows |
|---|---|---|
| `policy_lists` | 4 PCBs (symmetric), 5 elements | The linked lists implement six FIFO queues (`ImplementsPolicy`); `ListsConsistent`: well formed, and in step with the statuses. Four PCBs fill a queue with a first, a middle and a last element and leave one in another queue, and that is every case of `queue_pop`. |
| `process` | 5 PCBs, `ForkBound` 4, `SpinBound` 3, 2 user positions, all calls | `IInv`, `CpuBelongsToRunning`, `PreemptedContextIntact`, `FifoOrder`, and under fairness `ReadyRuns`: every ready process gets the CPU, whatever user programs do, unless the kernel is stopped for good (the data-abort handler, `_wait`, a full table). Pids 0 to 4 give a boot, an idle and two user processes behind each other in the ready queue, which is what overtaking and lost contexts need. |
| `exit_abort` | 3 PCBs | violation: section 4 |
| `exceptions` | 2 programs, the timer (29) and the UART (82), `FiqBound` 1, aborts | `ContextsIntact` (registers at each instruction of a program, those switched out, the stack), and under fairness `TimerAcknowledged` and `ReturnsToProgram`, unless the kernel is down (a fault) or stuck in a call that loops with IRQs masked. Two programs are switched in both directions, two lines are in different registers of the controller, one FIQ may come at any point. |
| `pages` | pool of frames 1 to 5 | `FreeListOrdered` (sorted, coalesced), `FramesAccounted` (complete); refines `PageAllocator`; every call ends. Five frames allow three separate areas, hence a merge with either, both or no neighbour, and a split at the head, middle and tail. |
| `slab` | pages of 32 bytes, 7 pages, pools for one object, `MaxHeld` 3 | `ExtentsApart`, `OneOwner` (nothing is handed out twice; what `slb_free` refuses is handed out never), `CountsExact` until memory is exhausted. The pool of descriptors has to grow while a new cache is made, caches have several pools, and two clients share a cache. |
| `vm` | 3 processes, 3 + 2 first-level entries of 2 pages, 6 tables, 8 frames, 3 programs; low memory has zeros, or a word that names a frame | `AddressSpacesApart` (second-level tables, the kernel's entries, and frames: in two places only if `unmmap` freed them in use) and `ExecMapsImage`, for programs whose headers of other kinds come last. Programs begin inside pages, cross first-level entries, share a page between segments, have a header of another kind before or behind, and are executed over each other; memory runs out in the middle of calls, and `unmmap` frees frames of other processes, free ones too. |
| `file_store` | 3 blocks, `MaxFiles` 2, `MaxSize` 2, 2 contents, 2 processes, no delete | `FilesApart` (chains disjoint, descriptors distinct), and `FileStore` is implemented through failed transfers, checkpoints and restarts: a file is what the transfers of its writes delivered, in order, and a read returns it, or its beginning if there is less than asked for. Two files that compete for three blocks can share, lose or run into each other's blocks. |
| `file_owners` | 2 blocks, 2 files, 2 processes, all calls | `FdsDistinct` and `OpenFilesProtected`, deletions included. |
| `boot` | card of 9 blocks of 4 bytes, pages of 2 blocks, counter halves of 2 up to `CounterBound` 6, `FaultBound` 2, `BusyBound` 1, `CallBound` 2 | `BootSafe` (commands only under a clock; the image complete in memory when the kernel is entered), `IsBlockDevice`, `NoSpuriousFailure`, `SleptLongEnough`, `CallsReturn`, `Boots`, all for a card addressed by sectors (`cardtype` 1). One segment starts inside a sector and crosses a page, the other starts at a page; the kernel's read crosses two pages, its load scatters over two. Two faults let the second hit the recovery from the first. |
| `library` | words of 5 bits and all pairs of them; 32 bytes with words of 4; formats of 2 items into 1, 3 and 10 bytes; FIFOs of 2 bytes, `TypedMax` 3; tables of 5 stabs; files of 4 sections | `DivisionCorrect` (denominators below half the range: the unsigned quotient, both remainders), `CopyCorrect` (bytes copied exactly, words aligned), `PrintCorrect` (output inside the buffer; the items that the code means as C does come out as C prints them, next to any others), `ConsoleInOrder` (output, input), `StabsCorrect` (lines and their files found, once each; `readstab64` prints .stabs), `CallsReturn` for calls that do return. All alignments and lengths up to three words; formats that end before, at and after the end of the buffer. |
| `mips` | COUNT of 5 bits, `Period` 14, `Lag` 2, 2 samples, a `SelectTime` of 2; images of 1 or 2 headers; 4 sets of disks; `Exceeds` 4 (1000 in the code); 2 ports | `StartUpCorrect` (an image of one segment loaded, frequency within the lag, sleeps as long as asked, a disk used if there is one), `PortsApart` (the command list and tables of an initialised port are given to no other, its FIS buffer only to one found empty; its data is what its own device said), `PortsQuiet`, `WaitsEnd`. COUNT wraps within the measured seconds; the PROM leaves engines running or not. |

`CHECK_DEADLOCK FALSE` appears where the system really stops: `while (1)` in
`pages_alloc` and in the handlers of faults, a PCB without further
transitions, a boot that ends in a loop, a call that has returned.
`VIEW view` in the runs of the file system, of the exceptions and of the boot drops
what no later step reads: the last reply, dead registers, the timer outside delays.

### Fairness

* `Process`: weak fairness of the boot, of process 0's own fork and exec (its
  instructions come one after the other with nothing to block them) and of
  `Tick` (`sched_init.c:85` starts the private timer with auto-reload, and it is
  the only interrupt that switches processes).  Nothing is assumed of user
  programs: they may loop for ever, and `ReadyRuns` holds because the timer
  takes the CPU from them.
* `PagesManage`, `Library`: weak fairness of the steps inside a call (a function
  that was called keeps executing), none of the calls; of the UART, that
  it sends what is in its FIFO.  Nothing is assumed of what the firmware calls
  next: it may never come to the kernel.
* `Exceptions`: weak fairness of the core's instructions and of the timer's
  ticks; strong fairness of taking an interrupt, since IRQs are masked and
  unmasked again and again and a line stays signalled until it is acknowledged.  A
  system call may return or not; where one does not, the two liveness properties say nothing.
* `Boot`: weak fairness of the caller's steps, of the counter, and of the
  controller: its reset and clock complete, a command gets an answer or a timeout error,
  a transfer moves on or fails.  It is not assumed that the card answers well.
* `Mips`: weak fairness of the code's steps and of the adapter's.  A port that
  reports an error keeps the driver in a loop for ever, and `WaitsEnd` excepts it.

## 4. Findings and divergences

One run is a violation of a statement in the repository's texts: `exit_abort`.  After
`_exit` nothing is in the running queue; the next SVC or interrupt
dereferences the null head and ends in the data-abort handler, which does the
same, whereas `doc/Xiaotao Liang/report.tex:76` has the parent deallocate the zombie.

More statements of the documents and comments are false of the code.  Each of the
following is a definition of its module, worded after the text, under a heading or comment
that says so.  It is in no cfg; added to that of the run named
(`ImageFound` with `cardtype = 0`), TLC finds it violated.

| Statement | Run | What the text says | What the code does |
|---|---|---|---|
| `Process!WaitsUntilWoken` | `process` | `doc/Xiaotao Liang/report.tex:88`: "it will be put into the waiting queue and wait to be wake up" | `kern/syscall.c:297`: `_wait` loops with IRQs masked and queues its caller again in each turn, so the child never runs |
| `Slab!NothingLost` | `slab` | `doc/arm-report-ypj/arm_report.tex:141`: "use slb_free(p, osize) or slb_free_align(p, osize, align) to free the memory" | `kern/mm/slb.c:77`: alignment 0 is not turned into 4 as at line 27, so objects above four bytes are lost: each element popped from a queue, each `kmfree` |
| `VirtualMemory!ExecRemovesMapping` | `vm` | `report.tex:85`: exec "removes the memory mapping of user space" | `kern/mm/mmap.c:30`: the base *field* is taken for the address of the table; frames that low memory happens to name are freed, the mapping stays |
| `VirtualMemory!ForkCopiesPages` | `vm` | `doc/Haoming Xing/report.md:54`: "copy the values of used pages to the addresses where the new page table was mapped to" | `kern/mm/mmap.c:130`: the same mistake; the child has a page for each word of low memory that looks like an entry |
| `VirtualMemory!ExecMapsEachSegment` | `vm` | `report.tex:85`: "just like how bootloader does, excepte that we need to allocate memory for each segment" | `kern/syscall.c:256`: `continue` skips the advance to the next header, so nothing behind a header that is not PT_LOAD is mapped or loaded |
| `FileSystem!AppendsBuffer` | `file_store` | `report.md:133`: "append to file fd n byte stored in buf[]" | `kern/fs/fs_manage.c:261`: the DMA engine is given V2P of a user address; what is appended is what lies there |
| `FileSystem!DeletedGone` | `file_owners` | `report.md:142`: "delete a file fd." | `kern/fs/fs_manage.c:304`: the head of the list, the file created last, is not unlinked |
| `Boot!ImageFound` | `boot` | `doc/labs/lab0-prerequisites.markdown:49`: "A working SD or SDHC card" | `bootmain.c:28` of the boot loader counts in sectors, an SD(SC) card in bytes (the firmware accepts it, its `bootmain.c:48`) |
| `Division!SignedQuotient` | `library` | `division-arm.c:23`: "idivmod, see the function, round to zero" | line 110: the quotient is put into r0 and then 0 is returned; the remainder is right |
| `Division!LargeDenominators` | `library` | `division-arm.c:61`: "update, prevent shift overflow" | line 57: from 2^31 on, `shift` has overflowed before the loop: wrong results, and no end for 2^31 |
| `Libc!PadsByFlag` | `library` | `snprintf.c:28`: the flag is for "padding with zero" | line 93: `flag \| FLAG_ZEROPAD` is never 0, so every width pads with zeros |
| `Stabs!EndsAsStated` | `library` | `debug_info.c:69-70`: "0 if no stab left.", "<0 if didn't find any." | line 107: a series whose lines are the last of the table ends with -1 |
| `Stabs!Stabs32Printed` | `library` | `readstab.c:214`: "Locate the stab section" | lines 196 and 215: `readstab32` loses its place in the headers and goes to the section whose header it read last |
| `MipsBoot!EachSegmentLoaded` | `mips` | `bootsect.c:101`: "Load each loadable segment into memory" | line 119: the seek back goes from the end of the segment, so behind one that is not empty the next header is read from the wrong place |
| `Ahci!FisBufferOwn` | `mips` | `ahci.h:27,51`: a single port's memory has its FIS receive buffer | `ahci.c:165`: a port without device keeps FIS reception on and its area is given to the next port; a device that links up late writes there |

The properties that are checked leave these cases out explicitly: `DivisionCorrect`,
`PrintCorrect`, `StabsCorrect`, `StartUpCorrect`, `ExecMapsImage` and `BootSafe` by their
preconditions, `AddressSpacesApart`, `OneOwner`, `PortsApart`, `ReadyRuns`,
`TimerAcknowledged` and `ReturnsToProgram` by an exception that their comments name.

The modules also contain the following as the code has it, with no statement for it.

* `kern/syscall.c`: `_exit` returns to the zombie's program; `new_pcb` prints an error
  when `pcb_list` is full and goes on (`sched_main.c:84`).
* `kern/fs/fs_manage.c:286`: deletion clears the addresses of the blocks it
  frees, and the next append that gets one writes to sector 0 of the card; where the
  deleted file stays in the list, the free list and its chain become one.
* `kern/fs/fs_manage.c`: `create` stores zeros as the name; a read of a missing file
  reports success; `load_fs` and `checkpoint_fs` follow an uninitialised pointer
  when there are no files; `checkpoint_fs` overwrites its only copy in place.
* `interrupt_vector.S:209`: the exit of a FIQ exchanges the roles of two registers, and
  its C entry neither corrects the pc nor saves the banked r8 to r12: the program
  that it interrupted loses lr, r12 and an instruction.  `ContextsIntact`
  holds until the first FIQ; the module has FIQs as the code treats them.
* `interrupt.c:37`: interrupts are unmasked before the contexts they are saved to are
  allocated (`EarlyException`); one that comes then sends the core into aborts for ever.
* `boot/arch/armv7a-le/zynq7000/bootmain.c:44` and `kern/syscall.c:262` keep the offset
  of a segment within its sector in eight bits (`Offset`: half a sector).  A segment
  that begins in the second half of one comes out 256 bytes too high; the
  image of the run `boot` begins in the first half, one of `vm` in the second.
* `lib/libc/stdio/snprintf.c`: `%s` with a width is padded on the right, hex digits are
  upper case, and a format that ends in a percent sign is read on behind its NUL.
* `kern/debug/debug_info.c:48`: `=` for `==` changes the table that is searched, and the
  function name reported is that of whatever stab came last.
* `kern/arch/mips64/setup.c:149`: without a disk the port number is used uninitialised
  (`"wild"`).

## 5. Theorems

All are for every value of the constants allowed by the named assumptions
(`MaxPcbAssumption`, ..., `PoolAssumption`), checked by TLAPS.

**`Scheduling_proofs`.**  For `Process`: `Invariance: Spec => []IInv`, and from it `Types`,
`QueuesConsistent`, `CpuOwnership` and `ContextPreserved`.  None
of these properties is inductive alone: that the CPU executes the running
process after a switch needs the saved registers of the ready processes to be
right (`PreemptedContextIntact`), that needs statuses to agree with queues
(`QueuesMatchStatus`), and that no second process enters RUNNING needs to know
that zombies and waiters exist only once nothing is dispatched any more
(`LastOneRuns`).  `IInv` is their conjunction with the page tables
(`OwnTables`), the program counters and the state before boot.  The proof has a
lemma for each kind of step: those that move registers only, those that move
one PCB between queues (over the facts about `Push`, `Pop` and `Move` at the
beginning of the module), and the four handlers that do both.  `RoundRobin: Spec =>
FifoOrder` follows from `IInv` and from lemmas on how a push, and a pop of the head, change
positions in a queue.

For `PolicyRR`: `ListsStayConsistent: PolicySpec => []ListsConsistent` and
`PolicyImplemented: PolicySpec => ImplementsPolicy`, for any number of PCBs and of elements that
is enough for them (`EnoughElements`).  The invariant (`RInv`) says that there is,
for each status, a sequence of elements that the pointers of `policy_rr.c` thread
(`Represents`), that no PCB is in two places of them (`Once`), and that the PCBs
in the sequence of a status are those that have it.  Each of the pointer operations (append at
the tail, removal at the head, removal elsewhere, with the special cases of the
empty list and of the last element) is a lemma about the sequences; the
refinement mapping is then the sequences themselves, and a free element exists
by counting.

**`Exceptions_proofs`.**  `ExceptionInvariance: Spec => []XInv` and `ContextsPreserved:
Spec => []ContextsIntact`, for any number of programs and lines.  `XInv` follows
the registers of the running program through the groups of instructions of a vector: at
each group it says which are still in the CPU, which in the banked registers
of the mode and which in the saved context (`Running`), and that
the contexts of all others are what they left (`SwitchedOut`).  It needs to know
what can interrupt what (`Masked`), that the return address of an IRQ or an
abort can be stepped back (`Correctable`), and where a C handler returns to
(`ReturnAddress`).

**`Memory_proofs`.**  First the page allocator: `Invariance`, `Ordered`, `Accounted` and
`Refinement: Spec => Allocator!Spec`.  The invariant adds to the list's
order, the merged areas and the accounted frames what a search knows (`SearchOK`): its two pointers are neighbours on
the list, everything before them is too short (`pages_alloc`) or lies below the
area to free (`pages_free`), and that area is owned.  Taking and linking are
split into lemmas for the whole area, the split area and the gap; the
refinement follows from the invariant, the hang case from `RunInOneArea`: in a
coalesced list, a run of free frames lies within one area.

Then the slab: `SlabInvariant`, `SlabExtentsApart`, `SlabOneOwner` and `SlabCountsExact`,
for any page size that is a multiple of a word, any number of pages and of objects
to a pool, and any requests for which a pool has room (`RequestsAssumption`; for a
larger alignment `slb_alloc_align` would follow NULL) or which have a power of two to
be rounded up to (`LengthsAssumption`).  `SlabIInv` is about the pools of all caches as one
set: each has its objects on a grid, the free ones are on it and none of them is out, the
count is that of the objects out of it, and the pages of two pools are
different (`PoolsSound`).  It adds that no two caches serve the same pair, that no
pool is in two places and that the last cache is that of the descriptors (`Shape`), and
that what a caller or a descriptor has is on the grid of a pool *for its request*
(`Served`): only then does an extent end where the next object begins.  The
arithmetic is in `SegmFacts` and `SegmRoom` (how `pool_segm` cuts a pool); the rest
takes one lemma for each thing that becomes of a pool (`TakeSound`, `ReturnSound`,
`GrowSound`) and one for how the caches then look (`ChangeOne`, `LinkInFront`,
`CacheInFront`); `AllocFacts` puts them together for the nested call for a descriptor.
`FreeKeyFacts` says that an object is looked for in its own cache or in none.

**`VirtualMemory_proofs`.**  `VMInvariance` and `SpacesApart: Spec =>
[]AddressSpacesApart`, whatever frames the words of low memory name.  `VMInv` has six parts
besides the types: a second-level table is free or under one first-level entry
(`TablesApart`), a free one is empty (`FreeTablesEmpty`), a process
that has not been forked has nothing (`Forked`), the child of a running fork has
nothing from the place of the copy on (`Copying`), the kernel is mapped by all
(`KernelMapped`), and a frame is free or under an entry of a table, and in two such places
only if it is `stray`, freed by `unmmap` while it was in use (`FramesApart`).

`ExecMaps: Spec => []ExecMapsImage` adds that `_exec` maps what the program
needs, if its headers that are not PT_LOAD come last (`LoadFirst`): before the first of them
the loop reads the headers one after the other.  Its invariant, `ImageInv`, says that a page of the image is mapped or still on the
list of pages that `mmap` is to map (`StepKeeps`: no step unmaps a page of an
address space that is not being replaced).  That the list has every page of every
segment (`ExecAsksForAll`) is arithmetic over the blocks that are loaded, for any page and
block size, and needs `CongruenceAssumption`, which `ld` keeps to.

**`FileSystem_proofs`.**  First the list of files: `FilesInvariance`,
`DescriptorsDistinct` and `OwnersProtected`.  The invariant is about the list
in memory and the one in the checkpoint, for a restart exchanges them: both are
lists of entries with distinct descriptors.  A new file takes the least
descriptor not in use, which exists by the pigeonhole principle while the list is not full.
These hold whatever deletion does to the chains of blocks.

Then the chains: `FilesKeptApart: Spec => []FilesApart` and `StoreImplemented: Spec =>
ImplementsStore`, both under `"delete" \notin Calls`, without which they are
false (section 4).  A chain is described by the sequence of its blocks (`Threads`),
and all chains together by a `Layout`: one sequence for the free list and one
for each file, in which no block has two places.  `ChainInv` says that there
is a layout of the memory and one of the checkpoint.  The work is in
`AppendLayout`: cutting the first blocks off the free list and putting them behind a
file is again a layout, since every place in the new chains is a place in the
old (`AppendOrigin`).  What loops compute is reduced to sequences without induction: a
recursive function along a chain is compared with the sequence at the least
place where they differ (`AfterThread`, `ReachedThread`).  `StoreImplemented` needs
one fact more (`FreeKept`): the free list in memory has only blocks that were
free at the checkpoint, which is why nothing that is appended later can damage
the files a restart returns to.  An append of `FileStore` has the data that the
transfers delivered (`Delivered`), and they are what the blocks of the file hold
afterwards (`HeldJoined`, `Grown`); a read has the contents of the blocks on the chain
(`ReadImplemented`); every other call neither delivers nor reads (`Quiet`).

**`Drivers_proofs`.**  `NeverEarly: GtcSpec => SleptLongEnough`, for every width
of the halves and every place of the carries.  The invariant says that the time
assembled from HI, LO, HI lies between the call and the present.  The counter
does not wrap as a whole in the model.

`DivisionInvariance` and `DivisionSound`: quotient and remainder
for every width of a word and all arguments below the denominators that leave room
for a shift.  The invariant has one part for each loop: `Aligned` (the denominator
was shifted by `shift`) and `Partial` (numerator = denominator * quotient so far + rest, and
the rest is below twice the shifted denominator); the signs are four cases.

`AhciInvariance`, `MemoryApart` and `ChangesAtRest`, for any
number of ports.  The invariant ties the driver's place in `ahci_init_port` to the
engines of the port (`StageOK`), and says that areas are given out
in order (`NextAreaFree`, `AreasDistinct`), that a port still to come has no addresses but the
PROM's and one found empty no command list (`GivenPorts`), that ports done stay as they are
(`DonePorts`), that one command at most is outstanding (`OneCommand`), and that a link which
saves power is up (`LinksUp`).

`SdInvariance`, `CommandsAreClocked`, `FailuresHaveCauses` and
`DriverIsBlockDevice: Spec => IsBlockDevice`, for the driver under the boot and the
running kernel: blocks and pages of any size, transfers of any length, any number of
faults.  `SdInv` says what the four parties know of each other.  A command in the
controller is the one that the driver waits for (`Commanded`), and the card is in the
state that step of the initialisation needs (`InStep`); the engine works only for
the transfer that runs (`Engaged`), so nothing can go after its return, and it runs
except while its interrupt is reported or served (`Standing`); the sectors that have
gone are all when TC is seen (`Counted`); an error report has a cause (`Blamed`); and
the address register is where the next sector goes (`Addressed`), which for a load
means that page `k` holds it and that at the end of a page `k * PAGE` bytes have
gone.  That last part needs `TransferAssumption`: a load has frames enough for its
sectors and frames begin at multiples of a page (`walk_v2p` masks the entry's low
bits).  The refinement follows: `SectorPlaces` equates the bytes a `Block` step moves
with those of the request's next sector, a function's end is a `Return`, and
everything else is a stutter.

`BootIsSafe: ASSUME cardtype = 1 PROVE Spec => []BootSafe`, for images of any number of
segments of any size.  `ImageInv` follows `mbr_bootmain` around its loop: while the read
of a segment runs, the sectors that have gone are in memory (`Fetched`); when it
returns 0 all have gone, and since every byte of the segment is in them
(`SegmentFacts`: the arithmetic of `start_id`, `end_id` and `offset`) the segment is there;
and a segment that is there stays (`ThereStays`).  The last needs `LayoutAssumption`: what a
later segment's sectors, first and last ones in full, and the headers' buffer cover is
not part of an earlier segment (bootmain.c:5 asks for the buffer's part), and a segment
starts in the first half of a sector, for `offset` is an `u8`.  `cardtype = 1` is a card that is
addressed by sectors: the boot passes sector numbers whatever the card, and an SD(SC)
card takes them for bytes.  `Limits` and `GtcBounds` give the types their
bounds; they need that what is asked for is on the card (`CardAssumption`).

**`Library_proofs`.**  `ConsoleInvariance` and `ConsoleSound: Spec =>
[]ConsoleInOrder`, for FIFOs of any depth.  What the port sends and holds is what
was written only because the kernel waits before it resets the port (`PortState`:
between the wait and the end of the reset nothing can be written), and a line is a
beginning of what was typed as long as no key overran the FIFO.

`StabsInvariance` and `StabsSound: Spec => []StabsCorrect`.  Each search writes to the
table that the next one reads; `TableKept` says what survives it: the values, which
entries are sources, and which of the others are line stabs (`SameUse`).  `SearchFacts`
reduces a search to the least and the last places with a property, so that the
series of calls of an address gives each line of its first run once (`SeriesKept`).
`ReaderKept` says that `readstab64` is at the header it is about to read.  Tables
and files are any sequences (`TablesAssumption`, `FilesAssumption`).

`CopyInvariance` and `CopySound: Spec => []CopyCorrect`, for every size of a word, and
all addresses and lengths with `CopyAllowed`: `memcpy` copies forward, "not handling
overlap", so the destination begins at or below the source or lies apart.  `Remains` says for each of the
three loops that what has gone and what is left make up the whole, and that the byte
loop ends where both addresses are at a word boundary, or with nothing left for words.

**`Mips_proofs`.**  `StartUpInvariance` and `StartUpSound: Spec => []StartUpCorrect`,
for images of any headers, any width and rate of COUNT within `MipsAssumption` and
`DelaysAssumption` (COUNT does not come round in a second or in a delay), entered at
any COUNT, and any disks.  `MipsIInv` has one part for each phase.  `Placed`: in an image of one
segment the file stands at the next header until a segment that is not empty has been
read, and that one is the last.  `Sampling`: when `cnt` was read at place `q` of its second,
the difference of COUNT is that of the places, and `cnt_new` was read at a place `r` that is
before the second's end or less than a read after it; so a sample is `r - q`, between
`Period - 6 * Lag` and `Period + Lag`, and so is the average (`Average`).  That `i` is 0 in the first turn
matters: the second had begun, and its sample is not counted.  `Asleep`: the difference of COUNT
is what has passed, over an overflow as well (`DifferenceGrows`).  `DiskInv`: while
none is found, none of the drives probed is there.

**Checked by TLC only.**  Liveness (`ReadyRuns`, `CallsEnd`, `CallsReturn`, `Boots`,
`TimerAcknowledged`, `ReturnsToProgram`, `WaitsEnd`), which needs fairness and
ENABLED; and `PrintCorrect`, since the digits of a number are computed by recursion
over data.  Every other invariant and action property of the runs is also a theorem.

## 6. Abstractions and limits

* One CPU, as the code has it.  IRQs are masked in handlers, so system calls
  are atomic in `Process`, `FileSystem` and `Slab`.
* Register files, page contents, names and block contents are reduced to what
  the properties tell apart.  TLB, caches and access bits are left out.
* In `VirtualMemory` the words that `unmmap` and `copy_mem_img` read by mistake
  are fixed for the turn that reads them, and name frames of the pool; what is
  written to a frame that two processes have is left out.  Process exit
  never releases memory in the code and has no action in the module.
* In `FileSystem` what lies at a wrong buffer address is any content
  (`Received`).  A checkpoint is written all or nothing.  Deletion breaks the chains
  (a block list and the free list merge), so refinement is checked without it.
* `SdDriver` has no transfer of 0 blocks: what the controller does with a count
  of 0 is not defined.  After a data error neither the card nor the line is
  reset by the code, and later calls may be refused; `NoSpuriousFailure` allows that.
* `BootSafe` asks for a complete image only if every read returned 0: `mbr_bootmain` looks
  at no result and enters whatever it got.  Transfers are shorter than 2^16 sectors
  (`count` is an `u16`).
* `DivisionCorrect` is about denominators below the highest power of two of
  the word, and not about the signed quotient; `PrintCorrect` about items that the
  code means as C does (characters, strings at least as long as their width, numbers
  without letters that have no width, or one with the flag for zeros and room); `StabsCorrect` about
  lines and file names, and about ELF64
  files; `StartUpCorrect` about images whose only non-empty segment has the last
  header, as the port's linker script makes them; `BootSafe` and `Boots` about cards
  addressed by sectors (see section 4 for the rest).
* In `Mips`, reads of COUNT are at most `Lag` apart and `6 * Lag < Period`; the run enters
  the kernel with COUNT at 0 or about to wrap (`Counts`), the theorems with any.
* Bounds in guards: `ForkBound`, `SpinBound` (`Process`), `FiqBound`
  (`Exceptions`), `MaxFiles`, `MaxSize` (`FileSystem`), `MaxHeld` (`Slab`),
  `CounterBound` (`Gtc`), `BusyBound`, `FaultBound` (`SdDriver`), `CallBound`
  (`Boot`), `TypedMax` (`Console`).

### Not modelled

* `strlen`, `strcmp`, `strcpy`, `memcmp` and the other one-loop functions of the C
  library, and `puthex`: they keep no state.
* `scu.c`, `l1cache.c`, `dtb-zynq7000.c`, and the writes to the HT and i8259A
  controllers in the MIPS `setup_arch`: fixed values written once.
* The setting of the RTC, which nothing calls, the port `uart16550`, whose polling
  loops are those of `Console`, and the MIPS trap handlers, which print.
* `create_file` and `test_fs` (a self-test that is disabled), `delete_pcb`
  (empty), `pool_free` (never called).
* The host tests in `trylo` and the user programs, which issue the calls modelled.

### What would come next

Torn checkpoints in `FileSystem`, for a code that keeps two copies of its table; the
trap handlers of the MIPS port, when they do more than print.
