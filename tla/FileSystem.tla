----------------------------- MODULE FileSystem -----------------------------
(***************************************************************************)
(* The file system of kern/fs/fs_manage.c under its system calls           *)
(* (kern/syscall.c): files are chains of blocks threaded through one table *)
(* of links, all of it in memory and written to the card by checkpoint_fs. *)
(*                                                                         *)
(* A datablock_t is identified with its position 1..Blocks in db_table,    *)
(* and an address on the card with the position of its block; 0 is the     *)
(* null pointer, and the address 0 of the card.  System calls run with     *)
(* interrupts masked, so each is one step.  The card may fail a transfer,  *)
(* and the power may fail between any two steps.                           *)
(***************************************************************************)
EXTENDS Integers, Sequences, SequencesExt, FiniteSets

CONSTANTS
    Blocks,       \* STORAGE_SIZE >> 9
    Pids,         \* the processes that issue system calls
    Names,        \* names that programs pass
    Data,         \* contents of a block
    Calls,        \* the calls that are issued
    MaxFiles,     \* bound: files that are created
    MaxSize       \* bound: blocks of one write

ASSUME ConstantsAssumption ==
    /\ Blocks \in Nat \ {0} /\ MaxFiles \in Nat /\ MaxSize \in Nat
    /\ Pids \subseteq Nat /\ "" \in Names

NULL == 0
Block == 1..Blocks
Link == 0..Blocks       \* pointers to blocks, and addresses on the card
Fds == 1..MaxFiles
NoData == "nothing"     \* what an unwritten block holds
LongName == "ten letters or more"

VARIABLES
    state,                   \* "up", "hang" (in a while (1)), "wild" (past a
                             \* null or an uninitialised pointer)
    next_block, ondisk_addr, \* db_table
    free_head,
    files,        \* the fentry_t list, head first
    disk,         \* the card's blocks, and the sector at address 0
    image,        \* what checkpoint_fs last wrote at FS_BASE
    reply         \* the last call, its result and the blocks that were moved,
                  \* for the properties

memory == <<next_block, ondisk_addr, free_head, files>>
vars == <<state, memory, disk, image, reply>>
\* States that differ in the last reply alone behave alike.
view == <<state, memory, disk, image>>

NoImage == [free |-> NULL, next |-> [b \in Block |-> NULL], files |-> <<>>, valid |-> FALSE]
NoReply == [pid |-> 0, call |-> "none", fd |-> 0, arg |-> "", value |-> 0, data |-> <<>>]
Moves(pid, call, fd, arg, value, data) ==
    reply' = [pid |-> pid, call |-> call, fd |-> fd, arg |-> arg, value |-> value, data |-> data]
Reply(pid, call, fd, arg, value) == Moves(pid, call, fd, arg, value, <<>>)

Init ==
    /\ state = "up"
    /\ next_block = [b \in Block |-> IF b = Blocks THEN NULL ELSE b + 1]
    /\ ondisk_addr = [b \in Block |-> b]
    /\ free_head = 1
    /\ files = <<>>
    /\ disk = [a \in Link |-> NoData]
    /\ image = NoImage
    /\ reply = NoReply

-----------------------------------------------------------------------------
(* Chains of blocks and the list of files.                                 *)

\* The block reached from a block by k links.
After(from, k, next) ==
    LET at[i \in 0..k] == IF i = 0 THEN from
                          ELSE IF at[i - 1] = NULL THEN NULL ELSE next[at[i - 1]]
    IN  at[k]

Ends(from, next) == After(from, Blocks, next) = NULL

\* The blocks met in n turns of a loop that follows the links to the null pointer.
Reached(from, n, next) ==
    [i \in 1..Cardinality({k \in 0..(n - 1) : After(from, k, next) # NULL}) |->
        After(from, i - 1, next)]

Chain(from, next) == Reached(from, Blocks, next)

\* Mutant of LastBlock: the walk stops at once.
FirstBlock(from, next) == from

\* append_file and recycle_blocks walk to the last block of a chain.
LastBlock(from, next) == Last(Chain(from, next))

\* Every call searches the list for the first entry with this index_number.
Found(fd) == \E i \in DOMAIN files : files[i].fd = fd
Position(fd) == CHOOSE i \in DOMAIN files :
                    files[i].fd = fd /\ \A j \in 1..(i - 1) : files[j].fd # fd
Entry(fd) == files[Position(fd)]
\* Mutant of Permitted: whoever holds it.
PermittedAlways(pid, fd) == TRUE

\* The file is free or held by the caller.
Permitted(pid, fd) == Entry(fd).occupied \in {-1, pid}

\* fname_to_fd: the first file with this name, or -1.
FnameToFd(name) ==
    IF name # LongName /\ \E i \in DOMAIN files : files[i].name = name
    THEN files[CHOOSE i \in DOMAIN files :
                  files[i].name = name /\ \A j \in 1..(i - 1) : files[j].name # name].fd
    ELSE -1

\* Mutant of FreshFd: the search of the list never fails.
FreshFdOne == 1

\* create_file_from_name counts up from 1 to the first unused number.
FreshFd == CHOOSE fd \in 1..(Len(files) + 1) : ~Found(fd) /\ \A g \in 1..(fd - 1) : Found(g)

\* data_alloc: the first n free blocks, cut from the free list.
CanAlloc(n) == n > 0 /\ \A k \in 0..(n - 1) : After(free_head, k, next_block) # NULL
AllocCut(n) == [next_block EXCEPT ![After(free_head, n - 1, next_block)] = NULL]

\* Mutant of AllocHead: one block less leaves the free list.
AllocHeadShort(n) == After(free_head, n - 1, next_block)

AllocHead(n) == After(free_head, n, next_block)

-----------------------------------------------------------------------------
(* System calls.                                                           *)

\* _create: whatever the name, zeros are stored as the name of the file.
_create(pid, name) ==
    /\ Len(files) < MaxFiles
    /\ IF name = LongName THEN Reply(pid, "create", 0, name, -1) /\ UNCHANGED files
       ELSE IF FnameToFd(name) = 0
       THEN Reply(pid, "create", 0, name, -2) /\ UNCHANGED files
       ELSE \/ /\ files' = <<[fd |-> FreshFd, first |-> NULL, occupied |-> -1, name |-> ""]>>
                            \o files
               /\ Reply(pid, "create", FreshFd, name, FreshFd)
            \/ Reply(pid, "create", 0, name, -3) /\ UNCHANGED files  \* no memory
    /\ UNCHANGED <<state, next_block, ondisk_addr, free_head, disk, image>>

\* open_file and close_file.
SetOccupied(call, pid, fd, name, owner) ==
    IF ~Found(fd) THEN Reply(pid, call, fd, name, -1) /\ UNCHANGED files
    ELSE IF ~Permitted(pid, fd) THEN Reply(pid, call, fd, name, -2) /\ UNCHANGED files
    ELSE Reply(pid, call, fd, name, 0) /\ files' = [files EXCEPT ![Position(fd)].occupied = owner]

_open(pid, name) ==
    /\ LET fd == FnameToFd(name)
       IN  IF fd = -1 THEN Reply(pid, "open", 0, name, -1) /\ UNCHANGED files
           ELSE SetOccupied("open", pid, fd, name, pid)
    /\ UNCHANGED <<state, next_block, ondisk_addr, free_head, disk, image>>

_close(pid, fd) ==
    /\ SetOccupied("close", pid, fd, "", -1)
    /\ UNCHANGED <<state, next_block, ondisk_addr, free_head, disk, image>>

\* Mutant of BlocksRead: the first block is skipped.
BlocksReadFromSecond(pid, fd, n) ==
    IF ~Found(fd) \/ ~Permitted(pid, fd) \/ Entry(fd).first = NULL THEN <<>>
    ELSE LET blocks == Reached(next_block[Entry(fd).first], n, next_block)
         IN  [i \in DOMAIN blocks |-> disk[ondisk_addr[blocks[i]]]]

\* read_datablock: what n turns of its loop read, nothing if the file is not
\* there or held by another.
BlocksRead(pid, fd, n) ==
    IF ~Found(fd) \/ ~Permitted(pid, fd) THEN <<>>
    ELSE LET blocks == Reached(Entry(fd).first, n, next_block)
         IN  [i \in DOMAIN blocks |-> disk[ondisk_addr[blocks[i]]]]

\* _read copies n blocks of the fresh buffer; those after the blocks that were
\* read hold what was in memory.  It reports -1 if a transfer fails or there is
\* no buffer, and 0 even if the file is not there.
_read(pid, fd, n) ==
    /\ \/ Moves(pid, "read", fd, n, 0, BlocksRead(pid, fd, n))
       \/ Reply(pid, "read", fd, n, -1)
    /\ UNCHANGED <<state, memory, disk, image>>

\* The addresses written from p on, over the links in next: n of them, or
\* fewer when the blocks end before (which only a cycle makes them do).
Targets(p, n, next) ==
    LET blocks == Reached(p, n, next)
    IN  [i \in DOMAIN blocks |-> ondisk_addr[blocks[i]]]

\* What the card receives for buf: append_file hands V2P(addr) to the DMA
\* engine.  Programs pass addresses below KERNEL_BASE, from which V2P makes
\* addresses beyond the memory, so anything may come.
Received(buf) == [DOMAIN buf -> Data]

\* The card after the transfers to addrs: the last one to an address stays.
Stored(addrs, sent) ==
    [a \in Link |-> IF a \in ToSet(addrs)
                    THEN sent[CHOOSE i \in DOMAIN addrs :
                                 addrs[i] = a /\ \A j \in DOMAIN addrs : addrs[j] = a => j <= i]
                    ELSE disk[a]]

\* _write: append_file takes the blocks first and looks for the file then.
_write(pid, fd, buf) ==
    LET n == Len(buf)
        p == free_head
    IN  /\ IF ~CanAlloc(n)
           THEN /\ Reply(pid, "write", fd, buf, -1)
                /\ UNCHANGED <<state, memory, disk>>
           ELSE /\ free_head' = AllocHead(n)
                /\ IF ~Found(fd) \/ ~Permitted(pid, fd)
                   THEN /\ Reply(pid, "write", fd, buf, IF Found(fd) THEN -3 ELSE -2)
                        /\ next_block' = AllocCut(n)
                        /\ UNCHANGED <<state, files, disk>>
                   ELSE LET first == Entry(fd).first
                            linked == IF first = NULL THEN AllocCut(n)
                                      ELSE [AllocCut(n) EXCEPT ![LastBlock(first, AllocCut(n))] = p]
                        IN  IF first # NULL /\ ~Ends(first, AllocCut(n))
                            THEN /\ state' = "hang"
                                 /\ next_block' = AllocCut(n)
                                 /\ UNCHANGED <<files, disk, reply>>
                            ELSE /\ next_block' = linked
                                 /\ files' = [files EXCEPT ![Position(fd)].first =
                                                  IF first = NULL THEN p ELSE @]
                                 \* the card fails after k transfers, or takes them all
                                 /\ LET addrs == Targets(p, n, linked)
                                    IN  \E k \in 0..Len(addrs), sent \in Received(buf) :
                                          /\ disk' = Stored(SubSeq(addrs, 1, k), sent)
                                          /\ state' = IF k < Len(addrs) THEN "hang"
                                                      ELSE IF k < n THEN "wild" ELSE state
                                          /\ Moves(pid, "write", fd, buf, 0, sent)
                /\ UNCHANGED ondisk_addr
        /\ UNCHANGED image

\* _delete: the entry is unlinked from the one before it, if there is one.
_delete(pid, fd) ==
    /\ IF ~Found(fd) \/ ~Permitted(pid, fd)
       THEN /\ Reply(pid, "delete", fd, "", IF Found(fd) THEN -2 ELSE -1)
            /\ UNCHANGED <<state, memory>>
       ELSE LET first == Entry(fd).first
                chain == ToSet(Chain(first, next_block))
            IN  /\ files' = IF Position(fd) = 1 THEN files ELSE RemoveAt(files, Position(fd))
                /\ IF first = NULL \/ ~Ends(first, next_block)
                   THEN /\ state' = IF first = NULL THEN "wild" ELSE "hang"
                        /\ UNCHANGED <<next_block, ondisk_addr, free_head, reply>>
                   ELSE \* recycle_blocks
                        /\ ondisk_addr' = [b \in Block |-> IF b \in chain THEN 0 ELSE ondisk_addr[b]]
                        /\ next_block' = [next_block EXCEPT ![LastBlock(first, next_block)] = free_head]
                        /\ free_head' = LastBlock(first, next_block)
                        /\ Reply(pid, "delete", fd, "", 0)
                        /\ UNCHANGED state
    /\ UNCHANGED <<disk, image>>

-----------------------------------------------------------------------------
(* Checkpoints and restarts.                                               *)

\* checkpoint_fs; the transfer is taken to be all or nothing.
checkpoint_fs ==
    /\ IF \E i \in DOMAIN files : files[i].first = NULL
       THEN state' = "wild" /\ UNCHANGED image     \* x->first_block->ondisk_addr
       ELSE \/ /\ image' = [free |-> free_head, next |-> next_block, valid |-> TRUE,
                            files |-> [i \in DOMAIN files |->
                               [fd |-> files[i].fd, name |-> files[i].name,
                                first |-> ondisk_addr[files[i].first]]]]
               /\ UNCHANGED state
            \/ state' = "hang" /\ UNCHANGED image
    /\ reply' = NoReply
    /\ UNCHANGED <<memory, disk>>

LoadedFree == image.free

\* The kernel restarts and load_fs reads the checkpoint.  fentry_head is the
\* start of fe_table even if there is no entry; an address that is not of a
\* block makes a pointer outside db_table.
load_fs ==
    /\ image.valid
    /\ \/ /\ state' = IF \/ image.files = <<>>
                         \/ \E i \in DOMAIN image.files : image.files[i].first = 0
                      THEN "wild" ELSE "up"
          /\ next_block' = image.next
          /\ ondisk_addr' = [b \in Block |-> b]
          /\ free_head' = LoadedFree
          /\ files' = [i \in DOMAIN image.files |->
                          [fd |-> image.files[i].fd, name |-> image.files[i].name,
                           first |-> image.files[i].first, occupied |-> -1]]
       \/ state' = "hang" /\ UNCHANGED memory
    /\ reply' = NoReply
    /\ UNCHANGED <<disk, image>>

\* A card without a checkpoint is formatted after a restart.
build_fs ==
    /\ ~image.valid /\ state # "up"
    /\ state' = "up"
    /\ next_block' = [b \in Block |-> IF b = Blocks THEN NULL ELSE b + 1]
    /\ ondisk_addr' = [b \in Block |-> b]
    /\ free_head' = 1
    /\ files' = <<>>
    /\ reply' = NoReply
    /\ UNCHANGED <<disk, image>>

Issued(call) == state = "up" /\ call \in Calls

Call ==
    \/ Issued("checkpoint") /\ checkpoint_fs
    \/ \E pid \in Pids :
         \/ Issued("create") /\ \E name \in Names : _create(pid, name)
         \/ Issued("open") /\ \E name \in Names : _open(pid, name)
         \/ \E fd \in Fds :
              \/ Issued("close") /\ _close(pid, fd)
              \/ Issued("read") /\ \E n \in 0..MaxSize : _read(pid, fd, n)
              \/ Issued("delete") /\ _delete(pid, fd)
              \/ Issued("write") /\ \E n \in 0..MaxSize : \E buf \in [1..n -> Data] :
                                       _write(pid, fd, buf)

Next == Call \/ load_fs \/ build_fs

Spec == Init /\ [][Next]_vars

-----------------------------------------------------------------------------
(* Properties.                                                             *)

TypeOK ==
    /\ state \in {"up", "hang", "wild"}
    /\ next_block \in [Block -> Link]
    /\ ondisk_addr \in [Block -> Link]
    /\ free_head \in Link
    /\ files \in Seq([fd : Fds, first : Link, occupied : Pids \cup {-1}, name : {""}])
    /\ disk \in [Link -> Data \cup {NoData}]
    /\ image.valid \in BOOLEAN /\ image.next \in [Block -> Link] /\ image.free \in Link

\* The chains of a file system with these files: of each file, and the free list.
Heads(entries, free) == [i \in 0..Len(entries) |-> IF i = 0 THEN free ELSE entries[i].first]

\* Chains end, and no block is in two of them.  A block that two files share,
\* or a file and the free list, is overwritten by an append to the other.
Disjoint(heads, next) ==
    /\ \A i \in DOMAIN heads : Ends(heads[i], next)
    /\ \A i, j \in DOMAIN heads :
          i # j => ToSet(Chain(heads[i], next)) \cap ToSet(Chain(heads[j], next)) = {}

ChainsDisjoint == state = "up" => Disjoint(Heads(files, free_head), next_block)

\* Descriptors name one file each.
FdsDistinct == \A i, j \in DOMAIN files : files[i].fd = files[j].fd => i = j

Contents(first, next, addr) ==
    LET chain == Chain(first, next)
    IN  [i \in DOMAIN chain |-> disk[addr[chain[i]]]]

FilesOf(entries, next, addr) ==
    [fd \in {entries[i].fd : i \in DOMAIN entries} |->
        LET i == CHOOSE j \in DOMAIN entries : entries[j].fd = fd
        IN  Contents(entries[i].first, next, addr)]

Same == [b \in Block |-> b]
Up == state = "up"

\* The operation on the store that the last call has been, with its data.
Operation ==
    IF Up /\ reply.call \in {"write", "read"} /\ reply.value = 0
    THEN [call |-> reply.call, fd |-> reply.fd, data |-> reply.data,
          n |-> IF reply.call = "write" THEN Len(reply.data) ELSE reply.arg]
    ELSE [call |-> "none", fd |-> 0, data |-> <<>>, n |-> 0]

Store == INSTANCE FileStore WITH
    up <- Up,
    op <- Operation,
    store <- FilesOf(IF Up THEN files ELSE <<>>, next_block, ondisk_addr),
    free <- IF Up THEN Len(Chain(free_head, next_block)) ELSE 0,
    saved <- image.valid,
    kept <- FilesOf(image.files, image.next, Same),
    kept_free <- Len(Chain(image.free, image.next))

\* As long as nothing is deleted, each file holds the blocks that the transfers
\* of its writes delivered, in order, and a read returns the first of them;
\* nothing a running kernel appends damages the files of the last checkpoint,
\* to which a restart returns.  (That what is delivered is not what the program
\* passed is the subject of AppendsBuffer.)
ImplementsStore == Store!Spec

\* The entry of a file that a process has opened is neither changed nor removed
\* by a call of another, though the list of files changes around it (open_file
\* sets occupied, and each call checks it for itself).
OpenFilesProtected ==
    [][\A i \in DOMAIN files :
          /\ files[i].occupied # -1 /\ state' = "up"
          /\ reply'.call # "none" /\ reply'.pid # files[i].occupied
          => \E j \in DOMAIN files' : files'[j] = files[i]]_vars

\* A process gets a descriptor of its own for each file, and a walk over the
\* chain of a file ends and meets no other file (fs_manage.c:255-257, 360-367).
FilesApart == TypeOK /\ ChainsDisjoint /\ FdsDistinct

\* What a file holds, from its entry.
Holds(fd) == Contents(Entry(fd).first, next_block, ondisk_addr)

\* "append to file fd n byte stored in buf[]" (doc/Haoming Xing/report.md:133):
\* a write that reports success has added what the program passed, which the
\* address of fs_manage.c:261 does not give.
AppendsBuffer ==
    [][\A fd \in Fds :
          reply'.call = "write" /\ reply'.fd = fd /\ reply'.value = 0 /\ state' = "up"
          => Holds(fd)' = Holds(fd) \o reply'.arg]_vars

\* "delete a file fd." (doc/Haoming Xing/report.md:142): after a delete that
\* reports success no file has the descriptor.  recycle_file leaves the head of
\* the list where it is (fs_manage.c:304).
DeletedGone ==
    [][reply'.call = "delete" /\ reply'.value = 0
       => \A i \in DOMAIN files' : files'[i].fd # reply'.fd]_vars
=============================================================================
