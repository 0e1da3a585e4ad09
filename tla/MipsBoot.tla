------------------------------ MODULE MipsBoot ------------------------------
(***************************************************************************)
(* The MIPS64 port from the boot sector to the end of setup_arch: _boot    *)
(* loads the kernel (boot/arch/mips64), probe_count_freq and usleep use    *)
(* the COUNT register, which runs by itself, and setup_arch looks for an   *)
(* IDE disk and identifies it (kern/arch/mips64/setup.c).                  *)
(***************************************************************************)
EXTENDS Integers, Sequences

CONSTANTS Images,           \* sequences of program headers: load, offset, vaddr, filesz
          Modulus,          \* of COUNT: 2^32
          Counts,           \* what COUNT may be when the kernel is entered
          Period,           \* increments of COUNT in a second
          Lag,              \* the most that pass between two reads
          Mega,             \* 1000000
          SelectTime,       \* microseconds after a disk is selected: 1000
          NR_FREQ_SAMPLES,
          Disks,            \* sets of disks that may be there: port and slave
          Exceeds           \* cnt at which the identification data ends: 1000

ASSUME MipsAssumption ==
    /\ {Modulus, Period, Lag, Mega, SelectTime, NR_FREQ_SAMPLES} \subseteq Nat \ {0}
    /\ Period + Lag < Modulus /\ 6 * Lag < Period /\ Exceeds \in Nat /\ Exceeds > 1
\* COUNT does not come round within a delay.
ASSUME DelaysAssumption ==
    \A usec \in {1, SelectTime} :
        (((2 * (Period + Lag)) \div Mega) * usec) \div 2 + Lag < Modulus
ASSUME ImagesAssumption ==
    \A img \in Images : img \in Seq([load : BOOLEAN, offset : Nat, vaddr : Nat, filesz : Nat])
ASSUME CountsAssumption == Counts \subseteq 0..Modulus - 1
ASSUME DisksAssumption == \A there \in Disks : there \subseteq (0..3) \X (0..1)

VARIABLES
    at,                                  \* the next statement
    image, fpos, pos, i, ph, loaded,     \* _boot; loaded: what memory got from where
    count, phase, second,                \* COUNT, and the RTC
    sec, cnt, cnt_new, count_inc, cpu_freq,
    nap,                                 \* usleep: count, cnt_incs, elapsed, where to return
    disks, probe, found, read            \* IDE; found: port and slave, or none; read: pairs of bytes
boot_vars == <<image, fpos, pos, ph, loaded>>
freq_vars == <<sec, cnt, cnt_new, count_inc, cpu_freq>>
clock == <<count, phase, second>>
ide_vars == <<disks, probe, found, read>>
mips_vars == <<at, boot_vars, i, clock, freq_vars, nap, ide_vars>>

NoHeader == [load |-> FALSE, offset |-> 0, vaddr |-> 0, filesz |-> 0]
NoNap == [count |-> 0, incs |-> 0, elapsed |-> 0, next |-> "none"]
Probes == <<<<0, 0>>, <<0, 1>>, <<1, 0>>, <<1, 1>>, <<2, 0>>, <<2, 1>>, <<3, 0>>, <<3, 1>>>>

MipsInit ==
    /\ at = "off" /\ image = <<>> /\ fpos = 0 /\ pos = 0 /\ i = 0 /\ ph = NoHeader /\ loaded = {}
    /\ count = 0 /\ phase = 0 /\ second = 0
    /\ sec = 0 /\ cnt = 0 /\ cnt_new = 0 /\ count_inc = 0 /\ cpu_freq = 0
    /\ nap = NoNap /\ disks = {} /\ probe = 1 /\ found = <<>> /\ read = 0

MipsTypeOK ==
    /\ at \in {"off", "ehdr", "phdr", "seek", "load", "back", "break", "garbage", "entry",
               "sec", "cnt", "new", "poll", "usleep", "select", "status", "identify",
               "cause", "data", "wild", "error", "finished"}
    /\ {pos, i, cnt, cnt_new, sec, count_inc, cpu_freq, read} \subseteq Nat /\ fpos \in Int
    /\ count \in 0..Modulus - 1 /\ phase \in 0..Period - 1 /\ second \in 0..59
    /\ found = <<>> \/ found \in (0..3) \X (0..1)

-----------------------------------------------------------------------------
(* _boot.  A unit of the file is a header, and the ELF header is one unit. *)

_boot ==
    /\ at = "off" /\ at' = "ehdr"
    /\ image' \in Images
    /\ UNCHANGED <<fpos, pos, i, ph, loaded, clock, freq_vars, nap, ide_vars>>

ReadEhdr ==
    /\ at = "ehdr" /\ at' = "phdr" /\ fpos' = 1 /\ pos' = 1 /\ i' = 0
    /\ UNCHANGED <<image, ph, loaded, clock, freq_vars, nap, ide_vars>>

\* What is read is a program header only if the file stands at one.
ReadPhdr ==
    /\ at = "phdr" /\ i < Len(image)
    /\ fpos' = fpos + 1 /\ pos' = pos + 1
    /\ IF fpos \in DOMAIN image
       THEN /\ ph' = image[fpos]
            /\ IF ph'.load THEN at' = "seek" /\ i' = i ELSE at' = at /\ i' = i + 1
       ELSE at' = "garbage" /\ UNCHANGED <<ph, i>>
    /\ UNCHANGED <<image, loaded, clock, freq_vars, nap, ide_vars>>

off == ph.offset - pos

Seek ==
    /\ at = "seek" /\ at' = "load" /\ fpos' = fpos + off
    /\ UNCHANGED <<image, pos, i, ph, loaded, clock, freq_vars, nap, ide_vars>>

LoadSegment ==
    /\ at = "load" /\ at' = "back" /\ fpos' = fpos + ph.filesz
    /\ loaded' = loaded \cup {<<ph.vaddr + n, fpos + n>> : n \in 0..ph.filesz - 1}
    /\ UNCHANGED <<image, pos, i, ph, clock, freq_vars, nap, ide_vars>>

\* lseek(-off): back from the end of the segment, not from its beginning.
SeekBack ==
    /\ at = "back" /\ at' = "phdr" /\ i' = i + 1 /\ fpos' = fpos - off
    /\ UNCHANGED <<image, pos, ph, loaded, clock, freq_vars, nap, ide_vars>>

\* "break 8" to "break 11".
BootFails ==
    /\ \/ at = "phdr" /\ i < Len(image)
       \/ at = "load"
       \/ at \in {"seek", "back"} /\ off # 0
    /\ at' = "break"
    /\ UNCHANGED <<boot_vars, i, clock, freq_vars, nap, ide_vars>>

\* The kernel is entered at any time of a second, with any of the Counts,
\* and nothing of the boot sector is used any more.
Enter ==
    /\ at = "phdr" /\ i = Len(image) /\ at' = "entry"
    /\ UNCHANGED <<boot_vars, i, clock, freq_vars, nap, ide_vars>>
setup_arch ==
    /\ at = "entry" /\ at' = "sec" /\ i' = 0
    /\ count' \in Counts /\ phase' \in 0..Period - 1
    /\ disks' \in Disks
    /\ image' = <<>> /\ fpos' = 0 /\ pos' = 0 /\ ph' = NoHeader /\ loaded' = {}
    /\ UNCHANGED <<second, freq_vars, nap, probe, found, read>>

-----------------------------------------------------------------------------
(* probe_count_freq.  Time passes with every read.                         *)

Pass ==
    \E d \in 1..Lag :
        /\ count' = (count + d) % Modulus
        /\ phase' = (phase + d) % Period
        /\ second' = IF phase + d >= Period THEN (second + 1) % 60 ELSE second

ReadSecond ==
    /\ at = "sec" /\ at' = "cnt" /\ sec' = second /\ Pass
    /\ UNCHANGED <<boot_vars, i, cnt, cnt_new, count_inc, cpu_freq, nap, ide_vars>>
ReadCount ==
    /\ at = "cnt" /\ at' = "new" /\ cnt' = count /\ Pass
    /\ UNCHANGED <<boot_vars, i, sec, cnt_new, count_inc, cpu_freq, nap, ide_vars>>
ReadNew ==
    /\ at = "new" /\ at' = "poll" /\ cnt_new' = count /\ Pass
    /\ UNCHANGED <<boot_vars, i, sec, cnt, count_inc, cpu_freq, nap, ide_vars>>

Counted == i # 0

PollSecond ==
    /\ at = "poll" /\ Pass
    /\ IF second = sec THEN at' = "new" /\ UNCHANGED <<i, count_inc, cpu_freq>>
       ELSE /\ i' = i + 1
            /\ LET sum == count_inc + IF Counted THEN (cnt_new - cnt) % Modulus ELSE 0 IN
               IF i < NR_FREQ_SAMPLES THEN at' = "sec" /\ count_inc' = sum /\ UNCHANGED cpu_freq
               ELSE /\ at' = "select" /\ count_inc' = 0
                    /\ cpu_freq' = 2 * (sum \div NR_FREQ_SAMPLES)
    /\ IF at' = "new" THEN UNCHANGED <<sec, cnt, cnt_new>>
       ELSE sec' = 0 /\ cnt' = 0 /\ cnt_new' = 0      \* locals of an iteration
    /\ UNCHANGED <<boot_vars, nap, ide_vars>>

\* usleep; from here on the RTC is not read, and its time not modelled.
StartNap(usec, next) ==
    /\ at' = "usleep"
    /\ nap' = [count |-> count, incs |-> ((cpu_freq \div Mega) * usec) \div 2, elapsed |-> 0, next |-> next]

Early(start, now, incs) == now < start + incs        \* mutant of TooEarly
TooEarly(start, now, incs) == (now - start) % Modulus < incs

usleep ==
    /\ at = "usleep"
    /\ IF TooEarly(nap.count, count, nap.incs)
       THEN \E d \in 1..Lag : /\ count' = (count + d) % Modulus
                              /\ nap' = [nap EXCEPT !.elapsed = @ + d]
                              /\ at' = at
       ELSE at' = nap.next /\ UNCHANGED <<count, nap>>
    /\ UNCHANGED <<boot_vars, i, phase, second, freq_vars, ide_vars>>

-----------------------------------------------------------------------------
(* The IDE disk.                                                           *)

SelectDrive ==
    /\ at = "select" /\ probe <= Len(Probes)
    /\ StartNap(SelectTime, "status")
    /\ UNCHANGED <<boot_vars, i, clock, freq_vars, ide_vars>>

\* Nobody drives the bus of a missing disk: all bits of its status are 1.
Stat(d) == IF d \in disks THEN {"ready"} ELSE {"ready", "fault", "err"}
Accepts(stat) == "ready" \in stat /\ stat \cap {"fault", "err"} = {}

ReadStatus ==
    /\ at = "status" /\ at' = "select" /\ probe' = probe + 1
    /\ found' = IF Accepts(Stat(Probes[probe])) THEN Probes[probe] ELSE found
    /\ UNCHANGED <<boot_vars, i, clock, freq_vars, nap, disks, read>>

\* port and slave have no value if no disk was found.
Identify ==
    /\ at = "select" /\ probe > Len(Probes)
    /\ at' = IF found = <<>> THEN "wild" ELSE "cause"
    /\ UNCHANGED <<boot_vars, i, clock, freq_vars, nap, ide_vars>>

\* The interrupt of the disk changes the CAUSE register; then its status.
CauseChanges ==
    /\ at = "cause" /\ found \in disks
    /\ at' \in {"data", "error"}
    /\ UNCHANGED <<boot_vars, i, clock, freq_vars, nap, ide_vars>>

\* Two bytes as long as the status has DRQ, which the disk sets as it likes:
\* too early an end, or one too late, is possible.  cnt is read + 1.
ReadData ==
    /\ at = "data"
    /\ \/ /\ read' = read + 1
          /\ StartNap(1, IF read' + 1 = Exceeds THEN "finished" ELSE "data")
       \/ at' = "finished" /\ UNCHANGED <<read, nap>>
    /\ UNCHANGED <<boot_vars, i, clock, freq_vars, disks, probe, found>>

MipsStep ==
    \/ ReadEhdr \/ ReadPhdr \/ Seek \/ LoadSegment \/ SeekBack \/ Enter \/ setup_arch
    \/ ReadSecond \/ ReadCount \/ ReadNew \/ PollSecond \/ usleep
    \/ SelectDrive \/ ReadStatus \/ Identify \/ CauseChanges \/ ReadData
MipsNext == _boot \/ BootFails \/ MipsStep

-----------------------------------------------------------------------------
\* A kernel whose only segment has the last header, as the linker script
\* makes it, is in memory completely when it is entered.
OneSegment ==
    \A k \in DOMAIN image : image[k].load /\ image[k].filesz > 0 => k = Len(image)
SegmentsLoaded ==
    OneSegment =>
        /\ at # "garbage"
        /\ at = "entry" =>
             loaded = UNION {{<<image[k].vaddr + n, image[k].offset + n>> : n \in 0..image[k].filesz - 1}
                              : k \in {x \in DOMAIN image : image[x].load}}

\* The measured frequency is wrong by at most what passes during six reads,
\* though it starts anywhere in a second and COUNT overflows.
FrequencyClose ==
    at = "select" => \E e \in -6 * Lag..Lag : cpu_freq = 2 * (Period + e)

\* usleep returns when the increments have passed, over an overflow as well,
\* and not much later.
SleepsAsLong ==
    at = nap.next => nap.elapsed >= nap.incs /\ nap.elapsed < nap.incs + Lag

\* If there is a disk, the command goes to one that is there, and no disk
\* keeps the kernel reading for ever.  Without one the code goes on with a
\* port and a slave that have no value ("wild"): of that nothing is said.
DiskIdentified ==
    /\ at \in {"cause", "data", "error", "finished"} => found \in disks
    /\ at = "wild" => disks = {}
    /\ read < Exceeds

\* Start-up of the port: an image of one segment is whole, delays are as long
\* as asked, and if there are disks one of them is used.
StartUpCorrect ==
    MipsTypeOK /\ SegmentsLoaded /\ FrequencyClose /\ SleepsAsLong /\ DiskIdentified

\* bootsect.c: each loadable segment is loaded.  Violated: after a segment that
\* is not the last one the file does not stand at the next header.
EachSegmentLoaded ==
    at \in {"entry", "garbage"} =>
        \A k \in DOMAIN image : image[k].load =>
            \A n \in 0..image[k].filesz - 1 : <<image[k].vaddr + n, image[k].offset + n>> \in loaded
=============================================================================
