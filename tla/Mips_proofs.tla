----------------------------- MODULE Mips_proofs ----------------------------
(***************************************************************************)
(* Start-up of the MIPS64 port, for every image, every width and rate of   *)
(* COUNT and any disks: what is entered is complete, the measured          *)
(* frequency is close, delays are as long as asked, and the disk is there. *)
(***************************************************************************)
EXTENDS Mips, SequenceTheorems, TLAPS

-----------------------------------------------------------------------------
(* The inductive invariant has a part for each phase of the start-up.      *)

Loading == {"off", "ehdr", "phdr", "seek", "load", "back", "break", "garbage", "entry"}
Measuring == {"sec", "cnt", "new", "poll"}
Using == {"select", "usleep", "status", "cause", "data", "wild", "error", "finished"}

ClockType == count \in 0..Modulus - 1 /\ phase \in 0..Period - 1 /\ second \in 0..59
NoDiskYet == nap = NoNap /\ probe = 1 /\ found = <<>> /\ read = 0

(* _boot.  The file stands at the next header as long as no segment that   *)
(* is not empty has been read.                                             *)

ProgramHeader == [load : BOOLEAN, offset : Nat, vaddr : Nat, filesz : Nat]
Segment(h) == {<<h.vaddr + n, h.offset + n>> : n \in 0..h.filesz - 1}
Segments(n) == UNION {Segment(image[k]) : k \in {x \in 1..n : image[x].load}}

HeaderRead(place) == i < Len(image) /\ ph = image[i + 1] /\ ph.load /\ pos = i + 2 /\ fpos = place

Placed ==
    /\ at # "garbage"
    /\ at = "phdr" => /\ i <= Len(image) /\ loaded = Segments(i)
                      /\ i < Len(image) => fpos = i + 1 /\ pos = i + 1
    /\ at = "seek" => HeaderRead(i + 2) /\ loaded = Segments(i)
    /\ at = "load" => HeaderRead(ph.offset) /\ loaded = Segments(i)
    /\ at = "back" => HeaderRead(ph.offset + ph.filesz) /\ loaded = Segments(i + 1)
    /\ at = "entry" => loaded = Segments(Len(image))

LoadInv ==
    /\ image \in Seq(ProgramHeader) /\ fpos \in Int /\ pos \in Nat /\ i \in Nat
    /\ at \in {"seek", "load", "back"} => ph \in ProgramHeader
    /\ at \in {"off", "ehdr"} => i = 0 /\ loaded = {}
    /\ count = 0 /\ phase = 0 /\ second = 0 /\ disks = {}
    /\ sec = 0 /\ cnt = 0 /\ cnt_new = 0 /\ count_inc = 0 /\ cpu_freq = 0
    /\ OneSegment => Placed

(* probe_count_freq.  q is the place in its second where cnt was read, r   *)
(* that of cnt_new, counted on over the end of the second.                 *)

Late == 5 * Lag - 1
Since(q) == (count - cnt) % Modulus = phase - q /\ q <= phase

Sampling ==
    /\ at = "sec" /\ i > 0 => phase < 4 * Lag
    /\ at = "cnt" => \/ second = sec /\ (i > 0 => phase < 5 * Lag)
                     \/ i = 0 /\ second # sec /\ phase < Lag
    /\ at = "new" /\ i = 0 => second = sec \/ phase < 2 * Lag
    /\ at = "new" /\ i > 0 =>
         \E q \in 0..Late :
            \/ second = sec /\ Since(q)
            \/ second # sec /\ phase < Lag /\ (count - cnt) % Modulus = Period + phase - q
    /\ at = "poll" /\ i = 0 => second = sec \/ phase < 3 * Lag
    /\ at = "poll" /\ i > 0 =>
         \E q \in 0..Late : \E r \in q..Period + Lag - 1 :
            /\ (cnt_new - cnt) % Modulus = r - q
            /\ \/ second = sec /\ Since(q)
               \/ second # sec /\ phase < 2 * Lag /\ r >= Period - Lag

Summed(n, sum) == n * (Period - 6 * Lag) <= sum /\ sum <= n * (Period + Lag)

Cleared == image = <<>> /\ fpos = 0 /\ pos = 0 /\ loaded = {}

MeasureInv ==
    /\ Cleared /\ ClockType /\ cpu_freq = 0 /\ disks \in Disks
    /\ sec \in 0..59 /\ cnt \in 0..Modulus - 1 /\ cnt_new \in 0..Modulus - 1
    /\ i \in 0..NR_FREQ_SAMPLES /\ count_inc \in Nat
    /\ i = 0 => count_inc = 0
    /\ i > 0 => Summed(i - 1, count_inc)
    /\ Sampling

(* setup_arch.                                                             *)

Close(f) == \E e \in -6 * Lag..Lag : f = 2 * (Period + e)

Asleep ==
    /\ nap.incs + Lag < Modulus /\ nap.elapsed < nap.incs + Lag
    /\ (count - nap.count) % Modulus = nap.elapsed

NapInv ==
    /\ nap = [count |-> nap.count, incs |-> nap.incs, elapsed |-> nap.elapsed, next |-> nap.next]
    /\ nap.count \in 0..Modulus - 1 /\ nap.incs \in Nat /\ nap.elapsed \in Nat
    /\ nap.next \in {"none", "status", "data", "finished"}
    /\ at \in {"select", "status", "cause"} => nap.next \notin {"data", "finished"}
    /\ at = "data" => nap.next # "finished"
    /\ at = "usleep" => nap.next # "none" /\ Asleep
    /\ SleepsAsLong

DiskInv ==
    /\ disks \in Disks /\ probe \in 1..9 /\ read \in 0..Exceeds - 1
    /\ at \in {"data", "cause"} \/ (at = "usleep" /\ nap.next = "data") => read + 1 < Exceeds
    /\ at \in {"select", "status"} \/ (at = "usleep" /\ nap.next = "status") => read = 0
    /\ found = <<>> \/ found \in disks
    /\ found = <<>> => \A k \in 1..probe - 1 : Probes[k] \notin disks
    /\ at = "status" \/ (at = "usleep" /\ nap.next = "status") => probe <= 8
    /\ at \in {"cause", "data", "error", "finished"} \/ (at = "usleep" /\ nap.next \in {"data", "finished"}) =>
         found \in disks
    /\ at = "wild" => disks = {}

UseInv ==
    /\ Cleared /\ ClockType /\ i \in Nat
    /\ sec = 0 /\ cnt = 0 /\ cnt_new = 0 /\ count_inc = 0 /\ Close(cpu_freq)
    /\ NapInv /\ DiskInv

MipsIInv ==
    \/ at \in Loading /\ LoadInv /\ NoDiskYet
    \/ at \in Measuring /\ MeasureInv /\ NoDiskYet
    \/ at \in Using /\ UseInv

-----------------------------------------------------------------------------
(* Arithmetic: differences of COUNT, and sums of samples.                  *)

LEMMA Constants ==
  /\ Modulus \in Nat /\ Modulus > 0 /\ Period \in Nat /\ Period > 0 /\ Lag \in Nat /\ Lag > 0
  /\ Mega \in Nat /\ Mega > 0 /\ SelectTime \in Nat /\ SelectTime > 0 /\ Exceeds \in Nat /\ Exceeds > 1
  /\ NR_FREQ_SAMPLES \in Nat /\ NR_FREQ_SAMPLES > 0
  /\ Period + Lag < Modulus /\ 6 * Lag < Period
BY MipsAssumption

LEMMA DivMod ==
  ASSUME NEW m \in Nat, m > 0, NEW x \in Int
  PROVE  x % m \in 0..m - 1 /\ x \div m \in Int /\ x = (x \div m) * m + (x % m)
<1>1. x % m \in 0..m - 1
  OBVIOUS
<1>2. x \div m \in Int
  OBVIOUS
<1>3. x = (x \div m) * m + (x % m)
  OBVIOUS
<1> QED
  BY <1>1, <1>2, <1>3

LEMMA Multiples ==
  ASSUME NEW m \in Nat, m > 0, NEW k \in Int
  PROVE  k * m \in Int /\ (k >= 1 => k * m >= m) /\ (k <= -1 => k * m <= -m) /\ (k = 0 => k * m = 0)
OBVIOUS

\* A remainder is known when it differs from the number by a multiple.
LEMMA ModIs ==
  ASSUME NEW m \in Nat, m > 0, NEW x \in Int, NEW r \in 0..m - 1, NEW k \in Int, x = k * m + r
  PROVE  x % m = r
<1> DEFINE d == x \div m
           s == x % m
<1>1. s \in 0..m - 1 /\ d \in Int /\ x = d * m + s
  BY DivMod
<1> HIDE DEF d, s
<1>2. (d - k) * m = r - s
  <2>1. (d - k) * m = d * m - k * m
    BY <1>1
  <2>2. d * m \in Int /\ k * m \in Int
    BY <1>1
  <2> QED
    BY <1>1, <2>1, <2>2
<1>3. d - k \in Int
  BY <1>1
<1>4. d - k = 0
  BY <1>1, <1>2, <1>3, Multiples
<1>5. s = r
  BY <1>1, <1>2, <1>3, <1>4, Multiples
<1> QED
  BY <1>5 DEF s

\* What has passed is added to a difference, over an overflow as well.
LEMMA DifferenceGrows ==
  ASSUME NEW m \in Nat, m > 0, NEW a \in Int, NEW b \in Int, NEW d \in Nat,
         NEW x \in Int, (a - b) % m = x, x + d < m
  PROVE  (((a + d) % m) - b) % m = x + d
<1> DEFINE p == (a + d) \div m
           q == (a - b) \div m
           y == (a + d) % m
<1>1. y \in 0..m - 1 /\ p \in Int /\ a + d = p * m + y
  BY DivMod
<1>2. x \in 0..m - 1 /\ q \in Int /\ a - b = q * m + x
  BY DivMod
<1> HIDE DEF p, q, y
<1>3. p * m \in Int /\ q * m \in Int
  BY <1>1, <1>2
<1>4. y - b = (q - p) * m + (x + d)
  <2>1. (q - p) * m = q * m - p * m
    BY <1>1, <1>2
  <2> QED
    BY <1>1, <1>2, <1>3, <2>1
<1>5. x + d \in 0..m - 1 /\ q - p \in Int /\ y - b \in Int
  BY <1>1, <1>2
<1>6. (y - b) % m = x + d
  BY <1>4, <1>5, ModIs
<1> QED
  BY <1>6 DEF y

LEMMA NoDifference ==
  ASSUME NEW m \in Nat, m > 0, NEW a \in Int
  PROVE  (a - a) % m = 0
<1>1. a - a = 0 * m + 0 /\ 0 \in 0..m - 1 /\ a - a \in Int
  OBVIOUS
<1> QED
  BY <1>1, ModIs

LEMMA NextSample ==
  ASSUME NEW n \in Nat, NEW sum \in Int, Summed(n, sum),
         NEW s \in Int, Period - 6 * Lag <= s, s <= Period + Lag
  PROVE  Summed(n + 1, sum + s)
<1> DEFINE a == Period - 6 * Lag
           b == Period + Lag
<1>1. a \in Int /\ b \in Int
  BY Constants
<1>2. n * a <= sum /\ sum <= n * b /\ a <= s /\ s <= b
  BY DEF Summed
<1> HIDE DEF a, b
<1>3. (n + 1) * a = n * a + a /\ (n + 1) * b = n * b + b /\ n * a \in Int /\ n * b \in Int
  BY <1>1
<1>4. (n + 1) * a <= sum + s /\ sum + s <= (n + 1) * b
  BY <1>1, <1>2, <1>3
<1> QED
  BY <1>4 DEF Summed, a, b

LEMMA Average ==
  ASSUME NEW n \in Nat, n > 0, NEW sum \in Int, Summed(n, sum)
  PROVE  sum \div n \in Period - 6 * Lag .. Period + Lag
<1> DEFINE a == Period - 6 * Lag
           b == Period + Lag
           v == sum \div n
           r == sum % n
<1>1. a \in Int /\ b \in Int
  BY Constants
<1>2. n * a <= sum /\ sum <= n * b
  BY DEF Summed
<1>3. r \in 0..n - 1 /\ v \in Int /\ sum = v * n + r
  BY DivMod
<1> HIDE DEF a, b, v, r
<1>4. a <= v
  <2> SUFFICES ASSUME v - a <= -1 PROVE FALSE
    BY <1>1, <1>3
  <2>1. (v - a) * n <= -n
    BY <1>1, <1>3, Multiples
  <2>2. (v - a) * n = v * n - n * a /\ v * n \in Int /\ n * a \in Int
    BY <1>1, <1>3
  <2> QED
    BY <1>2, <1>3, <2>1, <2>2
<1>5. v <= b
  <2> SUFFICES ASSUME v - b >= 1 PROVE FALSE
    BY <1>1, <1>3
  <2>1. (v - b) * n >= n
    BY <1>1, <1>3, Multiples
  <2>2. (v - b) * n = v * n - n * b /\ v * n \in Int /\ n * b \in Int
    BY <1>1, <1>3
  <2> QED
    BY <1>2, <1>3, <2>1, <2>2
<1>6. v \in a..b
  BY <1>1, <1>3, <1>4, <1>5
<1> QED
  BY <1>6 DEF a, b, v

LEMMA QuotientOrder ==
  ASSUME NEW m \in Nat, m > 0, NEW x \in Nat, NEW y \in Nat, x <= y
  PROVE  x \div m \in Nat /\ y \div m \in Nat /\ x \div m <= y \div m
<1> DEFINE p == x \div m
           q == y \div m
           r == x % m
           s == y % m
<1>1. r \in 0..m - 1 /\ p \in Int /\ x = p * m + r
  BY DivMod
<1>2. s \in 0..m - 1 /\ q \in Int /\ y = q * m + s
  BY DivMod
<1>3. p \in Nat /\ q \in Nat
  OBVIOUS
<1> HIDE DEF p, q, r, s
<1>4. p <= q
  <2> SUFFICES ASSUME p - q >= 1 PROVE FALSE
    BY <1>1, <1>2
  <2>1. (p - q) * m >= m
    BY <1>1, <1>2, Multiples
  <2>2. (p - q) * m = p * m - q * m /\ p * m \in Int /\ q * m \in Int
    BY <1>1, <1>2
  <2> QED
    BY <1>1, <1>2, <2>1, <2>2
<1> QED
  BY <1>3, <1>4 DEF p, q

\* The increments that usleep waits for.
Increments(f, usec) == ((f \div Mega) * usec) \div 2

LEMMA DelayFits ==
  ASSUME NEW f \in Int, Close(f), NEW usec \in {1, SelectTime}
  PROVE  Increments(f, usec) \in Nat /\ Increments(f, usec) + Lag < Modulus
<1> DEFINE top == 2 * (Period + Lag)
<1>1. PICK e \in -6 * Lag..Lag : f = 2 * (Period + e)
  BY DEF Close
<1>2. f \in Nat /\ top \in Nat /\ f <= top
  BY <1>1, Constants
<1> DEFINE x == f \div Mega
           y == top \div Mega
<1>3. x \in Nat /\ y \in Nat /\ x <= y
  BY <1>2, Constants, QuotientOrder
<1>4. (y * usec) \div 2 + Lag < Modulus
  BY DelaysAssumption
<1> HIDE DEF x, y, top
<1>5. usec \in Nat
  BY Constants
<1>6. x * usec \in Nat /\ y * usec \in Nat /\ x * usec <= y * usec
  BY <1>3, <1>5
<1>7. (x * usec) \div 2 \in Nat /\ (y * usec) \div 2 \in Nat /\ (x * usec) \div 2 <= (y * usec) \div 2
  BY <1>6, QuotientOrder
<1> DEFINE u == (x * usec) \div 2
           w == (y * usec) \div 2
<1>8. u \in Nat /\ w \in Nat /\ u <= w /\ w + Lag < Modulus
  BY <1>4, <1>7
<1> HIDE DEF u, w
<1>9. u \in Nat /\ u + Lag < Modulus
  BY <1>8, Constants
<1> QED
  BY <1>9 DEF u, x, Increments

-----------------------------------------------------------------------------
(* The boot sector.                                                        *)

LEMMA SegmentsGrow ==
  ASSUME image \in Seq(ProgramHeader), NEW n \in Nat, n < Len(image)
  PROVE  /\ image[n + 1] \in ProgramHeader
         /\ image[n + 1].load => Segments(n + 1) = Segments(n) \cup Segment(image[n + 1])
         /\ ~image[n + 1].load => Segments(n + 1) = Segments(n)
<1>1. n + 1 \in 1..Len(image) /\ 1..(n + 1) = (1..n) \cup {n + 1}
  OBVIOUS
<1>2. image[n + 1] \in ProgramHeader
  BY <1>1, ElementOfSeq
<1>3. ASSUME image[n + 1].load PROVE Segments(n + 1) = Segments(n) \cup Segment(image[n + 1])
  <2>1. {x \in 1..(n + 1) : image[x].load} = {x \in 1..n : image[x].load} \cup {n + 1}
    BY <1>1, <1>3
  <2> QED
    BY <2>1 DEF Segments
<1>4. ASSUME ~image[n + 1].load PROVE Segments(n + 1) = Segments(n)
  <2>1. {x \in 1..(n + 1) : image[x].load} = {x \in 1..n : image[x].load}
    BY <1>1, <1>4
  <2> QED
    BY <2>1 DEF Segments
<1> QED
  BY <1>2, <1>3, <1>4

\* The file does not move for an empty segment, and no other precedes the last.
LEMMA EmptyBeforeLast ==
  ASSUME OneSegment, image \in Seq(ProgramHeader), NEW n \in Nat, n + 1 < Len(image), image[n + 1].load
  PROVE  image[n + 1].filesz = 0
<1>1. n + 1 \in DOMAIN image /\ n + 1 # Len(image)
  OBVIOUS
<1>2. image[n + 1].filesz \in Nat
  <2>1. n < Len(image)
    BY LenProperties
  <2>2. image[n + 1] \in ProgramHeader
    BY <2>1, SegmentsGrow
  <2> QED
    BY <2>2 DEF ProgramHeader
<1> QED
  BY <1>1, <1>2 DEF OneSegment

LEMMA LoadingCase ==
  ASSUME MipsIInv, at \in Loading
  PROVE  LoadInv /\ NoDiskYet
BY DEF MipsIInv, Loading, Measuring, Using

LEMMA BootStep ==
  ASSUME LoadInv, NoDiskYet, _boot
  PROVE  at' \in Loading /\ LoadInv' /\ NoDiskYet'
<1>1. image' \in Seq(ProgramHeader)
  BY ImagesAssumption DEF _boot, ProgramHeader
<1>2. at' = "ehdr" /\ at' \in Loading /\ NoDiskYet'
  BY DEF _boot, Loading, NoDiskYet, ide_vars
<1>3. LoadInv'
  BY <1>1, <1>2 DEF LoadInv, _boot, clock, freq_vars, ide_vars, Placed
<1> QED
  BY <1>2, <1>3

LEMMA ReadEhdrStep ==
  ASSUME LoadInv, NoDiskYet, ReadEhdr
  PROVE  at' \in Loading /\ LoadInv' /\ NoDiskYet'
<1>1. at' = "phdr" /\ at' \in Loading /\ NoDiskYet'
  BY DEF ReadEhdr, Loading, NoDiskYet, ide_vars
<1>2. loaded' = {} /\ i' = 0 /\ fpos' = 1 /\ pos' = 1 /\ image' = image
  BY DEF ReadEhdr, LoadInv
<1>3. Segments(0)' = {}
  BY DEF Segments
<1>4. Placed'
  BY <1>1, <1>2, <1>3 DEF Placed, LoadInv
<1> QED
  BY <1>1, <1>2, <1>4 DEF LoadInv, ReadEhdr, clock, freq_vars, ide_vars

LEMMA ReadPhdrStep ==
  ASSUME LoadInv, NoDiskYet, ReadPhdr
  PROVE  at' \in Loading /\ LoadInv' /\ NoDiskYet'
<1> USE DEF ReadPhdr
<1>1. NoDiskYet' /\ image' = image /\ loaded' = loaded
  BY DEF NoDiskYet, ide_vars
<1>2. at' \in {"phdr", "seek", "garbage"}
  BY Zenon
<1>3. fpos' \in Int /\ pos' \in Nat /\ i' \in Nat /\ i \in Nat
  BY DEF LoadInv
<1>4. at' = "seek" => ph' \in ProgramHeader
  BY ElementOfSeq DEF LoadInv
<1>5. ASSUME OneSegment PROVE Placed'
  <2>1. fpos = i + 1 /\ pos = i + 1 /\ loaded = Segments(i) /\ i < Len(image)
    BY <1>5 DEF LoadInv, Placed
  <2>2. fpos \in DOMAIN image /\ i + 1 \in DOMAIN image
    BY <1>3, <2>1 DEF LoadInv
  <2>3. fpos' = i + 2 /\ pos' = i + 2 /\ ph' = image[i + 1]
    BY <2>1, <2>2, <1>3
  <2>4. CASE image[i + 1].load
    <3>1. at' = "seek" /\ i' = i
      BY <2>2, <2>3, <2>4
    <3>2. HeaderRead(i + 2)'
      BY <1>1, <2>1, <2>3, <2>4, <3>1 DEF HeaderRead
    <3>3. loaded' = Segments(i)'
      BY <1>1, <2>1, <3>1 DEF Segments
    <3> QED
      BY <3>1, <3>2, <3>3 DEF Placed
  <2>5. CASE ~image[i + 1].load
    <3>1. at' = "phdr" /\ i' = i + 1
      BY <2>2, <2>3, <2>5
    <3>2. Segments(i)' = Segments(i + 1)
      BY <1>1, <3>1 DEF Segments
    <3>3. loaded' = Segments(i)'
      BY <1>1, <1>3, <2>1, <2>5, <3>2, SegmentsGrow DEF LoadInv
    <3>4. i' <= Len(image') /\ fpos' = i' + 1 /\ pos' = i' + 1
      BY <1>1, <1>3, <2>1, <2>3, <3>1 DEF LoadInv
    <3> QED
      BY <3>1, <3>3, <3>4 DEF Placed
  <2> QED
    BY <2>4, <2>5
<1>6. OneSegment' => Placed'
  BY <1>1, <1>5 DEF OneSegment
<1>7. at' \in Loading /\ at' \notin {"load", "back", "off", "ehdr"}
  BY <1>2 DEF Loading
<1>8. clock' = clock /\ freq_vars' = freq_vars /\ disks' = disks
  BY DEF ide_vars
<1> QED
  BY <1>1, <1>3, <1>4, <1>6, <1>7, <1>8 DEF LoadInv, clock, freq_vars

LEMMA SeekStep ==
  ASSUME LoadInv, NoDiskYet, Seek
  PROVE  at' \in Loading /\ LoadInv' /\ NoDiskYet'
<1> USE DEF Seek
<1>1. NoDiskYet' /\ image' = image /\ loaded' = loaded /\ i' = i /\ ph' = ph /\ pos' = pos
  BY DEF NoDiskYet, ide_vars
<1>2. at' = "load" /\ at' \in Loading
  BY DEF Loading
<1>3. ph \in ProgramHeader /\ ph.offset \in Nat /\ fpos \in Int /\ pos \in Nat /\ fpos' = fpos + (ph.offset - pos)
  BY DEF LoadInv, off, ProgramHeader
<1>4. ASSUME OneSegment PROVE Placed'
  <2>1. HeaderRead(i + 2) /\ loaded = Segments(i)
    BY <1>4 DEF LoadInv, Placed
  <2>2. fpos' = ph.offset
    BY <1>3, <2>1 DEF HeaderRead, LoadInv
  <2>3. HeaderRead(ph.offset)'
    BY <1>1, <2>1, <2>2 DEF HeaderRead
  <2>4. loaded' = Segments(i)'
    BY <1>1, <2>1 DEF Segments
  <2> QED
    BY <1>2, <2>3, <2>4 DEF Placed
<1>5. OneSegment' => Placed'
  BY <1>1, <1>4 DEF OneSegment
<1>6. fpos' \in Int
  BY <1>3
<1> QED
  BY <1>1, <1>2, <1>3, <1>5, <1>6 DEF LoadInv, clock, freq_vars, ide_vars

LEMMA LoadSegmentStep ==
  ASSUME LoadInv, NoDiskYet, LoadSegment
  PROVE  at' \in Loading /\ LoadInv' /\ NoDiskYet'
<1> USE DEF LoadSegment
<1>1. NoDiskYet' /\ image' = image /\ i' = i /\ ph' = ph /\ pos' = pos
  BY DEF NoDiskYet, ide_vars
<1>2. at' = "back" /\ at' \in Loading
  BY DEF Loading
<1>3. ph \in ProgramHeader /\ ph.offset \in Nat /\ ph.filesz \in Nat /\ fpos \in Int /\ fpos' = fpos + ph.filesz
  BY DEF LoadInv, ProgramHeader
<1>4. ASSUME OneSegment PROVE Placed'
  <2>1. HeaderRead(ph.offset) /\ loaded = Segments(i)
    BY <1>4 DEF LoadInv, Placed
  <2>2. HeaderRead(ph.offset + ph.filesz)'
    BY <1>1, <1>3, <2>1 DEF HeaderRead
  <2>3. loaded' = loaded \cup Segment(ph)
    BY <2>1 DEF Segment, HeaderRead
  <2>4. loaded' = Segments(i + 1)
    BY <2>1, <2>3, SegmentsGrow DEF HeaderRead, LoadInv
  <2>5. loaded' = Segments(i + 1)'
    BY <1>1, <2>4 DEF Segments
  <2> QED
    BY <1>2, <2>2, <2>5 DEF Placed
<1>5. OneSegment' => Placed'
  BY <1>1, <1>4 DEF OneSegment
<1>6. fpos' \in Int
  BY <1>3
<1> QED
  BY <1>1, <1>2, <1>3, <1>5, <1>6 DEF LoadInv, clock, freq_vars, ide_vars

LEMMA SeekBackStep ==
  ASSUME LoadInv, NoDiskYet, SeekBack
  PROVE  at' \in Loading /\ LoadInv' /\ NoDiskYet'
<1> USE DEF SeekBack
<1>1. NoDiskYet' /\ image' = image /\ loaded' = loaded /\ i' = i + 1 /\ ph' = ph /\ pos' = pos
  BY DEF NoDiskYet, ide_vars
<1>2. at' = "phdr" /\ at' \in Loading
  BY DEF Loading
<1>3. /\ ph.offset \in Nat /\ ph.filesz \in Nat /\ fpos \in Int /\ pos \in Nat /\ i \in Nat
      /\ fpos' = fpos - (ph.offset - pos)
  BY DEF LoadInv, off, ProgramHeader
<1>4. ASSUME OneSegment PROVE Placed'
  <2>1. HeaderRead(ph.offset + ph.filesz) /\ loaded = Segments(i + 1)
    BY <1>4 DEF LoadInv, Placed
  <2>2. pos = i + 2 /\ fpos = ph.offset + ph.filesz
    BY <2>1 DEF HeaderRead
  <2>3. fpos' = ph.filesz + (i + 2) /\ pos = i + 2
    BY ONLY <1>3, <2>2
  <2>4. loaded' = Segments(i)'
    BY <1>1, <2>1 DEF Segments
  <2>5. i' <= Len(image')
    BY <1>1, <1>3, <2>1 DEF HeaderRead, LoadInv
  <2>6. ASSUME i' < Len(image') PROVE fpos' = i' + 1 /\ pos' = i' + 1
    <3>1. image[i + 1].filesz = 0
      BY <1>1, <1>3, <1>4, <2>1, <2>6, EmptyBeforeLast DEF HeaderRead, LoadInv
    <3> QED
      BY <1>1, <1>3, <2>1, <2>3, <3>1 DEF HeaderRead
  <2> QED
    BY <1>2, <2>4, <2>5, <2>6 DEF Placed
<1>5. OneSegment' => Placed'
  BY <1>1, <1>4 DEF OneSegment
<1>6. fpos' \in Int /\ i' \in Nat
  BY <1>1, <1>3
<1> QED
  BY <1>1, <1>2, <1>5, <1>6 DEF LoadInv, clock, freq_vars, ide_vars

LEMMA BootFailsStep ==
  ASSUME at \in Loading, LoadInv, NoDiskYet, BootFails
  PROVE  at' \in Loading /\ LoadInv' /\ NoDiskYet'
<1>1. at' = "break" /\ at' \in Loading
  BY DEF BootFails, Loading
<1>2. UNCHANGED <<image, fpos, pos, ph, loaded, i, count, phase, second, disks, probe, found, read, nap>>
      /\ UNCHANGED <<sec, cnt, cnt_new, count_inc, cpu_freq>>
  BY DEF BootFails, boot_vars, clock, freq_vars, ide_vars
<1>3. NoDiskYet'
  BY <1>2 DEF NoDiskYet
<1>4. Placed'
  BY <1>1 DEF Placed
<1> QED
  BY <1>1, <1>2, <1>3, <1>4 DEF LoadInv

LEMMA EnterStep ==
  ASSUME LoadInv, NoDiskYet, Enter
  PROVE  at' \in Loading /\ LoadInv' /\ NoDiskYet'
<1>1. at' = "entry" /\ at' \in Loading
  BY DEF Enter, Loading
<1>2. UNCHANGED <<image, fpos, pos, ph, loaded, i, count, phase, second, disks, probe, found, read, nap>>
      /\ UNCHANGED <<sec, cnt, cnt_new, count_inc, cpu_freq>>
  BY DEF Enter, boot_vars, clock, freq_vars, ide_vars
<1>3. NoDiskYet'
  BY <1>2 DEF NoDiskYet
<1>4. ASSUME OneSegment PROVE Placed'
  <2>1. loaded = Segments(Len(image))
    BY <1>4 DEF LoadInv, Placed, Enter
  <2>2. Segments(Len(image))' = Segments(Len(image))
    BY <1>2 DEF Segments
  <2> QED
    BY <1>1, <1>2, <2>1, <2>2 DEF Placed
<1>5. OneSegment' => Placed'
  BY <1>2, <1>4 DEF OneSegment
<1> QED
  BY <1>1, <1>2, <1>3, <1>5 DEF LoadInv

-----------------------------------------------------------------------------
(* The measurement.                                                        *)

LEMMA MeasuringCase ==
  ASSUME MipsIInv, at \in Measuring
  PROVE  MeasureInv /\ NoDiskYet
BY DEF MipsIInv, Loading, Measuring, Using

LEMMA SetupStep ==
  ASSUME LoadInv, NoDiskYet, setup_arch
  PROVE  at' \in Measuring /\ MeasureInv' /\ NoDiskYet'
<1> USE DEF setup_arch
<1>1. at' = "sec" /\ at' \in Measuring /\ i' = 0 /\ disks' \in Disks
  BY DEF Measuring
<1>2. NoDiskYet'
  BY DEF NoDiskYet
<1>3. Cleared'
  BY DEF Cleared
<1>4. count' \in 0..Modulus - 1 /\ phase' \in 0..Period - 1 /\ second' = 0
  BY Constants, CountsAssumption DEF LoadInv
<1>5. UNCHANGED <<sec, cnt, cnt_new, count_inc, cpu_freq>>
  BY DEF freq_vars
<1>6. sec' = 0 /\ cnt' = 0 /\ cnt_new' = 0 /\ count_inc' = 0 /\ cpu_freq' = 0
  BY <1>5 DEF LoadInv
<1>7. Sampling'
  BY <1>1 DEF Sampling
<1>8. ClockType'
  BY <1>4 DEF ClockType
<1>9. sec' \in 0..59 /\ cnt' \in 0..Modulus - 1 /\ cnt_new' \in 0..Modulus - 1
      /\ i' \in 0..NR_FREQ_SAMPLES /\ count_inc' \in Nat
  BY <1>1, <1>6, Constants
<1>10. MeasureInv'
  BY <1>1, <1>3, <1>6, <1>7, <1>8, <1>9 DEF MeasureInv
<1> QED
  BY <1>1, <1>2, <1>10

\* A read takes at most Lag, within a second or over its end.
Within(d) == phase' = phase + d /\ second' = second
OverEnd(d) == phase' = phase + d - Period /\ phase' < Lag /\ phase >= Period - Lag /\ second' # second

LEMMA PassCases ==
  ASSUME ClockType, Pass
  PROVE  ClockType' /\ \E d \in 1..Lag : /\ count' = (count + d) % Modulus
                                         /\ Within(d) \/ OverEnd(d)
<1>1. PICK d \in 1..Lag : /\ count' = (count + d) % Modulus
                          /\ phase' = (phase + d) % Period
                          /\ second' = IF phase + d >= Period THEN (second + 1) % 60 ELSE second
  BY DEF Pass
<1>2. count \in 0..Modulus - 1 /\ phase \in 0..Period - 1 /\ second \in 0..59
  BY DEF ClockType
<1>3. phase + d < 2 * Period
  BY <1>2, Constants
<1>4. count' \in 0..Modulus - 1
  BY <1>1, <1>2, Constants, DivMod
<1>5. CASE phase + d < Period
  <2>1. phase' = phase + d
    <3>1. phase + d = 0 * Period + (phase + d) /\ phase + d \in 0..Period - 1 /\ phase + d \in Int
      BY <1>2, <1>5, Constants
    <3> QED
      BY <1>1, <3>1, ModIs, Constants
  <2>2. second' = second
    BY <1>1, <1>2, <1>5, Constants
  <2>3. Within(d)
    BY <2>1, <2>2 DEF Within
  <2>4. phase' \in 0..Period - 1 /\ second' \in 0..59
    BY <1>2, <1>5, <2>1, <2>2, Constants
  <2> QED
    BY <1>1, <1>4, <2>3, <2>4 DEF ClockType
<1>6. CASE phase + d >= Period
  <2>1. phase' = phase + d - Period
    <3>1. phase + d = 1 * Period + (phase + d - Period) /\ phase + d - Period \in 0..Period - 1 /\ phase + d \in Int
      BY <1>2, <1>3, <1>6, Constants
    <3> QED
      BY <1>1, <3>1, ModIs, Constants
  <2>2. second' = (second + 1) % 60
    BY <1>1, <1>6
  <2>3. second' \in 0..59 /\ second' # second
    BY <1>2, <2>2
  <2>4. phase' < Lag /\ phase >= Period - Lag /\ phase' \in 0..Period - 1
    BY <1>2, <1>3, <1>6, <2>1, Constants
  <2>5. OverEnd(d)
    BY <2>1, <2>3, <2>4 DEF OverEnd
  <2> QED
    BY <1>1, <1>4, <2>3, <2>4, <2>5 DEF ClockType
<1> QED
  BY <1>2, <1>5, <1>6, Constants

\* What the differences with cnt and cnt_new gain.
LEMMA Passed ==
  ASSUME ClockType, NEW b \in Int, NEW d \in 1..Lag, count' = (count + d) % Modulus,
         NEW x \in Int, (count - b) % Modulus = x, x < Period
  PROVE  (count' - b) % Modulus = x + d
<1>1. d \in Nat /\ x + d < Modulus /\ count \in Int
  BY Constants DEF ClockType
<1>2. Modulus \in Nat /\ Modulus > 0
  BY Constants
<1>3. (((count + d) % Modulus) - b) % Modulus = x + d
  BY <1>1, <1>2, DifferenceGrows
<1> QED
  BY <1>3

LEMMA ReadSecondStep ==
  ASSUME MeasureInv, NoDiskYet, ReadSecond
  PROVE  at' \in Measuring /\ MeasureInv' /\ NoDiskYet'
<1>1. at = "sec" /\ at' = "cnt" /\ sec' = second /\ at' \in Measuring
      /\ UNCHANGED <<image, fpos, pos, loaded, i, cnt, cnt_new, count_inc, cpu_freq, nap, disks, probe, found, read>>
  BY DEF ReadSecond, Measuring, boot_vars, ide_vars
<1>2. ClockType /\ sec \in 0..59 /\ i \in 0..NR_FREQ_SAMPLES
  BY DEF MeasureInv
<1>3. PICK d \in 1..Lag : count' = (count + d) % Modulus /\ (Within(d) \/ OverEnd(d))
  BY <1>2, PassCases DEF ReadSecond
<1>4. ClockType'
  BY <1>2, PassCases DEF ReadSecond
<1>5. phase \in Nat /\ i > 0 => phase < 4 * Lag
  BY <1>1 DEF MeasureInv, Sampling
<1>6. phase \in Nat
  BY <1>2 DEF ClockType
<1>7. \/ second' = sec' /\ (i' > 0 => phase' < 5 * Lag)
      \/ i' = 0 /\ second' # sec' /\ phase' < Lag
  <2>1. CASE Within(d)
    BY <1>1, <1>3, <1>5, <1>6, <2>1, Constants DEF Within
  <2>2. CASE OverEnd(d)
    <3>1. i = 0
      BY <1>2, <1>5, <1>6, <2>2, Constants DEF OverEnd
    <3> QED
      BY <1>1, <2>2, <3>1 DEF OverEnd
  <2> QED
    BY <1>3, <2>1, <2>2
<1>8. Sampling'
  BY <1>1, <1>7 DEF Sampling
<1>9. sec' \in 0..59
  BY <1>1, <1>2 DEF ClockType
<1> QED
  BY <1>1, <1>4, <1>8, <1>9 DEF MeasureInv, NoDiskYet, Cleared

LEMMA ReadCountStep ==
  ASSUME MeasureInv, NoDiskYet, ReadCount
  PROVE  at' \in Measuring /\ MeasureInv' /\ NoDiskYet'
<1>1. at = "cnt" /\ at' = "new" /\ cnt' = count /\ at' \in Measuring
      /\ UNCHANGED <<image, fpos, pos, loaded, i, sec, cnt_new, count_inc, cpu_freq, nap, disks, probe, found, read>>
  BY DEF ReadCount, Measuring, boot_vars, ide_vars
<1>2. ClockType /\ i \in 0..NR_FREQ_SAMPLES /\ phase \in 0..Period - 1 /\ count \in 0..Modulus - 1
  BY DEF MeasureInv, ClockType
<1>3. PICK d \in 1..Lag : count' = (count + d) % Modulus /\ (Within(d) \/ OverEnd(d))
  BY <1>2, PassCases DEF ReadCount
<1>4. ClockType'
  BY <1>2, PassCases DEF ReadCount
<1>5. \/ second = sec /\ (i > 0 => phase < 5 * Lag)
      \/ i = 0 /\ second # sec /\ phase < Lag
  BY <1>1 DEF MeasureInv, Sampling
<1>6. ASSUME i = 0 PROVE second' = sec \/ phase' < 2 * Lag
  <2>1. CASE Within(d)
    BY <1>2, <1>3, <1>5, <2>1, Constants DEF Within
  <2>2. CASE OverEnd(d)
    BY <1>2, <2>2, Constants DEF OverEnd
  <2> QED
    BY <1>3, <2>1, <2>2
<1>7. ASSUME i > 0 PROVE /\ phase \in 0..Late /\ second' = sec
                         /\ (count' - cnt') % Modulus = phase' - phase /\ phase <= phase'
  <2>1. second = sec /\ phase < 5 * Lag
    BY <1>5, <1>7
  <2>2. Within(d)
    BY <1>2, <1>3, <2>1, Constants DEF OverEnd
  <2>3. (count - count) % Modulus = 0
    BY <1>2, NoDifference, Constants
  <2>4. (count' - count) % Modulus = 0 + d
    BY <1>2, <1>3, <2>3, Passed, Constants
  <2>5. (count' - cnt') % Modulus = phase' - phase /\ phase <= phase'
    BY <1>1, <1>2, <2>2, <2>4 DEF Within
  <2> QED
    BY <1>1, <1>2, <2>1, <2>2, <2>5, Constants DEF Late, Within
<1>8. Sampling'
  <2>1. ASSUME i > 0 PROVE \E q \in 0..Late : second' = sec' /\ (count' - cnt') % Modulus = phase' - q /\ q <= phase'
    BY <1>1, <1>7, <2>1
  <2> QED
    BY <1>1, <1>6, <2>1 DEF Sampling, Since
<1>9. cnt' \in 0..Modulus - 1
  BY <1>1, <1>2
<1> QED
  BY <1>1, <1>4, <1>8, <1>9 DEF MeasureInv, NoDiskYet, Cleared

LEMMA ReadNewStep ==
  ASSUME MeasureInv, NoDiskYet, ReadNew
  PROVE  at' \in Measuring /\ MeasureInv' /\ NoDiskYet'
<1>1. at = "new" /\ at' = "poll" /\ cnt_new' = count /\ at' \in Measuring
      /\ UNCHANGED <<image, fpos, pos, loaded, i, sec, cnt, count_inc, cpu_freq, nap, disks, probe, found, read>>
  BY DEF ReadNew, Measuring, boot_vars, ide_vars
<1>2. /\ ClockType /\ i \in 0..NR_FREQ_SAMPLES /\ phase \in 0..Period - 1 /\ count \in 0..Modulus - 1
      /\ cnt \in 0..Modulus - 1
  BY DEF MeasureInv, ClockType
<1>3. PICK d \in 1..Lag : count' = (count + d) % Modulus /\ (Within(d) \/ OverEnd(d))
  BY <1>2, PassCases DEF ReadNew
<1>4. ClockType'
  BY <1>2, PassCases DEF ReadNew
<1>5. ASSUME i = 0 PROVE second' = sec \/ phase' < 3 * Lag
  <2>1. second = sec \/ phase < 2 * Lag
    BY <1>1, <1>5 DEF MeasureInv, Sampling
  <2>2. CASE Within(d)
    BY <1>2, <1>3, <2>1, <2>2, Constants DEF Within
  <2>3. CASE OverEnd(d)
    BY <1>2, <1>4, <2>3, Constants DEF OverEnd, ClockType
  <2> QED
    BY <1>3, <2>2, <2>3
<1>6. ASSUME i > 0
      PROVE  \E q \in 0..Late : \E r \in q..Period + Lag - 1 :
                /\ (cnt_new' - cnt) % Modulus = r - q
                /\ \/ second' = sec /\ (count' - cnt) % Modulus = phase' - q /\ q <= phase'
                   \/ second' # sec /\ phase' < 2 * Lag /\ r >= Period - Lag
  <2>1. PICK q \in 0..Late :
            \/ second = sec /\ (count - cnt) % Modulus = phase - q /\ q <= phase
            \/ second # sec /\ phase < Lag /\ (count - cnt) % Modulus = Period + phase - q
    BY <1>1, <1>6 DEF MeasureInv, Sampling, Since
  <2>2. q \in Nat /\ q < 5 * Lag
    BY Constants DEF Late
  <2>3. CASE second = sec /\ (count - cnt) % Modulus = phase - q /\ q <= phase
    <3>1. phase \in q..Period + Lag - 1 /\ (cnt_new' - cnt) % Modulus = phase - q
      BY <1>1, <1>2, <2>2, <2>3, Constants
    <3>2. (count' - cnt) % Modulus = (phase - q) + d
      <4>1. phase - q \in Int /\ phase - q < Period /\ cnt \in Int
        BY <1>2, <2>2, Constants
      <4> QED
        BY <1>2, <1>3, <2>3, <4>1, Passed
    <3>3. CASE Within(d)
      <4>1. second' = sec /\ (count' - cnt) % Modulus = phase' - q /\ q <= phase'
        BY <1>2, <2>2, <2>3, <3>2, <3>3, Constants DEF Within
      <4> QED
        BY <3>1, <4>1
    <3>4. CASE OverEnd(d)
      <4>1. second' # sec /\ phase' < 2 * Lag /\ phase >= Period - Lag
        BY <1>2, <1>4, <2>3, <3>4, Constants DEF OverEnd, ClockType
      <4> QED
        BY <3>1, <4>1
    <3> QED
      BY <1>3, <3>3, <3>4
  <2>4. CASE second # sec /\ phase < Lag /\ (count - cnt) % Modulus = Period + phase - q
    <3>1. Within(d)
      BY <1>2, <1>3, <2>4, Constants DEF OverEnd
    <3>2. second' # sec /\ phase' < 2 * Lag
      BY <1>2, <2>4, <3>1, Constants DEF Within
    <3>3. Period + phase \in q..Period + Lag - 1 /\ Period + phase >= Period - Lag
      BY <1>2, <2>2, <2>4, Constants
    <3>4. (cnt_new' - cnt) % Modulus = (Period + phase) - q
      <4>1. (cnt_new' - cnt) % Modulus = (count - cnt) % Modulus
        BY <1>1
      <4>2. (count - cnt) % Modulus = Period + phase - q
        BY <2>4
      <4>3. Period + phase - q = (Period + phase) - q
        BY <1>2, <2>2, Constants
      <4> QED
        BY <4>1, <4>2, <4>3
    <3> QED
      BY <3>2, <3>3, <3>4
  <2> QED
    BY <2>1, <2>3, <2>4
<1>7. Sampling'
  BY <1>1, <1>5, <1>6 DEF Sampling, Since
<1>8. cnt_new' \in 0..Modulus - 1
  BY <1>1, <1>2
<1> QED
  BY <1>1, <1>4, <1>7, <1>8 DEF MeasureInv, NoDiskYet, Cleared

LEMMA PollAgain ==
  ASSUME MeasureInv, NoDiskYet, PollSecond, second = sec
  PROVE  at' \in Measuring /\ MeasureInv' /\ NoDiskYet'
<1>1. at = "poll" /\ at' = "new" /\ at' \in Measuring
      /\ UNCHANGED <<image, fpos, pos, loaded, i, sec, cnt, cnt_new, count_inc, cpu_freq, nap, disks, probe, found, read>>
  BY DEF PollSecond, Measuring, boot_vars, ide_vars
<1>2. /\ ClockType /\ i \in 0..NR_FREQ_SAMPLES /\ phase \in 0..Period - 1 /\ count \in 0..Modulus - 1
      /\ cnt \in 0..Modulus - 1
  BY DEF MeasureInv, ClockType
<1>3. PICK d \in 1..Lag : count' = (count + d) % Modulus /\ (Within(d) \/ OverEnd(d))
  BY <1>2, PassCases DEF PollSecond
<1>4. ClockType'
  BY <1>2, PassCases DEF PollSecond
<1>5. second' = sec \/ phase' < 2 * Lag
  BY <1>3, <1>4, Constants DEF Within, OverEnd, ClockType
<1>6. ASSUME i > 0
      PROVE  \E q \in 0..Late :
                \/ second' = sec /\ (count' - cnt) % Modulus = phase' - q /\ q <= phase'
                \/ second' # sec /\ phase' < Lag /\ (count' - cnt) % Modulus = Period + phase' - q
  <2>1. PICK q \in 0..Late : (count - cnt) % Modulus = phase - q /\ q <= phase
    BY <1>1, <1>6 DEF MeasureInv, Sampling, Since
  <2>2. q \in Nat
    BY Constants DEF Late
  <2>3. (count' - cnt) % Modulus = (phase - q) + d
    <3>1. phase - q \in Int /\ phase - q < Period /\ cnt \in Int
      BY <1>2, <2>2, Constants
    <3> QED
      BY <1>2, <1>3, <2>1, <3>1, Passed
  <2>4. CASE Within(d)
    <3>1. second' = sec /\ (count' - cnt) % Modulus = phase' - q /\ q <= phase'
      BY <1>2, <2>1, <2>2, <2>3, <2>4, Constants DEF Within
    <3> QED
      BY <3>1
  <2>5. CASE OverEnd(d)
    <3>1. phase' = phase + d - Period /\ phase' < Lag /\ second' # sec
      BY <2>5 DEF OverEnd
    <3>2. (count' - cnt) % Modulus = Period + phase' - q
      BY <1>2, <2>2, <2>3, <3>1, Constants
    <3> QED
      BY <3>1, <3>2
  <2> QED
    BY <1>3, <2>4, <2>5
<1>7. Sampling'
  BY <1>1, <1>5, <1>6 DEF Sampling, Since
<1> QED
  BY <1>1, <1>4, <1>7 DEF MeasureInv, NoDiskYet, Cleared

\* The end of a second ends a sample, unless it began in the middle.
Sample == IF Counted THEN (cnt_new - cnt) % Modulus ELSE 0

LEMMA SampleInRange ==
  ASSUME MeasureInv, at = "poll", second # sec
  PROVE  /\ Sample \in Nat /\ phase < 3 * Lag
         /\ Summed(i, count_inc + Sample)
<1>1. i \in 0..NR_FREQ_SAMPLES /\ count_inc \in Nat /\ phase \in Nat /\ i \in Nat
  BY Constants DEF MeasureInv, ClockType
<1>2. CASE i = 0
  <2>1. Sample = 0 /\ count_inc = 0 /\ phase < 3 * Lag
    BY <1>2 DEF Sample, Counted, MeasureInv, Sampling
  <2>2. Summed(0, 0)
    BY Constants DEF Summed
  <2> QED
    BY <1>2, <2>1, <2>2
<1>3. CASE i > 0
  <2>1. PICK q \in 0..Late : \E r \in q..Period + Lag - 1 :
          (cnt_new - cnt) % Modulus = r - q /\ phase < 2 * Lag /\ r >= Period - Lag
    BY <1>3 DEF MeasureInv, Sampling
  <2>2. PICK r \in q..Period + Lag - 1 :
          (cnt_new - cnt) % Modulus = r - q /\ phase < 2 * Lag /\ r >= Period - Lag
    BY <2>1
  <2>3. Sample = r - q
    BY <1>3, <2>2, <1>1 DEF Sample, Counted
  <2>4. Sample \in Nat /\ Period - 6 * Lag <= Sample /\ Sample <= Period + Lag
    BY <2>2, <2>3, Constants DEF Late
  <2>5. i - 1 \in Nat /\ Summed(i - 1, count_inc) /\ Sample \in Int
    BY <1>1, <1>3, <2>4 DEF MeasureInv
  <2>6. Summed((i - 1) + 1, count_inc + Sample)
    <3> HIDE DEF Sample
    <3> QED
      BY <1>1, <2>4, <2>5, NextSample
  <2>7. (i - 1) + 1 = i /\ phase < 3 * Lag
    BY <1>1, <2>2, Constants
  <2> QED
    BY <2>4, <2>6, <2>7
<1> QED
  BY <1>1, <1>2, <1>3

LEMMA SampleEnds ==
  ASSUME MeasureInv, NoDiskYet, PollSecond, second # sec, i < NR_FREQ_SAMPLES
  PROVE  at' \in Measuring /\ MeasureInv' /\ NoDiskYet'
<1>1. at = "poll" /\ at' = "sec" /\ at' \in Measuring /\ i' = i + 1
      /\ sec' = 0 /\ cnt' = 0 /\ cnt_new' = 0 /\ count_inc' = count_inc + Sample
      /\ UNCHANGED <<image, fpos, pos, loaded, cpu_freq, nap, disks, probe, found, read>>
  BY DEF PollSecond, Measuring, boot_vars, ide_vars, Sample
<1>2. ClockType /\ i \in 0..NR_FREQ_SAMPLES /\ phase \in 0..Period - 1 /\ count_inc \in Nat
  BY DEF MeasureInv, ClockType
<1>3. Sample \in Nat /\ phase < 3 * Lag /\ Summed(i, count_inc + Sample)
  BY <1>1, SampleInRange
<1>4. ClockType' /\ phase' < 4 * Lag
  <2>1. PICK d \in 1..Lag : Within(d) \/ OverEnd(d)
    BY <1>2, PassCases DEF PollSecond
  <2>2. ClockType'
    BY <1>2, PassCases DEF PollSecond
  <2> QED
    BY <1>2, <1>3, <2>1, <2>2, Constants DEF Within, OverEnd, ClockType
<1>5. Sampling'
  BY <1>1, <1>4 DEF Sampling
<1> HIDE DEF Sample
<1>6. i' \in 0..NR_FREQ_SAMPLES /\ count_inc' \in Nat /\ i' - 1 = i /\ i' > 0
  BY <1>1, <1>2, <1>3, Constants
<1>7. Summed(i - 1, count_inc)'
  BY <1>1, <1>3, <1>6 DEF Summed
<1>8. sec' \in 0..59 /\ cnt' \in 0..Modulus - 1 /\ cnt_new' \in 0..Modulus - 1
  BY <1>1, Constants
<1> QED
  BY <1>1, <1>4, <1>5, <1>6, <1>7, <1>8 DEF MeasureInv, NoDiskYet, Cleared

LEMMA MeasureEnds ==
  ASSUME MeasureInv, NoDiskYet, PollSecond, second # sec, ~(i < NR_FREQ_SAMPLES)
  PROVE  at' \in Using /\ UseInv'
<1>1. at = "poll" /\ at' = "select" /\ at' \in Using /\ i' = i + 1
      /\ sec' = 0 /\ cnt' = 0 /\ cnt_new' = 0 /\ count_inc' = 0
      /\ cpu_freq' = 2 * ((count_inc + Sample) \div NR_FREQ_SAMPLES)
      /\ UNCHANGED <<image, fpos, pos, loaded, nap, disks, probe, found, read>>
  BY DEF PollSecond, Using, boot_vars, ide_vars, Sample
<1>2. ClockType /\ i \in 0..NR_FREQ_SAMPLES /\ count_inc \in Nat /\ disks \in Disks
  BY DEF MeasureInv
<1>3. Sample \in Nat /\ Summed(i, count_inc + Sample) /\ i = NR_FREQ_SAMPLES /\ i \in Nat /\ i > 0
  BY <1>1, <1>2, SampleInRange, Constants
<1> HIDE DEF Sample
<1>4. ClockType'
  BY <1>2, PassCases DEF PollSecond
<1>5. Close(cpu_freq)'
  <2>1. (count_inc + Sample) \div NR_FREQ_SAMPLES \in Period - 6 * Lag .. Period + Lag
    BY <1>2, <1>3, Average
  <2>2. PICK v \in Period - 6 * Lag .. Period + Lag : cpu_freq' = 2 * v
    BY <1>1, <2>1
  <2>3. v - Period \in -6 * Lag..Lag /\ cpu_freq' = 2 * (Period + (v - Period))
    BY <2>2, Constants
  <2> QED
    BY <2>3 DEF Close
<1>6. nap' = NoNap /\ probe' = 1 /\ found' = <<>> /\ read' = 0 /\ disks' \in Disks
  BY <1>1, <1>2 DEF NoDiskYet
<1>7. NapInv'
  BY <1>1, <1>6, Constants DEF NapInv, NoNap, SleepsAsLong
<1>8. DiskInv'
  BY <1>1, <1>6, Constants DEF DiskInv
<1>9. Cleared'
  BY <1>1 DEF MeasureInv, Cleared
<1>10. i' \in Nat
  BY <1>1, <1>3
<1> QED
  BY <1>1, <1>4, <1>5, <1>7, <1>8, <1>9, <1>10 DEF UseInv

-----------------------------------------------------------------------------
(* Delays and the disk.                                                    *)

LEMMA UsingCase ==
  ASSUME MipsIInv, at \in Using
  PROVE  UseInv
BY DEF MipsIInv, Loading, Measuring, Using

LEMMA ProbesCover ==
  /\ Len(Probes) = 8 /\ \A k \in 1..8 : Probes[k] \in (0..3) \X (0..1)
  /\ \A d \in (0..3) \X (0..1) : \E k \in 1..8 : Probes[k] = d
<1>1. Len(Probes) = 8
  BY DEF Probes
<1>2. \A k \in 1..8 : Probes[k] \in (0..3) \X (0..1)
  BY DEF Probes
<1>3. ASSUME NEW p \in 0..3, NEW s \in 0..1 PROVE \E k \in 1..8 : Probes[k] = <<p, s>>
  <2>1. (p = 0 \/ p = 1 \/ p = 2 \/ p = 3) /\ (s = 0 \/ s = 1)
    OBVIOUS
  <2> QED
    BY <2>1 DEF Probes
<1> QED
  BY <1>1, <1>2, <1>3

LEMMA NapStarts ==
  ASSUME UseInv, NEW usec \in {1, SelectTime}, NEW next \in {"status", "data", "finished"}, StartNap(usec, next),
         count' = count
  PROVE  at' = "usleep" /\ nap'.next = next /\ NapInv'
<1>1. at' = "usleep" /\ nap' = [count |-> count, incs |-> Increments(cpu_freq, usec), elapsed |-> 0, next |-> next]
  BY DEF StartNap, Increments
<1>2. count \in 0..Modulus - 1 /\ cpu_freq \in Int /\ Close(cpu_freq)
  <2>1. PICK e \in -6 * Lag..Lag : cpu_freq = 2 * (Period + e)
    BY DEF UseInv, Close
  <2> QED
    BY <2>1, Constants DEF UseInv, ClockType
<1>3. Increments(cpu_freq, usec) \in Nat /\ Increments(cpu_freq, usec) + Lag < Modulus
  BY <1>2, DelayFits
<1> DEFINE incs == Increments(cpu_freq, usec)
<1>4. nap' = [count |-> count, incs |-> incs, elapsed |-> 0, next |-> next]
  BY <1>1
<1>5. incs \in Nat /\ incs + Lag < Modulus
  BY <1>3
<1> HIDE DEF incs
<1>6. nap'.count = count /\ nap'.incs = incs /\ nap'.elapsed = 0 /\ nap'.next = next
  BY <1>4
<1>7. (count' - nap'.count) % Modulus = nap'.elapsed
  BY <1>2, <1>6, NoDifference, Constants
<1>8. Asleep'
  BY <1>5, <1>6, <1>7, Constants DEF Asleep
<1>9. at' # nap'.next
  BY <1>1, <1>6
<1>10. nap' = [count |-> nap'.count, incs |-> nap'.incs, elapsed |-> nap'.elapsed, next |-> nap'.next]
  BY <1>4, <1>6
<1> QED
  BY <1>1, <1>2, <1>5, <1>6, <1>8, <1>9, <1>10 DEF NapInv, SleepsAsLong

LEMMA SelectStep ==
  ASSUME UseInv, SelectDrive
  PROVE  at' \in Using /\ UseInv'
<1>1. at = "select" /\ probe <= 8 /\ StartNap(SelectTime, "status") /\ count' = count
      /\ UNCHANGED <<image, fpos, pos, loaded, i, count, phase, second, sec, cnt, cnt_new, count_inc, cpu_freq>>
      /\ UNCHANGED <<disks, probe, found, read>>
  BY ProbesCover DEF SelectDrive, boot_vars, clock, freq_vars, ide_vars
<1>2. at' = "usleep" /\ nap'.next = "status" /\ NapInv'
  BY <1>1, NapStarts
<1>3. DiskInv'
  BY <1>1, <1>2 DEF UseInv, DiskInv
<1> QED
  BY <1>1, <1>2, <1>3 DEF UseInv, Cleared, ClockType, Using

LEMMA UsleepStep ==
  ASSUME UseInv, usleep
  PROVE  at' \in Using /\ UseInv'
<1>1. at = "usleep" /\ NapInv /\ DiskInv /\ count \in 0..Modulus - 1
      /\ UNCHANGED <<image, fpos, pos, loaded, i, phase, second, sec, cnt, cnt_new, count_inc, cpu_freq>>
      /\ UNCHANGED <<disks, probe, found, read>>
  BY DEF usleep, boot_vars, freq_vars, ide_vars, UseInv, ClockType
<1>2. /\ nap = [count |-> nap.count, incs |-> nap.incs, elapsed |-> nap.elapsed, next |-> nap.next]
      /\ nap.count \in 0..Modulus - 1 /\ nap.incs \in Nat /\ nap.elapsed \in Nat
      /\ nap.next \in {"status", "data", "finished"}
      /\ nap.incs + Lag < Modulus /\ nap.elapsed < nap.incs + Lag
      /\ (count - nap.count) % Modulus = nap.elapsed
  BY <1>1 DEF NapInv, Asleep
<1>3. CASE TooEarly(nap.count, count, nap.incs)
  <2>1. PICK d \in 1..Lag : count' = (count + d) % Modulus /\ nap' = [nap EXCEPT !.elapsed = @ + d] /\ at' = at
    BY <1>3 DEF usleep
  <2>2. nap.elapsed < nap.incs
    BY <1>2, <1>3 DEF TooEarly
  <2>3. /\ nap'.count = nap.count /\ nap'.incs = nap.incs /\ nap'.elapsed = nap.elapsed + d /\ nap'.next = nap.next
        /\ nap' = [count |-> nap.count, incs |-> nap.incs, elapsed |-> nap.elapsed + d, next |-> nap.next]
    BY <1>2, <2>1
  <2>4. ((((count + d) % Modulus) - nap.count) % Modulus) = nap.elapsed + d
    <3>1. d \in Nat /\ nap.elapsed + d < Modulus /\ Modulus \in Nat /\ Modulus > 0
          /\ count \in Int /\ nap.count \in Int /\ nap.elapsed \in Int
      BY <1>1, <1>2, <2>2, Constants
    <3> QED
      BY <1>2, <3>1, DifferenceGrows
  <2>5. (count' - nap'.count) % Modulus = nap'.elapsed
    BY <2>1, <2>3, <2>4
  <2>6. nap'.elapsed \in Nat /\ nap'.elapsed < nap'.incs + Lag
    BY <1>2, <2>2, <2>3, Constants
  <2>7. at' = "usleep" /\ at' # nap'.next
    BY <1>1, <1>2, <2>1, <2>3
  <2>8. NapInv'
    BY <1>2, <2>3, <2>5, <2>6, <2>7 DEF NapInv, Asleep, SleepsAsLong
  <2>9. DiskInv'
    BY <1>1, <2>3, <2>7 DEF DiskInv
  <2>10. ClockType'
    <3>1. count' \in 0..Modulus - 1
      BY <1>1, <2>1, Constants, DivMod
    <3> QED
      BY <1>1, <3>1 DEF UseInv, ClockType
  <2> QED
    BY <1>1, <2>7, <2>8, <2>9, <2>10 DEF UseInv, Cleared, Using
<1>4. CASE ~TooEarly(nap.count, count, nap.incs)
  <2>1. at' = nap.next /\ count' = count /\ nap' = nap
    BY <1>4 DEF usleep
  <2>2. nap.elapsed >= nap.incs
    BY <1>2, <1>4 DEF TooEarly
  <2>3. NapInv'
    BY <1>1, <1>2, <2>1, <2>2 DEF NapInv, SleepsAsLong
  <2>4. DiskInv'
    BY <1>1, <1>2, <2>1 DEF DiskInv
  <2>5. at' \in Using
    BY <1>2, <2>1 DEF Using
  <2> QED
    BY <1>1, <2>1, <2>3, <2>4, <2>5 DEF UseInv, Cleared, ClockType
<1> QED
  BY <1>3, <1>4

LEMMA ReadStatusStep ==
  ASSUME UseInv, ReadStatus
  PROVE  at' \in Using /\ UseInv'
<1>1. at = "status" /\ at' = "select" /\ probe' = probe + 1 /\ at' \in Using
      /\ UNCHANGED <<image, fpos, pos, loaded, i, count, phase, second, sec, cnt, cnt_new, count_inc, cpu_freq>>
      /\ UNCHANGED <<disks, read, nap>>
  BY DEF ReadStatus, boot_vars, clock, freq_vars, ide_vars, Using
<1>2. DiskInv /\ NapInv /\ probe \in 1..8
  BY <1>1 DEF UseInv, DiskInv
<1>3. Accepts(Stat(Probes[probe])) <=> Probes[probe] \in disks
  BY DEF Accepts, Stat
<1>4. found' = IF Probes[probe] \in disks THEN Probes[probe] ELSE found
  BY <1>3 DEF ReadStatus
<1>5. found' = <<>> \/ found' \in disks'
  BY <1>1, <1>2, <1>4 DEF DiskInv
<1>6. ASSUME found' = <<>> PROVE \A k \in 1..probe' - 1 : Probes[k] \notin disks'
  <2>1. Probes[probe] \in (0..3) \X (0..1)
    BY <1>2, ProbesCover
  <2>2. Probes[probe] # <<>>
    BY <2>1
  <2>3. Probes[probe] \notin disks /\ found = <<>>
    BY <1>4, <1>6, <2>2
  <2>4. \A k \in 1..probe - 1 : Probes[k] \notin disks
    BY <1>2, <2>3 DEF DiskInv
  <2> QED
    BY <1>1, <1>2, <2>3, <2>4
<1>7. DiskInv'
  BY <1>1, <1>2, <1>5, <1>6 DEF DiskInv
<1>8. NapInv'
  BY <1>1, <1>2 DEF NapInv, SleepsAsLong
<1> QED
  BY <1>1, <1>7, <1>8 DEF UseInv, Cleared, ClockType

LEMMA IdentifyStep ==
  ASSUME UseInv, Identify
  PROVE  at' \in Using /\ UseInv'
<1>1. at = "select" /\ probe > 8 /\ at' = (IF found = <<>> THEN "wild" ELSE "cause")
      /\ UNCHANGED <<image, fpos, pos, loaded, i, count, phase, second, sec, cnt, cnt_new, count_inc, cpu_freq>>
      /\ UNCHANGED <<disks, probe, found, read, nap>>
  BY ProbesCover DEF Identify, boot_vars, clock, freq_vars, ide_vars
<1>2. DiskInv /\ NapInv /\ probe = 9 /\ disks \subseteq (0..3) \X (0..1)
  BY <1>1, DisksAssumption DEF UseInv, DiskInv
<1>3. at' \in {"wild", "cause"}
  BY <1>1
<1>4. found = <<>> => disks = {}
  <2> SUFFICES ASSUME found = <<>>, NEW d \in disks PROVE FALSE
    OBVIOUS
  <2>1. PICK k \in 1..8 : Probes[k] = d
    BY <1>2, ProbesCover
  <2> QED
    BY <1>2, <2>1 DEF DiskInv
<1>5. DiskInv'
  BY <1>1, <1>2, <1>3, <1>4, Constants DEF DiskInv
<1>6. NapInv'
  BY <1>1, <1>2, <1>3 DEF NapInv, SleepsAsLong
<1> QED
  BY <1>1, <1>3, <1>5, <1>6 DEF UseInv, Cleared, ClockType, Using

LEMMA CauseStep ==
  ASSUME UseInv, CauseChanges
  PROVE  at' \in Using /\ UseInv'
<1>1. at = "cause" /\ found \in disks /\ at' \in {"data", "error"}
      /\ UNCHANGED <<image, fpos, pos, loaded, i, count, phase, second, sec, cnt, cnt_new, count_inc, cpu_freq>>
      /\ UNCHANGED <<disks, probe, found, read, nap>>
  BY DEF CauseChanges, boot_vars, clock, freq_vars, ide_vars
<1>2. DiskInv'
  BY <1>1 DEF UseInv, DiskInv
<1>3. NapInv'
  BY <1>1 DEF UseInv, NapInv, SleepsAsLong
<1> QED
  BY <1>1, <1>2, <1>3 DEF UseInv, Cleared, ClockType, Using

LEMMA ReadDataStep ==
  ASSUME UseInv, ReadData
  PROVE  at' \in Using /\ UseInv'
<1>1. at = "data" /\ DiskInv /\ NapInv /\ found \in disks
      /\ UNCHANGED <<image, fpos, pos, loaded, i, count, phase, second, sec, cnt, cnt_new, count_inc, cpu_freq>>
      /\ UNCHANGED <<disks, probe, found>>
  BY DEF ReadData, boot_vars, clock, freq_vars, UseInv, DiskInv
<1>2. ASSUME read' = read + 1, NEW next \in {"data", "finished"},
             next = "data" => read' + 1 < Exceeds, StartNap(1, next)
      PROVE  at' \in Using /\ UseInv'
  <2>1. at' = "usleep" /\ nap'.next = next /\ NapInv'
    BY <1>1, <1>2, NapStarts
  <2>2. read' \in 0..Exceeds - 1
    BY <1>1, <1>2, Constants DEF DiskInv
  <2>3. DiskInv'
    BY <1>1, <1>2, <2>1, <2>2 DEF DiskInv
  <2> QED
    BY <1>1, <2>1, <2>3 DEF UseInv, Cleared, ClockType, Using
<1>3. CASE read' = read + 1 /\ StartNap(1, IF read' + 1 = Exceeds THEN "finished" ELSE "data")
  <2>1. read + 1 < Exceeds /\ read \in Nat
    BY <1>1, Constants DEF DiskInv
  <2>2. CASE read' + 1 = Exceeds
    BY <1>2, <1>3, <2>2
  <2>3. CASE read' + 1 # Exceeds
    <3>1. read' + 1 < Exceeds
      BY <1>3, <2>1, <2>3, Constants
    <3> QED
      BY <1>2, <1>3, <2>3, <3>1
  <2> QED
    BY <2>2, <2>3
<1>4. CASE at' = "finished" /\ UNCHANGED <<read, nap>>
  <2>1. DiskInv'
    BY <1>1, <1>4 DEF DiskInv
  <2>2. NapInv'
    BY <1>1, <1>4 DEF NapInv, SleepsAsLong
  <2> QED
    BY <1>1, <1>4, <2>1, <2>2 DEF UseInv, Cleared, ClockType, Using
<1> QED
  BY <1>1, <1>3, <1>4 DEF ReadData

-----------------------------------------------------------------------------
(* The whole start-up.                                                     *)

LEMMA BootStepKeeps ==
  ASSUME MipsIInv, MipsNext
  PROVE  MipsIInv'
<1>1. ASSUME at \in Loading,
             _boot \/ ReadEhdr \/ ReadPhdr \/ Seek \/ LoadSegment \/ SeekBack \/ BootFails \/ Enter
      PROVE  MipsIInv'
  <2>1. LoadInv /\ NoDiskYet
    BY <1>1, LoadingCase
  <2>2. at' \in Loading /\ LoadInv' /\ NoDiskYet'
    BY <1>1, <2>1, BootStep, ReadEhdrStep, ReadPhdrStep, SeekStep, LoadSegmentStep, SeekBackStep,
       BootFailsStep, EnterStep
  <2> QED
    BY <2>2 DEF MipsIInv
<1>2. ASSUME at \in Loading, setup_arch PROVE MipsIInv'
  <2>1. LoadInv /\ NoDiskYet
    BY <1>2, LoadingCase
  <2> QED
    BY <1>2, <2>1, SetupStep DEF MipsIInv
<1>3. ASSUME at \in Measuring, ReadSecond \/ ReadCount \/ ReadNew \/ PollSecond PROVE MipsIInv'
  <2>1. MeasureInv /\ NoDiskYet
    BY <1>3, MeasuringCase
  <2>2. \/ at' \in Measuring /\ MeasureInv' /\ NoDiskYet'
        \/ at' \in Using /\ UseInv'
    BY <1>3, <2>1, ReadSecondStep, ReadCountStep, ReadNewStep, PollAgain, SampleEnds, MeasureEnds
  <2> QED
    BY <2>2 DEF MipsIInv
<1>4. ASSUME at \in Using, usleep \/ SelectDrive \/ ReadStatus \/ Identify \/ CauseChanges \/ ReadData
      PROVE  MipsIInv'
  <2>1. UseInv
    BY <1>4, UsingCase
  <2>2. at' \in Using /\ UseInv'
    BY <1>4, <2>1, UsleepStep, SelectStep, ReadStatusStep, IdentifyStep, CauseStep, ReadDataStep
  <2> QED
    BY <2>2 DEF MipsIInv
<1>5. /\ _boot \/ ReadEhdr \/ ReadPhdr \/ Seek \/ LoadSegment \/ SeekBack \/ BootFails \/ Enter => at \in Loading
      /\ setup_arch => at \in Loading
  BY DEF _boot, ReadEhdr, ReadPhdr, Seek, LoadSegment, SeekBack, BootFails, Enter, setup_arch, Loading
<1>6. ReadSecond \/ ReadCount \/ ReadNew \/ PollSecond => at \in Measuring
  BY DEF ReadSecond, ReadCount, ReadNew, PollSecond, Measuring
<1>7. usleep \/ SelectDrive \/ ReadStatus \/ Identify \/ CauseChanges \/ ReadData => at \in Using
  BY DEF usleep, SelectDrive, ReadStatus, Identify, CauseChanges, ReadData, Using
<1> QED
  BY <1>1, <1>2, <1>3, <1>4, <1>5, <1>6, <1>7 DEF MipsNext, MipsStep

LEMMA BootStutters ==
  ASSUME MipsIInv, UNCHANGED mips_vars
  PROVE  MipsIInv'
<1>1. UNCHANGED <<at, image, fpos, pos, ph, loaded, i, count, phase, second, nap>>
      /\ UNCHANGED <<sec, cnt, cnt_new, count_inc, cpu_freq, disks, probe, found, read>>
  BY DEF mips_vars, boot_vars, clock, freq_vars, ide_vars
<1>2. NoDiskYet' = NoDiskYet /\ Cleared' = Cleared /\ ClockType' = ClockType
  BY <1>1 DEF NoDiskYet, Cleared, ClockType
<1>3. ASSUME LoadInv PROVE LoadInv'
  <2>1. \A n : Segments(n)' = Segments(n)
    BY <1>1 DEF Segments
  <2>2. OneSegment' = OneSegment
    BY <1>1 DEF OneSegment
  <2>3. Placed' = Placed
    BY <1>1 DEF Placed, HeaderRead, Segments
  <2> QED
    BY <1>1, <1>3, <2>2, <2>3 DEF LoadInv
<1>4. ASSUME MeasureInv PROVE MeasureInv'
  <2>1. Sampling' = Sampling
    BY <1>1 DEF Sampling, Since
  <2>2. Summed(i - 1, count_inc)' = Summed(i - 1, count_inc)
    BY <1>1 DEF Summed
  <2> QED
    BY <1>1, <1>2, <1>4, <2>1, <2>2 DEF MeasureInv
<1>5. ASSUME UseInv PROVE UseInv'
  <2>1. NapInv' = NapInv
    BY <1>1 DEF NapInv, Asleep, SleepsAsLong
  <2>2. DiskInv' = DiskInv
    BY <1>1 DEF DiskInv
  <2>3. Close(cpu_freq)' = Close(cpu_freq)
    BY <1>1 DEF Close
  <2> QED
    BY <1>1, <1>2, <1>5, <2>1, <2>2, <2>3 DEF UseInv
<1> QED
  BY <1>1, <1>2, <1>3, <1>4, <1>5 DEF MipsIInv

LEMMA BootStarts ==
  ASSUME MipsInit
  PROVE  MipsIInv
<1>1. at = "off" /\ at \in Loading /\ NoDiskYet
  BY DEF MipsInit, Loading, NoDiskYet
<1>2. Placed
  BY <1>1 DEF Placed
<1>3. image \in Seq(ProgramHeader)
  BY DEF MipsInit
<1> QED
  BY <1>1, <1>2, <1>3 DEF MipsInit, LoadInv, MipsIInv

LEMMA BootCorrect ==
  ASSUME MipsIInv
  PROVE  StartUpCorrect
<1>1. CASE at \in Loading
  <2>1. LoadInv /\ NoDiskYet
    BY <1>1, LoadingCase
  <2>2. MipsTypeOK
    BY <1>1, <2>1, Constants DEF MipsTypeOK, LoadInv, NoDiskYet, Loading
  <2>3. SegmentsLoaded
    <3> SUFFICES ASSUME OneSegment
                 PROVE  /\ at # "garbage"
                        /\ at = "entry" => loaded = UNION {Segment(image[k]) : k \in {x \in DOMAIN image : image[x].load}}
      BY DEF SegmentsLoaded, Segment
    <3>1. DOMAIN image = 1..Len(image)
      BY <2>1 DEF LoadInv
    <3> QED
      BY <2>1, <3>1 DEF LoadInv, Placed, Segments
  <2>4. FrequencyClose /\ SleepsAsLong /\ DiskIdentified
    BY <1>1, <2>1, Constants DEF Loading, NoDiskYet, NoNap, FrequencyClose, SleepsAsLong, DiskIdentified
  <2> QED
    BY <2>2, <2>3, <2>4 DEF StartUpCorrect
<1>2. CASE at \in Measuring
  <2>1. MeasureInv /\ NoDiskYet
    BY <1>2, MeasuringCase
  <2>2. i \in Nat /\ sec \in Nat /\ cnt \in Nat /\ cnt_new \in Nat
    BY <2>1, Constants DEF MeasureInv
  <2>3. MipsTypeOK
    BY <1>2, <2>1, <2>2 DEF MipsTypeOK, MeasureInv, Cleared, ClockType, NoDiskYet, Measuring
  <2>4. SegmentsLoaded /\ FrequencyClose /\ SleepsAsLong /\ DiskIdentified
    BY <1>2, <2>1, Constants DEF Measuring, NoDiskYet, NoNap, SegmentsLoaded, FrequencyClose, SleepsAsLong, DiskIdentified
  <2> QED
    BY <2>3, <2>4 DEF StartUpCorrect
<1>3. CASE at \in Using
  <2>1. UseInv
    BY <1>3, UsingCase
  <2>2. cpu_freq \in Nat
    <3>1. PICK e \in -6 * Lag..Lag : cpu_freq = 2 * (Period + e)
      BY <2>1 DEF UseInv, Close
    <3> QED
      BY <3>1, Constants
  <2>3. read \in Nat /\ (found = <<>> \/ found \in (0..3) \X (0..1))
    <3>1. disks \subseteq (0..3) \X (0..1)
      BY <2>1, DisksAssumption DEF UseInv, DiskInv
    <3> QED
      BY <2>1, <3>1, Constants DEF UseInv, DiskInv
  <2>4. MipsTypeOK
    BY <1>3, <2>1, <2>2, <2>3 DEF MipsTypeOK, UseInv, Cleared, ClockType, Using
  <2>5. SegmentsLoaded /\ SleepsAsLong
    BY <1>3, <2>1 DEF Using, SegmentsLoaded, UseInv, NapInv
  <2>6. FrequencyClose
    BY <2>1 DEF FrequencyClose, UseInv, Close
  <2>7. DiskIdentified
    BY <2>1, Constants DEF DiskIdentified, UseInv, DiskInv
  <2> QED
    BY <2>4, <2>5, <2>6, <2>7 DEF StartUpCorrect
<1> QED
  BY <1>1, <1>2, <1>3 DEF MipsIInv

\* The invariant of start-up: the file stands at the next header as long as
\* no segment that is not empty was read, the difference of two reads of COUNT
\* is that of their places in the second, and a delay counts what passed.
THEOREM StartUpInvariance == Spec => []MipsIInv
<1>1. Init => MipsIInv
  BY BootStarts DEF Init
<1>2. MipsIInv /\ [Next]_vars => MipsIInv'
  <2> SUFFICES ASSUME MipsIInv, [Next]_vars PROVE MipsIInv'
    OBVIOUS
  <2>1. CASE Boot
    BY <2>1, BootStepKeeps DEF Boot
  <2>2. CASE Disk
    BY <2>2, BootStutters DEF Disk
  <2>3. CASE UNCHANGED vars
    BY <2>3, BootStutters DEF vars
  <2> QED
    BY <2>1, <2>2, <2>3 DEF Next
<1> QED
  BY <1>1, <1>2, PTL DEF Spec

\* _boot, probe_count_freq, usleep and setup_arch are right for every image,
\* every rate and width of COUNT, and any disks: no kernel of one segment is
\* entered before all of it is in memory, the frequency is off by at most six
\* reads, no delay is too short or more than a read too long, and if there are
\* disks the command goes to one of them, whose data is read at most up to the
\* limit.
THEOREM StartUpSound == Spec => []StartUpCorrect
<1>1. MipsIInv => StartUpCorrect
  BY BootCorrect
<1> QED
  BY <1>1, StartUpInvariance, PTL
=============================================================================
