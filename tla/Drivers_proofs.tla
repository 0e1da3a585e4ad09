--------------------------- MODULE Drivers_proofs ---------------------------
(***************************************************************************)
(* The stand-alone parts under drivers/: the timer's delays, the division  *)
(* and the initialisation of AHCI ports, and the SD driver under the boot, *)
(* with what the boot makes of it.                                         *)
(***************************************************************************)
EXTENDS Boot, Division, Ahci, TLAPS

-----------------------------------------------------------------------------
(* A delay never ends early, for any width of the halves of the counter    *)
(* and any rate: the HI-LO-HI read of gtc_get_time is sound.               *)

(* Halves of numbers.                                                      *)

LEMMA Halves ==
  ASSUME NEW h \in Nat \ {0}, NEW c \in Nat
  PROVE  /\ c \div h \in Nat /\ c % h \in 0..h - 1
         /\ c = (c \div h) * h + (c % h)
<1>1. c % h \in 0..h - 1
  OBVIOUS
<1>2. c = (c \div h) * h + (c % h)
  OBVIOUS
<1>3. c \div h \in Nat
  OBVIOUS
<1> QED
  BY <1>1, <1>2, <1>3

LEMMA ProductOrder ==
  ASSUME NEW h \in Nat \ {0}, NEW a \in Nat, NEW b \in Nat, a <= b
  PROVE  a * h <= b * h
OBVIOUS

\* The upper half of a running counter never falls.
LEMMA UpperOrder ==
  ASSUME NEW h \in Nat \ {0}, NEW c \in Nat, NEW d \in Nat, c <= d
  PROVE  c \div h <= d \div h
<1>1. /\ c \div h \in Nat /\ d \div h \in Nat /\ d % h \in 0..h - 1
      /\ (c \div h) * h <= c /\ d = (d \div h) * h + (d % h)
  <2>1. c % h \in 0..h - 1 /\ c \div h \in Nat /\ c = (c \div h) * h + (c % h)
    BY Halves
  <2>2. (c \div h) * h \in Nat
    BY <2>1
  <2>3. (c \div h) * h <= c
    BY <2>1, <2>2
  <2>4. d % h \in 0..h - 1 /\ d \div h \in Nat /\ d = (d \div h) * h + (d % h)
    BY Halves
  <2> QED
    BY <2>1, <2>3, <2>4
<1> SUFFICES ASSUME c \div h >= (d \div h) + 1 PROVE FALSE
  BY <1>1
<1>2. ((d \div h) + 1) * h <= (c \div h) * h
  BY <1>1, ProductOrder
<1>3. ((d \div h) + 1) * h = (d \div h) * h + h
  BY <1>1
<1> QED
  BY <1>1, <1>2, <1>3

-----------------------------------------------------------------------------
(* The inductive invariant: what a read that began at delay.from has seen. *)

\* The lower half was read when the counter stood at some c since the call; the
\* upper half that was read before it is not above c's.
LowerRead ==
    \E c \in delay.from..counter : delay.lo = c % Radix /\ delay.hi <= c \div Radix

GtcInv ==
    /\ counter \in Nat
    /\ delay \in [pc : {"idle", "hi", "lo", "again"}, hi : Nat, lo : Nat,
                  ticks : Nat, target : Nat, from : Nat]
    /\ Waiting => delay.from <= counter
    /\ Waiting /\ delay.target # NONE => delay.target >= delay.from + delay.ticks
    /\ delay.pc = "lo" => delay.hi <= counter \div Radix
    /\ delay.pc = "again" => LowerRead

\* A time that was read in three steps without a carry in between is not before
\* the call, and no time that was read is after the present.
LEMMA TimeRead ==
  ASSUME GtcInv, delay.pc = "again"
  PROVE  LET time == delay.hi * Radix + delay.lo
         IN  time \in Nat /\ time <= counter /\ (Consistent => time >= delay.from)
<1>1. Radix \in Nat \ {0}
  BY GtcAssumption
<1>2. delay.hi \in Nat /\ delay.from \in Nat /\ counter \in Nat
  BY DEF GtcInv
<1>3. PICK c \in delay.from..counter : delay.lo = c % Radix /\ delay.hi <= c \div Radix
  BY DEF GtcInv, LowerRead
<1>4. c \in Nat /\ delay.from <= c /\ c <= counter
  BY <1>2, <1>3
<1>5. c \div Radix \in Nat /\ c % Radix \in 0..Radix - 1 /\ c = (c \div Radix) * Radix + (c % Radix)
  BY <1>1, <1>4, Halves
<1>6. delay.hi * Radix <= (c \div Radix) * Radix
  BY <1>1, <1>2, <1>3, <1>5, ProductOrder
<1>7. delay.hi * Radix \in Nat /\ (c \div Radix) * Radix \in Nat
  BY <1>1, <1>2, <1>5
<1>8. delay.hi * Radix + delay.lo \in Nat /\ delay.hi * Radix + delay.lo <= counter
  BY <1>1, <1>2, <1>3, <1>4, <1>5, <1>6, <1>7
<1>9. ASSUME Consistent PROVE delay.hi * Radix + delay.lo >= delay.from
  <2>1. c \div Radix <= counter \div Radix
    BY <1>1, <1>2, <1>4, UpperOrder
  <2>2. delay.hi = c \div Radix
    <3>1. delay.hi = counter \div Radix
      BY <1>9 DEF Consistent
    <3> QED
      BY <1>2, <1>3, <1>5, <2>1, <3>1
  <2>3. delay.hi * Radix + delay.lo = c
    BY <1>3, <1>5, <2>2
  <2> QED
    BY <1>4, <2>3
<1> QED
  BY <1>8, <1>9

LEMMA TickInv ==
  ASSUME GtcInv, Tick
  PROVE  GtcInv'
<1>1. counter \in Nat /\ counter' = counter + 1 /\ delay' = delay /\ Radix \in Nat \ {0}
  BY GtcAssumption DEF GtcInv, Tick
<1>2. delay.from \in Nat
  BY DEF GtcInv
<1>3. counter \div Radix <= counter' \div Radix /\ counter \div Radix \in Nat /\ counter' \div Radix \in Nat
  <2>1. counter + 1 \in Nat /\ counter <= counter + 1
    BY <1>1
  <2> QED
    BY <1>1, <2>1, UpperOrder, Halves
<1>4. delay.pc = "lo" => delay.hi <= counter' \div Radix
  <2>1. delay.hi \in Nat
    BY DEF GtcInv
  <2> QED
    BY <1>3, <2>1 DEF GtcInv
<1>5. delay.pc = "again" => LowerRead'
  <2>1. \A c \in delay.from..counter : c \in delay.from..counter'
    BY <1>1, <1>2
  <2> QED
    BY <1>1, <2>1 DEF GtcInv, LowerRead
<1>6. Waiting => delay.from <= counter'
  BY <1>1, <1>2 DEF GtcInv
<1> QED
  BY <1>1, <1>4, <1>5, <1>6 DEF GtcInv, Waiting, NONE

\* The call.
LEMMA CallInv ==
  ASSUME GtcInv, NEW ticks \in Nat, StartDelay(ticks)
  PROVE  GtcInv'
<1>1. PICK now \in 0..CounterBound - ticks :
        /\ counter' = now
        /\ delay' = [delay EXCEPT !.pc = "hi", !.ticks = ticks, !.target = NONE, !.from = now]
  BY DEF StartDelay
<1>2. now \in Nat /\ NONE \in Nat
  BY <1>1, GtcAssumption DEF NONE
<1>3. /\ delay' \in [pc : {"idle", "hi", "lo", "again"}, hi : Nat, lo : Nat,
                     ticks : Nat, target : Nat, from : Nat]
      /\ delay'.pc = "hi" /\ delay'.from = now /\ delay'.target = NONE
  BY <1>1, <1>2 DEF GtcInv
<1> QED
  BY <1>1, <1>2, <1>3 DEF GtcInv, Waiting, NONE

LEMMA ReadHiInv ==
  ASSUME GtcInv, ReadHi
  PROVE  GtcInv'
<1>1. counter \in Nat /\ Radix \in Nat \ {0}
  BY GtcAssumption DEF GtcInv
<1>2. counter \div Radix \in Nat
  BY <1>1, Halves
<1>3. /\ counter' = counter /\ delay' = [delay EXCEPT !.hi = counter \div Radix, !.pc = "lo"]
      /\ delay.pc = "hi"
  BY DEF ReadHi
<1>4. /\ delay' \in [pc : {"idle", "hi", "lo", "again"}, hi : Nat, lo : Nat,
                     ticks : Nat, target : Nat, from : Nat]
      /\ delay'.pc = "lo" /\ delay'.hi = counter \div Radix /\ delay'.from = delay.from
      /\ delay'.target = delay.target /\ delay'.ticks = delay.ticks
  BY <1>2, <1>3 DEF GtcInv
<1>5. delay'.hi <= counter' \div Radix
  BY <1>2, <1>3, <1>4
<1> QED
  BY <1>3, <1>4, <1>5 DEF GtcInv, Waiting, NONE

LEMMA ReadLoInv ==
  ASSUME GtcInv, ReadLo
  PROVE  GtcInv'
<1>1. counter \in Nat /\ Radix \in Nat \ {0}
  BY GtcAssumption DEF GtcInv
<1>2. counter % Radix \in Nat
  BY <1>1, Halves
<1>3. /\ counter' = counter /\ delay' = [delay EXCEPT !.lo = counter % Radix, !.pc = "again"]
      /\ delay.pc = "lo"
  BY DEF ReadLo
<1>4. /\ delay' \in [pc : {"idle", "hi", "lo", "again"}, hi : Nat, lo : Nat,
                     ticks : Nat, target : Nat, from : Nat]
      /\ delay'.pc = "again" /\ delay'.lo = counter % Radix /\ delay'.hi = delay.hi
      /\ delay'.from = delay.from /\ delay'.target = delay.target /\ delay'.ticks = delay.ticks
  BY <1>2, <1>3 DEF GtcInv
<1>5. LowerRead'
  <2>1. /\ delay.hi <= counter \div Radix /\ delay.from <= counter
        /\ delay.from \in Nat
    BY <1>3 DEF GtcInv, Waiting
  <2>2. counter \in delay.from..counter
    BY <1>1, <2>1
  <2> QED
    BY <1>3, <1>4, <2>1, <2>2 DEF LowerRead
<1> QED
  BY <1>3, <1>4, <1>5 DEF GtcInv, Waiting, NONE

LEMMA ReadAgainInv ==
  ASSUME GtcInv, ReadAgain
  PROVE  GtcInv'
<1> DEFINE time == delay.hi * Radix + delay.lo
<1>1. counter' = counter /\ counter \in Nat /\ delay.pc = "again"
  BY DEF ReadAgain, GtcInv
<1>2. time \in Nat /\ (Consistent => time >= delay.from)
  BY <1>1, TimeRead
<1>3. delay.from \in Nat /\ delay.ticks \in Nat /\ time + delay.ticks \in Nat
  BY <1>2 DEF GtcInv
<1>4. \/ delay' = [delay EXCEPT !.pc = "hi"]
      \/ Consistent /\ delay' = [delay EXCEPT !.pc = "hi", !.target = time + delay.ticks]
      \/ delay' = [delay EXCEPT !.pc = "idle"]
  BY DEF ReadAgain
<1> HIDE DEF time
<1>5. CASE delay' = [delay EXCEPT !.pc = "hi"]
  <2>1. /\ delay' \in [pc : {"idle", "hi", "lo", "again"}, hi : Nat, lo : Nat,
                       ticks : Nat, target : Nat, from : Nat]
        /\ delay'.pc = "hi" /\ delay'.from = delay.from /\ delay'.target = delay.target
        /\ delay'.ticks = delay.ticks
    BY <1>5 DEF GtcInv
  <2> QED
    BY <1>1, <2>1 DEF GtcInv, Waiting, NONE
<1>6. CASE Consistent /\ delay' = [delay EXCEPT !.pc = "hi", !.target = time + delay.ticks]
  <2>1. /\ delay' \in [pc : {"idle", "hi", "lo", "again"}, hi : Nat, lo : Nat,
                       ticks : Nat, target : Nat, from : Nat]
        /\ delay'.pc = "hi" /\ delay'.from = delay.from /\ delay'.target = time + delay.ticks
        /\ delay'.ticks = delay.ticks
    BY <1>3, <1>6 DEF GtcInv
  <2>2. delay'.target >= delay'.from + delay'.ticks
    BY <1>2, <1>3, <1>6, <2>1
  <2> QED
    BY <1>1, <2>1, <2>2 DEF GtcInv, Waiting, NONE
<1>7. CASE delay' = [delay EXCEPT !.pc = "idle"]
  <2>1. /\ delay' \in [pc : {"idle", "hi", "lo", "again"}, hi : Nat, lo : Nat,
                       ticks : Nat, target : Nat, from : Nat]
        /\ delay'.pc = "idle"
    BY <1>7 DEF GtcInv
  <2> QED
    BY <1>1, <2>1 DEF GtcInv, Waiting
<1> QED
  BY <1>4, <1>5, <1>6, <1>7

LEMMA InitGtcInv == GtcInit => GtcInv
<1> SUFFICES ASSUME GtcInit PROVE GtcInv
  OBVIOUS
<1>1. NONE \in Nat
  BY GtcAssumption DEF NONE
<1>2. delay = [pc |-> "idle", hi |-> 0, lo |-> 0, ticks |-> 0, target |-> NONE, from |-> 0] /\ counter = 0
  BY DEF GtcInit
<1> QED
  BY <1>1, <1>2 DEF GtcInv, Waiting

LEMMA NextGtcInv == GtcInv /\ [GtcNext \/ GtcCall]_gtc_vars => GtcInv'
<1> SUFFICES ASSUME GtcInv, [GtcNext \/ GtcCall]_gtc_vars PROVE GtcInv'
  OBVIOUS
<1>1. CASE UNCHANGED gtc_vars
  BY <1>1 DEF gtc_vars, GtcInv, Waiting, LowerRead, NONE
<1>2. CASE GtcCall
  <2>1. PICK n \in Nat : sleep(n) \/ usleep(n)
    BY <1>2 DEF GtcCall
  <2>2. GTC_TPS * n \in Nat /\ GTC_TPUS * n \in Nat
    BY GtcAssumption
  <2> QED
    BY <2>1, <2>2, CallInv DEF sleep, usleep
<1> QED
  BY <1>1, <1>2, TickInv, ReadHiInv, ReadLoInv, ReadAgainInv DEF GtcNext

\* sleep and usleep wait at least as long as they are asked to, wherever the
\* counter carries between the reads of its halves (gtc_get_time).
THEOREM NeverEarly == GtcSpec => SleptLongEnough
<1> DEFINE Ended == Waiting /\ delay'.pc = "idle" => counter >= delay.from + delay.ticks
<1>1. GtcInv /\ [GtcNext \/ GtcCall]_gtc_vars => [Ended]_gtc_vars
  <2> SUFFICES ASSUME GtcInv, GtcNext \/ GtcCall, Waiting, delay'.pc = "idle"
               PROVE  counter >= delay.from + delay.ticks
    OBVIOUS
  <2> DEFINE time == delay.hi * Radix + delay.lo
  <2>1. ReadAgain
    <3>1. ~GtcCall
      BY DEF GtcCall, sleep, usleep, StartDelay
    <3>2. ~Tick
      BY DEF Tick, Waiting
    <3>3. ~ReadHi /\ ~ReadLo
      BY DEF ReadHi, ReadLo, GtcInv
    <3> QED
      BY <3>1, <3>2, <3>3 DEF GtcNext
  <2>2. /\ delay.target \in Nat /\ delay.from \in Nat /\ delay.ticks \in Nat /\ counter \in Nat
        /\ time \in Nat /\ time <= counter
    BY <2>1, TimeRead DEF ReadAgain, GtcInv
  <2>3. delay.target # NONE /\ ~(time < delay.target)
    BY <2>1 DEF ReadAgain, GtcInv
  <2>4. delay.target >= delay.from + delay.ticks
    BY <2>3 DEF GtcInv
  <2> HIDE DEF time
  <2> QED
    BY <2>2, <2>3, <2>4
<1>2. GtcInit => GtcInv
  BY InitGtcInv
<1>3. GtcInv /\ [GtcNext \/ GtcCall]_gtc_vars => GtcInv'
  BY NextGtcInv
<1>4. GtcSpec => [][Ended]_gtc_vars
  BY <1>1, <1>2, <1>3, PTL DEF GtcSpec
<1> QED
  BY <1>4 DEF SleptLongEnough

-----------------------------------------------------------------------------
(* The division routines give the quotient and the remainder of the        *)
(* definition for every width of a word and all arguments whose denominator *)
(* leaves room for one shift.                                              *)

(* Arithmetic.                                                             *)

LEMMA ModType ==
  ASSUME NEW m \in Nat \ {0}, NEW x \in Int
  PROVE  x % m \in 0..m - 1
OBVIOUS

LEMMA ModSmall ==
  ASSUME NEW m \in Nat \ {0}, NEW x \in 0..m - 1
  PROVE  x % m = x
OBVIOUS

LEMMA ModShifted ==
  ASSUME NEW m \in Nat \ {0}, NEW x \in 0..m - 1, NEW k \in Int
  PROVE  (x + m * k) % m = x
OBVIOUS

LEMMA ModMultiple ==
  ASSUME NEW m \in Nat \ {0}, NEW k \in Int
  PROVE  (m * k) % m = 0
<1>1. 0 \in 0..m - 1 /\ m * k \in Int /\ 0 + m * k = m * k
  OBVIOUS
<1> QED
  BY <1>1, ModShifted

LEMMA Words == Half \in Nat /\ Half > 1 /\ Modulus \in Nat \ {0} /\ Modulus = 2 * Half
               /\ Word = 0..Modulus - 1
BY WordAssumption DEF Modulus, Word

\* Two's complement.
LEMMA NegFacts ==
  ASSUME NEW x \in Word
  PROVE  /\ Neg(x) \in Word /\ Neg(0) = 0
         /\ x # 0 => Neg(x) = Modulus - x
<1>1. Neg(x) \in Word
  <2>1. Modulus - x \in Int
    BY Words
  <2> QED
    BY <2>1, ModType, Words DEF Neg
<1>2. Neg(0) = 0
  <2>1. Modulus - 0 = Modulus * 1
    BY Words
  <2>2. (Modulus * 1) % Modulus = 0
    BY ModMultiple, Words
  <2> QED
    BY <2>1, <2>2 DEF Neg
<1>3. ASSUME x # 0 PROVE Neg(x) = Modulus - x
  <2>1. Modulus - x \in 0..Modulus - 1
    BY <1>3, Words
  <2> QED
    BY <2>1, ModSmall, Words DEF Neg
<1> QED
  BY <1>1, <1>2, <1>3

LEMMA AbsFacts ==
  ASSUME NEW x \in Word
  PROVE  /\ ABS(x) \in Word /\ (x # 0 => ABS(x) # 0)
         /\ IsNeg(x) => x >= Half /\ ABS(x) = Modulus - x /\ ABS(x) <= Half
         /\ ~IsNeg(x) => x < Half /\ ABS(x) = x
<1>1. IsNeg(x) => x # 0
  BY Words DEF IsNeg
<1> QED
  BY <1>1, NegFacts, Words DEF ABS, IsNeg

-----------------------------------------------------------------------------
(* The inductive invariant.                                                *)

\* The arguments of the division proper.
Arguments ==
    /\ n_abs = IF signed THEN ABS(n0) ELSE n0
    /\ d_abs = IF signed THEN ABS(d0) ELSE d0
    /\ d_abs \in Nat \ {0}

\* While the denominator is aligned, nothing overflows.
Aligned ==
    /\ i \in Power /\ denominator = d_abs * i /\ shift = 2 * denominator
    /\ numerator = n_abs /\ quot = 0

\* Of the numerator, quot times the denominator has been taken away.
Partial ==
    /\ n_abs = quot * d_abs + numerator
    /\ i \in Power \cup {0}
    /\ i \in Power => denominator = d_abs * i
    /\ i = 0 => numerator < d_abs

Result(q, r) == n_abs = q * d_abs + r /\ r < d_abs

DivisionInv ==
    /\ DivisionTypeOK
    /\ pc \in {"align", "subtract", "sign"} => d0 # 0
    /\ pc = "done" /\ ~signed => d0 # 0
    /\ pc # "idle" /\ d0 # 0 => Arguments
    /\ pc # "idle" /\ d0 # 0 /\ d_abs < Half =>
         /\ pc = "align" => Aligned
         /\ pc = "subtract" => Partial
         /\ pc = "sign" => signed /\ Result(r0, r1)
         /\ pc = "done" /\ ~signed => Result(r0, r1)
         /\ pc = "done" /\ signed => RemainderCorrect

LEMMA InitDivision == DivisionInit => DivisionInv
<1> SUFFICES ASSUME DivisionInit PROVE DivisionInv
  OBVIOUS
<1>1. 0 \in Word
  BY Words
<1>2. pc = "idle"
  BY DEF DivisionInit
<1>3. DivisionTypeOK
  BY <1>1 DEF DivisionInit, DivisionTypeOK
<1> QED
  BY <1>2, <1>3 DEF DivisionInv

\* The call.
LEMMA DivideStep ==
  ASSUME DivisionInv, NEW s \in BOOLEAN, NEW n \in Word, NEW d \in Word, Divide(s, n, d)
  PROVE  DivisionInv'
<1> DEFINE na == IF s THEN ABS(n) ELSE n
           da == IF s THEN ABS(d) ELSE d
<1>1. na \in Word /\ da \in Word /\ (d # 0 => da # 0)
  BY AbsFacts
<1>2. /\ d # 0 /\ pc' = "align" /\ signed' = s /\ n0' = n /\ d0' = d /\ n_abs' = na /\ d_abs' = da
      /\ numerator' = na /\ denominator' = da /\ i' = 1 /\ shift' = (2 * da) % Modulus
      /\ quot' = 0 /\ r0' = r0 /\ r1' = r1
  BY DEF Divide
<1>3. (2 * da) % Modulus \in Word
  <2>1. 2 * da \in Int
    BY <1>1, Words
  <2> QED
    BY <2>1, ModType, Words
<1>4. DivisionTypeOK'
  BY <1>1, <1>2, <1>3, Words DEF DivisionInv, DivisionTypeOK
<1>5. Arguments'
  BY <1>1, <1>2, Words DEF Arguments
<1>6. ASSUME da < Half PROVE Aligned'
  <2>1. 2 * da \in 0..Modulus - 1
    BY <1>1, <1>6, Words
  <2>2. shift' = 2 * da
    BY <1>2, <2>1, ModSmall, Words
  <2>3. 1 \in Power /\ da * 1 = da
    BY <1>1, Words, PowerAssumption
  <2> QED
    BY <1>2, <2>2, <2>3 DEF Aligned
<1> QED
  BY <1>2, <1>4, <1>5, <1>6 DEF DivisionInv

LEMMA Idiv0Step ==
  ASSUME DivisionInv, NEW n \in Word, Idiv0(n)
  PROVE  DivisionInv'
<1>1. Modulus - 1 \in Word /\ 0 \in Word
  BY Words
<1> QED
  BY <1>1 DEF DivisionInv, DivisionTypeOK, Idiv0

LEMMA AlignStep ==
  ASSUME DivisionInv, Align
  PROVE  DivisionInv'
<1>1. /\ pc = "align" /\ d0 # 0 /\ Arguments
      /\ UNCHANGED <<signed, n0, d0, n_abs, d_abs, numerator, quot, r0, r1>>
  BY DEF Align, DivisionInv
<1>2. Arguments'
  BY <1>1 DEF Arguments
<1>3. d_abs < Half => Aligned
  BY <1>1 DEF DivisionInv
<1>4. /\ shift \in Word /\ i \in Word /\ denominator \in Word /\ numerator \in Word
      /\ d_abs \in Nat \ {0}
  BY <1>1 DEF DivisionInv, DivisionTypeOK, Arguments
<1>5. CASE MayShift
  <2>1. /\ shift' = (2 * shift) % Modulus /\ i' = (2 * i) % Modulus
        /\ denominator' = (2 * denominator) % Modulus /\ pc' = "align"
    BY <1>1, <1>5 DEF Align
  <2>2. DivisionTypeOK'
    <3>1. 2 * shift \in Int /\ 2 * i \in Int /\ 2 * denominator \in Int
      BY <1>4, Words
    <3>2. shift' \in Word /\ i' \in Word /\ denominator' \in Word
      BY <2>1, <3>1, ModType, Words
    <3> QED
      BY <1>1, <2>1, <3>2 DEF DivisionInv, DivisionTypeOK
  <2>3. ASSUME d_abs < Half PROVE Aligned'
    <3>1. Aligned /\ shift < Half
      BY <1>3, <1>5, <2>3 DEF MayShift
    <3>2. i \in Nat /\ i >= 1 /\ i <= Half
      BY <3>1, Words, PowerAssumption DEF Aligned
    <3>3. i <= d_abs * i
      BY <1>4, <3>2
    <3>4. denominator < Half /\ i < Half
      BY <1>4, <3>1, <3>2, <3>3, Words DEF Aligned
    <3>5. 2 * i \in Power
      BY <3>1, <3>4, PowerAssumption DEF Aligned
    <3>6. 2 * i \in 0..Modulus - 1 /\ 2 * shift \in 0..Modulus - 1 /\ 2 * denominator \in 0..Modulus - 1
      BY <1>4, <3>1, <3>2, <3>4, Words
    <3>7. i' = 2 * i /\ shift' = 2 * shift /\ denominator' = 2 * denominator
      BY <2>1, <3>6, ModSmall, Words
    <3>8. denominator' = d_abs * i'
      BY <1>4, <3>1, <3>2, <3>7 DEF Aligned
    <3>9. shift' = 2 * denominator'
      BY <3>1, <3>7 DEF Aligned
    <3> QED
      BY <1>1, <3>1, <3>5, <3>7, <3>8, <3>9 DEF Aligned
  <2> QED
    BY <1>1, <1>2, <2>1, <2>2, <2>3 DEF DivisionInv
<1>6. CASE ~MayShift
  <2>1. pc' = "subtract" /\ UNCHANGED <<shift, i, denominator>>
    BY <1>6 DEF Align
  <2>2. DivisionTypeOK'
    BY <1>1, <2>1 DEF DivisionInv, DivisionTypeOK
  <2>3. ASSUME d_abs < Half PROVE Partial'
    <3>1. Aligned /\ i # 0
      BY <1>3, <2>3, Words, PowerAssumption DEF Aligned
    <3>2. numerator = 0 * d_abs + numerator
      BY <1>4, Words
    <3> QED
      BY <1>1, <2>1, <3>1, <3>2 DEF Aligned, Partial
  <2> QED
    BY <1>1, <1>2, <2>1, <2>2, <2>3 DEF DivisionInv
<1> QED
  BY <1>5, <1>6

LEMMA SubtractStep ==
  ASSUME DivisionInv, Subtract
  PROVE  DivisionInv'
<1>1. /\ pc = "subtract" /\ pc' = "subtract" /\ i > 0 /\ numerator >= denominator
      /\ d0 # 0 /\ Arguments
      /\ numerator' = numerator - denominator /\ quot' = (quot + i) % Modulus
      /\ UNCHANGED <<signed, n0, d0, n_abs, d_abs, i, shift, denominator, r0, r1>>
  BY DEF Subtract, MaySubtract, DivisionInv
<1>2. Arguments'
  BY <1>1 DEF Arguments
<1>3. /\ i \in Word /\ denominator \in Word /\ numerator \in Word /\ quot \in Word /\ n_abs \in Word
      /\ d_abs \in Nat \ {0}
  BY <1>1 DEF DivisionInv, DivisionTypeOK, Arguments
<1>4. DivisionTypeOK'
  <2>1. quot' \in Word
    <3>1. quot + i \in Int
      BY <1>3, Words
    <3> QED
      BY <1>1, <3>1, ModType, Words
  <2>2. numerator' \in Word
    BY <1>1, <1>3, Words
  <2> QED
    BY <1>1, <2>1, <2>2 DEF DivisionInv, DivisionTypeOK
<1>5. ASSUME d_abs < Half PROVE Partial'
  <2>1. Partial
    BY <1>1, <1>5 DEF DivisionInv
  <2>2. i \in Power /\ denominator = d_abs * i
    BY <1>1, <2>1 DEF Partial
  <2>3. i \in Nat /\ quot \in Nat /\ numerator \in Nat /\ denominator \in Nat
    BY <1>3, Words
  <2>4. (quot + i) * d_abs + (numerator - denominator) = quot * d_abs + numerator
    BY <1>3, <2>2, <2>3
  <2>5. quot + i <= (quot + i) * d_abs
    BY <1>3, <2>3
  <2>6. quot + i <= n_abs
    <3>1. (quot + i) * d_abs \in Nat /\ numerator - denominator >= 0
      BY <1>1, <1>3, <2>3
    <3>2. n_abs = (quot + i) * d_abs + (numerator - denominator)
      BY <2>1, <2>4 DEF Partial
    <3> QED
      BY <2>3, <2>5, <3>1, <3>2
  <2>7. quot' = quot + i
    <3>1. quot + i \in 0..Modulus - 1
      BY <1>3, <2>3, <2>6, Words
    <3> QED
      BY <1>1, <3>1, ModSmall, Words
  <2> QED
    BY <1>1, <2>1, <2>2, <2>4, <2>7 DEF Partial
<1> QED
  BY <1>1, <1>2, <1>4, <1>5 DEF DivisionInv

LEMMA ShiftStep ==
  ASSUME DivisionInv, Shift
  PROVE  DivisionInv'
<1>1. /\ pc = "subtract" /\ pc' = "subtract" /\ i > 0 /\ ~(numerator >= denominator)
      /\ d0 # 0 /\ Arguments
      /\ i' = i \div 2 /\ denominator' = denominator \div 2
      /\ UNCHANGED <<signed, n0, d0, n_abs, d_abs, numerator, quot, shift, r0, r1>>
  BY DEF Shift, MaySubtract, DivisionInv
<1>2. Arguments'
  BY <1>1 DEF Arguments
<1>3. /\ i \in Nat /\ denominator \in Nat /\ numerator \in Nat /\ i < Modulus /\ denominator < Modulus
      /\ d_abs \in Nat \ {0}
  BY <1>1, Words DEF DivisionInv, DivisionTypeOK, Arguments
<1>4. DivisionTypeOK'
  <2>1. i' \in Word /\ denominator' \in Word
    BY <1>1, <1>3, Words
  <2> QED
    BY <1>1, <2>1 DEF DivisionInv, DivisionTypeOK
<1>5. ASSUME d_abs < Half PROVE Partial'
  <2>1. Partial /\ i \in Power /\ denominator = d_abs * i
    BY <1>1, <1>5 DEF DivisionInv, Partial
  <2>2. CASE i = 1
    <3>1. i' = 0 /\ numerator < d_abs
      BY <1>1, <1>3, <2>1, <2>2
    <3>2. 0 \notin Power
      BY PowerAssumption, Words
    <3> QED
      BY <1>1, <2>1, <3>1, <3>2 DEF Partial
  <2>3. CASE i # 1
    <3>1. PICK q \in Power : i = 2 * q
      BY <2>1, <2>3, PowerAssumption
    <3>2. q \in Nat /\ q # 0
      BY PowerAssumption, Words
    <3>3. i' = q
      BY <1>1, <3>1, <3>2
    <3>4. denominator = 2 * (d_abs * q) /\ d_abs * q \in Nat
      BY <1>3, <2>1, <3>1, <3>2
    <3>5. denominator' = d_abs * q
      BY <1>1, <3>4
    <3> QED
      BY <1>1, <2>1, <3>2, <3>3, <3>5 DEF Partial
  <2> QED
    BY <2>2, <2>3
<1> QED
  BY <1>1, <1>2, <1>4, <1>5 DEF DivisionInv

LEMMA FinishStep ==
  ASSUME DivisionInv, Finish
  PROVE  DivisionInv'
<1>1. /\ pc = "subtract" /\ i = 0 /\ r0' = quot /\ r1' = numerator /\ d0 # 0 /\ Arguments
      /\ pc' = (IF signed THEN "sign" ELSE "done")
      /\ UNCHANGED <<signed, n0, d0, n_abs, d_abs, i, shift, denominator, numerator, quot>>
  BY DEF Finish, DivisionInv
<1>2. Arguments'
  BY <1>1 DEF Arguments
<1>3. DivisionTypeOK'
  BY <1>1 DEF DivisionInv, DivisionTypeOK
<1>4. d_abs < Half => Result(r0, r1)'
  BY <1>1 DEF DivisionInv, Partial, Result
<1> QED
  BY <1>1, <1>2, <1>3, <1>4 DEF DivisionInv

\* The remainder from a quotient whose sign was put right: numerator and
\* remainder have the same sign.
LEMMA SignedRemainder ==
  ASSUME NEW n \in Word, NEW d \in Word, d # 0, NEW q \in Word, NEW r \in Word,
         ABS(n) = q * ABS(d) + r, r < ABS(d), ABS(d) < Half,
         NEW rem, rem = (n - (IF IsNeg(n) # IsNeg(d) THEN Neg(q) ELSE q) * d) % Modulus
  PROVE  rem = IF IsNeg(n) THEN Neg(r) ELSE r
<1>1. q \in Nat /\ r \in Nat /\ n \in Nat /\ d \in Nat /\ Modulus \in Nat \ {0}
  BY Words
<1>2. PICK e \in {0, 1} : Neg(q) = Modulus * e - q
  <2>1. q = 0 => Neg(q) = Modulus * 0 - q
    BY <1>1, NegFacts
  <2>2. q # 0 => Neg(q) = Modulus * 1 - q
    BY <1>1, NegFacts
  <2> QED
    BY <2>1, <2>2
<1>3. PICK f \in {0, 1} : Neg(r) = Modulus * f - r /\ Neg(r) \in 0..Modulus - 1
  <2>1. Neg(r) \in 0..Modulus - 1
    BY NegFacts, Words
  <2>2. r = 0 => Neg(r) = Modulus * 0 - r
    BY <1>1, NegFacts
  <2>3. r # 0 => Neg(r) = Modulus * 1 - r
    BY <1>1, NegFacts
  <2> QED
    BY <2>1, <2>2, <2>3
<1>4. r \in 0..Modulus - 1
  BY Words
<1> DEFINE da == ABS(d)
<1>5. da \in Nat
  BY AbsFacts, Words
<1>6. CASE ~IsNeg(n) /\ ~IsNeg(d)
  <2>1. n = q * d + r
    BY <1>6, AbsFacts
  <2>2. n - q * d = r
    BY <1>1, <2>1
  <2>3. rem = (n - q * d) % Modulus
    BY <1>6 DEF IsNeg
  <2>4. r % Modulus = r
    BY <1>1, <1>4, ModSmall
  <2> QED
    BY <1>6, <2>2, <2>3, <2>4
<1>7. CASE ~IsNeg(n) /\ IsNeg(d)
  <2>1. n = q * da + r /\ d = Modulus - da
    BY <1>1, <1>5, <1>7, AbsFacts
  <2> DEFINE k == (e * da) + q - (Modulus * e)
  <2>2. k \in Int
    BY <1>1, <1>5
  <2>3. n - (Modulus * e - q) * d = r + Modulus * k
    <3>1. (Modulus * e - q) * (Modulus - da)
            = Modulus * (Modulus * e) - Modulus * (e * da) - Modulus * q + q * da
      BY <1>1, <1>5
    <3>2. Modulus * k = Modulus * (e * da) + Modulus * q - Modulus * (Modulus * e)
      BY <1>1, <1>5
    <3> HIDE DEF k, da
    <3> QED
      BY <1>1, <1>5, <2>1, <2>2, <3>1, <3>2
  <2> HIDE DEF k
  <2>4. rem = (r + Modulus * k) % Modulus
    BY <1>2, <1>7, <2>3
  <2>5. (r + Modulus * k) % Modulus = r
    BY <1>4, <2>2, ModShifted, Words
  <2> QED
    BY <1>7, <2>4, <2>5
<1>8. CASE IsNeg(n) /\ ~IsNeg(d)
  <2>1. Modulus - n = q * d + r
    BY <1>8, AbsFacts
  <2> DEFINE k == 1 - f - (e * d)
  <2>2. k \in Int
    BY <1>1
  <2>3. n - (Modulus * e - q) * d = Neg(r) + Modulus * k
    <3>1. (Modulus * e - q) * d = Modulus * (e * d) - q * d
      BY <1>1
    <3>2. Modulus * k = Modulus - Modulus * f - Modulus * (e * d)
      BY <1>1
    <3> HIDE DEF k
    <3> QED
      BY <1>1, <1>3, <2>1, <2>2, <3>1, <3>2
  <2> HIDE DEF k
  <2>4. rem = (Neg(r) + Modulus * k) % Modulus
    BY <1>2, <1>8, <2>3
  <2>5. (Neg(r) + Modulus * k) % Modulus = Neg(r)
    BY <1>3, <2>2, ModShifted, Words
  <2> QED
    BY <1>8, <2>4, <2>5
<1>9. CASE IsNeg(n) /\ IsNeg(d)
  <2>1. Modulus - n = q * da + r /\ d = Modulus - da
    BY <1>1, <1>5, <1>9, AbsFacts
  <2> DEFINE k == 1 - f - q
  <2>2. k \in Int
    BY <1>1
  <2>3. n - q * d = Neg(r) + Modulus * k
    <3>1. q * (Modulus - da) = Modulus * q - q * da
      BY <1>1, <1>5
    <3>2. Modulus * k = Modulus - Modulus * f - Modulus * q
      BY <1>1
    <3> HIDE DEF k, da
    <3> QED
      BY <1>1, <1>3, <1>5, <2>1, <2>2, <3>1, <3>2
  <2> HIDE DEF k
  <2>4. rem = (Neg(r) + Modulus * k) % Modulus
    BY <1>9, <2>3
  <2>5. (Neg(r) + Modulus * k) % Modulus = Neg(r)
    BY <1>3, <2>2, ModShifted, Words
  <2> QED
    BY <1>9, <2>4, <2>5
<1> QED
  BY <1>6, <1>7, <1>8, <1>9

LEMMA SignStep ==
  ASSUME DivisionInv, Sign
  PROVE  DivisionInv'
<1>1. /\ pc = "sign" /\ pc' = "done" /\ d0 # 0 /\ Arguments /\ r0' = 0
      /\ r1' = (n0 - Signed(r0) * d0) % Modulus
      /\ UNCHANGED <<signed, n0, d0, n_abs, d_abs, i, shift, denominator, numerator, quot>>
  BY DEF Sign, DivisionInv
<1>2. Arguments'
  BY <1>1 DEF Arguments
<1>3. n0 \in Word /\ d0 \in Word /\ r0 \in Word /\ r1 \in Word /\ d_abs \in Nat \ {0}
  BY <1>1 DEF DivisionInv, DivisionTypeOK, Arguments
<1>4. Neg(r0) \in Word /\ Signed(r0) \in Int /\ n0 \in Int /\ d0 \in Int
  <2>1. Neg(r0) \in Word
    BY <1>3, NegFacts
  <2> QED
    BY <1>3, <2>1, Words DEF Signed
<1>5. r1' \in Word
  <2>1. Signed(r0) * d0 \in Int
    BY <1>4
  <2>2. n0 - Signed(r0) * d0 \in Int
    BY <1>4, <2>1
  <2> QED
    BY <1>1, <2>2, ModType, Words
<1>6. DivisionTypeOK'
  <2>1. 0 \in Word
    BY Words
  <2> QED
    BY <1>1, <1>5, <2>1 DEF DivisionInv, DivisionTypeOK
<1>7. ASSUME d_abs < Half PROVE signed /\ RemainderCorrect'
  <2>1. signed /\ Result(r0, r1) /\ n_abs = ABS(n0) /\ d_abs = ABS(d0)
    BY <1>1, <1>7 DEF DivisionInv, Arguments
  <2>2. ABS(n0) = r0 * ABS(d0) + r1 /\ r1 < ABS(d0)
    BY <2>1 DEF Result
  <2>3. r1' = IF IsNeg(n0) THEN Neg(r1) ELSE r1
    <3>1. r1' = (n0 - (IF IsNeg(n0) # IsNeg(d0) THEN Neg(r0) ELSE r0) * d0) % Modulus
      BY <1>1 DEF Signed
    <3>2. d0 # 0 /\ ABS(d0) < Half
      BY <1>1, <1>7, <2>1
    <3> QED
      BY <1>3, <2>2, <3>1, <3>2, SignedRemainder
  <2>4. ABS(r1') = r1 /\ (r1' = 0 \/ (IsNeg(r1') <=> IsNeg(n0)))
    <3>1. r1 < Half /\ ABS(r1) = r1 /\ ~IsNeg(r1) /\ r1 \in Nat
      BY <1>3, <1>7, <2>1, <2>2, Words DEF ABS, IsNeg
    <3>2. CASE ~IsNeg(n0)
      BY <2>3, <3>1, <3>2
    <3>3. CASE IsNeg(n0)
      <4>1. r1' = Neg(r1)
        BY <2>3, <3>3
      <4>2. CASE r1 = 0
        BY <3>1, <4>1, <4>2, <1>3, NegFacts
      <4>3. CASE r1 # 0
        <5>1. r1' = Modulus - r1 /\ r1' \in Word
          BY <1>3, <4>1, <4>3, NegFacts
        <5>2. IsNeg(r1')
          BY <3>1, <5>1, Words DEF IsNeg
        <5>3. ABS(r1') = Modulus - (Modulus - r1)
          BY <5>1, <5>2, AbsFacts
        <5> QED
          BY <3>1, <3>3, <5>2, <5>3, Words
      <4> QED
        BY <4>2, <4>3
    <3> QED
      BY <3>2, <3>3
  <2>5. (Value(n0) - Value(r1')) % d_abs = 0
    <3>1. d_abs * r0 = r0 * d_abs /\ r0 \in Nat /\ r1 \in Nat /\ r0 * d_abs \in Nat
      BY <1>3, Words
    <3>2. CASE ~IsNeg(n0)
      <4>1. n0 = r0 * d_abs + r1 /\ r1' = r1 /\ ~IsNeg(r1)
        BY <1>3, <1>7, <2>1, <2>2, <2>3, <3>2, AbsFacts, Words DEF IsNeg
      <4>2. Value(n0) - Value(r1') = d_abs * r0
        BY <3>1, <3>2, <4>1 DEF Value
      <4> QED
        BY <1>3, <3>1, <4>2, ModMultiple
    <3>3. CASE IsNeg(n0)
      <4>1. Modulus - n0 = r0 * d_abs + r1
        BY <1>3, <2>1, <2>2, <3>3, AbsFacts
      <4>2. Value(n0) = n0 - Modulus
        BY <3>3 DEF Value
      <4>3. Value(r1') = 0 - r1
        <5>1. r1 < Half /\ r1 \in Nat /\ r1' = Neg(r1)
          BY <1>3, <1>7, <2>1, <2>2, <2>3, <3>1, <3>3, Words
        <5>2. CASE r1 = 0
          <6>1. r1' = 0
            BY <1>3, <5>1, <5>2, NegFacts
          <6> QED
            BY <5>2, <6>1, Words DEF Value, IsNeg
        <5>3. CASE r1 # 0
          <6>1. r1' = Modulus - r1
            BY <1>3, <5>1, <5>3, NegFacts
          <6> QED
            BY <5>1, <6>1, Words DEF Value, IsNeg
        <5> QED
          BY <5>2, <5>3
      <4>4. Value(n0) - Value(r1') = d_abs * (0 - r0)
        <5>1. d_abs * (0 - r0) = 0 - r0 * d_abs
          BY <1>3, <3>1
        <5> QED
          BY <1>3, <3>1, <4>1, <4>2, <4>3, <5>1, Words
      <4>5. 0 - r0 \in Int
        BY <3>1
      <4> QED
        BY <1>3, <4>4, <4>5, ModMultiple
    <3> QED
      BY <3>2, <3>3
  <2> QED
    BY <1>1, <2>1, <2>2, <2>4, <2>5 DEF RemainderCorrect, ABS, IsNeg, Value, Neg
<1> QED
  BY <1>1, <1>2, <1>6, <1>7 DEF DivisionInv

LEMMA NextDivision ==
  ASSUME DivisionInv, [DivisionNext]_division_vars
  PROVE  DivisionInv'
<1>1. CASE DivisionCall
  <2>1. PICK p \in Pairs : (\E s \in BOOLEAN : Divide(s, p[1], p[2])) \/ Idiv0(p[1])
    BY <1>1 DEF DivisionCall
  <2>2. p[1] \in Word /\ p[2] \in Word
    BY PairsAssumption
  <2> QED
    BY <2>1, <2>2, DivideStep, Idiv0Step
<1>2. CASE DivisionStep
  BY <1>2, AlignStep, SubtractStep, ShiftStep, FinishStep, SignStep DEF DivisionStep
<1>3. CASE UNCHANGED division_vars
  BY <1>3 DEF division_vars, DivisionInv, DivisionTypeOK, Arguments, Aligned, Partial, Result,
              RemainderCorrect, ABS, IsNeg, Value, Neg
<1> QED
  BY <1>1, <1>2, <1>3 DEF DivisionNext

LEMMA InvImpliesCorrect == DivisionInv => DivisionCorrect
<1> SUFFICES ASSUME DivisionInv PROVE DivisionCorrect
  OBVIOUS
<1>1. DivisionTypeOK
  BY DEF DivisionInv
<1>2. ASSUME pc = "done", ~signed, d0 < Half PROVE n0 = r0 * d0 + r1 /\ r1 < d0
  <2>1. d0 # 0
    BY <1>1, <1>2 DEF DivisionInv
  <2> QED
    BY <1>2, <2>1 DEF DivisionInv, Arguments, Result
<1>3. RemainderCorrect
  BY DEF DivisionInv, RemainderCorrect
<1> QED
  BY <1>1, <1>2, <1>3 DEF DivisionCorrect, QuotientCorrect

-----------------------------------------------------------------------------
\* The invariant of both loops and of the signed correction holds.
THEOREM DivisionInvariance == DivisionSpec => []DivisionInv
BY InitDivision, NextDivision, PTL DEF DivisionSpec

\* Whatever the width of a word, a call of the division ends with the quotient
\* and the remainder of the definition, and a signed one with C99's remainder.
THEOREM DivisionSound == DivisionSpec => []DivisionCorrect
BY DivisionInvariance, InvImpliesCorrect, PTL

-----------------------------------------------------------------------------
(* The initialisation of the ports of an AHCI adapter is safe for every    *)
(* number of ports, whatever the adapter and its devices do meanwhile.     *)

(* The inductive invariant: what the driver knows at each of its statements. *)

\* From the wait for the halt on, both engines are told to stop; after it and
\* until FISes are enabled again they are at rest.
Halting == {"halted", "reset", "unreset", "fb", "fre"}
AtRest == Halting \ {"halted"}

\* From the statement that enables FISes on.
Receiving == {"detect", "wait", "clb", "startable", "start_fre", "start", "ready", "issue", "complete"}
\* Commands are enabled by the last of the statements before "ready".
Started == {"ready", "issue", "complete"}

StageOK(r) ==
    /\ pc_ \in Halting => r.cmd \cap {"FRE", "START"} = {}
    /\ pc_ \in AtRest => ~r.FR
    /\ pc_ \in AtRest \cup (Receiving \ Started) => ~r.CR
    /\ pc_ \in Receiving => "FRE" \in r.cmd
    /\ pc_ \in Receiving \ Started => "START" \notin r.cmd
    /\ pc_ \in Started => "START" \in r.cmd
    /\ pc_ \in Receiving \cup {"fre"} => r.fb = ahci_current_rambase
    /\ pc_ \in {"call"} \cup (Halting \ {"fre"}) => r.fb = 0
    /\ pc_ \in Started \cup {"startable", "start_fre", "start"} => r.clb = ahci_current_rambase
    /\ pc_ \in {"call", "detect", "wait", "clb"} \cup Halting => r.clb = 0
    /\ pc_ \in {"clb", "startable", "start_fre", "start"} => ~r.busy /\ ~r.err
    /\ pc_ \in {"start_fre", "start"} => r.det = "connect"
    /\ pc_ = "complete" => r.ci \/ memory_[r.clb].data = current

\* The area at ahci_current_rambase is nobody's yet.
NextAreaFree == ahci_current_rambase >= 1 /\ ahci_current_rambase <= current

\* Only the driver issues commands, one at a time.
OneCommand == \A p \in Ports : port[p].ci => p = current /\ pc_ = "complete"

\* A port that was initialised.
PortDone(p, r) ==
    /\ p < current /\ {"FRE", "START"} \subseteq r.cmd
    /\ r.clb = r.fb /\ r.clb >= 1 /\ r.clb < ahci_current_rambase
    /\ memory_[r.clb].data = p
DonePorts == \A p \in Ports : result[p] = "0" => PortDone(p, port[p])

\* A port that is still to come, or was found without device, has no command list
\* but the PROM's; one to come has no buffer for FISes but the PROM's.
PortGiven(p, r) ==
    /\ p > current => r.clb = 0 /\ r.fb = 0
    /\ result[p] = "ENODEV" => p < current /\ r.clb = 0
    /\ p < current => result[p] \in {"0", "ENODEV"}
GivenPorts == \A p \in Ports : PortGiven(p, port[p])

\* A link that saves power is up.
LinkUp(r) == r.ipm \in LowPower => r.det = "connect"
LinksUp == \A p \in Ports : LinkUp(port[p])

AreasDistinct ==
    \A p, q \in Ports : p # q /\ result[p] = "0" /\ result[q] = "0" => port[p].clb # port[q].clb

AhciInv ==
    /\ AhciTypeOK
    /\ current \notin Ports => pc_ = "call"
    /\ current \in Ports => StageOK(port[current])
    /\ NextAreaFree
    /\ OneCommand
    /\ DonePorts
    /\ GivenPorts
    /\ LinksUp
    /\ AreasDistinct

\* What a memory of areas is.
Memories == [Area -> [fis : -1..PortCount, data : -1..PortCount]]

LEMMA InitAhci == AhciInit => AhciInv
<1> SUFFICES ASSUME AhciInit PROVE AhciInv
  OBVIOUS
<1> USE AhciAssumption
<1>1. PICK running \in SUBSET Ports : port = [p \in Ports |-> Left(p \in running)]
  BY DEF AhciInit
<1>2. \A r \in {Left(TRUE), Left(FALSE)} :
        r \in PortRegisters /\ ~r.ci /\ r.clb = 0 /\ r.fb = 0 /\ LinkUp(r)
  <2>1. 0 \in Area
    BY DEF Area
  <2>2. [cmd |-> {"FRE", "START", "SUD"}, CR |-> TRUE, FR |-> TRUE, reset |-> FALSE,
         det |-> "connect", ipm |-> "active", busy |-> FALSE, drq |-> FALSE, err |-> FALSE, clb |-> 0, fb |-> 0,
         ci |-> FALSE] \in PortRegisters
    BY <2>1 DEF PortRegisters, DET, IPM
  <2>3. [cmd |-> {}, CR |-> FALSE, FR |-> FALSE, reset |-> FALSE,
         det |-> "none", ipm |-> "none", busy |-> TRUE, drq |-> FALSE, err |-> FALSE, clb |-> 0, fb |-> 0,
         ci |-> FALSE] \in PortRegisters
    BY <2>1 DEF PortRegisters, DET, IPM
  <2>4. Left(TRUE) \in PortRegisters /\ ~Left(TRUE).ci /\ Left(TRUE).clb = 0 /\ Left(TRUE).fb = 0
        /\ LinkUp(Left(TRUE))
    BY <2>2 DEF Left, LinkUp, LowPower
  <2>5. Left(FALSE) \in PortRegisters /\ ~Left(FALSE).ci /\ Left(FALSE).clb = 0 /\ Left(FALSE).fb = 0
        /\ LinkUp(Left(FALSE))
    BY <2>3 DEF Left, LinkUp, LowPower
  <2> QED
    BY <2>4, <2>5
<1>3. /\ port \in [Ports -> PortRegisters]
      /\ \A p \in Ports : ~port[p].ci /\ port[p].clb = 0 /\ port[p].fb = 0 /\ LinkUp(port[p])
  <2>1. ASSUME NEW p \in Ports PROVE Left(p \in running) \in {Left(TRUE), Left(FALSE)}
    <3>1. CASE p \in running
      <4>1. (p \in running) = TRUE
        BY <3>1
      <4> QED
        BY <4>1
    <3>2. CASE p \notin running
      <4>1. (p \in running) = FALSE
        BY <3>2
      <4> QED
        BY <4>1
    <3> QED
      BY <3>1, <3>2
  <2> QED
    BY <1>1, <1>2, <2>1
<1>4. AhciTypeOK
  BY <1>3 DEF AhciInit, AhciTypeOK, Area, Ports
<1>5. current = 1 /\ pc_ = "call" /\ ahci_current_rambase = 1 /\ \A p \in Ports : result[p] = "none"
  BY DEF AhciInit
<1>6. ASSUME current \in Ports PROVE StageOK(port[current])
  BY <1>3, <1>5, <1>6 DEF StageOK, Halting, AtRest, Receiving, Started
<1>7. NextAreaFree /\ OneCommand /\ DonePorts /\ LinksUp /\ AreasDistinct
  BY <1>3, <1>5 DEF NextAreaFree, OneCommand, DonePorts, LinksUp, AreasDistinct
<1>8. GivenPorts
  BY <1>3, <1>5, AhciAssumption DEF GivenPorts, PortGiven, Ports
<1> QED
  BY <1>4, <1>5, <1>6, <1>7, <1>8 DEF AhciInv

\* Statements of the driver that stay with their port: they keep the invariant
\* if they reach their stage.
LEMMA DriverKeeps ==
  ASSUME AhciInv, current \in Ports, NEW new \in PortRegisters,
         port' = [port EXCEPT ![current] = new],
         UNCHANGED <<device, current, ahci_current_rambase, result>>,
         pc_' \in Halting \cup Receiving,
         memory_' \in Memories,
         \A a \in Area : a < ahci_current_rambase => memory_'[a].data = memory_[a].data,
         new.ci => pc_' = "complete",
         LinkUp(new),
         StageOK(port[current])'
  PROVE  AhciInv'
<1>1. port' \in [Ports -> PortRegisters]
  BY DEF AhciInv, AhciTypeOK
<1>2. AhciTypeOK'
  <2>1. pc_' \in {"call", "halted", "reset", "unreset", "fb", "fre", "detect", "wait",
                  "clb", "startable", "start_fre", "start", "ready", "issue", "complete"}
    BY DEF Halting, Receiving
  <2> QED
    BY <1>1, <2>1 DEF AhciInv, AhciTypeOK, Memories
<1>3. port'[current] = new /\ \A p \in Ports : p # current => port'[p] = port[p]
  BY DEF AhciInv, AhciTypeOK
<1>4. OneCommand'
  BY <1>3 DEF AhciInv, OneCommand
<1>5. \A p \in Ports : result[p] = "0" => p # current
  BY AhciAssumption DEF AhciInv, DonePorts, PortDone, Ports
<1>6. ASSUME NEW p \in Ports, result'[p] = "0" PROVE PortDone(p, port[p])'
  <2>1. PortDone(p, port[p]) /\ port'[p] = port[p]
    BY <1>3, <1>5, <1>6 DEF AhciInv, DonePorts
  <2>2. port[p].clb \in Area /\ port[p].clb < ahci_current_rambase
    BY <2>1 DEF PortDone, AhciInv, AhciTypeOK, PortRegisters
  <2> QED
    BY <2>1, <2>2 DEF PortDone
<1>7. AreasDistinct'
  BY <1>3, <1>5 DEF AhciInv, AreasDistinct
<1>8. LinksUp'
  BY <1>3 DEF AhciInv, LinksUp
<1>9. ASSUME NEW p \in Ports PROVE PortGiven(p, port[p])'
  <2>1. PortGiven(p, port[p])
    BY DEF AhciInv, GivenPorts
  <2>2. CASE p # current
    BY <1>3, <2>1, <2>2 DEF PortGiven
  <2>3. CASE p = current
    BY <2>1, <2>3, AhciAssumption DEF PortGiven, Ports
  <2> QED
    BY <2>2, <2>3
<1> QED
  BY <1>2, <1>4, <1>6, <1>7, <1>8, <1>9 DEF AhciInv, DonePorts, GivenPorts, NextAreaFree

\* What the driver's statements before the commands do to the registers.
LEMMA DriverSteps ==
  ASSUME AhciInv,
         \/ Halt \/ WaitHalted \/ PortReset \/ EndReset \/ SetFisBuffer \/ EnableFis
         \/ Connected \/ WaitPort \/ SetCommandList \/ PortStart \/ WaitReady \/ Issue
  PROVE  AhciInv'
<1>1. current \in Ports
  BY DEF Halt, WaitHalted, PortReset, EndReset, SetFisBuffer, EnableFis, Connected, WaitPort,
         SetCommandList, PortStart, WaitReady, Issue, AtStage
<1>2. me \in PortRegisters /\ port \in [Ports -> PortRegisters] /\ memory_ \in Memories
  BY <1>1 DEF AhciInv, AhciTypeOK, me, Memories
<1>3. StageOK(me) /\ NextAreaFree /\ ahci_current_rambase \in Area
  BY <1>1 DEF AhciInv, AhciTypeOK, me
<1>4. port' = port => port' = [port EXCEPT ![current] = me]
  BY <1>1, <1>2 DEF me
<1>5. (me.ci => pc_ = "complete") /\ LinkUp(me)
  BY <1>1 DEF AhciInv, OneCommand, LinksUp, me
<1>6. DOMAIN port = Ports
  BY <1>2
<1> USE DEF StageOK, Halting, AtRest, Receiving, Started
<1>7. CASE Halt
  <2> DEFINE new == [me EXCEPT !.cmd = @ \ {"FRE", "START"}]
  <2>1. new \in PortRegisters /\ new.cmd = me.cmd \ {"FRE", "START"} /\ new.ci = me.ci
        /\ new.clb = me.clb /\ new.fb = me.fb /\ LinkUp(new)
    BY <1>2, <1>3, <1>5 DEF PortRegisters, DET, LinkUp
  <2>2. /\ port' = [port EXCEPT ![current] = new] /\ pc_ = "call" /\ pc_' = "halted"
        /\ UNCHANGED <<device, current, ahci_current_rambase, result, memory_>>
    BY <1>4, <1>7 DEF Halt, AtStage, Set, Go_, Quiet
  <2>3. port'[current] = new
    BY <1>1, <1>6, <2>2
  <2> HIDE DEF new
  <2>5. StageOK(port[current])'
    BY <1>3, <2>1, <2>2, <2>3
  <2> QED
    BY <1>1, <1>2, <1>5, <2>1, <2>2, <2>5, DriverKeeps
<1>8. CASE WaitHalted
  <2>1. me \in PortRegisters /\ ~me.CR /\ ~me.FR
    BY <1>2, <1>3, <1>8 DEF AtStage, WaitHalted, Halted
  <2>2. /\ port' = [port EXCEPT ![current] = me] /\ pc_ = "halted" /\ pc_' = "reset"
        /\ UNCHANGED <<device, current, ahci_current_rambase, result, memory_>>
    BY <1>4, <1>8 DEF WaitHalted, AtStage, Go_, Quiet, Halted
  <2>3. port'[current] = me
    BY <1>1, <1>6, <2>2
  <2>5. StageOK(port[current])'
    BY <1>3, <2>1, <2>2, <2>3
  <2> QED
    BY <1>1, <1>2, <1>5, <2>1, <2>2, <2>5, DriverKeeps
<1>9. CASE PortReset
  <2> DEFINE new == [me EXCEPT !.reset = TRUE, !.det = "none", !.ipm = "none",
                             !.busy = TRUE, !.drq = FALSE, !.err = FALSE]
  <2>1. new \in PortRegisters /\ new.cmd = me.cmd /\ new.FR = me.FR /\ new.CR = me.CR /\ new.ci = me.ci
        /\ new.clb = me.clb /\ new.fb = me.fb /\ LinkUp(new)
    BY <1>2, <1>3, <1>5 DEF PortRegisters, DET, IPM, LowPower, LinkUp
  <2>2. /\ port' = [port EXCEPT ![current] = new] /\ pc_ = "reset" /\ pc_' = "unreset"
        /\ UNCHANGED <<device, current, ahci_current_rambase, result, memory_>>
    BY <1>4, <1>9 DEF PortReset, AtStage, Set, Go_, Quiet
  <2>3. port'[current] = new
    BY <1>1, <1>6, <2>2
  <2> HIDE DEF new
  <2>5. StageOK(port[current])'
    BY <1>3, <2>1, <2>2, <2>3
  <2> QED
    BY <1>1, <1>2, <1>5, <2>1, <2>2, <2>5, DriverKeeps
<1>10. CASE EndReset
  <2> DEFINE new == [me EXCEPT !.reset = FALSE]
  <2>1. new \in PortRegisters /\ new.cmd = me.cmd /\ new.FR = me.FR /\ new.CR = me.CR /\ new.ci = me.ci
        /\ new.clb = me.clb /\ new.fb = me.fb /\ LinkUp(new)
    BY <1>2, <1>3, <1>5 DEF PortRegisters, DET, IPM, LowPower, LinkUp
  <2>2. /\ port' = [port EXCEPT ![current] = new] /\ pc_ = "unreset" /\ pc_' = "fb"
        /\ UNCHANGED <<device, current, ahci_current_rambase, result, memory_>>
    BY <1>4, <1>10 DEF EndReset, AtStage, Set, Go_, Quiet
  <2>3. port'[current] = new
    BY <1>1, <1>6, <2>2
  <2> HIDE DEF new
  <2>5. StageOK(port[current])'
    BY <1>3, <2>1, <2>2, <2>3
  <2> QED
    BY <1>1, <1>2, <1>5, <2>1, <2>2, <2>5, DriverKeeps
<1>11. CASE SetFisBuffer
  <2> DEFINE new == [me EXCEPT !.fb = ahci_current_rambase]
  <2>1. new \in PortRegisters /\ new.cmd = me.cmd /\ new.FR = me.FR /\ new.CR = me.CR /\ new.ci = me.ci /\ new.fb = ahci_current_rambase
        /\ new.clb = me.clb /\ LinkUp(new)
    BY <1>2, <1>3, <1>5 DEF PortRegisters, DET, LinkUp
  <2>2. /\ port' = [port EXCEPT ![current] = new] /\ pc_ = "fb" /\ pc_' = "fre"
        /\ UNCHANGED <<device, current, ahci_current_rambase, result>>
        /\ memory_' = [memory_ EXCEPT ![ahci_current_rambase].fis = 0]
    BY <1>4, <1>11 DEF SetFisBuffer, AtStage, Set, Go_
  <2>3. port'[current] = new
    BY <1>1, <1>6, <2>2
  <2>4. /\ memory_' \in Memories
        /\ \A a \in Area : a < ahci_current_rambase => memory_'[a].data = memory_[a].data
    BY <1>2, <1>3, <2>2, AhciAssumption DEF Memories, ClearBuffer
  <2> HIDE DEF new
  <2>5. StageOK(port[current])'
    BY <1>3, <2>1, <2>2, <2>3
  <2> QED
    BY <1>1, <1>2, <1>5, <2>1, <2>2, <2>4, <2>5, DriverKeeps
<1>12. CASE EnableFis
  <2> DEFINE new == [me EXCEPT !.cmd = @ \cup FisBits]
  <2>1. new \in PortRegisters /\ new.cmd = me.cmd \cup {"FRE", "SUD"} /\ new.CR = me.CR /\ new.fb = me.fb /\ new.ci = me.ci
        /\ new.clb = me.clb /\ new.fb = me.fb /\ LinkUp(new)
    BY <1>2, <1>3, <1>5 DEF PortRegisters, DET, LinkUp, FisBits
  <2>2. /\ port' = [port EXCEPT ![current] = new] /\ pc_ = "fre" /\ pc_' = "detect"
        /\ UNCHANGED <<device, current, ahci_current_rambase, result, memory_>>
    BY <1>4, <1>12 DEF EnableFis, AtStage, Set, Go_, Quiet, FisBits
  <2>3. port'[current] = new
    BY <1>1, <1>6, <2>2
  <2> HIDE DEF new
  <2>5. StageOK(port[current])'
    BY <1>3, <2>1, <2>2, <2>3
  <2> QED
    BY <1>1, <1>2, <1>5, <2>1, <2>2, <2>5, DriverKeeps
<1>13. CASE Connected
  <2>1. me \in PortRegisters
    BY <1>2
  <2>2. /\ port' = [port EXCEPT ![current] = me] /\ pc_ = "detect" /\ pc_' = "wait"
        /\ UNCHANGED <<device, current, ahci_current_rambase, result, memory_>>
    BY <1>4, <1>13 DEF Connected, AtStage, Go_, Quiet
  <2>3. port'[current] = me
    BY <1>1, <1>6, <2>2
  <2>5. StageOK(port[current])'
    BY <1>3, <2>1, <2>2, <2>3
  <2> QED
    BY <1>1, <1>2, <1>5, <2>1, <2>2, <2>5, DriverKeeps
<1>14. CASE WaitPort
  <2>1. me \in PortRegisters /\ ~me.busy /\ ~me.err
    BY <1>2, <1>3, <1>14 DEF AtStage, WaitPort, PortReady
  <2>2. /\ port' = [port EXCEPT ![current] = me] /\ pc_ = "wait" /\ pc_' = "clb"
        /\ UNCHANGED <<device, current, ahci_current_rambase, result, memory_>>
    BY <1>4, <1>14 DEF WaitPort, AtStage, Go_, Quiet, PortReady
  <2>3. port'[current] = me
    BY <1>1, <1>6, <2>2
  <2>5. StageOK(port[current])'
    BY <1>3, <2>1, <2>2, <2>3
  <2> QED
    BY <1>1, <1>2, <1>5, <2>1, <2>2, <2>5, DriverKeeps
<1>15. CASE SetCommandList
  <2> DEFINE new == [me EXCEPT !.clb = ahci_current_rambase]
  <2>1. new \in PortRegisters /\ new.clb = ahci_current_rambase /\ new.cmd = me.cmd /\ new.fb = me.fb
        /\ new.CR = me.CR /\ new.FR = me.FR /\ new.busy = me.busy /\ new.err = me.err /\ new.det = me.det /\ new.ci = me.ci /\ LinkUp(new)
    BY <1>2, <1>3, <1>5 DEF PortRegisters, DET, LinkUp
  <2>2. /\ port' = [port EXCEPT ![current] = new] /\ pc_ = "clb" /\ pc_' = "startable"
        /\ UNCHANGED <<device, current, ahci_current_rambase, result, memory_>>
    BY <1>4, <1>15 DEF SetCommandList, AtStage, Set, Go_, Quiet
  <2>3. port'[current] = new
    BY <1>1, <1>6, <2>2
  <2> HIDE DEF new
  <2>5. StageOK(port[current])'
    BY <1>3, <2>1, <2>2, <2>3
  <2> QED
    BY <1>1, <1>2, <1>5, <2>1, <2>2, <2>5, DriverKeeps
<1>16. CASE PortStart /\ pc_ = "startable"
  <2>1. me \in PortRegisters /\ ~me.CR /\ me.det = "connect"
    BY <1>2, <1>3, <1>5, <1>16 DEF LinkUp, AtStage, PortStart, ahci_port_startable, AtStage
  <2>2. /\ port' = [port EXCEPT ![current] = me] /\ pc_ = "startable" /\ pc_' = "start_fre"
        /\ UNCHANGED <<device, current, ahci_current_rambase, result, memory_>>
    BY <1>4, <1>16 DEF PortStart, AtStage, Go_, Quiet, ahci_port_startable, AtStage
  <2>3. port'[current] = me
    BY <1>1, <1>6, <2>2
  <2>5. StageOK(port[current])'
    BY <1>3, <2>1, <2>2, <2>3
  <2> QED
    BY <1>1, <1>2, <1>5, <2>1, <2>2, <2>5, DriverKeeps
<1>17. CASE PortStart /\ pc_ = "start_fre"
  <2> DEFINE new == [me EXCEPT !.cmd = @ \cup {"FRE"}]
  <2>1. new \in PortRegisters /\ new.cmd = me.cmd \cup {"FRE"} /\ new.clb = me.clb /\ new.fb = me.fb
        /\ new.CR = me.CR /\ new.FR = me.FR /\ new.busy = me.busy /\ new.err = me.err /\ new.det = me.det /\ new.ci = me.ci /\ LinkUp(new)
    BY <1>2, <1>3, <1>5 DEF PortRegisters, DET, LinkUp
  <2>2. /\ port' = [port EXCEPT ![current] = new] /\ pc_ = "start_fre" /\ pc_' = "start"
        /\ UNCHANGED <<device, current, ahci_current_rambase, result, memory_>>
    BY <1>4, <1>17 DEF PortStart, AtStage, Set, Go_, Quiet
  <2>3. port'[current] = new
    BY <1>1, <1>6, <2>2
  <2> HIDE DEF new
  <2>5. StageOK(port[current])'
    BY <1>3, <2>1, <2>2, <2>3
  <2> QED
    BY <1>1, <1>2, <1>5, <2>1, <2>2, <2>5, DriverKeeps
<1>18. CASE PortStart /\ pc_ = "start"
  <2> DEFINE new == [me EXCEPT !.cmd = @ \cup {"START"}]
  <2>1. new \in PortRegisters /\ new.cmd = me.cmd \cup {"START"} /\ new.clb = me.clb /\ new.fb = me.fb /\ new.ci = me.ci /\ LinkUp(new)
    BY <1>2, <1>3, <1>5 DEF PortRegisters, DET, LinkUp
  <2>2. /\ port' = [port EXCEPT ![current] = new] /\ pc_ = "start" /\ pc_' = "ready"
        /\ UNCHANGED <<device, current, ahci_current_rambase, result, memory_>>
    BY <1>4, <1>18 DEF PortStart, AtStage, Set, Go_, Quiet
  <2>3. port'[current] = new
    BY <1>1, <1>6, <2>2
  <2> HIDE DEF new
  <2>5. StageOK(port[current])'
    BY <1>3, <2>1, <2>2, <2>3
  <2> QED
    BY <1>1, <1>2, <1>5, <2>1, <2>2, <2>5, DriverKeeps
<1>19. CASE WaitReady
  <2>1. me \in PortRegisters /\ pc_ = "ready" /\ me.clb = ahci_current_rambase
    BY <1>2, <1>3, <1>19 DEF AtStage, WaitReady
  <2>2. /\ port' = [port EXCEPT ![current] = me] /\ pc_ = "ready" /\ pc_' = "issue"
        /\ UNCHANGED <<device, current, ahci_current_rambase, result>>
        /\ memory_' = [memory_ EXCEPT ![ahci_current_rambase].data = 0]
    BY <1>4, <1>19, <2>1 DEF WaitReady, AtStage, Go_, ClearBuffer
  <2>3. port'[current] = me
    BY <1>1, <1>6, <2>2
  <2>4. /\ memory_' \in Memories
        /\ \A a \in Area : a < ahci_current_rambase => memory_'[a].data = memory_[a].data
    <3>1. /\ memory_' = [memory_ EXCEPT ![ahci_current_rambase].data = 0]
          /\ memory_ \in Memories /\ ahci_current_rambase \in Area /\ 0 \in -1..PortCount
      BY <1>2, <1>3, <2>2, AhciAssumption
    <3>2. memory_' \in Memories
      BY <3>1 DEF Memories
    <3>3. ASSUME NEW a \in Area, a < ahci_current_rambase PROVE memory_'[a].data = memory_[a].data
      <4>1. a # ahci_current_rambase
        BY <3>1, <3>3, AhciAssumption DEF Area
      <4> QED
        BY <3>1, <4>1 DEF Memories
    <3> QED
      BY <3>2, <3>3
  <2>5. StageOK(port[current])'
    BY <1>3, <2>1, <2>2, <2>3
  <2> QED
    BY <1>1, <1>2, <1>5, <2>1, <2>2, <2>4, <2>5, DriverKeeps
<1>20. CASE Issue
  <2> DEFINE new == [me EXCEPT !.ci = TRUE]
  <2>1. new \in PortRegisters /\ new.cmd = me.cmd /\ new.clb = me.clb /\ new.fb = me.fb /\ new.ci /\ LinkUp(new)
    BY <1>2, <1>3, <1>5 DEF PortRegisters, DET, LinkUp
  <2>2. /\ port' = [port EXCEPT ![current] = new] /\ pc_ = "issue" /\ pc_' = "complete"
        /\ UNCHANGED <<device, current, ahci_current_rambase, result, memory_>>
    BY <1>4, <1>20 DEF Issue, AtStage, Set, Go_, Quiet
  <2>3. port'[current] = new
    BY <1>1, <1>6, <2>2
  <2> HIDE DEF new
  <2>5. StageOK(port[current])'
    BY <1>3, <2>1, <2>2, <2>3
  <2> QED
    BY <1>1, <1>2, <1>5, <2>1, <2>2, <2>5, DriverKeeps
<1>21. PortStart => pc_ \in {"startable", "start_fre", "start"}
  BY DEF PortStart, AtStage
<1> QED
  BY <1>7, <1>8, <1>9, <1>10, <1>11, <1>12, <1>13, <1>14, <1>15, <1>16, <1>17, <1>18, <1>19, <1>20, <1>21

\* No device: the next port takes the same area.
LEMMA NoDeviceStep ==
  ASSUME AhciInv, NoDevice
  PROVE  AhciInv'
<1>1. /\ current \in Ports /\ pc_ = "detect" /\ pc_' = "call" /\ current' = current + 1
      /\ UNCHANGED <<port, device, memory_, ahci_current_rambase>>
      /\ result' = [result EXCEPT ![current] = "ENODEV"]
  BY DEF NoDevice, Return_, AtStage
<1>2. current' \in 1..PortCount + 1
  BY <1>1, AhciAssumption DEF Ports
<1>3. AhciTypeOK'
  BY <1>1, <1>2 DEF AhciInv, AhciTypeOK
<1>4. \A p \in Ports : result'[p] = "0" => result[p] = "0"
  BY <1>1 DEF AhciInv, AhciTypeOK
<1>5. ASSUME current' \in Ports PROVE StageOK(port[current])'
  <2>1. port[current'].clb = 0 /\ port[current'].fb = 0
    BY <1>1, <1>5, AhciAssumption DEF AhciInv, GivenPorts, PortGiven, Ports
  <2> QED
    BY <1>1, <2>1 DEF StageOK, Halting, AtRest, Receiving, Started
<1>6. OneCommand' /\ NextAreaFree'
  BY <1>1, <1>2, AhciAssumption DEF AhciInv, OneCommand, NextAreaFree, AhciTypeOK, Area, Ports
<1>7. DonePorts'
  <2> SUFFICES ASSUME NEW p \in Ports, result'[p] = "0" PROVE PortDone(p, port[p])'
    BY DEF DonePorts
  <2>1. PortDone(p, port[p])
    BY <1>4 DEF AhciInv, DonePorts
  <2> QED
    BY <1>1, <2>1, AhciAssumption DEF PortDone, Ports
<1>8. AreasDistinct'
  BY <1>1, <1>4 DEF AhciInv, AreasDistinct
<1>9. GivenPorts'
  <2> SUFFICES ASSUME NEW p \in Ports PROVE PortGiven(p, port[p])'
    BY DEF GivenPorts
  <2>1. PortGiven(p, port[p])
    BY DEF AhciInv, GivenPorts
  <2>2. CASE p # current
    <3>1. result'[p] = result[p]
      BY <1>1, <2>2 DEF AhciInv, AhciTypeOK
    <3>2. p \in Nat /\ current \in Nat
      BY <1>1, AhciAssumption DEF Ports
    <3> QED
      BY <1>1, <2>1, <2>2, <3>1, <3>2 DEF PortGiven
  <2>3. CASE p = current
    <3>1. result'[p] = "ENODEV" /\ port[p].clb = 0
      BY <1>1, <2>3 DEF AhciInv, AhciTypeOK, StageOK, Halting
    <3>2. current \in Nat
      BY <1>1, AhciAssumption DEF Ports
    <3> QED
      BY <1>1, <2>3, <3>1, <3>2 DEF PortGiven
  <2> QED
    BY <2>2, <2>3
<1>10. LinksUp'
  BY <1>1 DEF AhciInv, LinksUp
<1> QED
  BY <1>1, <1>3, <1>5, <1>6, <1>7, <1>8, <1>9, <1>10 DEF AhciInv

\* Success: the port keeps the area, and the next one gets the area behind it.
LEMMA CompleteStep ==
  ASSUME AhciInv, Complete
  PROVE  AhciInv'
<1>1. /\ current \in Ports /\ pc_ = "complete" /\ pc_' = "call" /\ current' = current + 1
      /\ UNCHANGED <<port, device, memory_>> /\ ~port[current].ci
      /\ ahci_current_rambase' = ahci_current_rambase + 1
      /\ result' = [result EXCEPT ![current] = "0"]
  BY DEF Complete, Return_, AtStage, Finished_, NextArea, me
<1>2. current' \in 1..PortCount + 1
  BY <1>1, AhciAssumption DEF Ports
<1>3. ahci_current_rambase \in Nat /\ ahci_current_rambase' \in Area
  BY <1>1, AhciAssumption DEF AhciInv, NextAreaFree, Area, Ports, AhciTypeOK
<1>4. AhciTypeOK'
  BY <1>1, <1>2, <1>3 DEF AhciInv, AhciTypeOK
<1>5. \A p \in Ports : p # current /\ result'[p] = "0" => result[p] = "0"
  BY <1>1 DEF AhciInv, AhciTypeOK
<1>6. ASSUME current' \in Ports PROVE StageOK(port[current])'
  <2>1. port[current'].clb = 0 /\ port[current'].fb = 0
    BY <1>1, <1>6, AhciAssumption DEF AhciInv, GivenPorts, PortGiven, Ports
  <2> QED
    BY <1>1, <2>1 DEF StageOK, Halting, AtRest, Receiving, Started
<1>7. OneCommand' /\ NextAreaFree'
  BY <1>1, <1>3, AhciAssumption DEF AhciInv, OneCommand, NextAreaFree, Ports
<1>8. /\ {"FRE", "START"} \subseteq port[current].cmd /\ port[current].clb = ahci_current_rambase
      /\ port[current].fb = ahci_current_rambase /\ memory_[port[current].clb].data = current
  BY <1>1 DEF AhciInv, StageOK, Receiving, Started
<1>9. \A p \in Ports : port[p].clb \in Nat /\ p \in Nat
  BY AhciAssumption DEF AhciInv, AhciTypeOK, PortRegisters, Ports, Area
<1>10. \A p \in Ports : result[p] = "0" => port[p].clb < ahci_current_rambase
  BY DEF AhciInv, DonePorts, PortDone
<1>11. DonePorts'
  <2> SUFFICES ASSUME NEW p \in Ports, result'[p] = "0" PROVE PortDone(p, port[p])'
    BY DEF DonePorts
  <2>1. CASE p = current
    BY <1>1, <1>3, <1>8, <2>1, AhciAssumption DEF AhciInv, NextAreaFree, PortDone, Ports
  <2>2. CASE p # current
    <3>1. PortDone(p, port[p])
      BY <1>5, <2>2 DEF AhciInv, DonePorts
    <3>2. current \in Nat
      BY <1>1, AhciAssumption DEF Ports
    <3>3. p < current + 1 /\ port[p].clb < ahci_current_rambase + 1
      BY <1>3, <1>9, <3>1, <3>2 DEF PortDone
    <3> QED
      BY <1>1, <3>1, <3>3 DEF PortDone
  <2> QED
    BY <2>1, <2>2
<1>12. AreasDistinct'
  <2> SUFFICES ASSUME NEW p \in Ports, NEW q \in Ports, p # q, result'[p] = "0", result'[q] = "0"
               PROVE  port[p].clb # port[q].clb
    BY <1>1 DEF AreasDistinct
  <2>1. CASE p # current /\ q # current
    BY <1>5, <2>1 DEF AhciInv, AreasDistinct
  <2>2. CASE p = current
    <3>1. port[q].clb < ahci_current_rambase /\ port[q].clb \in Nat
      BY <1>5, <1>9, <1>10, <2>2
    <3> QED
      BY <1>3, <1>8, <2>2, <3>1
  <2>3. CASE q = current
    <3>1. port[p].clb < ahci_current_rambase /\ port[p].clb \in Nat
      BY <1>5, <1>9, <1>10, <2>3
    <3> QED
      BY <1>3, <1>8, <2>3, <3>1
  <2> QED
    BY <2>1, <2>2, <2>3
<1>13. GivenPorts'
  <2> SUFFICES ASSUME NEW p \in Ports PROVE PortGiven(p, port[p])'
    BY DEF GivenPorts
  <2>1. PortGiven(p, port[p])
    BY DEF AhciInv, GivenPorts
  <2>2. p \in Nat /\ current \in Nat
    BY <1>1, AhciAssumption DEF Ports
  <2>3. CASE p # current
    <3>1. result'[p] = result[p]
      BY <1>1, <2>3 DEF AhciInv, AhciTypeOK
    <3> QED
      BY <1>1, <2>1, <2>2, <2>3, <3>1 DEF PortGiven
  <2>4. CASE p = current
    <3>1. result'[p] = "0"
      BY <1>1, <2>4 DEF AhciInv, AhciTypeOK
    <3> QED
      BY <1>1, <2>2, <2>4, <3>1 DEF PortGiven
  <2> QED
    BY <2>3, <2>4
<1>14. LinksUp'
  BY <1>1 DEF AhciInv, LinksUp
<1> QED
  BY <1>1, <1>4, <1>6, <1>7, <1>11, <1>12, <1>13, <1>14 DEF AhciInv

\* What the adapter and the devices may do to a port: they follow the driver's
\* bits, and they write data only for a command.
LEMMA AdapterKeeps ==
  ASSUME AhciInv, NEW p \in Ports, NEW new \in PortRegisters,
         port' = [port EXCEPT ![p] = new],
         UNCHANGED <<device, current, pc_, ahci_current_rambase, result>>,
         memory_' \in Memories,
         new.cmd = port[p].cmd, new.clb = port[p].clb, new.fb = port[p].fb,
         new.FR => port[p].FR \/ "FRE" \in port[p].cmd,
         new.CR => port[p].CR \/ "START" \in port[p].cmd,
         new.busy => port[p].busy, new.err => port[p].err \/ port[p].busy \/ port[p].ci,
         port[p].det = "connect" => new.det = "connect",
         LinkUp(new),
         new.ci => port[p].ci,
         \/ \A a \in Area : memory_'[a].data = memory_[a].data
         \/ port[p].ci /\ memory_' = [memory_ EXCEPT ![port[p].clb].data = p, ![port[p].fb].fis = p],
         port[p].ci /\ ~new.ci => \/ port[p].CR /\ "START" \notin port[p].cmd
                                  \/ memory_'[port[p].clb].data = p
  PROVE  AhciInv'
<1>1. /\ port' \in [Ports -> PortRegisters] /\ port'[p] = new
      /\ \A q \in Ports : q # p => port'[q] = port[q]
  BY DEF AhciInv, AhciTypeOK
<1>2. AhciTypeOK'
  BY <1>1 DEF AhciInv, AhciTypeOK, Memories
<1>3. OneCommand' /\ NextAreaFree'
  BY <1>1 DEF AhciInv, OneCommand, NextAreaFree
<1>4. /\ \A q \in Ports : port[q].clb \in Area
      /\ memory_ \in Memories
  BY DEF AhciInv, AhciTypeOK, PortRegisters, Memories
<1>5. ASSUME port[p].ci PROVE p = current /\ pc_ = "complete" /\ StageOK(port[p])
  BY <1>5 DEF AhciInv, OneCommand
<1>6. ASSUME NEW a \in Area, ~port[p].ci \/ a # port[p].clb
      PROVE  memory_'[a].data = memory_[a].data
  BY <1>4, <1>6 DEF Memories
<1>7. ASSUME NEW q \in Ports, result[q] = "0" PROVE PortDone(q, port[q])'
  <2>1. PortDone(q, port[q])
    BY <1>7 DEF AhciInv, DonePorts
  <2>2. port'[q].cmd = port[q].cmd /\ port'[q].clb = port[q].clb /\ port'[q].fb = port[q].fb
    BY <1>1
  <2>3. port[p].ci => port[q].clb # port[p].clb
    <3> SUFFICES ASSUME port[p].ci PROVE port[q].clb # port[p].clb
      OBVIOUS
    <3>1. port[p].clb = ahci_current_rambase
      BY <1>5 DEF StageOK, Started
    <3>2. port[q].clb \in Nat /\ ahci_current_rambase \in Nat
      BY <1>4, AhciAssumption DEF Area, AhciInv, AhciTypeOK
    <3> QED
      BY <2>1, <3>1, <3>2 DEF PortDone
  <2>4. memory_'[port[q].clb].data = q
    BY <1>4, <1>6, <2>1, <2>3 DEF PortDone
  <2> QED
    BY <2>1, <2>2, <2>4 DEF PortDone
<1>8. AreasDistinct'
  BY <1>1 DEF AhciInv, AreasDistinct
<1>9. ASSUME current \in Ports PROVE StageOK(port[current])'
  <2>1. StageOK(port[current])
    BY <1>9 DEF AhciInv
  <2>2. CASE p # current
    <3>1. port'[current] = port[current] /\ ~port[p].ci /\ port[current].clb \in Area
      BY <1>1, <1>4, <1>5, <1>9, <2>2
    <3>2. memory_'[port[current].clb].data = memory_[port[current].clb].data
      BY <1>6, <3>1
    <3> QED
      BY <2>1, <3>1, <3>2 DEF StageOK
  <2>3. CASE p = current
    <3>1. port'[current] = new
      BY <1>1, <2>3
    <3>2. ASSUME pc_ = "complete" PROVE new.ci \/ memory_'[new.clb].data = current
      <4>1. CASE port[p].ci
        <5>1. "START" \in port[p].cmd
          BY <1>5, <3>2, <4>1 DEF StageOK, Started
        <5> QED
          BY <2>3, <4>1, <5>1
      <4>2. CASE ~port[p].ci
        BY <1>4, <1>6, <2>1, <2>3, <3>2, <4>2 DEF StageOK
      <4> QED
        BY <4>1, <4>2
    <3>3. pc_ # "complete" => ~port[p].ci
      BY <1>5
    <3> QED
      BY <2>1, <2>3, <3>1, <3>2, <3>3 DEF StageOK, Halting, AtRest, Receiving, Started
  <2> QED
    BY <2>2, <2>3
<1>10. LinksUp'
  BY <1>1 DEF AhciInv, LinksUp
<1>11. ASSUME NEW q \in Ports PROVE PortGiven(q, port[q])'
  <2>1. PortGiven(q, port[q]) /\ port'[q].clb = port[q].clb /\ port'[q].fb = port[q].fb
    BY <1>1 DEF AhciInv, GivenPorts
  <2> QED
    BY <2>1 DEF PortGiven
<1> QED
  BY <1>2, <1>3, <1>7, <1>8, <1>9, <1>10, <1>11 DEF AhciInv, DonePorts, GivenPorts

LEMMA AdapterSteps ==
  ASSUME AhciInv, NEW p \in Ports, AdapterStep(p) \/ Sleep(p) \/ TaskFileError(p)
  PROVE  AhciInv'
<1> DEFINE r == port[p]
<1>1. r \in PortRegisters /\ memory_ \in Memories /\ p \in -1..PortCount /\ port[p] = r /\ LinkUp(r)
  BY AhciAssumption DEF AhciInv, AhciTypeOK, Memories, Ports, LinksUp
<1> HIDE DEF r
<1>2. memory_' = memory_ => memory_' \in Memories /\ \A a \in Area : memory_'[a].data = memory_[a].data
  BY <1>1
<1>3. ASSUME NEW b \in BOOLEAN, b => "FRE" \in r.cmd,
             Adapter(p, [r EXCEPT !.FR = b]), UNCHANGED memory_
      PROVE  AhciInv'
  <2> DEFINE new == [r EXCEPT !.FR = b]
  <2>1. /\ new \in PortRegisters /\ new.FR = b
        /\ new.cmd = r.cmd /\ new.clb = r.clb /\ new.fb = r.fb /\ new.CR = r.CR
        /\ new.busy = r.busy /\ new.err = r.err /\ new.det = r.det /\ new.ci = r.ci /\ LinkUp(new)
    BY <1>1 DEF PortRegisters, LinkUp
  <2>2. /\ port' = [port EXCEPT ![p] = new]
        /\ UNCHANGED <<device, current, pc_, ahci_current_rambase, result, memory_>>
    BY <1>3 DEF Adapter
  <2> HIDE DEF new
  <2> QED
    BY <1>1, <1>2, <1>3, <2>1, <2>2, AdapterKeeps
<1>4. ASSUME NEW b \in BOOLEAN, NEW c \in BOOLEAN, b => "START" \in r.cmd, c => r.ci,
             r.ci /\ ~c => r.CR /\ "START" \notin r.cmd,
             Adapter(p, [r EXCEPT !.CR = b, !.ci = c]), UNCHANGED memory_
      PROVE  AhciInv'
  <2> DEFINE new == [r EXCEPT !.CR = b, !.ci = c]
  <2>1. /\ new \in PortRegisters /\ new.CR = b /\ new.ci = c
        /\ new.cmd = r.cmd /\ new.clb = r.clb /\ new.fb = r.fb /\ new.FR = r.FR
        /\ new.busy = r.busy /\ new.err = r.err /\ new.det = r.det /\ LinkUp(new)
    BY <1>1 DEF PortRegisters, LinkUp
  <2>2. /\ port' = [port EXCEPT ![p] = new]
        /\ UNCHANGED <<device, current, pc_, ahci_current_rambase, result, memory_>>
    BY <1>4 DEF Adapter
  <2> HIDE DEF new
  <2> QED
    BY <1>1, <1>2, <1>4, <2>1, <2>2, AdapterKeeps
<1>5. CASE Follow(p)
  <2>1. CASE (r.FR <=> "FRE" \notin r.cmd) /\ Adapter(p, [r EXCEPT !.FR = ~@]) /\ UNCHANGED memory_
    <3>1. r.FR \in BOOLEAN
      BY <1>1 DEF PortRegisters
    <3>2. CASE r.FR = TRUE
      <4>1. [r EXCEPT !.FR = ~@] = [r EXCEPT !.FR = FALSE]
        BY <3>2
      <4> QED
        BY <1>3, <2>1, <4>1
    <3>3. CASE r.FR = FALSE
      <4>1. [r EXCEPT !.FR = ~@] = [r EXCEPT !.FR = TRUE]
        BY <3>3
      <4>2. "FRE" \in r.cmd
        BY <2>1, <3>3
      <4> QED
        BY <1>3, <2>1, <4>1, <4>2
    <3> QED
      BY <3>1, <3>2, <3>3
  <2>2. CASE /\ (r.CR <=> "START" \notin r.cmd)
             /\ Adapter(p, [r EXCEPT !.CR = ~@, !.ci = @ /\ ~r.CR]) /\ UNCHANGED memory_
    <3>1. r.CR \in BOOLEAN /\ r.ci \in BOOLEAN
      BY <1>1 DEF PortRegisters
    <3>2. CASE r.CR = TRUE
      <4>1. [r EXCEPT !.CR = ~@, !.ci = @ /\ ~r.CR] = [r EXCEPT !.CR = FALSE, !.ci = FALSE]
        BY <3>2
      <4>2. "START" \notin r.cmd
        BY <2>2, <3>2
      <4> QED
        BY <1>4, <2>2, <3>2, <4>1, <4>2
    <3>3. CASE r.CR = FALSE
      <4>1. [r EXCEPT !.CR = ~@, !.ci = @ /\ ~r.CR] = [r EXCEPT !.CR = TRUE, !.ci = r.ci]
        BY <3>1, <3>3
      <4>2. "START" \in r.cmd
        BY <2>2, <3>3
      <4> QED
        BY <1>4, <2>2, <3>1, <4>1, <4>2
    <3> QED
      BY <3>1, <3>2, <3>3
  <2> QED
    BY <1>1, <1>5, <2>1, <2>2 DEF Follow
<1>6. CASE Link(p)
  <2> DEFINE new == [r EXCEPT !.det = IF @ = "none" THEN "present" ELSE "connect",
                           !.ipm = IF r.det = "none" THEN @ ELSE "active"]
  <2>1. /\ new \in PortRegisters /\ LinkUp(new) /\ (r.det = "connect" => new.det = "connect")
        /\ new.cmd = r.cmd /\ new.clb = r.clb /\ new.fb = r.fb /\ new.FR = r.FR
        /\ new.CR = r.CR /\ new.busy = r.busy /\ new.err = r.err /\ new.ci = r.ci
    BY <1>1 DEF PortRegisters, DET, IPM, LowPower, LinkUp
  <2>2. /\ port' = [port EXCEPT ![p] = new]
        /\ UNCHANGED <<device, current, pc_, ahci_current_rambase, result, memory_>>
    BY <1>1, <1>6 DEF Link, Adapter
  <2> HIDE DEF new
  <2> QED
    BY <1>1, <1>2, <2>1, <2>2, AdapterKeeps
<1>7. CASE Signature(p)
  <2>1. PICK e \in BOOLEAN : Adapter(p, [r EXCEPT !.busy = FALSE, !.err = e])
    BY <1>1, <1>7 DEF Signature
  <2> DEFINE new == [r EXCEPT !.busy = FALSE, !.err = e]
  <2>2. /\ new \in PortRegisters /\ ~new.busy
        /\ new.cmd = r.cmd /\ new.clb = r.clb /\ new.fb = r.fb /\ new.FR = r.FR
        /\ new.CR = r.CR /\ new.det = r.det /\ new.ci = r.ci /\ LinkUp(new)
    BY <1>1 DEF PortRegisters, LinkUp
  <2>3. /\ port' = [port EXCEPT ![p] = new]
        /\ UNCHANGED <<device, current, pc_, ahci_current_rambase, result>>
    BY <2>1 DEF Adapter
  <2>4. r.busy /\ memory_' = [memory_ EXCEPT ![r.fb].fis = p] /\ r.fb \in Area
    BY <1>1, <1>7 DEF Signature, PortRegisters
  <2>5. memory_' \in Memories /\ \A a \in Area : memory_'[a].data = memory_[a].data
    BY <1>1, <2>4 DEF Memories
  <2> HIDE DEF new
  <2> QED
    BY <1>1, <2>2, <2>3, <2>4, <2>5, AdapterKeeps
<1>8. CASE Execute(p)
  <2> DEFINE new == [r EXCEPT !.ci = FALSE, !.drq = FALSE]
  <2>1. /\ new \in PortRegisters
        /\ new.cmd = r.cmd /\ new.clb = r.clb /\ new.fb = r.fb /\ new.FR = r.FR
        /\ new.CR = r.CR /\ new.busy = r.busy /\ new.err = r.err /\ new.det = r.det /\ ~new.ci /\ LinkUp(new)
    BY <1>1 DEF PortRegisters, LinkUp
  <2>2. /\ port' = [port EXCEPT ![p] = new] /\ r.ci
        /\ UNCHANGED <<device, current, pc_, ahci_current_rambase, result>>
        /\ memory_' = [memory_ EXCEPT ![r.clb].data = p, ![r.fb].fis = p]
    BY <1>1, <1>8 DEF Execute, Adapter
  <2>3. r.clb \in Area /\ r.fb \in Area
    BY <1>1 DEF PortRegisters
  <2>4. memory_' \in Memories /\ memory_'[r.clb].data = p
    BY <1>1, <2>2, <2>3 DEF Memories
  <2> HIDE DEF new
  <2> QED
    BY <1>1, <2>1, <2>2, <2>4, AdapterKeeps
<1>9. CASE TaskFileError(p)
  <2> DEFINE new == [r EXCEPT !.err = TRUE]
  <2>1. /\ new \in PortRegisters
        /\ new.cmd = r.cmd /\ new.clb = r.clb /\ new.fb = r.fb /\ new.FR = r.FR
        /\ new.CR = r.CR /\ new.busy = r.busy /\ new.det = r.det /\ new.ci = r.ci /\ LinkUp(new)
    BY <1>1 DEF PortRegisters, LinkUp
  <2>2. /\ port' = [port EXCEPT ![p] = new] /\ r.ci
        /\ UNCHANGED <<device, current, pc_, ahci_current_rambase, result, memory_>>
    BY <1>1, <1>9 DEF TaskFileError, Adapter
  <2> HIDE DEF new
  <2> QED
    BY <1>1, <1>2, <2>1, <2>2, AdapterKeeps
<1>10. CASE Announce(p)
  <2> DEFINE new == [r EXCEPT !.drq = TRUE, !.ipm = "active"]
  <2>1. /\ new \in PortRegisters
        /\ new.cmd = r.cmd /\ new.clb = r.clb /\ new.fb = r.fb /\ new.FR = r.FR /\ new.err = r.err
        /\ new.CR = r.CR /\ new.busy = r.busy /\ new.det = r.det /\ new.ci = r.ci /\ LinkUp(new)
    BY <1>1 DEF PortRegisters, IPM, LowPower, LinkUp
  <2>2. /\ port' = [port EXCEPT ![p] = new]
        /\ UNCHANGED <<device, current, pc_, ahci_current_rambase, result>>
    BY <1>1, <1>10 DEF Announce, Adapter
  <2>3. memory_' = [memory_ EXCEPT ![r.fb].fis = p] /\ r.fb \in Area
    BY <1>1, <1>10 DEF Announce, PortRegisters
  <2>4. memory_' \in Memories /\ \A a \in Area : memory_'[a].data = memory_[a].data
    BY <1>1, <2>3 DEF Memories
  <2> HIDE DEF new
  <2> QED
    BY <1>1, <2>1, <2>2, <2>3, <2>4, AdapterKeeps
<1>11. CASE Sleep(p)
  <2>1. PICK ipm \in LowPower \cup {"active"} : Adapter(p, [r EXCEPT !.ipm = ipm])
    BY <1>1, <1>11 DEF Sleep
  <2> DEFINE new == [r EXCEPT !.ipm = ipm]
  <2>2. r.det = "connect" /\ memory_' = memory_
    BY <1>1, <1>11 DEF Sleep
  <2>3. /\ new \in PortRegisters
        /\ new.cmd = r.cmd /\ new.clb = r.clb /\ new.fb = r.fb /\ new.FR = r.FR /\ new.err = r.err
        /\ new.CR = r.CR /\ new.busy = r.busy /\ new.det = r.det /\ new.ci = r.ci /\ LinkUp(new)
    BY <1>1, <2>2 DEF PortRegisters, IPM, LinkUp
  <2>4. /\ port' = [port EXCEPT ![p] = new]
        /\ UNCHANGED <<device, current, pc_, ahci_current_rambase, result>>
    BY <2>1 DEF Adapter
  <2> HIDE DEF new
  <2> QED
    BY <1>1, <1>2, <2>2, <2>3, <2>4, AdapterKeeps
<1> QED
  BY <1>5, <1>6, <1>7, <1>8, <1>9, <1>10, <1>11 DEF AdapterStep

LEMMA NextAhci == AhciInv /\ [AhciNext]_ahci_vars => AhciInv'
<1> SUFFICES ASSUME AhciInv, [AhciNext]_ahci_vars PROVE AhciInv'
  OBVIOUS
<1>1. CASE UNCHANGED ahci_vars
  BY <1>1 DEF ahci_vars, AhciInv, AhciTypeOK, StageOK, NextAreaFree, OneCommand, DonePorts, PortDone,
              GivenPorts, PortGiven, LinksUp, LinkUp, AreasDistinct
<1>2. CASE ahci_init_port
  BY <1>2, DriverSteps, NoDeviceStep, CompleteStep DEF ahci_init_port
<1>3. CASE \E p \in Ports : AdapterStep(p) \/ Sleep(p) \/ TaskFileError(p)
  BY <1>3, AdapterSteps
<1> QED
  BY <1>1, <1>2, <1>3 DEF AhciNext

\* What the driver knows at each statement, for any number of ports and any
\* behaviour of the adapter (ahci_init_port).
THEOREM AhciInvariance == AhciSpec => []AhciInv
<1>1. AhciInit => AhciInv
  BY InitAhci
<1>2. AhciInv /\ [AhciNext]_ahci_vars => AhciInv'
  BY NextAhci
<1> QED
  BY <1>1, <1>2, PTL DEF AhciSpec

\* The command list, tables and data of a port in use are given to no other,
\* and its buffer for FISes only to ports found without device; the data is what
\* its own device said.
THEOREM MemoryApart == AhciSpec => []PortsApart
<1>1. AhciInv => PortsApart
  <2> SUFFICES ASSUME AhciInv PROVE AreasApart /\ DeviceIdentified
    BY DEF PortsApart, AhciInv
  <2>1. DeviceIdentified
    BY DEF AhciInv, DonePorts, PortDone, DeviceIdentified
  <2>2. ASSUME NEW p \in Ports, NEW q \in Ports, p # q, result[p] = "0"
        PROVE  port[q].clb # port[p].clb /\ (port[q].fb = port[p].fb => result[q] = "ENODEV")
    <3>1. PortDone(p, port[p]) /\ PortGiven(q, port[q])
      BY <2>2 DEF AhciInv, DonePorts, GivenPorts
    <3>2. /\ port[p].clb \in Nat /\ port[p].clb >= 1 /\ port[p].clb < ahci_current_rambase
          /\ port[p].fb = port[p].clb /\ ahci_current_rambase \in Nat
      BY <3>1, AhciAssumption DEF PortDone, AhciInv, AhciTypeOK, PortRegisters, Area
    <3>3. CASE result[q] = "0"
      <4>1. port[q].clb # port[p].clb /\ port[q].fb = port[q].clb
        BY <2>2, <3>3 DEF AhciInv, AreasDistinct, DonePorts, PortDone
      <4> QED
        BY <3>2, <4>1
    <3>4. CASE result[q] = "ENODEV"
      BY <3>1, <3>2, <3>4 DEF PortGiven
    <3>5. CASE result[q] \notin {"0", "ENODEV"}
      <4>1. q \in Nat /\ current \in Nat
        BY AhciAssumption DEF AhciInv, AhciTypeOK, Ports
      <4>2. ~(q < current)
        BY <3>1, <3>5 DEF PortGiven
      <4>3. CASE q > current
        BY <3>1, <3>2, <4>3 DEF PortGiven
      <4>4. CASE q = current
        <5>1. StageOK(port[q]) /\ pc_ \in {"call"} \cup Halting \cup Receiving
          BY <4>4 DEF AhciInv, AhciTypeOK, Halting, Receiving
        <5>2. port[q].clb = 0 \/ port[q].clb = ahci_current_rambase
          BY <5>1 DEF StageOK, Halting, Receiving, Started
        <5>3. port[q].fb = 0 \/ port[q].fb = ahci_current_rambase
          BY <5>1 DEF StageOK, Halting, Receiving, Started
        <5> QED
          BY <3>2, <5>2, <5>3
      <4> QED
        BY <4>1, <4>2, <4>3, <4>4
    <3> QED
      BY <3>3, <3>4, <3>5
  <2> QED
    BY <2>1, <2>2 DEF AreasApart
<1> QED
  BY <1>1, AhciInvariance, PTL

\* An address is never changed while the adapter uses it, and a port is started
\* only when its device is ready and both its addresses are the driver's.
THEOREM ChangesAtRest == AhciSpec => PortsQuiet
<1> DEFINE Quiet_(p) == /\ port'[p].fb # port[p].fb => ~port[p].FR
                        /\ port'[p].clb # port[p].clb => ~port[p].CR
           Ready_(p) == "START" \in port'[p].cmd \ port[p].cmd =>
                          /\ port[p].det = "connect" /\ ~port[p].busy /\ ~port[p].err
                          /\ 0 \notin {port[p].fb, port[p].clb}
<1>1. AhciInv /\ AhciNext => \A p \in Ports : Quiet_(p) /\ Ready_(p)
  <2> SUFFICES ASSUME AhciInv, AhciNext, NEW p \in Ports PROVE Quiet_(p) /\ Ready_(p)
    OBVIOUS
  <2>1. port \in [Ports -> PortRegisters]
    BY DEF AhciInv, AhciTypeOK
  <2>2. CASE port'[p].fb = port[p].fb /\ port'[p].clb = port[p].clb
             /\ port'[p].cmd \subseteq port[p].cmd \cup {"FRE", "SUD"}
    BY <2>2
  <2>3. CASE p = current /\ SetFisBuffer
    <3>1. port'[p] = [port[p] EXCEPT !.fb = ahci_current_rambase] /\ pc_ = "fb"
      BY <2>1, <2>3 DEF SetFisBuffer, AtStage, Set, me
    <3>2. ~port[p].FR
      BY <2>3, <3>1 DEF AhciInv, StageOK, AtRest, Halting
    <3> QED
      BY <2>1, <3>1, <3>2 DEF PortRegisters
  <2>4. CASE p = current /\ SetCommandList
    <3>1. port'[p] = [port[p] EXCEPT !.clb = ahci_current_rambase] /\ pc_ = "clb"
      BY <2>1, <2>4 DEF SetCommandList, AtStage, Set, me
    <3>2. ~port[p].CR
      BY <2>4, <3>1 DEF AhciInv, StageOK, AtRest, Halting, Receiving, Started
    <3> QED
      BY <2>1, <3>1, <3>2 DEF PortRegisters
  <2>5. CASE p = current /\ PortStart /\ pc_ = "start"
    <3>1. port'[p] = [port[p] EXCEPT !.cmd = @ \cup {"START"}]
      BY <2>1, <2>5 DEF PortStart, AtStage, Set, me
    <3>2. /\ port[p].fb = ahci_current_rambase /\ port[p].clb = ahci_current_rambase
          /\ port[p].det = "connect" /\ ~port[p].busy /\ ~port[p].err
      BY <2>5 DEF AhciInv, StageOK, AtRest, Halting, Receiving, Started
    <3>3. ahci_current_rambase # 0
      BY AhciAssumption DEF AhciInv, NextAreaFree, AhciTypeOK, Area
    <3> QED
      BY <2>1, <3>1, <3>2, <3>3 DEF PortRegisters
  <2> DEFINE Others_ == \/ Halt \/ WaitHalted \/ PortReset \/ EndReset \/ EnableFis \/ NoDevice
                        \/ Connected \/ WaitPort \/ WaitReady \/ Issue \/ Complete
                        \/ PortStart /\ pc_ # "start"
  <2>6. ASSUME ahci_init_port, Others_ \/ p # current
        PROVE  port'[p].fb = port[p].fb /\ port'[p].clb = port[p].clb
               /\ port'[p].cmd \subseteq port[p].cmd \cup {"FRE", "SUD"}
    <3>1. CASE Others_
      <4>1. CASE p # current
        BY <2>1, <3>1, <4>1 DEF Halt, WaitHalted, PortReset, EndReset, EnableFis, NoDevice, Connected,
              WaitPort, PortStart, WaitReady, Issue, Complete, Set
      <4>2. CASE p = current /\ UNCHANGED port
        BY <4>2
      <4>3. ASSUME p = current,
                   \/ port' = [port EXCEPT ![current] = [me EXCEPT !.cmd = @ \ {"FRE", "START"}]]
                   \/ port' = [port EXCEPT ![current] = [me EXCEPT !.reset = TRUE, !.det = "none", !.ipm = "none",
                                                       !.busy = TRUE, !.drq = FALSE, !.err = FALSE]]
                   \/ port' = [port EXCEPT ![current] = [me EXCEPT !.reset = FALSE]]
                   \/ port' = [port EXCEPT ![current] = [me EXCEPT !.cmd = @ \cup {"FRE", "SUD"}]]
                   \/ port' = [port EXCEPT ![current] = [me EXCEPT !.cmd = @ \cup {"FRE"}]]
                   \/ port' = [port EXCEPT ![current] = [me EXCEPT !.ci = TRUE]]
            PROVE  /\ port'[p].fb = port[p].fb /\ port'[p].clb = port[p].clb
                   /\ port'[p].cmd \subseteq port[p].cmd \cup {"FRE", "SUD"}
        <5>1. me \in PortRegisters /\ port[p] = me /\ \A x : port' = [port EXCEPT ![current] = x] => port'[p] = x
          BY <2>1, <4>3 DEF me
        <5>2. CASE port' = [port EXCEPT ![current] = [me EXCEPT !.cmd = @ \ {"FRE", "START"}]]
          BY <5>1, <5>2 DEF PortRegisters
        <5>3. CASE port' = [port EXCEPT ![current] = [me EXCEPT !.reset = TRUE, !.det = "none", !.ipm = "none",
                                                  !.busy = TRUE, !.drq = FALSE, !.err = FALSE]]
          BY <5>1, <5>3 DEF PortRegisters
        <5>4. CASE port' = [port EXCEPT ![current] = [me EXCEPT !.reset = FALSE]]
          BY <5>1, <5>4 DEF PortRegisters
        <5>5. CASE port' = [port EXCEPT ![current] = [me EXCEPT !.cmd = @ \cup {"FRE", "SUD"}]]
          BY <5>1, <5>5 DEF PortRegisters
        <5>6. CASE port' = [port EXCEPT ![current] = [me EXCEPT !.cmd = @ \cup {"FRE"}]]
          BY <5>1, <5>6 DEF PortRegisters
        <5>7. CASE port' = [port EXCEPT ![current] = [me EXCEPT !.ci = TRUE]]
          BY <5>1, <5>7 DEF PortRegisters
        <5> QED
          BY <4>3, <5>2, <5>3, <5>4, <5>5, <5>6, <5>7
      <4> QED
        BY <3>1, <4>1, <4>2, <4>3 DEF Halt, WaitHalted, PortReset, EndReset, EnableFis, NoDevice,
              Connected, WaitPort, PortStart, WaitReady, Issue, Complete, AtStage, Set, FisBits
    <3>2. CASE p # current
      BY <2>1, <2>6, <3>2 DEF ahci_init_port, Halt, WaitHalted, PortReset, EndReset, SetFisBuffer,
            EnableFis, NoDevice, Connected, WaitPort, SetCommandList, PortStart, WaitReady, Issue,
            Complete, Set
    <3> QED
      BY <2>6, <3>1, <3>2
  <2>7. ASSUME NEW q \in Ports, AdapterStep(q) \/ Sleep(q) \/ TaskFileError(q)
        PROVE  port'[p].fb = port[p].fb /\ port'[p].clb = port[p].clb /\ port'[p].cmd = port[p].cmd
    <3>1. PICK new : /\ port' = [port EXCEPT ![q] = new]
                     /\ new.fb = port[q].fb /\ new.clb = port[q].clb /\ new.cmd = port[q].cmd
      <4>1. \A new : Adapter(q, new) => port' = [port EXCEPT ![q] = new]
        BY DEF Adapter
      <4>2. port[q] \in PortRegisters
        BY <2>1
      <4>3. CASE Follow(q)
        <5>1. \A x, y : /\ [port[q] EXCEPT !.FR = x].fb = port[q].fb
                        /\ [port[q] EXCEPT !.FR = x].clb = port[q].clb
                        /\ [port[q] EXCEPT !.FR = x].cmd = port[q].cmd
                        /\ [port[q] EXCEPT !.CR = x, !.ci = y].fb = port[q].fb
                        /\ [port[q] EXCEPT !.CR = x, !.ci = y].clb = port[q].clb
                        /\ [port[q] EXCEPT !.CR = x, !.ci = y].cmd = port[q].cmd
          BY <4>2 DEF PortRegisters
        <5>2. CASE \E x : port' = [port EXCEPT ![q] = [port[q] EXCEPT !.FR = x]]
          <6>1. PICK x : port' = [port EXCEPT ![q] = [port[q] EXCEPT !.FR = x]]
            BY <5>2
          <6> DEFINE new == [port[q] EXCEPT !.FR = x]
          <6>2. new.fb = port[q].fb /\ new.clb = port[q].clb /\ new.cmd = port[q].cmd
            BY <5>1
          <6>3. port' = [port EXCEPT ![q] = new]
            BY <6>1
          <6> HIDE DEF new
          <6> QED
            BY <6>2, <6>3
        <5>3. CASE \E x, y : port' = [port EXCEPT ![q] = [port[q] EXCEPT !.CR = x, !.ci = y]]
          <6>1. PICK x, y : port' = [port EXCEPT ![q] = [port[q] EXCEPT !.CR = x, !.ci = y]]
            BY <5>3
          <6> DEFINE new == [port[q] EXCEPT !.CR = x, !.ci = y]
          <6>2. new.fb = port[q].fb /\ new.clb = port[q].clb /\ new.cmd = port[q].cmd
            BY <5>1
          <6>3. port' = [port EXCEPT ![q] = new]
            BY <6>1
          <6> HIDE DEF new
          <6> QED
            BY <6>2, <6>3
        <5> QED
          BY <4>3, <5>2, <5>3 DEF Follow, Adapter
      <4>4. CASE Link(q)
        <5> DEFINE new == [port[q] EXCEPT !.det = IF @ = "none" THEN "present" ELSE "connect",
                                         !.ipm = IF port[q].det = "none" THEN @ ELSE "active"]
        <5>1. port' = [port EXCEPT ![q] = new]
          BY <4>1, <4>4 DEF Link
        <5>2. new.fb = port[q].fb /\ new.clb = port[q].clb /\ new.cmd = port[q].cmd
          BY <4>2 DEF PortRegisters
        <5> HIDE DEF new
        <5> QED
          BY <5>1, <5>2
      <4>5. CASE Signature(q)
        <5>1. PICK e \in BOOLEAN : Adapter(q, [port[q] EXCEPT !.busy = FALSE, !.err = e])
          BY <4>5 DEF Signature
        <5> DEFINE new == [port[q] EXCEPT !.busy = FALSE, !.err = e]
        <5>2. new.fb = port[q].fb /\ new.clb = port[q].clb /\ new.cmd = port[q].cmd
          BY <4>2 DEF PortRegisters
        <5>3. port' = [port EXCEPT ![q] = new]
          BY <4>1, <5>1
        <5> HIDE DEF new
        <5> QED
          BY <5>2, <5>3
      <4>6. CASE Execute(q)
        <5> DEFINE new == [port[q] EXCEPT !.ci = FALSE, !.drq = FALSE]
        <5>1. port' = [port EXCEPT ![q] = new]
          BY <4>1, <4>6 DEF Execute
        <5>2. new.fb = port[q].fb /\ new.clb = port[q].clb /\ new.cmd = port[q].cmd
          BY <4>2 DEF PortRegisters
        <5> HIDE DEF new
        <5> QED
          BY <5>1, <5>2
      <4>7. CASE TaskFileError(q)
        BY <4>1, <4>2, <4>7 DEF TaskFileError, PortRegisters
      <4>8. CASE Announce(q)
        <5> DEFINE new == [port[q] EXCEPT !.drq = TRUE, !.ipm = "active"]
        <5>1. port' = [port EXCEPT ![q] = new]
          BY <4>1, <4>8 DEF Announce
        <5>2. new.fb = port[q].fb /\ new.clb = port[q].clb /\ new.cmd = port[q].cmd
          BY <4>2 DEF PortRegisters
        <5> HIDE DEF new
        <5> QED
          BY <5>1, <5>2
      <4>9. CASE Sleep(q)
        <5>1. PICK ipm : Adapter(q, [port[q] EXCEPT !.ipm = ipm])
          BY <4>9 DEF Sleep
        <5> DEFINE new == [port[q] EXCEPT !.ipm = ipm]
        <5>2. new.fb = port[q].fb /\ new.clb = port[q].clb /\ new.cmd = port[q].cmd
          BY <4>2 DEF PortRegisters
        <5>3. port' = [port EXCEPT ![q] = new]
          BY <4>1, <5>1
        <5> HIDE DEF new
        <5> QED
          BY <5>2, <5>3
      <4> QED
        BY <2>7, <4>3, <4>4, <4>5, <4>6, <4>7, <4>8, <4>9 DEF AdapterStep
    <3> QED
      BY <2>1, <3>1
  <2> QED
    BY <2>2, <2>3, <2>4, <2>5, <2>6, <2>7 DEF AhciNext, ahci_init_port
<1>2. AhciInv /\ [AhciNext]_ahci_vars => [\A p \in Ports : Quiet_(p)]_ahci_vars
  BY <1>1
<1>3. AhciInv /\ [AhciNext]_ahci_vars => [\A p \in Ports : Ready_(p)]_ahci_vars
  BY <1>1
<1>4. AhciSpec => [][\A p \in Ports : Quiet_(p)]_ahci_vars
  BY <1>2, AhciInvariance, PTL DEF AhciSpec
<1>5. AhciSpec => [][\A p \in Ports : Ready_(p)]_ahci_vars
  BY <1>3, AhciInvariance, PTL DEF AhciSpec
<1> QED
  BY <1>4, <1>5 DEF PortsQuiet, AddressesQuiet, StartsReady

-----------------------------------------------------------------------------
(* The SD driver under the boot and the running kernel: what the function   *)
(* that runs, the controller and the card know of each other, for transfers *)
(* of any length, blocks and pages of any size.                             *)

\* A request for some sectors, and frames for them.
GoodTransfer(c) ==
    /\ c.count > 0
    /\ c.fn = "sd_dma_spin_load" =>
         /\ \A e \in 1..Len(c.pages) : c.pages[e] % PAGE = 0
         /\ c.count * SECTOR <= Len(c.pages) * PAGE

Pc == {"idle", "enter", "reset", "clock", "send", "command", "response", "poll", "ack",
       "restart", "done"}
Dir == {"none", "read", "write"}
CardState == {"idle", "ready", "ident", "stby", "tran", "data"}

\* The registers are records of the right shape.
Registered ==
    /\ call \in [fn : Fn, pc : Pc, k : Nat \ {0}, pa : Nat, count : Nat, offset : Nat,
                 pages : Seq(Nat), seen : SUBSET Status]
    /\ host \in [clock : Clock, sd_clock : BOOLEAN, power : BOOLEAN,
                 enabled : SUBSET Status, inhibit : SUBSET Inhibit, status : SUBSET Status,
                 command : [cmd : Commands \cup {"none"}, resp : Resp, arg : Nat, mode : Dir],
                 resp0 : Resp0, addr : Nat, count : Nat, resetting : BOOLEAN]
    /\ engine \in [dir : Dir, block : Nat, left : Nat, run : BOOLEAN, moved : Nat]
    /\ card \in [state : CardState, app : BOOLEAN, busy : 0..BusyBound, inserted : BOOLEAN]
    /\ faults \in [n : Nat, hit : BOOLEAN]

\* The controller is set up from the first return of sd_init on, but while
\* it is set up again.
Powered == host.clock = "stable" /\ host.sd_clock /\ host.power /\ host.enabled = Status
SetUp ==
    /\ call.fn # "none" => at \notin {"FW", "FW_SD"}
    /\ at \notin {"FW", "FW_SD"} /\ call.fn # "sd_init" => Powered

\* Where each function can be, and its arguments.
Places ==
    /\ call.fn = "none" => call = NoCall
    /\ call.fn = "sd_init" => call.pc \in {"enter", "reset", "clock"}
    /\ call.fn = "sd_spin_init_mem_card" =>
         call.pc \in {"enter", "send", "command", "response"} /\ call.k \in 1..Len(Step)
    /\ call.fn \in Transfers =>
         /\ call.pc \in {"enter", "send", "command", "poll", "ack", "restart", "done"}
         /\ call.pc = "ack" => "DMA" \in host.status
         /\ call.pc = "restart" => "DMA" \notin host.status
         /\ GoodTransfer(call)

\* The command in the controller is the one the driver waits for.
Commanded ==
    host.command.cmd # "none" =>
        /\ call.fn \notin {"none", "sd_init"} /\ call.pc = "command"
        /\ host.command.cmd = CurrentCommand
        /\ host.command.resp = sd_frame_cmd(CurrentCommand).resp
        /\ host.command.mode = TransferMode(CurrentCommand)
        /\ host.command.arg = call.offset /\ host.count = call.count
        /\ host.status = {} /\ engine.dir = "none"

Active == call.pc \in {"command", "poll", "ack", "restart", "done"}
Looked == call.pc \in {"ack", "restart", "done"}
Direction == IF call.fn = "sd_dma_spin_write" THEN "write" ELSE "read"

\* The engine stands at the end of a page, or is about to be restarted.
Standing == Active /\ (call.pc = "restart" \/ "DMA" \in host.status)

\* The engine works for the transfer that runs, and for no one else.
Engaged ==
    /\ engine.dir = "none" => engine.left = 0 /\ ~engine.run
    /\ engine.dir # "none" =>
         /\ call.fn \in Transfers /\ Active /\ host.command.cmd = "none"
         /\ engine.dir = Direction
         /\ engine.left > 0 /\ engine.moved + engine.left = call.count
         /\ engine.block = FirstBlock(call.offset) + engine.moved
         /\ host.status \cap {"ERR", "TC"} = {}
         /\ Looked => "TC" \notin call.seen
         /\ engine.run <=> ~Standing

\* Sectors gone: none before the command, all when TC is reported.
Counted ==
    call.fn \in Transfers =>
        /\ engine.moved <= call.count
        /\ ~Active \/ host.command.cmd # "none" => engine.moved = 0 /\ call.k = 1
        /\ Active /\ "TC" \in host.status => engine.moved = call.count
        /\ Looked /\ "TC" \in call.seen => engine.moved = call.count
        /\ Standing => engine.moved < call.count

\* a: where a load puts the sector after the first n ones.
InFrame(k, pages, n, a) ==
    /\ k <= Len(pages) /\ (k - 1) * PAGE <= n * SECTOR /\ n * SECTOR < k * PAGE
    /\ a = pages[k] + (n * SECTOR - (k - 1) * PAGE)

\* The address register: where the next sector goes, or the end of a page.
Addressed ==
    call.fn \in Transfers /\ call.pc # "enter" =>
        IF call.fn # "sd_dma_spin_load"
        THEN host.addr = call.pa + engine.moved * SECTOR
        ELSE IF Standing
        THEN call.k * PAGE = engine.moved * SECTOR /\ host.addr % PAGE = 0
        ELSE engine.moved < call.count =>
               InFrame(call.k, call.pages, engine.moved, host.addr)

\* An error report has its reason.
Blamed ==
    call.fn # "none" /\ Active /\ "ERR" \in host.status =>
        faults.hit \/ ~card.inserted \/ (call.fn \in Transfers /\ card.state # "tran")

\* The initialisation and the card are at the same step: before a command ...
Expected(k) ==
    CASE k = 1 -> TRUE
      [] k \in {2, 3} -> card.state = "idle"
      [] k = 4 -> card.state = "idle" /\ card.app
      [] k = 5 -> card.state = "ready"
      [] k = 6 -> card.state \in {"ident", "stby"}
      [] OTHER -> card.state = "stby" /\ call.offset # 0
\* ... and after its answer.
After(k) ==
    CASE k = 1 -> card.state = "idle"
      [] k = 2 -> card.state = "idle" /\ (host.resp0 = "0x1AA" \/ faults.hit)
      [] k = 3 -> card.state = "idle" /\ card.app
      [] k = 4 -> IF host.resp0 = "busy" THEN card.state = "idle" ELSE card.state = "ready"
      [] k = 5 -> card.state = "ident"
      [] k = 6 -> card.state = "stby" /\ host.resp0 \in {"no_rca", "rca"}
      [] k = 7 -> card.state = "stby" /\ call.offset # 0 /\ host.resp0 # "rca"
      [] OTHER -> TRUE
InStep ==
    call.fn = "sd_spin_init_mem_card" =>
        /\ call.pc = "enter" => call.k = 1
        /\ call.pc = "send" \/ host.command.cmd # "none" => Expected(call.k)
        /\ call.pc = "command" /\ host.command.cmd = "none" /\ "ERR" \notin host.status =>
             After(call.k)
        /\ call.pc = "response" => After(call.k)

SdInv ==
    /\ Registered /\ SetUp /\ Places /\ Commanded /\ Engaged /\ Counted /\ Addressed
    /\ Blamed /\ InStep

TypeAt ==
    /\ at \in {"FW", "FW_SD", "FW_CARD", "FW_READ", "FW_CHECK", "MBR_ELF", "MBR_LOOP",
               "MBR_SEGMENT", "KINIT", "KINIT_SD", "KINIT_CARD", "KERNEL", "SPIN", "LOST"}
    /\ seg \in Nat
    /\ at = "MBR_LOOP" => seg <= Len(Segment)
    /\ at = "MBR_SEGMENT" => seg < Len(Segment)

-----------------------------------------------------------------------------
(* Steps of the driver.                                                    *)

LEMMA SdParts ==
  SdInv <=> /\ Registered /\ SetUp /\ Places /\ Commanded /\ Engaged /\ Counted /\ Addressed
            /\ Blamed /\ InStep
BY DEF SdInv

LEMMA NoCallFacts ==
  /\ NoCall.fn = "none" /\ NoCall.pc = "idle" /\ NoCall.k = 1 /\ NoCall.count = 0
  /\ NoCall.pages = <<>> /\ NoCall.seen = {}
  /\ NoCall \in [fn : Fn, pc : Pc, k : Nat \ {0}, pa : Nat, count : Nat, offset : Nat,
                 pages : Seq(Nat), seen : SUBSET Status]
BY DEF NoCall, Fn, Pc, Status

\* The function that runs, by where it is.
LEMMA WhoRuns ==
  ASSUME Registered, Places
  PROVE  /\ call.pc \in {"reset", "clock"} => call.fn = "sd_init"
         /\ call.pc = "response" => call.fn = "sd_spin_init_mem_card"
         /\ call.pc \in {"poll", "ack", "restart", "done"} => call.fn \in Transfers
         /\ call.pc \in {"send", "command"} =>
              call.fn = "sd_spin_init_mem_card" \/ call.fn \in Transfers
         /\ call.fn = "none" => call.pc = "idle" /\ call.seen = {}
         /\ call.fn \in Transfers =>
              call.fn \notin {"none", "sd_init", "sd_spin_init_mem_card"}
<1>1. call.fn \in Fn /\ (call.fn = "none" => call.pc = "idle" /\ call.seen = {})
  BY NoCallFacts DEF Registered, Places
<1>2. call.fn \in {"none", "sd_init", "sd_spin_init_mem_card"} \/ call.fn \in Transfers
  BY <1>1 DEF Fn, Transfers
<1>3. call.fn \in Transfers => call.fn \notin {"none", "sd_init", "sd_spin_init_mem_card"}
  BY DEF Transfers
<1> QED
  BY <1>1, <1>2, <1>3 DEF Places

\* A function returns while no command and no transfer is on its way.
LEMMA Returned ==
  ASSUME SdInv, call' = NoCall, Registered', SetUp',
         host'.command.cmd = "none", engine'.dir = "none", engine'.left = 0, ~engine'.run
  PROVE  SdInv'
<1>1. call'.fn = "none" /\ call'.pc = "idle"
  BY NoCallFacts
<1>2. Places'
  BY <1>1 DEF Places, Transfers
<1>3. Commanded' /\ Engaged'
  BY DEF Commanded, Engaged
<1>4. Counted' /\ Addressed' /\ Blamed' /\ InStep'
  BY <1>1 DEF Counted, Addressed, Blamed, InStep, Transfers
<1> QED
  BY <1>2, <1>3, <1>4, SdParts, PTL

LEMMA InitStep ==
  ASSUME SdInv, InitReset \/ InitClock \/ InitPower, UNCHANGED at
  PROVE  SdInv'
<1> USE SdParts
<1>1. call.fn = "sd_init" /\ call.pc \in {"enter", "reset", "clock"}
  BY WhoRuns DEF InitReset, InitClock, InitPower, At
<1>2. engine.dir = "none" /\ host.command.cmd = "none" /\ engine.left = 0 /\ ~engine.run
  BY <1>1 DEF Engaged, Commanded, Transfers
<1>3. CASE InitPower
  <2>1. /\ call' = NoCall /\ UNCHANGED <<engine, card, faults>>
        /\ host' = [host EXCEPT !.sd_clock = TRUE, !.power = TRUE, !.enabled = Status]
        /\ host.clock = "stable"
    BY <1>3 DEF InitPower, Return, Driver, ClockStable
  <2>2. Registered'
    BY <2>1, NoCallFacts DEF Registered
  <2>3. /\ host'.sd_clock /\ host'.power /\ host'.enabled = Status /\ host'.clock = host.clock
        /\ host'.command = host.command
    BY <2>1 DEF Registered
  <2>4. SetUp'
    BY <2>1, <2>3, NoCallFacts DEF SetUp, Powered
  <2> QED
    BY <1>2, <2>1, <2>2, <2>3, <2>4, Returned
<1>4. ASSUME InitReset \/ InitClock
      PROVE  SdInv'
  <2>1. /\ call' = [call EXCEPT !.pc = IF call.pc = "enter" THEN "reset" ELSE "clock"]
        /\ UNCHANGED <<card, faults>>
        /\ \/ /\ host' = [Reset EXCEPT !.resetting = TRUE]
              /\ engine' = [Stopped EXCEPT !.moved = 0]
           \/ /\ host' = [host EXCEPT !.clock = "starting"]
              /\ UNCHANGED engine
    BY <1>4 DEF InitReset, InitClock, At, Goto, Driver
  <2>2. call' \in [fn : Fn, pc : Pc, k : Nat \ {0}, pa : Nat, count : Nat, offset : Nat,
                   pages : Seq(Nat), seen : SUBSET Status]
    BY <2>1 DEF Registered, Pc
  <2>3. host' \in [clock : Clock, sd_clock : BOOLEAN, power : BOOLEAN,
                 enabled : SUBSET Status, inhibit : SUBSET Inhibit, status : SUBSET Status,
                 command : [cmd : Commands \cup {"none"}, resp : Resp, arg : Nat, mode : Dir],
                 resp0 : Resp0, addr : Nat, count : Nat, resetting : BOOLEAN]
        /\ host'.command.cmd = "none"
    <3>1. CASE host' = [host EXCEPT !.clock = "starting"]
      <4>1. "starting" \in Clock
        BY DEF Clock
      <4> QED
        BY <1>2, <3>1, <4>1 DEF Registered
    <3>2. CASE host' = [Reset EXCEPT !.resetting = TRUE]
      <4>1. /\ "off" \in Clock /\ "none" \in Resp0 /\ "NONE" \in Resp /\ "none" \in Dir
        BY DEF Clock, Resp0, Resp, Dir
      <4> QED
        BY <3>2, <4>1 DEF Reset, NoCommand
    <3> QED
      BY <2>1, <3>1, <3>2
  <2>4. /\ engine' \in [dir : Dir, block : Nat, left : Nat, run : BOOLEAN, moved : Nat]
        /\ engine'.dir = "none" /\ engine'.left = 0 /\ ~engine'.run
    <3>1. "none" \in Dir
      BY DEF Dir
    <3> QED
      BY <1>2, <2>1, <3>1 DEF Registered, Stopped
  <2>5. Registered'
    BY <2>1, <2>2, <2>3, <2>4 DEF Registered
  <2>6. call'.fn = "sd_init" /\ call'.pc \in {"reset", "clock"}
    BY <1>1, <2>1 DEF Registered
  <2>7. SetUp' /\ Places'
    BY <1>1, <2>6 DEF SetUp, Places, Transfers
  <2>8. Commanded' /\ Engaged'
    BY <2>3, <2>4 DEF Commanded, Engaged
  <2>9. Counted' /\ Addressed' /\ Blamed' /\ InStep'
    BY <2>6 DEF Counted, Addressed, Blamed, InStep, Transfers, Active
  <2> QED
    BY <2>5, <2>7, <2>8, <2>9, PTL
<1> QED
  BY <1>3, <1>4

\* The functions return early, or with the result of the transfer.
LEMMA ReturnStep ==
  ASSUME SdInv, UNCHANGED <<at, engine, card, faults>>, call' = NoCall, call.fn # "sd_init",
         \/ host' = host
         \/ \E bits \in SUBSET Status : host' = [host EXCEPT !.status = bits],
         host.command.cmd = "none", engine.dir = "none"
  PROVE  SdInv'
<1> USE SdParts
<1>1. Registered' /\ host'.command = host.command /\ (Powered => Powered')
  <2>1. PICK bits \in SUBSET Status : host' = [host EXCEPT !.status = bits]
    <3>1. CASE host' = host
      <4>1. host = [host EXCEPT !.status = host.status] /\ host.status \in SUBSET Status
        BY DEF Registered
      <4> QED
        BY <3>1, <4>1
    <3> QED
      BY <3>1
  <2>2. /\ host'.command = host.command /\ host'.clock = host.clock
        /\ host'.sd_clock = host.sd_clock /\ host'.power = host.power
        /\ host'.enabled = host.enabled
    BY <2>1 DEF Registered
  <2>3. Registered'
    BY <2>1, NoCallFacts DEF Registered
  <2> QED
    BY <2>2, <2>3 DEF Powered
<1>2. SetUp'
  BY <1>1, NoCallFacts DEF SetUp
<1>3. engine'.dir = "none" /\ engine'.left = 0 /\ ~engine'.run /\ host'.command.cmd = "none"
  BY <1>1 DEF Engaged
<1> QED
  BY <1>1, <1>2, <1>3, Returned

LEMMA ResultStep ==
  ASSUME SdInv, NoCard \/ Refuse \/ CommandError, UNCHANGED at
  PROVE  SdInv'
<1> USE SdParts
<1>1. call' = NoCall /\ host' = host /\ UNCHANGED <<engine, card, faults>>
  BY DEF NoCard, Refuse, CommandError, CommandFailed, Return, Driver
<1>2. call.pc \in {"enter", "send"} \/ (call.pc = "command" /\ "ERR" \in host.status)
  BY DEF NoCard, Refuse, CommandError, At
<1>3. call.fn # "sd_init"
  BY WhoRuns, <1>2 DEF NoCard, Refuse, CommandError, At
<1>4. host.command.cmd = "none" /\ engine.dir = "none"
  BY <1>2 DEF Commanded, Engaged, Active
<1> QED
  BY <1>1, <1>3, <1>4, ReturnStep

\* Fields that most steps leave alone.
SameCall ==
    /\ call'.fn = call.fn /\ call'.pa = call.pa /\ call'.count = call.count
    /\ call'.pages = call.pages
SameHost ==
    /\ host'.clock = host.clock /\ host'.sd_clock = host.sd_clock /\ host'.power = host.power
    /\ host'.enabled = host.enabled

LEMMA EnterStep ==
  ASSUME SdInv, PowerUp \/ SetAddress, UNCHANGED at
  PROVE  SdInv'
<1> USE SdParts
<1>1. /\ call.pc = "enter" /\ call' = [call EXCEPT !.pc = "send"] /\ UNCHANGED <<engine, card, faults>>
      /\ \/ call.fn = "sd_spin_init_mem_card" /\ host' = host
         \/ /\ call.fn \in Transfers
            /\ host' = [host EXCEPT !.addr = IF call.fn = "sd_dma_spin_load" THEN call.pages[1]
                                             ELSE call.pa]
  BY DEF PowerUp, SetAddress, At, Goto, Driver
<1>2. ASSUME call.fn = "sd_dma_spin_load"
      PROVE  Len(call.pages) >= 1 /\ call.pages[1] \in Nat
  <2>1. call.count * SECTOR <= Len(call.pages) * PAGE /\ call.count \in Nat \ {0}
        /\ call.pages \in Seq(Nat)
    BY <1>2 DEF Places, GoodTransfer, Transfers, Registered
  <2>2. call.count * SECTOR > 0 /\ call.count * SECTOR \in Nat /\ PAGE \in Nat
    BY <2>1, SdAssumption
  <2>3. Len(call.pages) # 0
    <3> SUFFICES ASSUME Len(call.pages) = 0 PROVE FALSE
      OBVIOUS
    <3>1. Len(call.pages) * PAGE = 0
      BY <2>2
    <3> QED
      BY <2>1, <2>2, <3>1
  <2> QED
    BY <2>1, <2>3
<1>3. Registered'
  BY <1>1, <1>2 DEF Registered, Pc
<1>4. SameCall /\ SameHost /\ call'.pc = "send" /\ call'.k = call.k /\ call'.offset = call.offset
      /\ host'.command = host.command /\ host'.status = host.status
  BY <1>1 DEF SameCall, SameHost, Registered
<1>5. engine.dir = "none" /\ host.command.cmd = "none"
  BY <1>1 DEF Engaged, Commanded, Active
<1>6. SetUp' /\ Commanded' /\ Engaged'
  BY <1>1, <1>4, <1>5 DEF SetUp, Powered, Commanded, Engaged, SameCall, SameHost
<1>7. Places'
  BY <1>1, <1>4, WhoRuns DEF Places, GoodTransfer, SameCall
<1>8. Counted' /\ Blamed'
  BY <1>1, <1>4 DEF Counted, Blamed, Active, Looked, Standing, SameCall
<1>9. InStep'
  BY <1>1, <1>4, WhoRuns DEF InStep, SameCall, Expected, Transfers
<1>10. ASSUME call.fn \in Transfers
       PROVE  Addressed'
  <2>1. engine'.moved = 0 /\ ~Standing'
    BY <1>1, <1>4, <1>10 DEF Counted, Standing, Active
  <2>2. CASE call.fn # "sd_dma_spin_load"
    <3>1. host'.addr = call.pa /\ call.pa \in Nat
      BY <1>1, <1>10, <2>2, WhoRuns DEF Registered
    <3>2. engine'.moved * SECTOR = 0
      BY <2>1, SdAssumption
    <3> QED
      BY <1>4, <2>2, <3>1, <3>2 DEF Addressed, SameCall
  <2>3. CASE call.fn = "sd_dma_spin_load"
    <3>1. host'.addr = call.pages[1] /\ Len(call.pages) >= 1 /\ call.pages[1] \in Nat
      BY <1>1, <1>2, <1>10, <2>3, WhoRuns DEF Registered
    <3>2. call.k = 1
      BY <1>1, <1>10 DEF Counted, Active
    <3>3. engine'.moved * SECTOR = 0 /\ (call.k - 1) * PAGE = 0 /\ call.k * PAGE = PAGE /\ PAGE > 0
      BY <2>1, <3>2, SdAssumption
    <3> QED
      BY <1>4, <2>1, <2>3, <3>1, <3>2, <3>3 DEF Addressed, SameCall, InFrame
  <2> QED
    BY <2>2, <2>3
<1>11. Addressed'
  BY <1>4, <1>10 DEF Addressed, SameCall
<1> QED
  BY <1>3, <1>6, <1>7, <1>8, <1>9, <1>11, PTL

LEMMA CommandFacts ==
  /\ \A cmd \in Commands :
       /\ sd_frame_cmd(cmd).resp \in Resp /\ sd_frame_cmd(cmd).resp \in Takes(cmd)
       /\ TransferMode(cmd) \in Dir /\ cmd # "none"
  /\ TransferMode("CMD18") = "read" /\ TransferMode("CMD25") = "write"
<1>1. ASSUME NEW cmd \in Commands
      PROVE  sd_frame_cmd(cmd).resp \in Resp /\ sd_frame_cmd(cmd).resp \in Takes(cmd)
  BY <1>1 DEF Commands, sd_frame_cmd, Takes, Resp
<1>2. ASSUME NEW cmd \in Commands PROVE TransferMode(cmd) \in Dir /\ cmd # "none"
  BY <1>2 DEF Commands, TransferMode, Dir
<1> QED
  BY <1>1, <1>2 DEF TransferMode

LEMMA StepFacts ==
  /\ Len(Step) = 8
  /\ Step[1] = "CMD0" /\ Step[2] = "CMD8" /\ Step[3] = "CMD55" /\ Step[4] = "ACMD41"
  /\ Step[5] = "CMD2" /\ Step[6] = "CMD3" /\ Step[7] = "CMD9" /\ Step[8] = "CMD7"
BY DEF Step

LEMMA CurrentFacts ==
  ASSUME Registered, Places, call.pc \in {"send", "command"}
  PROVE  /\ CurrentCommand \in Commands
         /\ call.fn \in Transfers =>
              /\ CurrentCommand \in {"CMD18", "CMD25"} /\ TransferMode(CurrentCommand) = Direction
         /\ call.fn = "sd_spin_init_mem_card" =>
              CurrentCommand = Step[call.k] /\ CurrentCommand \notin {"CMD18", "CMD25"}
<1>1. CASE call.fn \in Transfers
  <2>1. CurrentCommand = IF call.fn = "sd_dma_spin_write" THEN "CMD25" ELSE "CMD18"
    BY <1>1 DEF CurrentCommand, Transfers
  <2> QED
    BY <1>1, <2>1, CommandFacts, WhoRuns DEF Commands, Direction
<1>2. CASE call.fn = "sd_spin_init_mem_card"
  <2>1. CurrentCommand = Step[call.k] /\ call.k \in 1..8
    BY <1>2, StepFacts DEF CurrentCommand, Places
  <2>2. call.k \in {1, 2, 3, 4, 5, 6, 7, 8}
    BY <2>1
  <2>3. Step[call.k] \in Commands /\ Step[call.k] \notin {"CMD18", "CMD25"}
    BY <2>2, StepFacts DEF Commands
  <2> QED
    BY <1>2, <2>1, <2>3, WhoRuns
<1> QED
  BY <1>1, <1>2, WhoRuns

LEMMA SendStep ==
  ASSUME SdInv, Send, UNCHANGED at
  PROVE  SdInv'
<1> USE SdParts
<1> DEFINE cmd == [cmd |-> CurrentCommand, resp |-> sd_frame_cmd(CurrentCommand).resp,
                   arg |-> call.offset, mode |-> TransferMode(CurrentCommand)]
           lines == {"CMD"} \cup IF sd_frame_cmd(CurrentCommand).data THEN {"DAT"} ELSE {}
<1>1. /\ call.pc = "send" /\ call' = [call EXCEPT !.pc = "command"]
      /\ UNCHANGED <<engine, card, faults>>
      /\ host' = [host EXCEPT !.count = call.count, !.status = {}, !.command = cmd,
                              !.inhibit = lines]
  BY DEF Send, At, Goto, Driver, Cleared
<1>2. CurrentCommand \in Commands
  BY <1>1, CurrentFacts
<1>3. cmd \in [cmd : Commands \cup {"none"}, resp : Resp, arg : Nat, mode : Dir]
  BY <1>2, CommandFacts DEF Registered
<1>4. /\ cmd.cmd = CurrentCommand /\ cmd.resp = sd_frame_cmd(CurrentCommand).resp
      /\ cmd.arg = call.offset /\ cmd.mode = TransferMode(CurrentCommand)
  OBVIOUS
<1>5. lines \in SUBSET Inhibit
  BY DEF Inhibit
<1> HIDE DEF cmd, lines
<1>6. Registered'
  BY <1>1, <1>3, <1>5 DEF Registered, Pc
<1>7. SameCall /\ SameHost /\ call'.pc = "command" /\ call'.k = call.k
      /\ call'.offset = call.offset
      /\ host'.command = cmd /\ host'.status = {} /\ host'.count = call.count
      /\ host'.addr = host.addr
  BY <1>1 DEF SameCall, SameHost, Registered
<1>8. engine.dir = "none" /\ host'.command.cmd # "none"
  BY <1>1, <1>2, <1>4, <1>7, CommandFacts DEF Engaged, Active
<1>9. SetUp' /\ Engaged'
  BY <1>1, <1>7, <1>8 DEF SetUp, Powered, Engaged, SameCall, SameHost
<1>10. Commanded'
  <2>1. CurrentCommand' = CurrentCommand
    BY <1>7 DEF CurrentCommand, SameCall
  <2>2. call.fn \notin {"none", "sd_init"}
    BY <1>1, WhoRuns
  <2> QED
    BY <1>1, <1>4, <1>7, <1>8, <2>1, <2>2 DEF Commanded, SameCall
<1>11. Places'
  BY <1>1, <1>7, WhoRuns DEF Places, GoodTransfer, SameCall
<1>12. Counted' /\ Blamed'
  BY <1>1, <1>7, <1>8 DEF Counted, Blamed, Active, Looked, Standing, SameCall
<1>13. Addressed'
  BY <1>1, <1>7 DEF Addressed, Active, Standing, SameCall
<1>14. InStep'
  BY <1>1, <1>7, <1>8 DEF InStep, SameCall, Expected
<1> QED
  BY <1>6, <1>9, <1>10, <1>11, <1>12, <1>13, <1>14, PTL

LEMMA CommandCompleteStep ==
  ASSUME SdInv, CommandComplete, UNCHANGED at
  PROVE  SdInv'
<1> USE SdParts
<1>1. /\ call.pc = "command"
      /\ call' = [call EXCEPT !.pc = IF call.fn \in Transfers THEN "poll" ELSE "response"]
      /\ UNCHANGED <<engine, card, faults>>
      /\ host' = [host EXCEPT !.status = @ \ {"CC"}]
      /\ "CC" \in host.status /\ "ERR" \notin host.status
  BY DEF CommandComplete, At, Goto, Driver, AfterCommand
<1>2. Registered'
  BY <1>1 DEF Registered, Pc
<1>3. SameCall /\ SameHost /\ call'.pc = (IF call.fn \in Transfers THEN "poll" ELSE "response")
      /\ call'.k = call.k /\ call'.offset = call.offset
      /\ host'.command = host.command /\ host'.status = host.status \ {"CC"}
      /\ host'.addr = host.addr /\ host'.resp0 = host.resp0
  BY <1>1 DEF SameCall, SameHost, Registered
<1>4. host.command.cmd = "none"
  BY <1>1 DEF Commanded
<1>5. SetUp' /\ Commanded'
  BY <1>1, <1>3, <1>4 DEF SetUp, Powered, Commanded, SameCall, SameHost
<1>6. Places'
  BY <1>1, <1>3, WhoRuns DEF Places, GoodTransfer, SameCall
<1>7. ASSUME call.fn \in Transfers
      PROVE  Engaged' /\ Counted' /\ Addressed' /\ Blamed' /\ InStep'
  <2>1. call'.pc = "poll" /\ (Standing' <=> Standing) /\ Active /\ Active' /\ ~Looked'
    BY <1>1, <1>3, <1>7 DEF Standing, Active, Looked
  <2>2. Engaged'
    BY <1>1, <1>3, <1>4, <1>7, <2>1 DEF Engaged, Direction, SameCall
  <2>3. Counted' /\ Blamed'
    BY <1>1, <1>3, <1>4, <1>7, <2>1 DEF Counted, Blamed, SameCall
  <2>4. Addressed'
    BY <1>1, <1>3, <1>7, <2>1 DEF Addressed, SameCall
  <2>5. InStep'
    BY <1>3, <1>7, WhoRuns DEF InStep, SameCall
  <2> QED
    BY <2>2, <2>3, <2>4, <2>5
<1>8. ASSUME call.fn \notin Transfers
      PROVE  Engaged' /\ Counted' /\ Addressed' /\ Blamed' /\ InStep'
  <2>1. call'.pc = "response" /\ engine.dir = "none" /\ ~Active'
    BY <1>3, <1>8 DEF Engaged, Active
  <2>2. Engaged' /\ Counted' /\ Addressed' /\ Blamed'
    BY <1>1, <1>3, <1>8, <2>1 DEF Engaged, Counted, Addressed, Blamed, SameCall
  <2>3. InStep'
    BY <1>1, <1>3, <1>4, <2>1 DEF InStep, SameCall, After
  <2> QED
    BY <2>2, <2>3
<1>9. Engaged' /\ Counted' /\ Addressed' /\ Blamed' /\ InStep'
  BY <1>7, <1>8
<1> QED
  BY <1>2, <1>5, <1>6, <1>9, PTL

LEMMA ResponseStep ==
  ASSUME SdInv, Response, UNCHANGED at
  PROVE  SdInv'
<1> USE SdParts
<1>1. call.pc = "response" /\ UNCHANGED <<host, engine, card, faults>>
  BY DEF Response, At, Driver
<1>2. call.fn = "sd_spin_init_mem_card" /\ host.command.cmd = "none" /\ engine.dir = "none"
      /\ call.k \in 1..8
  BY <1>1, WhoRuns, StepFacts DEF Commanded, Engaged, Active, Places
<1>3. CASE call' = NoCall
  BY <1>1, <1>2, <1>3, ReturnStep
<1>4. ASSUME call' # NoCall
      PROVE  SdInv'
  <2>1. /\ ~BadPattern /\ call.k # 8
        /\ call' = [call EXCEPT !.k = NextStep, !.pc = "send",
                               !.offset = IF host.resp0 = "rca" THEN 1 ELSE @]
    BY <1>1, <1>4, StepFacts DEF Response, Return, LastStep
  <2>2. PICK n \in 1..8 :
        /\ n = NextStep
        /\ \/ call.k = 4 /\ host.resp0 = "busy" /\ n = 3
           \/ call.k = 6 /\ host.resp0 = "no_rca" /\ n = 6
           \/ /\ ~(call.k = 4 /\ host.resp0 = "busy") /\ ~(call.k = 6 /\ host.resp0 = "no_rca")
              /\ n = call.k + 1
    BY <1>2, <2>1 DEF NextStep
  <2>3. PICK o \in Nat :
        /\ o = (IF host.resp0 = "rca" THEN 1 ELSE call.offset)
        /\ call' = [call EXCEPT !.k = n, !.pc = "send", !.offset = o]
    BY <2>1, <2>2 DEF Registered
  <2>4. SameCall /\ call'.pc = "send" /\ call'.k = n /\ call'.offset = o /\ call'.seen = call.seen
    BY <2>3 DEF SameCall, Registered
  <2>a. Registered'
    <3>1. "send" \in Pc /\ n \in Nat \ {0}
      BY DEF Pc
    <3> QED
      BY <1>1, <2>3, <3>1 DEF Registered
  <2>5. SetUp' /\ Commanded' /\ Engaged'
    BY <1>1, <1>2, <2>4 DEF SetUp, Powered, Commanded, Engaged, SameCall
  <2>6. Places'
    BY <1>2, <2>2, <2>4, WhoRuns, StepFacts DEF Places, SameCall
  <2>7. Counted' /\ Addressed' /\ Blamed'
    BY <1>2, <2>4, WhoRuns DEF Counted, Addressed, Blamed, SameCall, Active
  <2>8. Expected(n)'
    <3>1. After(call.k)
      BY <1>1, <1>2 DEF InStep
    <3>2. call.k = 1 \/ call.k = 2 \/ call.k = 3 \/ call.k = 4 \/ call.k = 5 \/ call.k = 6 \/ call.k = 7
      BY <1>2, <2>1
    <3>3. CASE call.k = 1 \/ call.k = 2 \/ call.k = 3
      BY <1>1, <2>2, <2>4, <3>1, <3>3 DEF After, Expected
    <3>4. CASE call.k = 4 \/ call.k = 5
      BY <1>1, <2>2, <2>4, <3>1, <3>4 DEF After, Expected
    <3>5. CASE call.k = 6
      BY <1>1, <2>2, <2>3, <2>4, <3>1, <3>5 DEF After, Expected
    <3>6. CASE call.k = 7
      BY <1>1, <2>2, <2>3, <2>4, <3>1, <3>6 DEF After, Expected
    <3> QED
      BY <3>2, <3>3, <3>4, <3>5, <3>6
  <2>9. InStep'
    <3>1. host' = host /\ card' = card
      BY <1>1
    <3> QED
      BY <1>2, <2>4, <2>8, <3>1 DEF InStep, Expected
  <2> QED
    BY <2>5, <2>6, <2>7, <2>9, <2>a, PTL
<1> QED
  BY <1>3, <1>4

LEMMA AckStep ==
  ASSUME SdInv, Ack, UNCHANGED at
  PROVE  SdInv'
<1> USE SdParts
<1>1. /\ call' = [call EXCEPT !.pc = "restart"]
      /\ host' = [host EXCEPT !.status = @ \ {"DMA"}]
      /\ UNCHANGED <<engine, card, faults>>
      /\ call.pc = "ack"
  BY DEF Ack, At, Goto, Driver, Then, Served
<1>2. Registered'
  BY <1>1 DEF Registered, Pc
<1>3. SameCall /\ SameHost /\ call'.pc = "restart" /\ call'.k = call.k
      /\ call'.offset = call.offset /\ call'.seen = call.seen
      /\ host'.command = host.command /\ host'.status = host.status \ {"DMA"}
      /\ host'.addr = host.addr
  BY <1>1 DEF SameCall, SameHost, Registered
<1>4. /\ call.fn \in Transfers /\ Standing /\ Standing' /\ Active /\ Active' /\ Looked /\ Looked'
      /\ host.command.cmd = "none"
  BY <1>1, <1>3, WhoRuns DEF Places, Standing, Active, Looked, Commanded
<1>5. SetUp' /\ Commanded'
  BY <1>1, <1>3, <1>4 DEF SetUp, Powered, Commanded, SameCall, SameHost
<1>6. Places'
  BY <1>1, <1>3, <1>4, WhoRuns DEF Places, GoodTransfer, SameCall
<1>7. Engaged'
  BY <1>1, <1>3, <1>4 DEF Engaged, Direction, SameCall
<1>8. Counted' /\ Addressed' /\ Blamed'
  BY <1>1, <1>3, <1>4 DEF Counted, Addressed, Blamed, SameCall
<1>9. InStep'
  BY <1>3, <1>4, WhoRuns DEF InStep, SameCall
<1> QED
  BY <1>2, <1>5, <1>6, <1>7, <1>8, <1>9, PTL

LEMMA PollStep ==
  ASSUME SdInv, Poll, UNCHANGED at
  PROVE  SdInv'
<1> USE SdParts
<1>1. call.pc = "poll" /\ UNCHANGED <<engine, card, faults>>
  BY DEF Poll, At, Driver
<1>2. call.fn \in Transfers /\ host.command.cmd = "none" /\ call.fn \notin {"none", "sd_init"}
  BY <1>1, WhoRuns DEF Commanded
<1>3. CASE "ERR" \in host.status
  <2>1. call' = NoCall /\ host' = [host EXCEPT !.status = @ \ {"ERR"}]
    BY <1>3 DEF Poll, Return
  <2>2. engine.dir = "none" /\ host.status \ {"ERR"} \in SUBSET Status
    BY <1>3 DEF Engaged, Registered
  <2> QED
    BY <1>1, <1>2, <2>1, <2>2, ReturnStep
<1>4. ASSUME "ERR" \notin host.status
      PROVE  SdInv'
  <2>1. /\ host' = host
        /\ call' = [call EXCEPT !.seen = host.status,
                                !.pc = IF "DMA" \in host.status THEN "ack" ELSE "done"]
    BY <1>4 DEF Poll, Served
  <2>2. Registered'
    BY <1>1, <2>1 DEF Registered, Pc
  <2>3. SameCall /\ call'.pc = (IF "DMA" \in host.status THEN "ack" ELSE "done")
        /\ call'.k = call.k /\ call'.offset = call.offset /\ call'.seen = host.status
    BY <2>1 DEF SameCall, Registered
  <2>4. Active /\ Active' /\ (Standing' <=> Standing) /\ ~Looked
    BY <1>1, <2>1, <2>3 DEF Active, Standing, Looked
  <2>5. SetUp' /\ Commanded'
    BY <1>1, <1>2, <2>1, <2>3 DEF SetUp, Powered, Commanded, SameCall
  <2>6. Places'
    BY <1>1, <1>2, <2>1, <2>3, WhoRuns DEF Places, GoodTransfer, SameCall
  <2>7. Engaged'
    BY <1>1, <1>2, <2>1, <2>3, <2>4 DEF Engaged, Direction, SameCall
  <2>8. Counted' /\ Addressed' /\ Blamed'
    BY <1>1, <1>2, <2>1, <2>3, <2>4 DEF Counted, Addressed, Blamed, SameCall
  <2>9. InStep'
    BY <1>2, <2>3, WhoRuns DEF InStep, SameCall
  <2> QED
    BY <2>2, <2>5, <2>6, <2>7, <2>8, <2>9, PTL
<1> QED
  BY <1>3, <1>4

LEMMA DoneStep ==
  ASSUME SdInv, Done, UNCHANGED at
  PROVE  SdInv'
<1> USE SdParts
<1>1. call.pc = "done" /\ UNCHANGED <<engine, card, faults>>
  BY DEF Done, At, Driver
<1>2. call.fn \in Transfers /\ host.command.cmd = "none" /\ call.fn \notin {"none", "sd_init"}
  BY <1>1, WhoRuns DEF Commanded
<1>3. CASE "TC" \in call.seen
  <2>1. call' = NoCall /\ host' = [host EXCEPT !.status = @ \ {"TC"}]
    BY <1>3 DEF Done, Return
  <2>2. engine.dir = "none" /\ host.status \ {"TC"} \in SUBSET Status
    BY <1>1, <1>3 DEF Engaged, Looked, Registered
  <2> QED
    BY <1>1, <1>2, <2>1, <2>2, ReturnStep
<1>4. ASSUME "TC" \notin call.seen
      PROVE  SdInv'
  <2>1. host' = host /\ call' = [call EXCEPT !.pc = "poll"]
    BY <1>4 DEF Done, Goto
  <2>2. Registered'
    BY <1>1, <2>1 DEF Registered, Pc
  <2>3. SameCall /\ call'.pc = "poll" /\ call'.k = call.k /\ call'.offset = call.offset
    BY <2>1 DEF SameCall, Registered
  <2>4. Active /\ Active' /\ (Standing' <=> Standing) /\ ~Looked'
    BY <1>1, <2>1, <2>3 DEF Active, Standing, Looked
  <2>5. SetUp' /\ Commanded'
    BY <1>1, <1>2, <2>1, <2>3 DEF SetUp, Powered, Commanded, SameCall
  <2>6. Places'
    BY <1>1, <1>2, <2>1, <2>3, WhoRuns DEF Places, GoodTransfer, SameCall
  <2>7. Engaged'
    BY <1>1, <1>2, <2>1, <2>3, <2>4 DEF Engaged, Direction, SameCall
  <2>8. Counted' /\ Addressed' /\ Blamed'
    BY <1>1, <1>2, <2>1, <2>3, <2>4 DEF Counted, Addressed, Blamed, SameCall
  <2>9. InStep'
    BY <1>2, <2>3, WhoRuns DEF InStep, SameCall
  <2> QED
    BY <2>2, <2>5, <2>6, <2>7, <2>8, <2>9, PTL
<1> QED
  BY <1>3, <1>4

\* The next frame of a load is there.
LEMMA NextFrame ==
  ASSUME Registered, Places, call.fn = "sd_dma_spin_load", call.k * PAGE = engine.moved * SECTOR,
         engine.moved < call.count
  PROVE  /\ call.k + 1 <= Len(call.pages) /\ call.pages[call.k + 1] \in Nat
         /\ ((call.k + 1) - 1) * PAGE = engine.moved * SECTOR
         /\ engine.moved * SECTOR < (call.k + 1) * PAGE
<1>1. /\ call.k \in Nat \ {0} /\ engine.moved \in Nat /\ call.count \in Nat
      /\ call.pages \in Seq(Nat) /\ SECTOR \in Nat \ {0} /\ PAGE \in Nat \ {0}
      /\ call.count * SECTOR <= Len(call.pages) * PAGE
  BY SdAssumption DEF Registered, Places, GoodTransfer, Transfers
<1>2. (engine.moved + 1) * SECTOR <= call.count * SECTOR
  <2>1. engine.moved + 1 \in Nat /\ engine.moved + 1 <= call.count
    BY <1>1
  <2> QED
    BY <1>1, <2>1, ProductOrder
<1>3. (engine.moved + 1) * SECTOR = engine.moved * SECTOR + SECTOR
  BY <1>1
<1>4. call.k < Len(call.pages)
  <2> SUFFICES ASSUME Len(call.pages) <= call.k PROVE FALSE
    BY <1>1
  <2>1. Len(call.pages) * PAGE <= call.k * PAGE
    <3>1. Len(call.pages) \in Nat /\ call.k \in Nat
      BY <1>1
    <3> QED
      BY <1>1, <3>1, ProductOrder
  <2>2. /\ engine.moved * SECTOR \in Nat /\ call.count * SECTOR \in Nat
        /\ Len(call.pages) * PAGE \in Nat
    BY <1>1
  <2> QED
    BY <1>1, <1>2, <1>3, <2>1, <2>2
<1>5. (call.k + 1) * PAGE = call.k * PAGE + PAGE /\ (call.k + 1) - 1 = call.k
      /\ call.k * PAGE \in Nat
  <2>1. \A k \in Nat, p \in Nat : (k + 1) * p = k * p + p /\ (k + 1) - 1 = k /\ k * p \in Nat
    OBVIOUS
  <2> QED
    BY <1>1, <2>1
<1>6. call.k + 1 <= Len(call.pages) /\ call.pages[call.k + 1] \in Nat
  <2>1. Len(call.pages) \in Nat
    BY <1>1
  <2>2. call.k + 1 \in 1..Len(call.pages)
    BY <1>1, <1>4, <2>1
  <2>3. \A s \in Seq(Nat) : \A e : e \in 1..Len(s) => s[e] \in Nat
    OBVIOUS
  <2>4. call.pages[call.k + 1] \in Nat
    BY <1>1, <2>2, <2>3
  <2> QED
    BY <2>1, <2>2, <2>4
<1>7. ((call.k + 1) - 1) * PAGE = engine.moved * SECTOR
  BY <1>5
<1>8. engine.moved * SECTOR < (call.k + 1) * PAGE
  BY <1>1, <1>5
<1> QED
  BY <1>6, <1>7, <1>8

LEMMA RestartStep ==
  ASSUME SdInv, Restart, UNCHANGED at
  PROVE  SdInv'
<1> USE SdParts
<1>1. /\ call.pc = "restart" /\ UNCHANGED <<card, faults>>
      /\ host' = [host EXCEPT !.addr = NextAddress]
      /\ engine' = [engine EXCEPT !.run = @ \/ engine.left > 0]
      /\ call' = [call EXCEPT !.pc = "done",
                              !.k = IF call.fn = "sd_dma_spin_load" THEN @ + 1 ELSE @]
  BY DEF Restart, At, Then, Served
<1>2. /\ call.fn \in Transfers /\ Standing /\ Active /\ Looked /\ host.command.cmd = "none"
      /\ "DMA" \notin host.status /\ engine.moved < call.count
  BY <1>1, WhoRuns DEF Places, Standing, Active, Looked, Commanded, Counted
<1>3. ASSUME call.fn = "sd_dma_spin_load"
      PROVE  /\ host.addr % PAGE = 0 /\ NextAddress = call.pages[call.k + 1]
             /\ call.k * PAGE = engine.moved * SECTOR
  BY <1>1, <1>2, <1>3 DEF Addressed, NextAddress
<1>4. NextAddress \in Nat
  <2>1. CASE call.fn = "sd_dma_spin_load"
    BY <1>2, <1>3, <2>1, NextFrame
  <2>2. CASE call.fn # "sd_dma_spin_load"
    BY <2>2 DEF NextAddress, Registered
  <2> QED
    BY <2>1, <2>2
<1>5. SameCall /\ SameHost /\ call'.pc = "done"
      /\ call'.k = (IF call.fn = "sd_dma_spin_load" THEN call.k + 1 ELSE call.k)
      /\ call'.offset = call.offset /\ call'.seen = call.seen
      /\ host'.command = host.command /\ host'.status = host.status
      /\ host'.addr = NextAddress
      /\ engine'.dir = engine.dir /\ engine'.block = engine.block /\ engine'.left = engine.left
      /\ engine'.moved = engine.moved
  BY <1>1 DEF SameCall, SameHost, Registered
<1>6. (engine'.run <=> engine.run \/ engine.left > 0) /\ engine.left \in Nat
  BY <1>1 DEF Registered
<1>7. Registered'
  <2>1. host' \in [clock : Clock, sd_clock : BOOLEAN, power : BOOLEAN,
                 enabled : SUBSET Status, inhibit : SUBSET Inhibit, status : SUBSET Status,
                 command : [cmd : Commands \cup {"none"}, resp : Resp, arg : Nat, mode : Dir],
                 resp0 : Resp0, addr : Nat, count : Nat, resetting : BOOLEAN]
    BY <1>1, <1>4 DEF Registered
  <2>2. call' \in [fn : Fn, pc : Pc, k : Nat \ {0}, pa : Nat, count : Nat, offset : Nat,
                 pages : Seq(Nat), seen : SUBSET Status]
    <3>1. "done" \in Pc
      BY DEF Pc
    <3>2. PICK n \in Nat \ {0} : call' = [call EXCEPT !.pc = "done", !.k = n]
      <4>1. call.k \in Nat \ {0} /\ call.k + 1 \in Nat \ {0}
        BY DEF Registered
      <4>2. CASE call.fn = "sd_dma_spin_load"
        BY <1>1, <4>1, <4>2
      <4>3. CASE call.fn # "sd_dma_spin_load"
        BY <1>1, <4>1, <4>3
      <4> QED
        BY <4>2, <4>3
    <3> QED
      BY <3>1, <3>2 DEF Registered
  <2>3. engine' \in [dir : Dir, block : Nat, left : Nat, run : BOOLEAN, moved : Nat]
    BY <1>1 DEF Registered
  <2> QED
    BY <1>1, <2>1, <2>2, <2>3 DEF Registered
<1>8. ~Standing' /\ Active' /\ Looked'
  BY <1>2, <1>5 DEF Standing, Active, Looked
<1>9. SetUp' /\ Commanded'
  BY <1>1, <1>2, <1>5 DEF SetUp, Powered, Commanded, SameCall, SameHost
<1>10. Places'
  BY <1>1, <1>2, <1>5, WhoRuns DEF Places, GoodTransfer, SameCall
<1>11. Engaged'
  BY <1>2, <1>5, <1>6, <1>8 DEF Engaged, Direction, SameCall
<1>12. Counted' /\ Blamed'
  BY <1>1, <1>2, <1>5, <1>8 DEF Counted, Blamed, SameCall
<1>13. Addressed'
  <2>1. CASE call.fn = "sd_dma_spin_load"
    <3>1. PICK k : k = call.k + 1
      OBVIOUS
    <3>2. /\ k <= Len(call.pages) /\ call.pages[k] \in Nat
          /\ (k - 1) * PAGE = engine.moved * SECTOR /\ engine.moved * SECTOR < k * PAGE
      BY <1>2, <1>3, <2>1, <3>1, NextFrame
    <3>3. engine.moved * SECTOR \in Nat
      BY SdAssumption DEF Registered
    <3>4. /\ (k - 1) * PAGE <= engine.moved * SECTOR
          /\ host'.addr = call.pages[k] + (engine.moved * SECTOR - (k - 1) * PAGE)
      BY <1>3, <1>5, <2>1, <3>1, <3>2, <3>3
    <3>5. InFrame(k, call.pages, engine.moved, host'.addr)
      BY <3>2, <3>4 DEF InFrame
    <3>6. InFrame(call'.k, call'.pages, engine'.moved, host'.addr)
      BY <1>5, <2>1, <3>1, <3>5 DEF SameCall
    <3> QED
      BY <1>5, <1>8, <2>1, <3>6 DEF Addressed, SameCall
  <2>2. CASE call.fn # "sd_dma_spin_load"
    BY <1>1, <1>2, <1>5, <2>2 DEF Addressed, NextAddress, SameCall
  <2> QED
    BY <2>1, <2>2
<1>14. InStep'
  BY <1>2, <1>5, WhoRuns DEF InStep, SameCall
<1> QED
  BY <1>7, <1>9, <1>10, <1>11, <1>12, <1>13, <1>14, PTL

-----------------------------------------------------------------------------
(* Steps of the controller and the card.                                   *)

LEMMA FaultFacts ==
  ASSUME Registered, OneFault
  PROVE  faults' \in [n : Nat, hit : BOOLEAN] /\ faults'.hit
<1>1. faults' = [n |-> faults.n + 1, hit |-> TRUE]
  BY DEF OneFault
<1>2. faults.n + 1 \in Nat
  BY DEF Registered
<1>3. \A m \in Nat : [n |-> m, hit |-> TRUE] \in [n : Nat, hit : BOOLEAN]
  BY Zenon
<1> QED
  BY <1>1, <1>2, <1>3, Zenon

LEMMA ClockStep ==
  ASSUME SdInv, ResetDone \/ ClockDone, UNCHANGED at
  PROVE  SdInv'
<1> USE SdParts
<1>1. /\ UNCHANGED <<call, engine, card, faults>>
      /\ \/ host' = [host EXCEPT !.resetting = FALSE]
         \/ host' = [host EXCEPT !.clock = "stable"] /\ host.clock = "starting"
  BY DEF ResetDone, ClockDone, Environment
<1>2. Registered'
  <2>1. "stable" \in Clock
    BY DEF Clock
  <2>2. CASE host' = [host EXCEPT !.resetting = FALSE]
    BY <1>1, <2>2 DEF Registered
  <2>3. CASE host' = [host EXCEPT !.clock = "stable"]
    BY <1>1, <2>1, <2>3 DEF Registered
  <2> QED
    BY <1>1, <2>2, <2>3
<1>3. /\ host'.sd_clock = host.sd_clock /\ host'.power = host.power /\ host'.enabled = host.enabled
      /\ host'.command = host.command /\ host'.status = host.status /\ host'.addr = host.addr
      /\ host'.count = host.count /\ host'.resp0 = host.resp0
      /\ (host.clock = "stable" => host'.clock = "stable")
  <2>1. CASE host' = [host EXCEPT !.resetting = FALSE]
    BY <2>1 DEF Registered
  <2>2. CASE host' = [host EXCEPT !.clock = "stable"]
    BY <2>2 DEF Registered
  <2> QED
    BY <1>1, <2>1, <2>2
<1>4. SetUp' /\ Places'
  BY <1>1, <1>3 DEF SetUp, Powered, Places
<1>5. Commanded'
  BY <1>1, <1>3 DEF Commanded, CurrentCommand
<1>6. Engaged' /\ Counted' /\ Blamed'
  BY <1>1, <1>3 DEF Engaged, Counted, Blamed, Active, Looked, Standing, Direction
<1>7. Addressed'
  BY <1>1, <1>3 DEF Addressed, Standing, Active
<1>8. InStep'
  BY <1>1, <1>3 DEF InStep, Expected, After
<1> QED
  BY <1>2, <1>4, <1>5, <1>6, <1>7, <1>8, PTL

LEMMA RemoveStep ==
  ASSUME SdInv, Remove, UNCHANGED at
  PROVE  SdInv'
<1> USE SdParts
<1>1. /\ UNCHANGED <<call, host, engine>> /\ card' = [card EXCEPT !.inserted = FALSE]
      /\ faults' \in [n : Nat, hit : BOOLEAN] /\ faults'.hit
  BY FaultFacts DEF Remove, Environment
<1>2. Registered' /\ card'.state = card.state /\ card'.app = card.app /\ ~card'.inserted
  BY <1>1 DEF Registered
<1>3. SetUp' /\ Places' /\ Commanded' /\ Engaged' /\ Counted'
  BY <1>1 DEF SetUp, Powered, Places, Commanded, CurrentCommand, Engaged, Counted, Active, Looked,
              Standing, Direction
<1>4. Addressed' /\ Blamed'
  BY <1>1, <1>2 DEF Addressed, Standing, Active, Blamed
<1>5. InStep'
  BY <1>1, <1>2 DEF InStep, Expected, After
<1> QED
  BY <1>2, <1>3, <1>4, <1>5, PTL

\* A command is on its way.
LEMMA OnItsWay ==
  ASSUME SdInv, Outstanding
  PROVE  /\ call.pc = "command" /\ Active /\ ~Looked /\ ~Standing
         /\ host.command.cmd # "none" /\ host.command.cmd = CurrentCommand
         /\ CurrentCommand \in Commands
         /\ host.command.resp \in Takes(host.command.cmd)
         /\ host.command.arg = call.offset /\ host.count = call.count
         /\ host.command.mode = TransferMode(CurrentCommand)
         /\ host.status = {} /\ engine.dir = "none" /\ host.enabled = Status
         /\ call.fn = "sd_spin_init_mem_card" \/ call.fn \in Transfers
<1> USE SdParts
<1>1. host.command.cmd # "none"
  BY DEF Outstanding
<1>2. /\ call.pc = "command" /\ host.command.cmd = CurrentCommand
      /\ host.command.resp = sd_frame_cmd(CurrentCommand).resp
      /\ host.command.arg = call.offset /\ host.count = call.count
      /\ host.command.mode = TransferMode(CurrentCommand)
      /\ host.status = {} /\ engine.dir = "none" /\ call.fn \notin {"none", "sd_init"}
  BY <1>1 DEF Commanded
<1>3. CurrentCommand \in Commands
  BY <1>2, CurrentFacts
<1>4. Active /\ ~Looked /\ ~Standing
  BY <1>2 DEF Active, Looked, Standing
<1>5. host.enabled = Status
  BY <1>2 DEF SetUp, Powered
<1>6. call.fn = "sd_spin_init_mem_card" \/ call.fn \in Transfers
  BY <1>2, WhoRuns
<1> QED
  BY <1>1, <1>2, <1>3, <1>4, <1>5, <1>6, CommandFacts

\* The card accepts every command of the initialisation.
LEMMA Accepted ==
  ASSUME SdInv, Outstanding, call.fn = "sd_spin_init_mem_card"
  PROVE  /\ call.k \in 1..8 /\ host.command.cmd = Step[call.k] /\ Legal(host.command.cmd)
         /\ Expected(call.k)
<1> USE SdParts
<1>1. call.k \in 1..8 /\ host.command.cmd = Step[call.k] /\ host.command.arg = call.offset
  BY OnItsWay, CurrentFacts, StepFacts DEF Places
<1>2. Expected(call.k)
  BY OnItsWay DEF InStep
<1>3. \/ call.k = 1 \/ call.k = 2 \/ call.k = 3 \/ call.k = 4 \/ call.k = 5 \/ call.k = 6
      \/ call.k = 7 \/ call.k = 8
  BY <1>1
<1>4. CASE call.k = 1 \/ call.k = 2 \/ call.k = 3
  BY <1>1, <1>2, <1>4, StepFacts DEF Legal, Expected
<1>5. CASE call.k = 4 \/ call.k = 5 \/ call.k = 6
  BY <1>1, <1>2, <1>5, StepFacts DEF Legal, Expected
<1>6. CASE call.k = 7 \/ call.k = 8
  BY <1>1, <1>2, <1>6, StepFacts DEF Legal, Expected
<1> QED
  BY <1>1, <1>2, <1>3, <1>4, <1>5, <1>6

\* What is common to the ends of a command.
CommandEnds(bit) ==
    /\ UNCHANGED call
    /\ host'.clock = host.clock /\ host'.sd_clock = host.sd_clock /\ host'.power = host.power
    /\ host'.enabled = host.enabled /\ host'.addr = host.addr
    /\ host'.status = {bit} /\ host'.command = NoCommand

LEMMA EndsStep ==
  ASSUME SdInv, Outstanding, UNCHANGED at, NEW bit \in {"CC", "ERR"}, CommandEnds(bit),
         Registered', Engaged', Blamed', InStep',
         call.fn \in Transfers => engine'.moved = 0
  PROVE  SdInv'
<1> USE SdParts
<1>1. /\ UNCHANGED call /\ SameHost /\ host'.addr = host.addr
      /\ host'.status = {bit} /\ host'.command.cmd = "none"
  BY DEF CommandEnds, SameHost, NoCommand
<1>2. SetUp' /\ Commanded'
  BY <1>1 DEF SetUp, Powered, Commanded, SameHost
<1>3. Places' /\ call.pc = "command" /\ ~Standing /\ ~Standing' /\ Active' /\ ~Looked'
  BY <1>1, OnItsWay DEF Places, Standing, Active, Looked
<1>4. Counted'
  BY <1>1, <1>3 DEF Counted, Registered
<1>5. Addressed'
  <2>1. ASSUME call.fn \in Transfers PROVE engine.moved = 0
    BY <2>1, OnItsWay DEF Counted
  <2>2. CASE call.fn \in Transfers
    BY <1>1, <1>3, <2>1, <2>2 DEF Addressed
  <2>3. CASE call.fn \notin Transfers
    BY <1>1, <2>3 DEF Addressed
  <2> QED
    BY <2>2, <2>3
<1> QED
  BY <1>2, <1>3, <1>4, <1>5, PTL

LEMMA LostStep ==
  ASSUME SdInv, NoAnswer \/ CommandFault, UNCHANGED at
  PROVE  SdInv'
<1> USE SdParts
<1>1. Outstanding /\ CommandLost /\ UNCHANGED <<call, engine, card>>
  BY DEF NoAnswer, CommandFault, Environment, Answers
<1>2. PICK stuck \in SUBSET host.inhibit :
         host' = [Raise({"ERR"}) EXCEPT !.inhibit = stuck, !.command = NoCommand]
  BY <1>1 DEF CommandLost
<1>3. Raise({"ERR"}) = [host EXCEPT !.status = {"ERR"}]
  BY <1>1, OnItsWay DEF Raise, Status
<1>4. host' = [host EXCEPT !.status = {"ERR"}, !.inhibit = stuck, !.command = NoCommand]
  BY <1>2, <1>3 DEF Registered
<1>5. CommandEnds("ERR")
  BY <1>1, <1>4 DEF Registered, CommandEnds
<1>6. Registered'
  <2>1. "ERR" \in Status /\ "none" \in Dir /\ "NONE" \in Resp
    BY DEF Status, Dir, Resp
  <2>2. NoCommand \in [cmd : Commands \cup {"none"}, resp : Resp, arg : Nat, mode : Dir]
    BY <2>1 DEF NoCommand
  <2>3. faults' \in [n : Nat, hit : BOOLEAN]
    <3>1. faults' = faults \/ OneFault
      BY DEF NoAnswer, CommandFault
    <3>2. faults \in [n : Nat, hit : BOOLEAN]
      BY DEF Registered
    <3> QED
      BY <3>1, <3>2, FaultFacts
  <2> QED
    BY <1>1, <1>4, <2>1, <2>2, <2>3 DEF Registered
<1>7. Engaged'
  BY <1>1, OnItsWay DEF Engaged
<1>8. InStep'
  BY <1>1, <1>5, OnItsWay DEF InStep, CommandEnds, NoCommand
<1>9. Blamed'
  <2>1. CASE CommandFault
    BY <2>1 DEF Blamed, CommandFault, OneFault
  <2>2. ASSUME NoAnswer, card.inserted PROVE call.fn \in Transfers /\ card.state # "tran"
    <3>1. ~Legal(host.command.cmd)
      BY <1>1, <2>2, OnItsWay DEF NoAnswer, Answers
    <3>2. call.fn \in Transfers
      BY <1>1, <3>1, Accepted, OnItsWay
    <3>3. host.command.cmd \in {"CMD18", "CMD25"}
      BY <1>1, <3>2, OnItsWay, CurrentFacts
    <3> QED
      BY <3>1, <3>2, <3>3 DEF Legal
  <2> QED
    BY <1>1, <2>1, <2>2 DEF Blamed
<1>10. call.fn \in Transfers => engine'.moved = 0
  BY <1>1, OnItsWay DEF Counted
<1> QED
  BY <1>1, <1>5, <1>6, <1>7, <1>8, <1>9, <1>10, EndsStep

\* The step of the initialisation is known by its command.
LEMMA StepOf ==
  ASSUME NEW k \in 1..8
  PROVE  /\ Step[k] = "CMD8" => k = 2
         /\ Step[k] \notin {"CMD18", "CMD25", "none"}
<1>1. k = 1 \/ k = 2 \/ k = 3 \/ k = 4 \/ k = 5 \/ k = 6 \/ k = 7 \/ k = 8
  OBVIOUS
<1> QED
  BY <1>1, StepFacts

LEMMA EchoStep ==
  ASSUME SdInv, BadEcho, UNCHANGED at
  PROVE  SdInv'
<1> USE SdParts
<1>1. /\ Outstanding /\ UNCHANGED <<call, engine, card>> /\ host.command.cmd = "CMD8"
      /\ host' = [Raise({"CC"}) EXCEPT !.resp0 = "none", !.inhibit = {}, !.command = NoCommand]
      /\ faults' \in [n : Nat, hit : BOOLEAN] /\ faults'.hit
  BY FaultFacts DEF BadEcho, Environment, Answers
<1>2. Raise({"CC"}) = [host EXCEPT !.status = {"CC"}]
  BY <1>1, OnItsWay DEF Raise, Status
<1>3. host' = [host EXCEPT !.status = {"CC"}, !.resp0 = "none", !.inhibit = {},
                           !.command = NoCommand]
  BY <1>1, <1>2 DEF Registered
<1>4. CommandEnds("CC")
  BY <1>1, <1>3 DEF Registered, CommandEnds
<1>5. Registered'
  <2>1. "CC" \in Status /\ "none" \in Dir /\ "NONE" \in Resp /\ "none" \in Resp0
    BY DEF Status, Dir, Resp, Resp0
  <2>2. NoCommand \in [cmd : Commands \cup {"none"}, resp : Resp, arg : Nat, mode : Dir]
    BY <2>1 DEF NoCommand
  <2>3. host' \in [clock : Clock, sd_clock : BOOLEAN, power : BOOLEAN,
                 enabled : SUBSET Status, inhibit : SUBSET Inhibit, status : SUBSET Status,
                 command : [cmd : Commands \cup {"none"}, resp : Resp, arg : Nat, mode : Dir],
                 resp0 : Resp0, addr : Nat, count : Nat, resetting : BOOLEAN]
    <3>1. {"CC"} \in SUBSET Status /\ {} \in SUBSET Inhibit
      BY <2>1
    <3> QED
      BY <1>3, <2>1, <2>2, <3>1 DEF Registered
  <2> QED
    BY <1>1, <2>3 DEF Registered
<1>6. call.fn = "sd_spin_init_mem_card" /\ call.fn \notin Transfers
  <2>1. call.fn \notin Transfers
    BY <1>1, OnItsWay, CurrentFacts
  <2> QED
    BY <1>1, <2>1, OnItsWay
<1>7. Engaged' /\ Blamed'
  BY <1>1, OnItsWay DEF Engaged, Blamed
<1>8. InStep'
  <2>1. call.k = 2 /\ card.state = "idle"
    BY <1>1, <1>6, Accepted, StepOf DEF Expected
  <2>2. After(call.k)'
    BY <1>1, <2>1 DEF After
  <2> QED
    BY <1>1, <1>4, <2>2, OnItsWay DEF InStep, CommandEnds, NoCommand, After
<1> QED
  BY <1>1, <1>4, <1>5, <1>6, <1>7, <1>8, EndsStep

\* The card after each command of the initialisation.
LEMMA AnswerInStep ==
  ASSUME NEW k \in 1..8, Expected(k), Registered, NEW next, NEW resp, Answered(Step[k], next, resp),
         card' = next, host'.resp0 = resp, UNCHANGED call
  PROVE  After(k)'
<1>1. card \in [state : CardState, app : BOOLEAN, busy : 0..BusyBound, inserted : BOOLEAN]
  BY DEF Registered
<1>2. CASE k = 1
  <2>1. next.state = "idle"
    BY <1>2, StepFacts DEF Answered
  <2> QED
    BY <1>2, <2>1 DEF After
<1>3. CASE k = 2
  BY <1>3, StepFacts DEF Answered, After, Expected
<1>4. CASE k = 3
  <2>1. next = [card EXCEPT !.app = TRUE]
    BY <1>4, StepFacts DEF Answered
  <2>2. next.state = card.state /\ next.app
    BY <1>1, <2>1
  <2> QED
    BY <1>4, <2>2 DEF After, Expected
<1>5. CASE k = 4
  <2>1. \/ resp = "busy" /\ next = [card EXCEPT !.app = FALSE, !.busy = @ - 1]
        \/ resp = "ready" /\ next = [card EXCEPT !.app = FALSE, !.state = "ready"]
    BY <1>5, StepFacts DEF Answered
  <2>2. card.state = "idle"
    BY <1>5 DEF Expected
  <2>3. \/ resp = "busy" /\ next.state = "idle"
        \/ resp = "ready" /\ next.state = "ready"
    <3>1. CASE resp = "busy" /\ next = [card EXCEPT !.app = FALSE, !.busy = @ - 1]
      BY <1>1, <2>2, <3>1
    <3>2. CASE resp = "ready" /\ next = [card EXCEPT !.app = FALSE, !.state = "ready"]
      BY <1>1, <3>2
    <3> QED
      BY <2>1, <3>1, <3>2
  <2> QED
    BY <1>5, <2>3 DEF After
<1>6. CASE k = 5
  <2>1. next = [card EXCEPT !.state = "ident"]
    BY <1>6, StepFacts DEF Answered
  <2> QED
    BY <1>1, <1>6, <2>1 DEF After
<1>7. CASE k = 6
  <2>1. \/ resp = "no_rca" /\ next = [card EXCEPT !.state = "stby", !.busy = @ - 1]
        \/ resp = "rca" /\ next = [card EXCEPT !.state = "stby", !.busy = 0]
    BY <1>7, StepFacts DEF Answered
  <2>2. resp \in {"no_rca", "rca"} /\ next.state = "stby"
    <3>1. CASE resp = "no_rca" /\ next = [card EXCEPT !.state = "stby", !.busy = @ - 1]
      BY <1>1, <3>1
    <3>2. CASE resp = "rca" /\ next = [card EXCEPT !.state = "stby", !.busy = 0]
      BY <1>1, <3>2
    <3> QED
      BY <2>1, <3>1, <3>2
  <2> QED
    BY <1>7, <2>2 DEF After
<1>8. CASE k = 7
  BY <1>8, StepFacts DEF Answered, After, Expected
<1>9. CASE k = 8
  BY <1>9 DEF After
<1>10. k = 1 \/ k = 2 \/ k = 3 \/ k = 4 \/ k = 5 \/ k = 6 \/ k = 7 \/ k = 8
  OBVIOUS
<1> QED
  BY <1>2, <1>3, <1>4, <1>5, <1>6, <1>7, <1>8, <1>9, <1>10

LEMMA AnswerStep ==
  ASSUME SdInv, Answer, UNCHANGED at
  PROVE  SdInv'
<1> USE SdParts
<1>1. /\ Outstanding /\ UNCHANGED <<call, faults>>
      /\ engine' = IF host.command.cmd \in {"CMD18", "CMD25"}
                   THEN [dir |-> host.command.mode,
                         block |-> FirstBlock(host.command.arg), left |-> host.count,
                         run |-> TRUE, moved |-> 0]
                   ELSE engine
  BY DEF Answer, Environment, Answers
<1>2. PICK next \in [state : CardState, app : BOOLEAN, busy : 0..BusyBound, inserted : {TRUE}],
           resp \in Resp0 :
         /\ Answered(host.command.cmd, next, resp)
         /\ card' = next
         /\ host' = [Raise({"CC"}) EXCEPT !.resp0 = resp, !.inhibit = @ \ {"CMD"},
                                         !.command = NoCommand]
  BY DEF Answer, CardState
<1>3. Raise({"CC"}) = [host EXCEPT !.status = {"CC"}]
  BY <1>1, OnItsWay DEF Raise, Status
<1>4. host' = [host EXCEPT !.status = {"CC"}, !.resp0 = resp, !.inhibit = host.inhibit \ {"CMD"},
                           !.command = NoCommand]
  BY <1>2, <1>3 DEF Registered
<1>5. CommandEnds("CC") /\ host'.resp0 = resp
  BY <1>1, <1>4 DEF Registered, CommandEnds
<1>6. ASSUME call.fn \in Transfers
      PROVE  /\ engine'.dir = Direction /\ engine'.block = FirstBlock(call.offset)
             /\ engine'.left = call.count /\ engine'.run /\ engine'.moved = 0
             /\ engine' \in [dir : Dir, block : Nat, left : Nat, run : BOOLEAN, moved : Nat]
  <2>1. host.command.cmd \in {"CMD18", "CMD25"} /\ host.command.mode = Direction
    BY <1>1, <1>6, OnItsWay, CurrentFacts
  <2>2. engine' = [dir |-> Direction, block |-> FirstBlock(call.offset), left |-> call.count,
                   run |-> TRUE, moved |-> 0]
    BY <1>1, <2>1, OnItsWay
  <2>3. FirstBlock(call.offset) \in Nat
    <3>1. call.offset \in Nat /\ SECTOR \in Nat \ {0}
      BY SdAssumption DEF Registered
    <3>2. call.offset \div SECTOR \in Nat
      BY <3>1, Halves
    <3> QED
      BY <3>1, <3>2 DEF FirstBlock
  <2>4. Direction \in Dir /\ call.count \in Nat
    BY DEF Direction, Dir, Registered
  <2> HIDE DEF Direction
  <2>5. \A d \in Dir, b \in Nat, l \in Nat :
          [dir |-> d, block |-> b, left |-> l, run |-> TRUE, moved |-> 0]
            \in [dir : Dir, block : Nat, left : Nat, run : BOOLEAN, moved : Nat]
    <3>1. 0 \in Nat
      OBVIOUS
    <3> QED
      BY <3>1, Zenon
  <2> QED
    BY <2>2, <2>3, <2>4, <2>5, Zenon
<1>7. ASSUME call.fn \notin Transfers
      PROVE  /\ engine' = engine /\ call.fn = "sd_spin_init_mem_card"
             /\ call.k \in 1..8 /\ host.command.cmd = Step[call.k] /\ Expected(call.k)
  BY <1>1, <1>7, OnItsWay, Accepted, StepOf
<1>8. Registered'
  <2>1. "CC" \in Status /\ "none" \in Dir /\ "NONE" \in Resp
    BY DEF Status, Dir, Resp
  <2>2. NoCommand \in [cmd : Commands \cup {"none"}, resp : Resp, arg : Nat, mode : Dir]
    BY <2>1 DEF NoCommand
  <2>3. engine' \in [dir : Dir, block : Nat, left : Nat, run : BOOLEAN, moved : Nat]
    BY <1>6, <1>7 DEF Registered
  <2>4. card' \in [state : CardState, app : BOOLEAN, busy : 0..BusyBound, inserted : BOOLEAN]
    BY <1>2
  <2> QED
    BY <1>1, <1>4, <2>1, <2>2, <2>3, <2>4 DEF Registered
<1>9. Engaged'
  <2>1. CASE call.fn \in Transfers
    <3>1. call.pc = "command" /\ host'.status = {"CC"} /\ host'.command.cmd = "none"
      BY <1>1, <1>5, OnItsWay DEF CommandEnds, NoCommand
    <3>2. Direction \in {"read", "write"} /\ Direction' = Direction
      BY <1>1 DEF Direction
    <3>3. call.count \in Nat /\ call.count > 0 /\ FirstBlock(call.offset) + 0 = FirstBlock(call.offset)
          /\ 0 + call.count = call.count
      BY <2>1, SdAssumption DEF Places, GoodTransfer, FirstBlock, Registered
    <3>4. Active' /\ ~Looked' /\ ~Standing'
      BY <1>1, <3>1 DEF Active, Looked, Standing
    <3> QED
      BY <1>1, <1>6, <2>1, <3>1, <3>2, <3>3, <3>4 DEF Engaged
  <2>2. CASE call.fn \notin Transfers
    BY <1>7, <2>2, <1>1, OnItsWay DEF Engaged
  <2> QED
    BY <2>1, <2>2
<1>10. Blamed'
  BY <1>5 DEF Blamed, CommandEnds
<1>11. InStep'
  <2>1. CASE call.fn \in Transfers
    BY <1>1, <2>1, WhoRuns DEF InStep
  <2>2. CASE call.fn \notin Transfers
    <3>1. After(call.k)'
      BY <1>1, <1>2, <1>5, <1>7, <2>2, AnswerInStep
    <3>2. call'.pc = "command" /\ host'.command.cmd = "none" /\ UNCHANGED call
      BY <1>1, <1>5, OnItsWay DEF CommandEnds, NoCommand
    <3> QED
      BY <3>1, <3>2 DEF InStep, After
  <2> QED
    BY <2>1, <2>2
<1>12. call.fn \in Transfers => engine'.moved = 0
  BY <1>6
<1> QED
  BY <1>1, <1>5, <1>8, <1>9, <1>10, <1>11, <1>12, EndsStep

\* Sectors fill frames without a rest: the end of a frame is the end of a sector.
LEMMA WithinFrame ==
  ASSUME NEW S \in Nat \ {0}, NEW P \in Nat \ {0}, P % S = 0,
         NEW n \in Nat, NEW k \in Nat, k * P <= n * S, n * S < (k + 1) * P
  PROVE  (n + 1) * S <= (k + 1) * P
<1>1. PICK c \in Nat : P = c * S
  <2>1. P \div S \in Nat /\ P = (P \div S) * S + 0
    BY Halves
  <2>2. P = (P \div S) * S
    BY <2>1
  <2> QED
    BY <2>1, <2>2
<1>2. PICK e \in Nat : e = (k + 1) * c
  OBVIOUS
<1>3. (k + 1) * P = e * S
  <2>1. (k + 1) * (c * S) = ((k + 1) * c) * S
    OBVIOUS
  <2> QED
    BY <1>1, <1>2, <2>1
<1>4. n < e
  <2> SUFFICES ASSUME e <= n PROVE FALSE
    OBVIOUS
  <2>1. e * S <= n * S
    BY ProductOrder
  <2>2. e * S \in Nat /\ n * S \in Nat
    OBVIOUS
  <2> QED
    BY <1>3, <2>1, <2>2
<1>5. n + 1 \in Nat /\ n + 1 <= e
  BY <1>4
<1> QED
  BY <1>3, <1>5, ProductOrder

LEMMA FrameStep ==
  ASSUME NEW k \in Nat \ {0}, NEW pages \in Seq(Nat), NEW n \in Nat, NEW a,
         InFrame(k, pages, n, a), pages[k] % PAGE = 0
  PROVE  /\ a \in Nat
         /\ IF (a + SECTOR) % PAGE = 0 THEN k * PAGE = (n + 1) * SECTOR
            ELSE InFrame(k, pages, n + 1, a + SECTOR)
<1>1. SECTOR \in Nat \ {0} /\ PAGE \in Nat \ {0} /\ PAGE % SECTOR = 0
  BY SdAssumption
<1>2. PICK j \in Nat : k = j + 1 /\ j = k - 1
  <2>1. k - 1 \in Nat /\ k = (k - 1) + 1
    OBVIOUS
  <2> QED
    BY <2>1
<1>3. PICK p \in Nat : p = pages[k] /\ p % PAGE = 0
  <2>1. k \in 1..Len(pages)
    BY DEF InFrame
  <2> QED
    BY <2>1
<1>4. PICK x \in Nat, y \in Nat, z \in Nat, w \in Nat :
        /\ x = n * SECTOR /\ y = j * PAGE /\ z = k * PAGE /\ w = (n + 1) * SECTOR
        /\ z = y + PAGE /\ w = x + SECTOR
  <2>1. \A s \in Nat, q \in Nat :
          /\ n * s \in Nat /\ j * q \in Nat /\ (j + 1) * q \in Nat /\ (n + 1) * s \in Nat
          /\ (j + 1) * q = j * q + q /\ (n + 1) * s = n * s + s
    OBVIOUS
  <2> QED
    BY <1>1, <1>2, <2>1
<1>5. y <= x /\ x < z /\ a = p + (x - y) /\ k <= Len(pages)
  BY <1>2, <1>3, <1>4 DEF InFrame
<1>6. w <= z
  <2>1. j * PAGE <= n * SECTOR /\ n * SECTOR < (j + 1) * PAGE
    BY <1>2, <1>4, <1>5
  <2>2. (n + 1) * SECTOR <= (j + 1) * PAGE
    BY <1>1, <2>1, WithinFrame
  <2> QED
    BY <1>2, <1>4, <2>2
<1>7. a \in Nat /\ a + SECTOR = p + (w - y)
  BY <1>1, <1>4, <1>5
<1>8. PICK q \in Nat : p = PAGE * q
  <2>1. p = (p \div PAGE) * PAGE + 0 /\ p \div PAGE \in Nat
    BY <1>1, <1>3, Halves
  <2>2. p = PAGE * (p \div PAGE)
    BY <1>1, <2>1
  <2> QED
    BY <2>1, <2>2
<1>9. ASSUME w < z
      PROVE  (a + SECTOR) % PAGE # 0
  <2>1. PICK v \in 0..PAGE - 1 : v = w - y /\ v # 0
    BY <1>1, <1>4, <1>5, <1>9
  <2>2. a + SECTOR = v + PAGE * q
    BY <1>1, <1>4, <1>7, <1>8, <2>1
  <2>3. (v + PAGE * q) % PAGE = v
    <3>1. q \in Int
      OBVIOUS
    <3> QED
      BY <1>1, <2>1, <3>1, ModShifted, Zenon
  <2> QED
    BY <2>1, <2>2, <2>3
<1>10. CASE (a + SECTOR) % PAGE = 0
  BY <1>4, <1>6, <1>7, <1>9, <1>10
<1>11. CASE (a + SECTOR) % PAGE # 0
  <2>1. w # z
    <3> SUFFICES ASSUME w = z PROVE FALSE
      OBVIOUS
    <3>1. a + SECTOR = PAGE * q + PAGE
      BY <1>1, <1>4, <1>7, <1>8
    <3>2. PAGE * q + PAGE = 0 + PAGE * (q + 1)
      BY <1>1
    <3>3. 0 \in 0..PAGE - 1 /\ q + 1 \in Int
      BY <1>1
    <3>4. (0 + PAGE * (q + 1)) % PAGE = 0
      BY <1>1, <3>3, ModShifted
    <3> QED
      BY <1>11, <3>1, <3>2, <3>4
  <2>2. y <= w /\ w < z
    BY <1>1, <1>4, <1>5, <1>6, <2>1
  <2>3. InFrame(k, pages, n + 1, a + SECTOR)
    BY <1>2, <1>3, <1>4, <1>5, <1>7, <2>2 DEF InFrame
  <2> QED
    BY <1>7, <1>11, <2>3
<1> QED
  BY <1>10, <1>11

\* What a block changes, by whether it is the last one or ends a page.
LEMMA BlockFacts ==
  ASSUME SdInv, Block, NEW last \in BOOLEAN, NEW boundary \in BOOLEAN,
         last <=> engine.left = 1,
         boundary <=> (host.addr + SECTOR) % PAGE = 0 /\ ~last
  PROVE  /\ call.fn \in Transfers /\ Active /\ ~Standing /\ host.command.cmd = "none"
         /\ engine.dir = Direction /\ engine.moved < call.count
         /\ UNCHANGED <<call, faults>>
         /\ host' = [host EXCEPT
                      !.status = @ \cup (IF last THEN {"TC"} ELSE IF boundary THEN {"DMA"} ELSE {}),
                      !.addr = @ + SECTOR, !.inhibit = IF last THEN {} ELSE @]
         /\ engine' = [dir |-> IF last THEN "none" ELSE engine.dir,
                       block |-> IF last THEN 0 ELSE engine.block + 1,
                       left |-> engine.left - 1, run |-> ~last /\ ~boundary,
                       moved |-> engine.moved + 1]
         /\ card' = [card EXCEPT !.state = IF last THEN "tran" ELSE @]
<1> USE SdParts
<1>1. engine.run /\ engine.dir # "none"
  BY DEF Block, Engaged
<1>2. /\ call.fn \in Transfers /\ Active /\ ~Standing /\ host.command.cmd = "none"
      /\ engine.dir = Direction /\ engine.left > 0 /\ engine.moved + engine.left = call.count
  BY <1>1 DEF Engaged
<1>3. engine.moved < call.count
  BY <1>2 DEF Registered
<1>4. host.enabled = Status
  BY <1>2, WhoRuns DEF SetUp, Powered
<1> DEFINE bits == IF last THEN {"TC"} ELSE IF boundary THEN {"DMA"} ELSE {}
<1>5. bits \subseteq Status
  BY DEF Status
<1>6. UNCHANGED <<call, faults>>
  BY DEF Block, Environment
<1>7. /\ host' = [Raise(bits) EXCEPT !.addr = host.addr + SECTOR,
                                     !.inhibit = IF last THEN {} ELSE @]
      /\ engine' = [dir |-> IF last THEN "none" ELSE engine.dir,
                    block |-> IF last THEN 0 ELSE engine.block + 1,
                    left |-> engine.left - 1, run |-> ~last /\ ~boundary,
                    moved |-> engine.moved + 1]
      /\ card' = [card EXCEPT !.state = IF last THEN "tran" ELSE @]
  <2>1. CASE last
    BY <2>1 DEF Block
  <2>2. CASE ~last /\ boundary
    BY <2>2 DEF Block
  <2>3. CASE ~last /\ ~boundary
    BY <2>3 DEF Block
  <2> QED
    BY <2>1, <2>2, <2>3
<1> HIDE DEF bits
<1>8. Raise(bits) = [host EXCEPT !.status = @ \cup bits]
  BY <1>4, <1>5 DEF Raise
<1>9. host' = [host EXCEPT !.status = @ \cup bits, !.addr = @ + SECTOR,
                           !.inhibit = IF last THEN {} ELSE @]
  BY <1>7, <1>8 DEF Registered
<1> QED
  BY <1>2, <1>3, <1>6, <1>7, <1>9 DEF bits

LEMMA BlockStep ==
  ASSUME SdInv, Block, UNCHANGED at
  PROVE  SdInv'
<1> USE SdParts
<1>1. PICK last \in BOOLEAN, boundary \in BOOLEAN :
        /\ last <=> engine.left = 1
        /\ boundary <=> (host.addr + SECTOR) % PAGE = 0 /\ ~last
  OBVIOUS
<1>2. /\ call.fn \in Transfers /\ Active /\ ~Standing /\ host.command.cmd = "none"
      /\ engine.dir = Direction /\ engine.moved < call.count
      /\ UNCHANGED <<call, faults>>
  BY <1>1, BlockFacts
<1>3. /\ host' = [host EXCEPT
                   !.status = @ \cup (IF last THEN {"TC"} ELSE IF boundary THEN {"DMA"} ELSE {}),
                   !.addr = @ + SECTOR, !.inhibit = IF last THEN {} ELSE @]
      /\ engine' = [dir |-> IF last THEN "none" ELSE engine.dir,
                    block |-> IF last THEN 0 ELSE engine.block + 1,
                    left |-> engine.left - 1, run |-> ~last /\ ~boundary,
                    moved |-> engine.moved + 1]
      /\ card' = [card EXCEPT !.state = IF last THEN "tran" ELSE @]
  BY <1>1, BlockFacts
<1>4. /\ engine.left \in Nat \ {0} /\ engine.moved \in Nat /\ call.count \in Nat
      /\ engine.moved + engine.left = call.count
      /\ engine.block = FirstBlock(call.offset) + engine.moved /\ engine.block \in Nat
      /\ host.status \cap {"ERR", "TC"} = {} /\ (Looked => "TC" \notin call.seen)
      /\ engine.dir # "none" /\ host.addr \in Nat /\ SECTOR \in Nat \ {0}
  BY <1>2, SdAssumption DEF Engaged, Registered, Direction
<1>5. /\ engine'.left = engine.left - 1 /\ engine'.moved = engine.moved + 1
      /\ engine'.dir = (IF last THEN "none" ELSE engine.dir)
      /\ engine'.block = (IF last THEN 0 ELSE engine.block + 1)
      /\ (engine'.run <=> ~last /\ ~boundary)
  BY <1>3
<1>6. SameHost /\ host'.command = host.command /\ host'.addr = host.addr + SECTOR
      /\ host'.status = host.status \cup (IF last THEN {"TC"} ELSE IF boundary THEN {"DMA"} ELSE {})
  BY <1>3 DEF SameHost, Registered
<1>7. Registered'
  <2>1. engine' \in [dir : Dir, block : Nat, left : Nat, run : BOOLEAN, moved : Nat]
    <3>1. /\ engine.left - 1 \in Nat /\ engine.moved + 1 \in Nat
          /\ (IF last THEN 0 ELSE engine.block + 1) \in Nat
          /\ (~last /\ ~boundary) \in BOOLEAN
      BY <1>4
    <3>2. (IF last THEN "none" ELSE engine.dir) \in Dir
      BY DEF Registered, Dir
    <3> QED
      BY <1>3, <3>1, <3>2, Zenon
  <2>2. host' \in [clock : Clock, sd_clock : BOOLEAN, power : BOOLEAN,
                 enabled : SUBSET Status, inhibit : SUBSET Inhibit, status : SUBSET Status,
                 command : [cmd : Commands \cup {"none"}, resp : Resp, arg : Nat, mode : Dir],
                 resp0 : Resp0, addr : Nat, count : Nat, resetting : BOOLEAN]
    <3>1. host.status \cup (IF last THEN {"TC"} ELSE IF boundary THEN {"DMA"} ELSE {})
            \in SUBSET Status
      BY DEF Registered, Status
    <3>2. host.addr + SECTOR \in Nat
      BY <1>4
    <3>3. (IF last THEN {} ELSE host.inhibit) \in SUBSET Inhibit
      BY DEF Registered
    <3>4. PICK s \in SUBSET Status, a \in Nat, e \in SUBSET Inhibit :
            host' = [host EXCEPT !.status = s, !.addr = a, !.inhibit = e]
      BY <1>3, <3>1, <3>2, <3>3
    <3> QED
      BY <3>4 DEF Registered
  <2>3. card' \in [state : CardState, app : BOOLEAN, busy : 0..BusyBound, inserted : BOOLEAN]
    <3>1. "tran" \in CardState
      BY DEF CardState
    <3> QED
      BY <1>3, <3>1 DEF Registered
  <2> QED
    BY <1>2, <2>1, <2>2, <2>3 DEF Registered
<1>8. SetUp' /\ Commanded'
  BY <1>2, <1>6 DEF SetUp, Powered, Commanded, SameHost
<1>9. Places'
  <2>1. call.pc # "restart"
    BY <1>2 DEF Standing
  <2> QED
    BY <1>2, <1>6, <2>1, WhoRuns DEF Places
<1>10. Standing' <=> boundary
  <2>1. call.pc # "restart" /\ "DMA" \notin host.status /\ Active'
    BY <1>2 DEF Standing, Active
  <2> QED
    BY <1>1, <1>2, <1>6, <2>1 DEF Standing
<1>11. Active' /\ (Looked' <=> Looked) /\ Direction' = Direction
  BY <1>2 DEF Active, Looked, Direction
<1>12. Engaged'
  <2>1. CASE last
    <3>1. engine'.left = 0
      BY <1>1, <1>5, <2>1
    <3> QED
      BY <1>5, <2>1, <3>1 DEF Engaged
  <2>2. CASE ~last
    <3>1. engine'.left > 0 /\ engine'.moved + engine'.left = call.count
          /\ engine'.block = FirstBlock(call.offset) + engine'.moved
      <4>1. engine.left > 1
        BY <1>1, <1>4, <2>2
      <4>2. PICK b \in Int : b = FirstBlock(call.offset)
        <5>1. call.offset \in Nat
          BY DEF Registered
        <5> QED
          BY <1>4, <5>1, SdAssumption, Halves DEF FirstBlock
      <4> QED
        BY <1>4, <1>5, <2>2, <4>1, <4>2
    <3>2. host'.status \cap {"ERR", "TC"} = {}
      BY <1>4, <1>6, <2>2
    <3> QED
      BY <1>2, <1>4, <1>5, <1>6, <1>10, <1>11, <2>2, <3>1, <3>2 DEF Engaged
  <2> QED
    BY <2>1, <2>2
<1>13. Counted'
  <2>1. engine'.moved <= call.count /\ (last => engine'.moved = call.count)
        /\ (~last => engine'.moved < call.count)
    BY <1>1, <1>4, <1>5
  <2>2. "TC" \in host'.status => last
    BY <1>4, <1>6
  <2> QED
    BY <1>1, <1>2, <1>4, <1>6, <1>10, <1>11, <2>1, <2>2 DEF Counted
<1>14. Blamed'
  BY <1>4, <1>6 DEF Blamed
<1>15. Addressed'
  <2>1. CASE call.fn # "sd_dma_spin_load"
    <3>1. host.addr = call.pa + engine.moved * SECTOR /\ call.pa \in Nat
      BY <1>2, <2>1 DEF Addressed, Active, Registered
    <3>2. (engine.moved + 1) * SECTOR = engine.moved * SECTOR + SECTOR
          /\ engine.moved * SECTOR \in Nat
      BY <1>4
    <3>3. host'.addr = call.pa + engine'.moved * SECTOR
      BY <1>4, <1>5, <1>6, <3>1, <3>2
    <3> QED
      BY <1>2, <2>1, <3>3 DEF Addressed
  <2>2. CASE call.fn = "sd_dma_spin_load"
    <3>1. InFrame(call.k, call.pages, engine.moved, host.addr)
      BY <1>2, <2>2 DEF Addressed, Active
    <3>2. call.k \in Nat \ {0} /\ call.pages \in Seq(Nat) /\ call.k <= Len(call.pages)
      BY <3>1 DEF Registered, InFrame
    <3>3. call.pages[call.k] % PAGE = 0
      <4>1. call.k \in 1..Len(call.pages)
        BY <3>2
      <4> QED
        BY <1>2, <2>2, <4>1 DEF Places, GoodTransfer
    <3>4. IF (host.addr + SECTOR) % PAGE = 0 THEN call.k * PAGE = (engine.moved + 1) * SECTOR
          ELSE InFrame(call.k, call.pages, engine.moved + 1, host.addr + SECTOR)
      BY <1>4, <3>1, <3>2, <3>3, FrameStep
    <3>5. CASE boundary
      <4>1. call.k * PAGE = engine'.moved * SECTOR /\ host'.addr % PAGE = 0
        BY <1>1, <1>5, <1>6, <3>4, <3>5
      <4> QED
        BY <1>2, <1>10, <2>2, <3>5, <4>1 DEF Addressed
    <3>6. CASE ~boundary /\ ~last
      <4>1. InFrame(call.k, call.pages, engine'.moved, host'.addr)
        BY <1>1, <1>5, <1>6, <3>4, <3>6
      <4> QED
        BY <1>2, <1>10, <2>2, <3>6, <4>1 DEF Addressed
    <3>7. CASE last
      <4>1. ~(engine'.moved < call.count)
        BY <1>1, <1>4, <1>5, <3>7
      <4> QED
        BY <1>1, <1>2, <1>10, <2>2, <3>7, <4>1 DEF Addressed
    <3> QED
      BY <3>5, <3>6, <3>7
  <2> QED
    BY <2>1, <2>2
<1>16. InStep'
  BY <1>2, WhoRuns DEF InStep
<1> QED
  BY <1>7, <1>8, <1>9, <1>12, <1>13, <1>14, <1>15, <1>16, PTL

LEMMA LossStep ==
  ASSUME SdInv, NoData \/ DataFault, UNCHANGED at
  PROVE  SdInv'
<1> USE SdParts
<1>1. /\ engine.dir # "none" /\ UNCHANGED call
      /\ engine' = [Stopped EXCEPT !.moved = engine.moved]
      /\ \E stuck \in SUBSET host.inhibit : host' = [Raise({"ERR"}) EXCEPT !.inhibit = stuck]
      /\ \E s \in {"tran", "data"} : card' = [card EXCEPT !.state = s]
      /\ (~card.inserted /\ UNCHANGED faults) \/ OneFault
  BY DEF NoData, DataFault, DataLost, Environment
<1>2. call.fn \in Transfers /\ Active /\ host.command.cmd = "none"
  BY <1>1 DEF Engaged
<1>3. host.enabled = Status /\ "ERR" \in Status
  BY <1>2, WhoRuns DEF SetUp, Powered, Status
<1>4. PICK stuck \in SUBSET host.inhibit :
        host' = [host EXCEPT !.status = @ \cup {"ERR"}, !.inhibit = stuck]
  <2>1. Raise({"ERR"}) = [host EXCEPT !.status = @ \cup {"ERR"}]
    BY <1>3 DEF Raise
  <2> QED
    BY <1>1, <2>1 DEF Registered
<1>5. PICK s \in CardState : card' = [card EXCEPT !.state = s]
  BY <1>1 DEF CardState
<1>6. SameHost /\ host'.command = host.command /\ host'.addr = host.addr
      /\ host'.status = host.status \cup {"ERR"}
  BY <1>4 DEF SameHost, Registered
<1>7. engine'.dir = "none" /\ engine'.left = 0 /\ ~engine'.run /\ engine'.moved = engine.moved
      /\ engine' = [dir |-> "none", block |-> 0, left |-> 0, run |-> FALSE, moved |-> engine.moved]
  BY <1>1 DEF Stopped
<1>8. Registered'
  <2>1. engine' \in [dir : Dir, block : Nat, left : Nat, run : BOOLEAN, moved : Nat]
    <3>1. "none" \in Dir /\ engine.moved \in Nat
      BY DEF Dir, Registered
    <3>2. \A m \in Nat :
            [dir |-> "none", block |-> 0, left |-> 0, run |-> FALSE, moved |-> m]
              \in [dir : Dir, block : Nat, left : Nat, run : BOOLEAN, moved : Nat]
      <4>1. 0 \in Nat
        OBVIOUS
      <4> QED
        BY <3>1, <4>1, Zenon
    <3> QED
      BY <1>7, <3>1, <3>2, Zenon
  <2>2. host' \in [clock : Clock, sd_clock : BOOLEAN, power : BOOLEAN,
                 enabled : SUBSET Status, inhibit : SUBSET Inhibit, status : SUBSET Status,
                 command : [cmd : Commands \cup {"none"}, resp : Resp, arg : Nat, mode : Dir],
                 resp0 : Resp0, addr : Nat, count : Nat, resetting : BOOLEAN]
    BY <1>3, <1>4 DEF Registered
  <2>3. card' \in [state : CardState, app : BOOLEAN, busy : 0..BusyBound, inserted : BOOLEAN]
    BY <1>5 DEF Registered
  <2>4. faults' \in [n : Nat, hit : BOOLEAN]
    BY <1>1, FaultFacts DEF Registered
  <2> QED
    BY <1>1, <2>1, <2>2, <2>3, <2>4 DEF Registered
<1>9. SetUp' /\ Commanded' /\ Engaged'
  BY <1>1, <1>2, <1>6, <1>7 DEF SetUp, Powered, Commanded, Engaged, SameHost
<1>10. Places'
  BY <1>1, <1>2, <1>6, WhoRuns DEF Places
<1>11. (Standing' <=> Standing) /\ Active'
  BY <1>1, <1>2, <1>6 DEF Standing, Active
<1>12. Counted'
  BY <1>1, <1>2, <1>6, <1>7, <1>11 DEF Counted, Looked
<1>13. Addressed'
  BY <1>1, <1>6, <1>7, <1>11 DEF Addressed
<1>14. Blamed'
  <2>1. faults'.hit \/ ~card'.inserted
    <3>1. card'.inserted = card.inserted
      BY <1>5 DEF Registered
    <3> QED
      BY <1>1, <3>1, FaultFacts
  <2> QED
    BY <2>1 DEF Blamed
<1>15. InStep'
  BY <1>1, <1>2, WhoRuns DEF InStep
<1> QED
  BY <1>8, <1>9, <1>10, <1>12, <1>13, <1>14, <1>15, PTL

-----------------------------------------------------------------------------
(* Calls, and the whole.                                                   *)

\* The arguments of a call: of a transfer, or of another function.
Asked(fn, pa, count, offset, pages) ==
    /\ fn \in Fn \ {"none"} /\ pa \in Nat /\ count \in Nat /\ offset \in Nat /\ pages \in Seq(Nat)
    /\ fn \in Transfers =>
         /\ count > 0
         /\ fn = "sd_dma_spin_load" =>
              /\ \A e \in 1..Len(pages) : pages[e] % PAGE = 0
              /\ count * SECTOR <= Len(pages) * PAGE

LEMMA CallStep ==
  ASSUME SdInv, NEW fn, NEW pa, NEW count, NEW offset, NEW pages,
         Asked(fn, pa, count, offset, pages), Call(fn, pa, count, offset, pages),
         at' \notin {"FW", "FW_SD"}, fn # "sd_init" => at \notin {"FW", "FW_SD"}
  PROVE  SdInv'
<1> USE SdParts
<1>1. /\ call.fn = "none"
      /\ call' = [NoCall EXCEPT !.fn = fn, !.pc = "enter", !.pa = pa, !.count = count,
                                !.offset = offset, !.pages = pages]
      /\ faults' = [faults EXCEPT !.hit = FALSE]
      /\ engine' = [engine EXCEPT !.moved = 0]
      /\ UNCHANGED <<host, card>>
  BY DEF Call, Idle
<1>2. /\ call'.fn = fn /\ call'.pc = "enter" /\ call'.k = 1 /\ call'.pa = pa
      /\ call'.count = count /\ call'.offset = offset /\ call'.pages = pages
  BY <1>1 DEF NoCall
<1>3. call.fn \notin Transfers /\ engine.dir = "none" /\ host.command.cmd = "none"
  BY <1>1, WhoRuns DEF Engaged, Commanded, Transfers
<1>4. engine'.dir = "none" /\ engine'.left = 0 /\ ~engine'.run /\ engine'.moved = 0
      /\ engine' \in [dir : Dir, block : Nat, left : Nat, run : BOOLEAN, moved : Nat]
  BY <1>1, <1>3 DEF Engaged, Registered
<1>5. Registered'
  <2>1. "enter" \in Pc
    BY DEF Pc
  <2>2. call' \in [fn : Fn, pc : Pc, k : Nat \ {0}, pa : Nat, count : Nat, offset : Nat,
                   pages : Seq(Nat), seen : SUBSET Status]
    BY <1>1, <2>1, NoCallFacts DEF Asked
  <2>3. faults' \in [n : Nat, hit : BOOLEAN]
    BY <1>1 DEF Registered
  <2> QED
    BY <1>1, <1>4, <2>2, <2>3 DEF Registered
<1>6. SetUp'
  BY <1>1, <1>2 DEF SetUp, Powered
<1>7. Places'
  <2>1. fn # "none" /\ 1 \in 1..Len(Step)
    BY StepFacts DEF Asked
  <2>2. GoodTransfer(call)' <=> /\ count > 0
                                /\ fn = "sd_dma_spin_load" =>
                                     /\ \A e \in 1..Len(pages) : pages[e] % PAGE = 0
                                     /\ count * SECTOR <= Len(pages) * PAGE
    BY <1>2 DEF GoodTransfer
  <2> QED
    BY <1>2, <2>1, <2>2 DEF Places, Asked
<1>8. Commanded' /\ Engaged'
  BY <1>1, <1>3, <1>4 DEF Commanded, Engaged
<1>9. ~Active' /\ ~Standing' /\ ~Looked'
  BY <1>2 DEF Active, Standing, Looked
<1>10. Counted' /\ Blamed' /\ Addressed'
  BY <1>2, <1>4, <1>9 DEF Counted, Blamed, Addressed, Asked
<1>11. InStep'
  BY <1>1, <1>2, <1>3 DEF InStep
<1> QED
  BY <1>5, <1>6, <1>7, <1>8, <1>10, <1>11, PTL

\* Sectors of a segment: at least one.
LEMMA SegmentAsked ==
  ASSUME NEW n \in 1..Len(Segment)
  PROVE  LET s == Segment[n] IN
         Asked("sd_dma_spin_read", s.paddr - Offset(s), EndId(s) - StartId(s),
               StartId(s) + ELF_ADDR, <<>>)
<1> DEFINE s == Segment[n]
<1>0. s \in [offset : Nat, paddr : Nat, filesz : Nat \ {0}] /\ s.paddr >= Offset(s)
  <2>1. Segment \in Seq([offset : Nat, paddr : Nat, filesz : Nat \ {0}])
        /\ \A m \in 1..Len(Segment) : Segment[m].paddr >= Offset(Segment[m])
    BY TransferAssumption
  <2>2. \A S : \A q \in Seq(S) : \A e \in 1..Len(q) : q[e] \in S
    OBVIOUS
  <2> QED
    BY <2>1, <2>2, Zenon
<1> HIDE DEF s
<1>1. s.offset \in Nat /\ s.paddr \in Nat /\ s.filesz \in Nat \ {0} /\ s.paddr >= Offset(s)
  BY <1>0
<1>2. SECTOR \in Nat \ {0} /\ ELF_ADDR \in Nat
  BY SdAssumption, BootAssumption
<1>3. PICK o \in Nat, e \in Nat : /\ o = s.offset /\ e = s.offset + s.filesz - 1 /\ o <= e
  BY <1>1
<1>4. PICK f \in Nat, g \in Nat : f = o \div SECTOR /\ g = e \div SECTOR /\ f <= g
  <2>1. o \div SECTOR \in Nat /\ e \div SECTOR \in Nat
    BY <1>2, Halves
  <2>2. o \div SECTOR <= e \div SECTOR
    BY <1>2, <1>3, UpperOrder
  <2> QED
    BY <2>1, <2>2
<1>5. EndId(s) - StartId(s) \in Nat \ {0} /\ StartId(s) + ELF_ADDR \in Nat
  <2>1. EndId(s) = g + 1 /\ StartId(s) = f
    BY <1>3, <1>4 DEF EndId, StartId
  <2> QED
    BY <1>2, <1>4, <2>1
<1>6. Offset(s) \in Nat
  <2>1. s.offset % SECTOR \in Nat
    <3>1. o % SECTOR \in 0..SECTOR - 1
      BY <1>2, Halves
    <3> QED
      BY <1>2, <1>3, <3>1
  <2>2. PICK h \in Nat \ {0} : h = SECTOR \div 2
    BY <1>2, TransferAssumption
  <2>3. PICK x \in Nat : x = s.offset % SECTOR
    BY <2>1
  <2>4. x % h \in Nat
    BY Halves
  <2> QED
    BY <2>2, <2>3, <2>4 DEF Offset
<1>7. s.paddr - Offset(s) \in Nat
  BY <1>1, <1>6
<1>8. "sd_dma_spin_read" \in Fn \ {"none"} /\ "sd_dma_spin_read" # "sd_dma_spin_load"
      /\ <<>> \in Seq(Nat)
  BY DEF Fn
<1> QED
  BY <1>5, <1>7, <1>8 DEF Asked, s

\* The driver does nothing: the boot looks at memory, or a delay goes on.
LEMMA QuietStep ==
  ASSUME SdInv, UNCHANGED <<host, engine, card, call, faults>>,
         at' \notin {"FW", "FW_SD"} => at \notin {"FW", "FW_SD"},
         call.fn # "none" => at' \notin {"FW", "FW_SD"}
  PROVE  SdInv'
<1> USE SdParts
<1>1. Registered' /\ SetUp' /\ Places'
  BY DEF Registered, SetUp, Powered, Places
<1>2. Commanded' /\ Engaged' /\ Counted'
  BY DEF Commanded, CurrentCommand, Engaged, Counted, Active, Looked, Standing, Direction
<1>3. Addressed' /\ Blamed'
  BY DEF Addressed, Blamed, Active, Standing
<1>4. InStep'
  BY DEF InStep, Expected, After
<1> QED
  BY <1>1, <1>2, <1>3, <1>4, PTL

LEMMA BootSdInv ==
  ASSUME SdInv, TypeAt, BootStep \/ Kernel
  PROVE  SdInv'
<1> USE SdParts
<1>1. CASE FwSleep \/ FwSpin \/ MbrLost \/ MbrEnter \/ KinitSleep
  <2>1. /\ UNCHANGED <<host, engine, card, call, faults>>
        /\ at' \notin {"FW", "FW_SD"} => at \notin {"FW", "FW_SD"}
    BY <1>1 DEF FwSleep, FwSpin, MbrLost, MbrEnter, KinitSleep, Others, Go, sd_vars
  <2>2. call.fn # "none" => at' \notin {"FW", "FW_SD"}
    BY <1>1 DEF SetUp, FwSleep, FwSpin, MbrLost, MbrEnter, KinitSleep, Go
  <2> QED
    BY <2>1, <2>2, QuietStep
<1>2. 0 \in Nat /\ 1 \in Nat /\ 2 \in Nat /\ 3 \in Nat /\ <<>> \in Seq(Nat)
      /\ "sd_init" \in Fn \ {"none"} /\ "sd_spin_init_mem_card" \in Fn \ {"none"}
      /\ "sd_dma_spin_read" \in Fn \ {"none"} /\ "sd_dma_spin_read" # "sd_dma_spin_load"
      /\ "sd_init" \notin Transfers /\ "sd_spin_init_mem_card" \notin Transfers
      /\ "sd_dma_spin_read" # "sd_init"
      /\ "sd_spin_init_mem_card" # "sd_init"
  BY DEF Fn, Transfers
<1>3. MBR \in Nat /\ MBR_BUFFER \in Nat /\ BUFFER \in Nat /\ ELF_ADDR \in Nat
  <2>1. {MBR, MBR_BUFFER, BUFFER} \subseteq Memory /\ Memory \subseteq Nat
    BY SdAssumption, BootAssumption, Zenon
  <2>2. ELF_ADDR \in Nat
    BY SdAssumption, BootAssumption
  <2> QED
    BY <2>1, <2>2
<1>4. CASE FwInit \/ KinitSd
  <2>1. Call("sd_init", 0, 0, 0, <<>>) /\ at' \notin {"FW", "FW_SD"}
    BY <1>4 DEF FwInit, KinitSd, Simple, Go
  <2>2. Asked("sd_init", 0, 0, 0, <<>>)
    BY <1>2 DEF Asked
  <2> QED
    BY <2>1, <2>2, CallStep
<1>5. CASE FwCard \/ KinitCard
  <2>1. /\ Call("sd_spin_init_mem_card", 0, 0, 0, <<>>)
        /\ at' \notin {"FW", "FW_SD"} /\ at \notin {"FW", "FW_SD"}
    BY <1>5 DEF FwCard, KinitCard, Simple, Go
  <2>2. Asked("sd_spin_init_mem_card", 0, 0, 0, <<>>)
    BY <1>2 DEF Asked
  <2> QED
    BY <2>1, <2>2, CallStep
<1>6. CASE FwRead \/ MbrRead \/ MbrElf
  <2>1. PICK p \in Nat, c \in Nat \ {0}, o \in Nat :
          /\ Call("sd_dma_spin_read", p, c, o, <<>>)
          /\ at' \notin {"FW", "FW_SD"} /\ at \notin {"FW", "FW_SD"}
    BY <1>3, <1>6 DEF FwRead, MbrRead, MbrElf, Read, Go
  <2>2. Asked("sd_dma_spin_read", p, c, o, <<>>)
    BY <1>2 DEF Asked
  <2> QED
    BY <2>1, <2>2, CallStep
<1>7. CASE MbrHeader
  <2>1. PICK o : /\ Call("sd_dma_spin_read", BUFFER, 2, o, <<>>) /\ o = ELF_ADDR + (Phoff \div SECTOR)
                 /\ at' \notin {"FW", "FW_SD"} /\ at \notin {"FW", "FW_SD"}
    BY <1>7 DEF MbrHeader, Read, Go
  <2>2. o \in Nat
    <3>1. PICK x \in Nat : x = Phoff
      <4>1. PHOFF \in Nat /\ PHENTSIZE \in Nat /\ seg \in Nat
        BY BootAssumption DEF TypeAt
      <4> QED
        BY <4>1 DEF Phoff
    <3>2. x \div SECTOR \in Nat
      BY SdAssumption, Halves
    <3> QED
      BY <1>3, <2>1, <3>1, <3>2
  <2>3. Asked("sd_dma_spin_read", BUFFER, 2, o, <<>>)
    BY <1>2, <1>3, <2>2 DEF Asked
  <2> QED
    BY <2>1, <2>3, CallStep
<1>8. CASE MbrSegment
  <2>1. PICK n \in 1..Len(Segment) :
          Call("sd_dma_spin_read", Segment[n].paddr - Offset(Segment[n]),
               EndId(Segment[n]) - StartId(Segment[n]), StartId(Segment[n]) + ELF_ADDR, <<>>)
    BY <1>8 DEF MbrSegment, Read, TypeAt
  <2>2. Asked("sd_dma_spin_read", Segment[n].paddr - Offset(Segment[n]),
               EndId(Segment[n]) - StartId(Segment[n]), StartId(Segment[n]) + ELF_ADDR, <<>>)
    BY SegmentAsked
  <2>3. at' \notin {"FW", "FW_SD"} /\ at \notin {"FW", "FW_SD"}
    BY <1>8 DEF MbrSegment, Go
  <2> QED
    BY <2>1, <2>2, <2>3, CallStep
<1>9. CASE Kernel
  <2>1. PICK c \in KernelCalls : Call(c.fn, c.pa, c.count, c.offset, c.pages)
    BY <1>9 DEF Kernel
  <2>2. Asked(c.fn, c.pa, c.count, c.offset, c.pages)
    <3>1. c.fn \in Fn \ {"none"} /\ c.fn \in Transfers
      BY TransferAssumption DEF Fn, Transfers
    <3> QED
      BY <3>1, TransferAssumption DEF Asked
  <2>3. at' \notin {"FW", "FW_SD"} /\ at \notin {"FW", "FW_SD"}
    BY <1>9 DEF Kernel, Go
  <2> QED
    BY <2>1, <2>2, <2>3, CallStep
<1> QED
  BY <1>1, <1>4, <1>5, <1>6, <1>7, <1>8, <1>9 DEF BootStep

LEMMA SdStepInv ==
  ASSUME SdInv, SdNext, UNCHANGED at
  PROVE  SdInv'
<1>1. CASE SdStep
  BY <1>1, InitStep, ResultStep, EnterStep, SendStep, CommandCompleteStep, ResponseStep, PollStep,
     AckStep, RestartStep, DoneStep DEF SdStep
<1>2. CASE SdEnvironment
  <2>1. CASE GtcNext /\ UNCHANGED <<host, engine, card, memory, disk, call, ret, faults>>
    BY <2>1, QuietStep, SdParts DEF SetUp
  <2> QED
    BY <1>2, <2>1, ClockStep, AnswerStep, LostStep, EchoStep, BlockStep, LossStep, RemoveStep
       DEF SdEnvironment
<1> QED
  BY <1>1, <1>2 DEF SdNext

\* Where the boot is.
LEMMA AtInv ==
  ASSUME TypeAt, [Next]_vars
  PROVE  TypeAt'
<1>1. CASE BootStep
  <2>1. Len(Segment) \in Nat
    BY TransferAssumption
  <2> QED
    BY <1>1, <2>1 DEF BootStep, FwSleep, FwInit, FwCard, FwRead, FwSpin, MbrRead, MbrElf, MbrHeader,
       MbrSegment, MbrLost, MbrEnter, KinitSleep, KinitSd, KinitCard, Go, TypeAt
<1>2. CASE Kernel
  BY <1>2 DEF Kernel, Go, TypeAt
<1>3. CASE UNCHANGED <<at, seg>>
  BY <1>3 DEF TypeAt
<1> QED
  BY <1>1, <1>2, <1>3 DEF Next, vars

LEMMA InitSd == Init => SdInv /\ TypeAt
<1> SUFFICES ASSUME Init PROVE SdInv /\ TypeAt
  OBVIOUS
<1>1. /\ host = Reset /\ engine = Stopped /\ call = NoCall
      /\ card \in [state : {"idle"}, app : {FALSE}, busy : {0}, inserted : BOOLEAN]
      /\ faults = [n |-> 0, hit |-> FALSE] /\ at = "FW" /\ seg = 0
  BY DEF Init, SdInit
<1>2. /\ "idle" \in CardState /\ "none" \in Dir /\ "NONE" \in Resp /\ "none" \in Resp0
      /\ "off" \in Clock /\ 0 \in Nat /\ 0 \in 0..BusyBound
  BY SdAssumption DEF CardState, Dir, Resp, Resp0, Clock
<1>3. host \in [clock : Clock, sd_clock : BOOLEAN, power : BOOLEAN,
                 enabled : SUBSET Status, inhibit : SUBSET Inhibit, status : SUBSET Status,
                 command : [cmd : Commands \cup {"none"}, resp : Resp, arg : Nat, mode : Dir],
                 resp0 : Resp0, addr : Nat, count : Nat, resetting : BOOLEAN]
      /\ host.command.cmd = "none"
  BY <1>1, <1>2 DEF Reset, NoCommand
<1>4. engine \in [dir : Dir, block : Nat, left : Nat, run : BOOLEAN, moved : Nat]
      /\ engine.dir = "none" /\ engine.left = 0 /\ ~engine.run
  BY <1>1, <1>2 DEF Stopped
<1>5. faults \in [n : Nat, hit : BOOLEAN]
  <2>1. [n |-> 0, hit |-> FALSE] \in [n : Nat, hit : BOOLEAN]
    BY <1>2, Zenon
  <2> QED
    BY <1>1, <2>1
<1>6. Registered
  BY <1>1, <1>2, <1>3, <1>4, <1>5, NoCallFacts DEF Registered
<1>7. call.fn = "none" /\ call.pc = "idle" /\ call.fn \notin Transfers
  BY <1>1, NoCallFacts DEF Transfers
<1>8. SetUp /\ Places /\ Commanded /\ Engaged
  BY <1>1, <1>3, <1>4, <1>7 DEF SetUp, Places, Commanded, Engaged
<1>9. Counted /\ Addressed /\ Blamed /\ InStep
  BY <1>7 DEF Counted, Addressed, Blamed, InStep
<1> QED
  BY <1>1, <1>6, <1>8, <1>9, SdParts DEF TypeAt

\* The driver, the controller and the card agree at every step, for transfers
\* of any length, sectors and pages of any size and any faults.
THEOREM SdInvariance == Spec => [](SdInv /\ TypeAt)
<1>1. SdInv /\ TypeAt /\ [Next]_vars => (SdInv /\ TypeAt)'
  <2> SUFFICES ASSUME SdInv, TypeAt, [Next]_vars PROVE SdInv' /\ TypeAt'
    BY PTL
  <2>1. CASE UNCHANGED vars
    BY <2>1, QuietStep, AtInv, SdParts DEF vars, sd_vars, SetUp
  <2> QED
    BY <2>1, BootSdInv, SdStepInv, AtInv DEF Next
<1> QED
  BY <1>1, InitSd, PTL DEF Spec

\* A command is written only to a controller that is clocked and a powered card.
THEOREM CommandsAreClocked == Spec => []CommandsClocked
<1>1. SdInv => CommandsClocked
  BY SdParts DEF Commanded, SetUp, Powered, CommandsClocked
<1> QED
  BY <1>1, SdInvariance, PTL

-----------------------------------------------------------------------------
(* What functions return.                                                  *)

\* The controller and the card leave the function that runs alone.
LEMMA CallStays ==
  ASSUME SdEnvironment
  PROVE  UNCHANGED <<call, ret>>
<1>1. CASE GtcNext /\ UNCHANGED <<host, engine, card, memory, disk, call, ret, faults>>
  BY <1>1
<1>2. CASE Answer
  BY <1>2 DEF Answer, Environment
<1>3. CASE BadEcho \/ NoAnswer \/ CommandFault
  BY <1>3 DEF BadEcho, NoAnswer, CommandFault, Environment
<1>4. CASE Block
  BY <1>4 DEF Block, Environment
<1>5. CASE DataLost
  BY <1>5 DEF DataLost, Environment
<1>6. CASE ResetDone \/ ClockDone \/ Remove
  BY <1>6 DEF ResetDone, ClockDone, Remove, Environment
<1> QED
  BY <1>1, <1>2, <1>3, <1>4, <1>5, <1>6 DEF SdEnvironment, NoData, DataFault

\* The steps of the driver that end a function, and the others.
LEMMA Ends ==
  ASSUME SdInv, SdStep
  PROVE  \/ call' = NoCall /\ (InitPower \/ NoCard \/ Refuse \/ CommandError \/ Response \/ Poll \/ Done)
         \/ /\ SameCall /\ UNCHANGED ret
            /\ call'.offset = call.offset \/ call.fn = "sd_spin_init_mem_card"
<1> USE SdParts
<1>0. call \in [fn : Fn, pc : Pc, k : Nat \ {0}, pa : Nat, count : Nat, offset : Nat,
                pages : Seq(Nat), seen : SUBSET Status]
  BY DEF Registered
<1>1. CASE NoCard \/ Refuse \/ CommandError \/ InitPower
  BY <1>1 DEF NoCard, Refuse, CommandError, InitPower, Return, CommandFailed
<1>2. CASE InitReset \/ InitClock \/ PowerUp \/ SetAddress \/ Send \/ CommandComplete \/ Ack
  <2>1. PICK p : call' = [call EXCEPT !.pc = p] /\ UNCHANGED ret
    BY <1>2 DEF InitReset, InitClock, PowerUp, SetAddress, Send, CommandComplete, Ack, Goto, Stay
  <2> QED
    BY <1>0, <2>1 DEF SameCall
<1>3. CASE Restart
  <2>1. PICK p, n : call' = [call EXCEPT !.pc = p, !.k = n] /\ UNCHANGED ret
    BY <1>3 DEF Restart, Stay
  <2> QED
    BY <1>0, <2>1 DEF SameCall
<1>4. CASE Poll
  <2>1. call' = NoCall \/ \E p, s : call' = [call EXCEPT !.seen = s, !.pc = p] /\ UNCHANGED ret
    BY <1>4 DEF Poll, Return
  <2>2. ASSUME NEW p, NEW s, call' = [call EXCEPT !.seen = s, !.pc = p]
        PROVE  SameCall /\ call'.offset = call.offset
    BY <1>0, <2>2 DEF SameCall
  <2> QED
    BY <1>4, <2>1, <2>2
<1>5. CASE Done
  <2>1. call' = NoCall \/ \E p : call' = [call EXCEPT !.pc = p] /\ UNCHANGED ret
    BY <1>5 DEF Done, Return, Goto
  <2>2. ASSUME NEW p, call' = [call EXCEPT !.pc = p]
        PROVE  SameCall /\ call'.offset = call.offset
    BY <1>0, <2>2 DEF SameCall
  <2> QED
    BY <1>5, <2>1, <2>2
<1>6. CASE Response
  <2>1. call' = NoCall \/ \E n, p, o : call' = [call EXCEPT !.k = n, !.pc = p, !.offset = o]
                                       /\ UNCHANGED ret
    BY <1>6 DEF Response, Return
  <2>2. ASSUME NEW n, NEW p, NEW o, call' = [call EXCEPT !.k = n, !.pc = p, !.offset = o]
        PROVE  SameCall
    BY <1>0, <2>2 DEF SameCall
  <2>3. call.fn = "sd_spin_init_mem_card"
    BY <1>6, WhoRuns DEF Response, At
  <2> QED
    BY <1>6, <2>1, <2>2, <2>3
<1> QED
  BY <1>1, <1>2, <1>3, <1>4, <1>5, <1>6 DEF SdStep

\* Results: a failure has a cause, and success of a transfer is all of it.
LEMMA Results ==
  ASSUME SdInv, call' = NoCall,
         InitPower \/ NoCard \/ Refuse \/ CommandError \/ Response \/ Poll \/ Done
  PROVE  /\ ret' \in -9..1
         /\ call.fn \in Transfers =>
              /\ ret' \in {0, -1, -2, -3}
              /\ ret' = 0 => engine.moved = call.count
         /\ ret' < 0 => \/ faults.hit \/ ~card.inserted \/ host.inhibit # {}
                        \/ call.fn \in Transfers /\ card.state # "tran"
<1> USE SdParts
<1>1. CASE InitPower
  <2>1. ret' = 0 /\ call.fn = "sd_init"
    BY <1>1, WhoRuns DEF InitPower, Return, At
  <2> QED
    BY <2>1, WhoRuns
<1>2. CASE NoCard
  BY <1>2 DEF NoCard, Return
<1>3. ASSUME CommandFailed, call.pc \in {"send", "command"}
      PROVE  ret' \in -9..-2 /\ (call.fn \in Transfers => ret' = -2)
  <2>1. CASE call.fn = "sd_spin_init_mem_card"
    <3>1. ret' = Code[call.k] /\ call.k \in 1..8
      BY <1>3, <2>1, StepFacts DEF CommandFailed, Return, Places
    <3>2. Code[call.k] \in -9..-2
      <4>1. call.k = 1 \/ call.k = 2 \/ call.k = 3 \/ call.k = 4 \/ call.k = 5 \/ call.k = 6
            \/ call.k = 7 \/ call.k = 8
        BY <3>1
      <4> QED
        BY <4>1 DEF Code
    <3> QED
      BY <2>1, <3>1, <3>2, WhoRuns
  <2>2. CASE call.fn # "sd_spin_init_mem_card"
    BY <1>3, <2>2 DEF CommandFailed, Return
  <2> QED
    BY <2>1, <2>2
<1>4. CASE Refuse
  <2>1. CommandFailed /\ call.pc = "send" /\ host.inhibit # {}
    BY <1>4 DEF Refuse, At, Inhibited
  <2> QED
    BY <1>3, <2>1
<1>5. CASE CommandError
  <2>1. CommandFailed /\ call.pc = "command" /\ "ERR" \in host.status
    BY <1>5 DEF CommandError, At
  <2>2. call.fn # "none" /\ Active
    BY <2>1, WhoRuns DEF Active
  <2> QED
    BY <1>3, <2>1, <2>2 DEF Blamed
<1>6. CASE Response
  <2>1. call.pc = "response" /\ call.fn = "sd_spin_init_mem_card"
    BY <1>6, WhoRuns DEF Response, At
  <2>2. \/ ret' = -4 /\ BadPattern
        \/ ret' = cardtype
        \/ call' = [call EXCEPT !.k = NextStep, !.pc = "send",
                                !.offset = IF host.resp0 = "rca" THEN 1 ELSE @]
    BY <1>6 DEF Response, Return
  <2>3. CASE ret' = -4 /\ BadPattern
    BY <2>1, <2>3, WhoRuns DEF BadPattern, InStep, After
  <2>4. CASE ret' = cardtype
    BY <2>1, <2>4, SdAssumption, WhoRuns
  <2>5. call' # [call EXCEPT !.k = NextStep, !.pc = "send",
                                !.offset = IF host.resp0 = "rca" THEN 1 ELSE @]
    BY <2>1, NoCallFacts DEF Registered
  <2> QED
    BY <2>2, <2>3, <2>4, <2>5
<1>7. CASE Poll
  <2>1. call.pc = "poll" /\ call.fn \in Transfers /\ Active
    BY <1>7, WhoRuns DEF Poll, At, Active
  <2>2. "ERR" \in host.status
    <3> SUFFICES ASSUME "ERR" \notin host.status PROVE FALSE
      OBVIOUS
    <3>1. \E p, s : call' = [call EXCEPT !.seen = s, !.pc = p]
      BY <1>7 DEF Poll
    <3> QED
      BY <2>1, <3>1, NoCallFacts, WhoRuns DEF Registered
  <2>3. ret' = -3
    BY <1>7, <2>2 DEF Poll, Return
  <2> QED
    BY <2>1, <2>2, <2>3, WhoRuns DEF Blamed
<1>8. CASE Done
  <2>1. call.pc = "done" /\ call.fn \in Transfers /\ Looked
    BY <1>8, WhoRuns DEF Done, At, Looked
  <2>2. "TC" \in call.seen
    <3> SUFFICES ASSUME "TC" \notin call.seen PROVE FALSE
      OBVIOUS
    <3>1. \E p : call' = [call EXCEPT !.pc = p]
      BY <1>8 DEF Done, Goto
    <3> QED
      BY <2>1, <3>1, NoCallFacts, WhoRuns DEF Registered
  <2>3. ret' = 0
    BY <1>8, <2>2 DEF Done, Return
  <2>4. engine.moved = call.count
    BY <2>1, <2>2 DEF Counted
  <2> QED
    BY <2>1, <2>3, <2>4
<1> QED
  BY <1>1, <1>2, <1>4, <1>5, <1>6, <1>7, <1>8

\* No function fails but for a fault of its own time, or for the state in which
\* an earlier one left the lines or the card: nothing that lingers in the status
\* registers is taken for an answer.
THEOREM FailuresHaveCauses == Spec => NoSpuriousFailure
<1> DEFINE Cause == call.fn # "none" /\ call'.fn = "none" /\ ret' < 0 =>
                      \/ faults.hit \/ ~card.inserted \/ host.inhibit # {}
                      \/ call.fn \in Transfers /\ card.state # "tran"
<1>1. ASSUME SdInv, Next PROVE Cause
  <2>1. CASE BootStep \/ Kernel
    <3>1. Idle \/ UNCHANGED call
      BY <2>1 DEF BootStep, FwSleep, FwInit, FwCard, FwRead, FwSpin, MbrRead, MbrElf, MbrHeader,
         MbrSegment, MbrLost, MbrEnter, KinitSleep, KinitSd, KinitCard, Kernel, Read, Simple,
         Call, Others, sd_vars
    <3> QED
      BY <3>1 DEF Idle
  <2>2. CASE SdEnvironment
    BY <2>2, CallStays
  <2>3. CASE SdStep
    <3>1. CASE call' = NoCall /\ (InitPower \/ NoCard \/ Refuse \/ CommandError \/ Response \/ Poll \/ Done)
      BY <1>1, <3>1, Results
    <3>2. CASE SameCall
      BY <3>2 DEF SameCall
    <3> QED
      BY <1>1, <2>3, <3>1, <3>2, Ends
  <2> QED
    BY <1>1, <2>1, <2>2, <2>3 DEF Next, SdNext
<1>2. SdInv /\ [Next]_vars => [Cause]_sd_vars
  BY <1>1 DEF vars
<1> QED
  BY <1>2, SdInvariance, PTL DEF Spec, NoSpuriousFailure

-----------------------------------------------------------------------------
(* The driver is a block device.                                           *)

Gone == IF call.fn \in Transfers THEN engine.moved ELSE 0
Steady == UNCHANGED <<memory, disk, Request, Gone, ret>>

LEMMA Mapped == Steady => UNCHANGED Storage!vars
BY DEF Steady, Gone, Storage!vars

LEMMA StorageIdle == (Request = Storage!Idle) <=> call.fn \notin Transfers
<1>1. CASE call.fn \notin Transfers
  BY <1>1 DEF Request, Storage!Idle
<1>2. CASE call.fn \in Transfers
  <2>1. Request.dir \in {"read", "write"}
    BY <1>2 DEF Request
  <2>2. Storage!Idle.dir = "none"
    BY DEF Storage!Idle
  <2> QED
    BY <1>2, <2>1, <2>2
<1> QED
  BY <1>1, <1>2

\* The request stays the same while its function runs.
LEMMA RequestKept ==
  ASSUME SameCall, call.fn \in Transfers => call'.offset = call.offset
  PROVE  Request' = Request
<1>1. Bytes(call)' = Bytes(call)
  BY DEF SameCall, Bytes
<1> QED
  BY <1>1 DEF Request, SameCall

LEMMA AllSectors ==
  ASSUME SdInv, call.fn \in Transfers
  PROVE  /\ Request.dir = Direction /\ Request.bytes = Bytes(call)
         /\ Request.offset = FirstBlock(call.offset) /\ Request.offset \in Nat
         /\ Storage!Sectors(Request) = call.count /\ Gone = engine.moved
<1> USE SdParts
<1>1. Request.dir = Direction /\ Request.bytes = Bytes(call) /\ Request.offset = FirstBlock(call.offset)
      /\ Gone = engine.moved
  BY DEF Request, Direction, Gone
<1>2. SECTOR \in Nat \ {0} /\ call.count \in Nat /\ call.offset \in Nat
  BY SdAssumption DEF Registered
<1>3. FirstBlock(call.offset) \in Nat
  <2>1. call.offset \div SECTOR \in Nat
    BY <1>2, Halves
  <2> QED
    BY <1>2, <2>1 DEF FirstBlock
<1>4. PICK n \in Nat : n = call.count * SECTOR
  BY <1>2
<1>5. Len(Bytes(call)) = n
  BY <1>4 DEF Bytes
<1>6. n \div SECTOR = call.count
  <2>1. \A c \in Nat : (c * SECTOR) \div SECTOR = c
    BY <1>2
  <2> QED
    BY <1>2, <1>4, <2>1
<1> QED
  BY <1>1, <1>3, <1>5, <1>6 DEF Storage!Sectors

LEMMA DivMod ==
  ASSUME NEW P \in Nat \ {0}, NEW q \in Nat, NEW v \in 0..P - 1
  PROVE  (q * P + v) \div P = q /\ (q * P + v) % P = v
OBVIOUS

\* The bytes that the next sector goes to or comes from, by what was asked for
\* and by the address register.
LEMMA SectorBytes ==
  ASSUME SdInv, call.fn \in Transfers, Active, ~Standing, engine.moved < call.count,
         NEW e \in 1..SECTOR
  PROVE  Bytes(call)[engine.moved * SECTOR + e] = host.addr + (e - 1) /\ host.addr \in Nat
<1> USE SdParts
<1>1. /\ SECTOR \in Nat \ {0} /\ PAGE \in Nat \ {0} /\ PAGE % SECTOR = 0
      /\ call.count \in Nat /\ engine.moved \in Nat /\ call.k \in Nat \ {0} /\ call.pa \in Nat
      /\ host.addr \in Nat
  BY SdAssumption DEF Registered
<1>2. PICK x \in Nat, y \in Nat, w \in Nat :
        /\ x = engine.moved * SECTOR /\ y = call.count * SECTOR /\ w = (engine.moved + 1) * SECTOR
        /\ w = x + SECTOR /\ w <= y
  <2>1. \A n \in Nat, s \in Nat : n * s \in Nat /\ (n + 1) * s = n * s + s /\ n + 1 \in Nat
    OBVIOUS
  <2>2. engine.moved + 1 <= call.count /\ engine.moved + 1 \in Nat
    BY <1>1
  <2>3. (engine.moved + 1) * SECTOR <= call.count * SECTOR
    BY <1>1, <2>2, ProductOrder
  <2> QED
    BY <1>1, <2>1, <2>3
<1>3. PICK j \in 1..y : j = x + e /\ j - 1 = x + (e - 1)
  BY <1>1, <1>2
<1>4. Bytes(call)[j] = IF call.fn = "sd_dma_spin_load"
                       THEN call.pages[1 + ((j - 1) \div PAGE)] + ((j - 1) % PAGE)
                       ELSE call.pa + j - 1
  BY <1>2, <1>3 DEF Bytes
<1>5. CASE call.fn # "sd_dma_spin_load"
  <2>1. host.addr = call.pa + x
    BY <1>2, <1>5 DEF Addressed, Active
  <2> QED
    BY <1>1, <1>2, <1>3, <1>4, <1>5, <2>1
<1>6. CASE call.fn = "sd_dma_spin_load"
  <2>1. InFrame(call.k, call.pages, engine.moved, host.addr)
    BY <1>6 DEF Addressed, Active
  <2>2. PICK h \in Nat : call.k = h + 1 /\ call.k - 1 = h /\ 1 + h = call.k
    <3>1. call.k - 1 \in Nat
      BY <1>1
    <3> QED
      BY <1>1, <3>1
  <2>3. PICK u \in Nat, z \in Nat : u = h * PAGE /\ z = (h + 1) * PAGE /\ z = u + PAGE
    <3>1. \A q \in Nat : h * q \in Nat /\ (h + 1) * q = h * q + q
      OBVIOUS
    <3> QED
      BY <1>1, <3>1
  <2>4. u <= x /\ x < z /\ host.addr = call.pages[call.k] + (x - u)
    BY <1>2, <2>1, <2>2, <2>3 DEF InFrame
  <2>5. w <= z
    <3>1. h * PAGE <= engine.moved * SECTOR /\ engine.moved * SECTOR < (h + 1) * PAGE
      BY <1>2, <2>3, <2>4
    <3>2. (engine.moved + 1) * SECTOR <= (h + 1) * PAGE
      BY <1>1, <3>1, WithinFrame
    <3> QED
      BY <1>2, <2>3, <3>2
  <2>6. PICK v \in 0..PAGE - 1 : v = (x - u) + (e - 1)
    BY <1>1, <1>2, <2>3, <2>4, <2>5
  <2>7. j - 1 = h * PAGE + v
    BY <1>1, <1>2, <1>3, <2>3, <2>4, <2>6
  <2>8. (j - 1) \div PAGE = h /\ (j - 1) % PAGE = v
    BY <1>1, <2>7, DivMod
  <2>9. PICK p \in Nat : p = call.pages[call.k]
    <3>1. call.pages \in Seq(Nat) /\ call.k \in 1..Len(call.pages)
      BY <1>1, <2>1 DEF Registered, InFrame
    <3> QED
      BY <3>1
  <2>10. Bytes(call)[j] = p + v
    BY <1>4, <1>6, <2>2, <2>8, <2>9
  <2>11. host.addr = p + (x - u)
    BY <2>4, <2>9
  <2> QED
    BY <1>1, <1>2, <1>3, <2>3, <2>4, <2>6, <2>10, <2>11
<1> QED
  BY <1>5, <1>6

\* The places of the sector.
LEMMA SectorPlaces ==
  ASSUME SdInv, call.fn \in Transfers, Active, ~Standing, engine.moved < call.count,
         engine.block = FirstBlock(call.offset) + engine.moved
  PROVE  Storage!Place(Request, Gone) =
           {<<host.addr + (e - 1), engine.block * SECTOR + (e - 1)>> : e \in 1..SECTOR}
<1>1. Gone = engine.moved /\ Request.bytes = Bytes(call)
      /\ Request.offset + engine.moved = engine.block
  BY AllSectors
<1>2. \A e \in 1..SECTOR : Request.bytes[Gone * SECTOR + e] = host.addr + (e - 1)
  BY <1>1, SectorBytes
<1>3. \A e \in 1..SECTOR : (Request.offset + Gone) * SECTOR + e - 1 = engine.block * SECTOR + (e - 1)
  BY <1>1
<1>4. Storage!Place(Request, Gone) =
        {<<Request.bytes[Gone * SECTOR + e], (Request.offset + Gone) * SECTOR + e - 1>> : e \in 1..SECTOR}
  BY DEF Storage!Place
<1> QED
  BY <1>2, <1>3, <1>4, Zenon

\* What the driver's own steps leave alone.
LEMMA DriverLeaves ==
  ASSUME SdInv, SdStep
  PROVE  /\ UNCHANGED <<memory, disk>>
         /\ call.fn \in Transfers => engine'.moved = engine.moved
<1>1. CASE InitReset
  <2>1. UNCHANGED <<memory, disk>> /\ call.fn = "sd_init"
    BY <1>1 DEF InitReset
  <2> QED
    BY <2>1 DEF Transfers
<1>2. CASE Restart
  <2>1. UNCHANGED <<memory, disk>> /\ engine' = [engine EXCEPT !.run = @ \/ engine.left > 0]
    BY <1>2 DEF Restart
  <2>2. engine \in [dir : Dir, block : Nat, left : Nat, run : BOOLEAN, moved : Nat]
    BY SdParts DEF Registered
  <2> QED
    BY <2>1, <2>2
<1>3. CASE ~InitReset /\ ~Restart
  <2>1. Driver
    BY <1>3 DEF SdStep, InitClock, InitPower, NoCard, PowerUp, SetAddress, Refuse, Send,
       CommandError, CommandComplete, Response, Poll, Ack, Done
  <2> QED
    BY <2>1 DEF Driver
<1> QED
  BY <1>1, <1>2, <1>3

\* The end of a function is a Return or another function's result; all else
\* the driver does is not seen.
LEMMA StepImplements ==
  ASSUME SdInv, SdStep
  PROVE  Storage!Next \/ Steady
<1>1. UNCHANGED <<memory, disk>> /\ (call.fn \in Transfers => engine'.moved = engine.moved)
  BY DriverLeaves
<1>2. CASE call' = NoCall /\ (InitPower \/ NoCard \/ Refuse \/ CommandError \/ Response \/ Poll \/ Done)
  <2>1. /\ ret' \in -9..1
        /\ call.fn \in Transfers =>
             /\ ret' \in {0, -1, -2, -3}
             /\ ret' = 0 => engine.moved = call.count
    BY <1>2, Results
  <2>2. (call.fn \notin Transfers)' /\ Gone' = 0
    BY <1>2, NoCallFacts DEF Transfers, Gone
  <2>3. Request' = Storage!Idle
    <3>1. (Request = Storage!Idle <=> call.fn \notin Transfers)'
      BY StorageIdle, PTL
    <3>2. Storage!Idle' = Storage!Idle
      BY DEF Storage!Idle
    <3> QED
      BY <2>2, <3>1, <3>2
  <2>4. CASE call.fn \in Transfers
    <3>1. Request # Storage!Idle
      BY <2>4, StorageIdle
    <3>2. Storage!Sectors(Request) = call.count /\ Gone = engine.moved
      BY <2>4, AllSectors
    <3>3. Storage!Return
      BY <1>1, <2>1, <2>2, <2>3, <2>4, <3>1, <3>2 DEF Storage!Return, Gone
    <3> QED
      BY <3>3 DEF Storage!Next
  <2>5. CASE call.fn \notin Transfers
    <3>1. Request = Storage!Idle /\ Gone = 0
      BY <2>5, StorageIdle DEF Gone
    <3>2. Storage!Other
      BY <1>1, <2>1, <2>2, <2>3, <3>1 DEF Storage!Other, Gone
    <3> QED
      BY <3>2 DEF Storage!Next
  <2> QED
    BY <2>4, <2>5
<1>3. CASE /\ SameCall /\ UNCHANGED ret
           /\ call'.offset = call.offset \/ call.fn = "sd_spin_init_mem_card"
  <2>1. "sd_spin_init_mem_card" \notin Transfers
    BY DEF Transfers
  <2>2. Request' = Request
    BY <1>3, <2>1, RequestKept
  <2>3. Gone' = Gone
    BY <1>1, <1>3 DEF Gone, SameCall
  <2> QED
    BY <1>1, <1>3, <2>2, <2>3 DEF Steady
<1> QED
  BY <1>2, <1>3, Ends

\* A call of a transfer is a Request; the other calls are not seen.
LEMMA CallImplements ==
  ASSUME SdInv, NEW fn \in Fn, NEW pa, NEW count, NEW offset, NEW pages,
         Call(fn, pa, count, offset, pages)
  PROVE  Storage!Next \/ Steady
<1>1. /\ call.fn = "none" /\ UNCHANGED <<memory, disk, ret>>
      /\ call' = [NoCall EXCEPT !.fn = fn, !.pc = "enter", !.pa = pa, !.count = count,
                                !.offset = offset, !.pages = pages]
      /\ engine' = [engine EXCEPT !.moved = 0]
  BY DEF Call, Idle
<1>2. call'.fn = fn
  BY <1>1 DEF NoCall
<1>3. engine'.moved = 0
  <2>1. engine \in [dir : Dir, block : Nat, left : Nat, run : BOOLEAN, moved : Nat]
    BY SdParts DEF Registered
  <2> QED
    BY <1>1, <2>1
<1>4. Request = Storage!Idle /\ Gone = 0 /\ Gone' = 0
  <2>1. call.fn \notin Transfers
    BY <1>1, NoCallFacts DEF Transfers
  <2> QED
    BY <1>3, <2>1, StorageIdle DEF Gone
<1>5. CASE fn \in Transfers
  <2>1. Request'.dir \in {"read", "write"}
    BY <1>2, <1>5 DEF Request
  <2>2. Storage!Request
    BY <1>1, <1>4, <2>1 DEF Storage!Request, Gone
  <2> QED
    BY <2>2 DEF Storage!Next
<1>6. CASE fn \notin Transfers
  <2>1. (Request = Storage!Idle <=> call.fn \notin Transfers)'
    BY StorageIdle, PTL
  <2>2. Storage!Idle' = Storage!Idle
    BY DEF Storage!Idle
  <2>3. Request' = Request
    BY <1>2, <1>4, <1>6, <2>1, <2>2
  <2> QED
    BY <1>1, <1>4, <2>3 DEF Steady
<1> QED
  BY <1>5, <1>6

\* What the controller and the card do, but for a block, is not seen.
LEMMA EnvironmentImplements ==
  ASSUME SdInv, SdEnvironment, ~Block
  PROVE  Steady
<1> USE SdParts
<1>1. UNCHANGED <<call, ret, memory, disk>>
  <2>1. CASE GtcNext /\ UNCHANGED <<host, engine, card, memory, disk, call, ret, faults>>
    BY <2>1
  <2>2. CASE Answer
    BY <2>2 DEF Answer, Environment
  <2>3. CASE BadEcho \/ NoAnswer \/ CommandFault
    BY <2>3 DEF BadEcho, NoAnswer, CommandFault, Environment
  <2>4. CASE DataLost
    BY <2>4 DEF DataLost, Environment
  <2>5. CASE ResetDone \/ ClockDone \/ Remove
    BY <2>5 DEF ResetDone, ClockDone, Remove, Environment
  <2> QED
    BY <2>1, <2>2, <2>3, <2>4, <2>5 DEF SdEnvironment, NoData, DataFault
<1>2. call.fn \in Transfers => engine'.moved = engine.moved
  <2>1. CASE UNCHANGED engine
    BY <2>1
  <2>2. CASE Answer
    <3>1. Outstanding /\ host.command.cmd # "none"
      BY <2>2 DEF Answer, Answers, Outstanding
    <3>2. \/ engine' = engine
          \/ engine' = [dir |-> host.command.mode, block |-> FirstBlock(host.command.arg),
                        left |-> host.count, run |-> TRUE, moved |-> 0]
      BY <2>2 DEF Answer
    <3>3. engine' = engine \/ engine'.moved = 0
      BY <3>2
    <3>4. call.fn \in Transfers => engine.moved = 0
      BY <3>1 DEF Counted
    <3> QED
      BY <3>3, <3>4
  <2>3. CASE DataLost
    <3>1. engine' = [Stopped EXCEPT !.moved = engine.moved]
      BY <2>3 DEF DataLost
    <3> QED
      BY <3>1 DEF Stopped
  <2>4. (engine' = engine) \/ Answer \/ DataLost
    BY DEF SdEnvironment, ResetDone, ClockDone, NoAnswer, CommandFault, BadEcho,
       NoData, DataFault, Remove
  <2> QED
    BY <2>1, <2>2, <2>3, <2>4
<1>3. Gone' = Gone
  BY <1>1, <1>2 DEF Gone
<1>4. Request' = Request
  <2>1. SameCall /\ call'.offset = call.offset
    BY <1>1 DEF SameCall
  <2> QED
    BY <2>1, RequestKept
<1> QED
  BY <1>1, <1>3, <1>4 DEF Steady

\* Bytes that go together: a byte is found by its place on either side.
PairsOf(a, b, n) == {<<a + (e - 1), b + (e - 1)>> : e \in 1..n}

LEMMA PairsFound ==
  ASSUME NEW a \in Nat, NEW b \in Nat, NEW n \in Nat, NEW x
  PROVE  /\ (\E p \in PairsOf(a, b, n) : p[1] = x) <=> x \in a..a + n - 1
         /\ (\E p \in PairsOf(a, b, n) : p[2] = x) <=> x \in b..b + n - 1
         /\ x \in a..a + n - 1 => (CHOOSE p \in PairsOf(a, b, n) : p[1] = x)[2] = b + x - a
         /\ x \in b..b + n - 1 => (CHOOSE p \in PairsOf(a, b, n) : p[2] = x)[1] = a + x - b
<1>0. PICK pairs : pairs = PairsOf(a, b, n)
  OBVIOUS
<1>1. \A p \in pairs : \E e \in 1..n : p[1] = a + (e - 1) /\ p[2] = b + (e - 1)
  <2> TAKE p \in pairs
  <2>1. PICK e \in 1..n : p = <<a + (e - 1), b + (e - 1)>>
    BY <1>0 DEF PairsOf
  <2> QED
    BY <2>1
<1>2. \A e \in 1..n : \E p \in pairs : p[1] = a + (e - 1) /\ p[2] = b + (e - 1)
  <2> TAKE e \in 1..n
  <2>1. <<a + (e - 1), b + (e - 1)>> \in pairs
    BY <1>0 DEF PairsOf
  <2> QED
    BY <2>1
<1>3. ASSUME x \in a..a + n - 1
      PROVE  (\E p \in pairs : p[1] = x) /\ (CHOOSE p \in pairs : p[1] = x)[2] = b + x - a
  <2>1. x - a + 1 \in 1..n /\ a + ((x - a + 1) - 1) = x
    BY <1>3
  <2>2. \E p \in pairs : p[1] = x
    BY <1>2, <2>1
  <2>3. PICK p : p \in pairs /\ p[1] = x /\ p = CHOOSE q \in pairs : q[1] = x
    BY <2>2, Zenon
  <2>4. PICK e \in 1..n : p[1] = a + (e - 1) /\ p[2] = b + (e - 1)
    BY <1>1, <2>3
  <2>5. p[2] = b + x - a
    BY <1>3, <2>3, <2>4
  <2> QED
    BY <2>2, <2>3, <2>5, Zenon
<1>4. ASSUME x \in b..b + n - 1
      PROVE  (\E p \in pairs : p[2] = x) /\ (CHOOSE p \in pairs : p[2] = x)[1] = a + x - b
  <2>1. x - b + 1 \in 1..n /\ b + ((x - b + 1) - 1) = x
    BY <1>4
  <2>2. \E p \in pairs : p[2] = x
    BY <1>2, <2>1
  <2>3. PICK p : p \in pairs /\ p[2] = x /\ p = CHOOSE q \in pairs : q[2] = x
    BY <2>2, Zenon
  <2>4. PICK e \in 1..n : p[1] = a + (e - 1) /\ p[2] = b + (e - 1)
    BY <1>1, <2>3
  <2>5. p[1] = a + x - b
    BY <1>4, <2>3, <2>4
  <2> QED
    BY <2>2, <2>3, <2>5, Zenon
<1>5. (\E p \in pairs : p[1] = x) => x \in a..a + n - 1
  BY <1>1
<1>6. (\E p \in pairs : p[2] = x) => x \in b..b + n - 1
  BY <1>1
<1> QED
  BY <1>0, <1>3, <1>4, <1>5, <1>6, Zenon

MemoryKept == DOMAIN memory = Memory

\* A block that goes is a Read or a Write of the next sector.
LEMMA BlockImplements ==
  ASSUME SdInv, MemoryKept, Block
  PROVE  Storage!Next
<1> USE SdParts
<1>1. PICK last \in BOOLEAN, boundary \in BOOLEAN :
        /\ last <=> engine.left = 1
        /\ boundary <=> (host.addr + SECTOR) % PAGE = 0 /\ ~last
  OBVIOUS
<1>2. /\ call.fn \in Transfers /\ Active /\ ~Standing
      /\ engine.dir = Direction /\ engine.moved < call.count
      /\ UNCHANGED <<call, faults>>
  BY <1>1, BlockFacts, Zenon
<1>3. UNCHANGED ret /\ engine'.moved = engine.moved + 1
  BY DEF Block, Environment
<1>4. /\ engine.block = FirstBlock(call.offset) + engine.moved /\ engine.block \in Nat
      /\ engine.dir \in {"read", "write"}
      /\ host.addr \in Nat /\ SECTOR \in Nat \ {0} /\ engine.moved \in Nat /\ call.count \in Nat
  BY <1>2, SdAssumption DEF Engaged, Registered, Direction
<1>5. PICK a \in Nat, b \in Nat : a = host.addr /\ b = engine.block * SECTOR
  BY <1>4
<1>6. /\ engine.dir = "read" =>
           /\ memory' = [x \in Memory |-> IF x \in a..a + SECTOR - 1 THEN disk[b + x - a]
                                          ELSE memory[x]]
           /\ UNCHANGED disk
      /\ engine.dir # "read" =>
           /\ disk' = [x \in DOMAIN disk |-> IF x \in b..b + SECTOR - 1 THEN memory[a + x - b]
                                             ELSE disk[x]]
           /\ UNCHANGED memory
  BY <1>5 DEF Block
<1>7. /\ Request.dir = engine.dir /\ Storage!Sectors(Request) = call.count /\ Gone = engine.moved
      /\ Gone < Storage!Sectors(Request)
  BY <1>2, AllSectors
<1>8. Request' = Request /\ Gone' = Gone + 1
  <2>1. SameCall /\ call'.offset = call.offset
    BY <1>2 DEF SameCall
  <2> QED
    BY <1>2, <1>3, <1>7, <2>1, RequestKept DEF Gone
<1>9. Storage!Place(Request, Gone) = PairsOf(a, b, SECTOR)
  BY <1>2, <1>4, <1>5, SectorPlaces DEF PairsOf
<1>10. \A x : /\ (\E p \in PairsOf(a, b, SECTOR) : p[1] = x) <=> x \in a..a + SECTOR - 1
              /\ (\E p \in PairsOf(a, b, SECTOR) : p[2] = x) <=> x \in b..b + SECTOR - 1
              /\ x \in a..a + SECTOR - 1 => (CHOOSE p \in PairsOf(a, b, SECTOR) : p[1] = x)[2] = b + x - a
              /\ x \in b..b + SECTOR - 1 => (CHOOSE p \in PairsOf(a, b, SECTOR) : p[2] = x)[1] = a + x - b
  <2>1. SECTOR \in Nat
    BY <1>4
  <2> QED
    BY <2>1, PairsFound, Zenon
<1>11. CASE engine.dir = "read"
  <2>1. [x \in Memory |-> IF x \in a..a + SECTOR - 1 THEN disk[b + x - a] ELSE memory[x]]
        = [x \in DOMAIN memory |-> IF \E p \in PairsOf(a, b, SECTOR) : p[1] = x
                                   THEN disk[(CHOOSE p \in PairsOf(a, b, SECTOR) : p[1] = x)[2]]
                                   ELSE memory[x]]
    BY <1>10, Zenon DEF MemoryKept
  <2>2. Storage!Read
    BY <1>3, <1>6, <1>7, <1>8, <1>9, <1>11, <2>1 DEF Storage!Read, Gone
  <2> QED
    BY <2>2 DEF Storage!Next
<1>12. CASE engine.dir = "write"
  <2>1. [x \in DOMAIN disk |-> IF x \in b..b + SECTOR - 1 THEN memory[a + x - b] ELSE disk[x]]
        = [x \in DOMAIN disk |-> IF \E p \in PairsOf(a, b, SECTOR) : p[2] = x
                                 THEN memory[(CHOOSE p \in PairsOf(a, b, SECTOR) : p[2] = x)[1]]
                                 ELSE disk[x]]
    BY <1>10, Zenon
  <2>2. Storage!Write
    BY <1>3, <1>6, <1>7, <1>8, <1>9, <1>12, <2>1 DEF Storage!Write, Gone
  <2> QED
    BY <2>2 DEF Storage!Next
<1> QED
  BY <1>4, <1>11, <1>12

\* The memory has the addresses it has.
LEMMA MemoryInv ==
  ASSUME MemoryKept, [Next]_vars
  PROVE  MemoryKept'
<1>1. CASE Block
  BY <1>1 DEF Block, MemoryKept
<1>2. CASE UNCHANGED memory
  BY <1>2 DEF MemoryKept
<1>3. CASE BootStep \/ Kernel
  <2>1. CASE FwSleep \/ FwSpin \/ MbrLost \/ MbrEnter \/ KinitSleep
    BY <1>2, <2>1 DEF FwSleep, FwSpin, MbrLost, MbrEnter, KinitSleep, Others, sd_vars
  <2>2. CASE FwInit \/ FwCard \/ KinitSd \/ KinitCard
    BY <1>2, <2>2 DEF FwInit, FwCard, KinitSd, KinitCard, Simple, Call
  <2>3. CASE FwRead \/ MbrRead \/ MbrElf \/ MbrHeader \/ MbrSegment
    BY <1>2, <2>3 DEF FwRead, MbrRead, MbrElf, MbrHeader, MbrSegment, Read, Call
  <2>4. CASE Kernel
    <3>1. PICK c \in KernelCalls : Call(c.fn, c.pa, c.count, c.offset, c.pages)
      BY <2>4 DEF Kernel
    <3> QED
      BY <1>2, <3>1 DEF Call
  <2> QED
    BY <1>3, <2>1, <2>2, <2>3, <2>4 DEF BootStep
<1>4. CASE SdStep
  <2>1. UNCHANGED memory
    BY <1>4 DEF SdStep, InitReset, InitClock, InitPower, NoCard, PowerUp, SetAddress, Refuse, Send,
       CommandError, CommandComplete, Response, Poll, Ack, Restart, Done, Driver
  <2> QED
    BY <1>2, <2>1
<1>5. CASE SdEnvironment
  <2>1. CASE GtcNext /\ UNCHANGED <<host, engine, card, memory, disk, call, ret, faults>>
    BY <1>2, <2>1
  <2>2. CASE ResetDone \/ ClockDone \/ NoAnswer \/ CommandFault \/ BadEcho
    BY <1>2, <2>2 DEF ResetDone, ClockDone, NoAnswer, CommandFault, BadEcho
  <2>3. CASE DataLost \/ Remove
    BY <1>2, <2>3 DEF DataLost, Remove
  <2>4. CASE Answer
    BY <1>2, <2>4 DEF Answer
  <2> QED
    BY <1>1, <1>5, <2>1, <2>2, <2>3, <2>4 DEF SdEnvironment, NoData, DataFault
<1> QED
  BY <1>1, <1>2, <1>3, <1>4, <1>5 DEF Next, SdNext, vars, sd_vars

\* The boot's steps: a call, or a look at what is in memory.
LEMMA BootImplements ==
  ASSUME SdInv, TypeAt, BootStep \/ Kernel
  PROVE  Storage!Next \/ Steady
<1>1. CASE FwSleep \/ FwSpin \/ MbrLost \/ MbrEnter \/ KinitSleep
  <2>1. UNCHANGED <<engine, memory, disk, call, ret>>
    BY <1>1 DEF FwSleep, FwSpin, MbrLost, MbrEnter, KinitSleep, Others, sd_vars
  <2>2. Request' = Request
    <3>1. SameCall /\ call'.offset = call.offset
      BY <2>1 DEF SameCall
    <3> QED
      BY <3>1, RequestKept
  <2> QED
    BY <2>1, <2>2 DEF Steady, Gone
<1>2. CASE ~(FwSleep \/ FwSpin \/ MbrLost \/ MbrEnter \/ KinitSleep)
  <2>1. PICK fn \in Fn : \E pa, count, offset, pages : Call(fn, pa, count, offset, pages)
    <3>1. CASE Kernel
      <4>1. PICK c \in KernelCalls : Call(c.fn, c.pa, c.count, c.offset, c.pages)
        BY <3>1 DEF Kernel
      <4>2. c.fn \in Fn
        BY TransferAssumption DEF Fn, Transfers
      <4> QED
        BY <4>1, <4>2
    <3>2. CASE BootStep
      <4>1. "sd_init" \in Fn /\ "sd_spin_init_mem_card" \in Fn /\ "sd_dma_spin_read" \in Fn
        BY DEF Fn
      <4>2. CASE FwInit \/ KinitSd
        BY <4>1, <4>2 DEF FwInit, KinitSd, Simple
      <4>3. CASE FwCard \/ KinitCard
        BY <4>1, <4>3 DEF FwCard, KinitCard, Simple
      <4>4. CASE FwRead \/ MbrRead \/ MbrElf \/ MbrHeader \/ MbrSegment
        BY <4>1, <4>4 DEF FwRead, MbrRead, MbrElf, MbrHeader, MbrSegment, Read
      <4> QED
        BY <1>2, <3>2, <4>2, <4>3, <4>4 DEF BootStep
    <3> QED
      BY <3>1, <3>2
  <2> QED
    BY <2>1, CallImplements
<1> QED
  BY <1>1, <1>2

\* Seen through its calls, the driver is a block device: whatever the card
\* does, sectors go in order and each byte to or from the place that was asked
\* for, across the ends of pages, nothing goes after the return, and 0 is
\* returned only when all have gone.
THEOREM DriverIsBlockDevice == Spec => IsBlockDevice
<1>1. Init => Storage!Init /\ MemoryKept
  <2> SUFFICES ASSUME Init PROVE Storage!Init /\ MemoryKept
    OBVIOUS
  <2>1. call.fn \notin Transfers /\ ret = 0 /\ memory = [a \in Memory |-> 0]
    BY NoCallFacts DEF Init, SdInit, Transfers
  <2> QED
    BY <2>1, StorageIdle DEF Storage!Init, MemoryKept
<1>2. SdInv /\ TypeAt /\ MemoryKept /\ [Next]_vars => [Storage!Next]_Storage!vars
  <2> SUFFICES ASSUME SdInv, TypeAt, MemoryKept, [Next]_vars
               PROVE  Storage!Next \/ Steady
    BY Mapped
  <2>1. CASE UNCHANGED vars
    <3>1. UNCHANGED <<engine, memory, disk, call, ret>>
      BY <2>1 DEF vars, sd_vars
    <3>2. SameCall /\ call'.offset = call.offset
      BY <3>1 DEF SameCall
    <3> QED
      BY <3>1, <3>2, RequestKept DEF Steady, Gone
  <2> QED
    BY <2>1, BootImplements, StepImplements, EnvironmentImplements, BlockImplements
       DEF Next, SdNext
<1>3. MemoryKept /\ [Next]_vars => MemoryKept'
  BY MemoryInv
<1> QED
  BY <1>1, <1>2, <1>3, SdInvariance, PTL DEF Spec, IsBlockDevice, Storage!Spec

-----------------------------------------------------------------------------
(* The boot loads the image: on a card that is addressed by blocks, what    *)
(* mbr_bootmain enters is complete whenever no read failed.                 *)

\* The transfer that runs is the read of segment n.
SegmentRead(n) ==
    /\ call.fn = "sd_dma_spin_read"
    /\ call.pa = Segment[n].paddr - Offset(Segment[n])
    /\ call.count = EndId(Segment[n]) - StartId(Segment[n])
    /\ call.offset = StartId(Segment[n]) + ELF_ADDR

\* What has gone is there.
Fetched ==
    \A b \in 0..engine.moved * SECTOR - 1 :
        memory[call.pa + b] = FirstImage[FirstBlock(call.offset) * SECTOR + b]

There(n) ==
    \A k \in 0..Segment[n].filesz - 1 :
        memory[Segment[n].paddr + k] = FirstImage[ELF_ADDR * SECTOR + Segment[n].offset + k]

ImageInv ==
    /\ at \notin {"KINIT_SD", "KINIT_CARD", "KERNEL"} =>
         disk = FirstImage /\ call.fn \notin {"sd_dma_spin_write", "sd_dma_spin_load"}
    /\ at = "KINIT" => call.fn = "none"
    /\ at = "MBR_LOOP" /\ seg > 0 /\ call.fn # "none" => SegmentRead(seg) /\ Fetched
    /\ at = "MBR_SEGMENT" /\ call.fn # "none" =>
         call.fn = "sd_dma_spin_read" /\ call.pa = BUFFER /\ call.count = 2
    /\ read_ok /\ at = "MBR_LOOP" /\ seg > 0 =>
         /\ \A m \in 1..seg - 1 : There(m)
         /\ call.fn = "none" /\ ret = 0 => There(seg)
    /\ read_ok /\ at = "MBR_SEGMENT" => \A m \in 1..seg : There(m)
    /\ read_ok /\ at = "KINIT" => \A m \in 1..Len(Segment) : There(m)

\* The numbers of a segment: each of its bytes is in the sectors that are read.
LEMMA SegmentFacts ==
  ASSUME NEW n \in 1..Len(Segment)
  PROVE  LET s == Segment[n]
             pa == s.paddr - Offset(s)
             count == EndId(s) - StartId(s)
             block == StartId(s) + ELF_ADDR IN
         /\ s.paddr \in Nat /\ s.filesz \in Nat \ {0} /\ s.offset \in Nat
         /\ pa \in Nat /\ count \in Nat \ {0} /\ block \in Nat
         /\ block + count = ELF_ADDR + EndId(s)
         /\ \A k \in 0..s.filesz - 1 : \E b \in 0..count * SECTOR - 1 :
              pa + b = s.paddr + k /\ block * SECTOR + b = ELF_ADDR * SECTOR + s.offset + k
<1>1. PICK s : s = Segment[n]
  OBVIOUS
<1>2. s \in [offset : Nat, paddr : Nat, filesz : Nat \ {0}]
  <2>1. Segment \in Seq([offset : Nat, paddr : Nat, filesz : Nat \ {0}])
    BY TransferAssumption
  <2>2. \A S : \A t \in Seq(S) : \A m \in 1..Len(t) : t[m] \in S
    OBVIOUS
  <2> QED
    BY <1>1, <2>1, <2>2, Zenon
<1>3. s.paddr >= Offset(s) /\ s.offset % SECTOR < SECTOR \div 2
  <2>1. \A m \in 1..Len(Segment) : Segment[m].paddr >= Offset(Segment[m])
    BY TransferAssumption, Zenon
  <2>2. \A m \in 1..Len(Segment) : Segment[m].offset % SECTOR < SECTOR \div 2
    BY LayoutAssumption, Zenon
  <2> QED
    BY <1>1, <2>1, <2>2, Zenon
<1>4. SECTOR \in Nat \ {0} /\ SECTOR > 1 /\ ELF_ADDR \in Nat
  BY SdAssumption, TransferAssumption, BootAssumption
<1>5. PICK o \in Nat, f \in Nat \ {0}, p \in Nat : o = s.offset /\ f = s.filesz /\ p = s.paddr
  BY <1>2
<1>6. PICK h \in Nat : h = SECTOR \div 2
  BY <1>4
<1>7. PICK r \in 0..SECTOR - 1, q \in Nat, y \in Nat :
        r = o % SECTOR /\ q = o \div SECTOR /\ y = q * SECTOR /\ o = y + r
  <2>1. o % SECTOR \in 0..SECTOR - 1 /\ o \div SECTOR \in Nat
        /\ o = (o \div SECTOR) * SECTOR + (o % SECTOR)
    BY <1>4, Halves
  <2>2. (o \div SECTOR) * SECTOR \in Nat
    BY <1>4, <2>1
  <2> QED
    BY <2>1, <2>2, Zenon
<1>8. PICK l \in Nat : l = o + f - 1
  OBVIOUS
<1>9. PICK e \in Nat, d \in 0..SECTOR - 1, w \in Nat :
        e = l \div SECTOR /\ w = e * SECTOR /\ l = w + d /\ q <= e
  <2>1. l \div SECTOR \in Nat /\ l % SECTOR \in 0..SECTOR - 1
        /\ l = (l \div SECTOR) * SECTOR + (l % SECTOR)
    BY <1>4, Halves
  <2>2. (l \div SECTOR) * SECTOR \in Nat
    BY <1>4, <2>1
  <2>3. o <= l
    BY <1>8
  <2>4. o \div SECTOR <= l \div SECTOR
    BY <1>4, <2>3, UpperOrder
  <2> QED
    BY <1>7, <2>1, <2>2, <2>4, Zenon
<1>10. q <= e /\ r >= 0 /\ r <= SECTOR - 1 /\ d <= SECTOR - 1 /\ o = y + r /\ l = w + d
  BY <1>4, <1>7, <1>9
<1>11. r < h
  BY <1>3, <1>5, <1>6, <1>7, Zenon
<1>12. r % h = r
  BY <1>11
<1>13. Offset(s) = r /\ StartId(s) = q /\ EndId(s) = e + 1
  BY <1>5, <1>6, <1>7, <1>8, <1>9, <1>12, Zenon DEF Offset, StartId, EndId
<1>14. r <= p
  BY <1>3, <1>5, <1>13, Zenon
<1>15. PICK c \in Nat \ {0} : c = (e + 1) - q /\ e + 1 = c + q
  <2>1. q <= e
    BY <1>9
  <2> QED
    BY <2>1
<1>16. PICK x \in Nat, z \in Nat :
         /\ x = c * SECTOR /\ z = ELF_ADDR * SECTOR
         /\ (q + ELF_ADDR) * SECTOR = y + z /\ w + SECTOR = x + y
  <2>1. \A t, u, v \in Nat : (t + u) * v = t * v + u * v /\ t * v \in Nat
    OBVIOUS
  <2>2. (e + 1) * SECTOR = e * SECTOR + SECTOR
    BY <1>4
  <2>3. (c + q) * SECTOR = c * SECTOR + q * SECTOR /\ (q + ELF_ADDR) * SECTOR = q * SECTOR + ELF_ADDR * SECTOR
        /\ c * SECTOR \in Nat /\ ELF_ADDR * SECTOR \in Nat
    BY <1>4, <2>1
  <2> QED
    BY <1>7, <1>9, <1>15, <2>2, <2>3
<1>17. w + SECTOR = x + y
  BY <1>16
<1>18. ASSUME NEW k \in 0..f - 1
       PROVE  \E b \in 0..x - 1 : (p - r) + b = p + k /\ (y + z) + b = z + o + k
  <2>1. r + k \in 0..x - 1
    BY <1>4, <1>8, <1>10, <1>17
  <2>2. (p - r) + (r + k) = p + k /\ (y + z) + (r + k) = z + o + k
    BY <1>10
  <2> QED
    BY <2>1, <2>2
<1>19. p - r \in Nat /\ q + ELF_ADDR \in Nat /\ (q + ELF_ADDR) + c = ELF_ADDR + (e + 1)
  BY <1>4, <1>14, <1>15
<1>20. /\ s.paddr - Offset(s) = p - r /\ EndId(s) - StartId(s) = c
       /\ StartId(s) + ELF_ADDR = q + ELF_ADDR /\ ELF_ADDR + EndId(s) = ELF_ADDR + (e + 1)
  BY <1>5, <1>13, <1>15, Zenon
<1>21. \A k \in 0..s.filesz - 1 : \E b \in 0..(EndId(s) - StartId(s)) * SECTOR - 1 :
              (s.paddr - Offset(s)) + b = s.paddr + k
              /\ (StartId(s) + ELF_ADDR) * SECTOR + b = ELF_ADDR * SECTOR + s.offset + k
  <2>1. /\ x = (EndId(s) - StartId(s)) * SECTOR /\ y + z = (StartId(s) + ELF_ADDR) * SECTOR
        /\ z = ELF_ADDR * SECTOR /\ s.paddr - Offset(s) = p - r
        /\ s.filesz = f /\ s.paddr = p /\ s.offset = o
    BY <1>5, <1>16, <1>20, Zenon
  <2>2. \A k \in 0..f - 1 : \E b \in 0..x - 1 : (p - r) + b = p + k /\ (y + z) + b = z + o + k
    BY <1>18
  <2>3. ASSUME NEW k \in 0..s.filesz - 1
        PROVE  \E b \in 0..(EndId(s) - StartId(s)) * SECTOR - 1 :
                 (s.paddr - Offset(s)) + b = s.paddr + k
                 /\ (StartId(s) + ELF_ADDR) * SECTOR + b = ELF_ADDR * SECTOR + s.offset + k
    <3>1. k \in 0..f - 1
      BY <1>5, Zenon
    <3>2. PICK b \in 0..x - 1 : (p - r) + b = p + k /\ (y + z) + b = z + o + k
      BY <2>2, <3>1
    <3>3. b \in 0..(EndId(s) - StartId(s)) * SECTOR - 1
      BY <2>1, Zenon
    <3>4. (s.paddr - Offset(s)) + b = s.paddr + k
      BY <2>1, <3>2, Zenon
    <3>5. (StartId(s) + ELF_ADDR) * SECTOR + b = ELF_ADDR * SECTOR + s.offset + k
      BY <2>1, <3>2, Zenon
    <3> QED
      BY <3>3, <3>4, <3>5, Zenon
  <2> QED
    BY <2>3, Zenon
<1> QED
  BY <1>1, <1>5, <1>15, <1>19, <1>20, <1>21, Zenon

LEMMA ImageParts ==
  ImageInv <=>
    /\ at \notin {"KINIT_SD", "KINIT_CARD", "KERNEL"} =>
         disk = FirstImage /\ call.fn \notin {"sd_dma_spin_write", "sd_dma_spin_load"}
    /\ at = "KINIT" => call.fn = "none"
    /\ at = "MBR_LOOP" /\ seg > 0 /\ call.fn # "none" => SegmentRead(seg) /\ Fetched
    /\ at = "MBR_SEGMENT" /\ call.fn # "none" =>
         call.fn = "sd_dma_spin_read" /\ call.pa = BUFFER /\ call.count = 2
    /\ read_ok /\ at = "MBR_LOOP" /\ seg > 0 =>
         /\ \A m \in 1..seg - 1 : There(m)
         /\ call.fn = "none" /\ ret = 0 => There(seg)
    /\ read_ok /\ at = "MBR_SEGMENT" => \A m \in 1..seg : There(m)
    /\ read_ok /\ at = "KINIT" => \A m \in 1..Len(Segment) : There(m)
BY DEF ImageInv

\* All sectors of a segment's read have gone: the segment is there.
LEMMA SegmentFetched ==
  ASSUME cardtype = 1, NEW n \in 1..Len(Segment), SegmentRead(n), Fetched,
         engine.moved = call.count
  PROVE  There(n)
<1> DEFINE s == Segment[n]
           pa == s.paddr - Offset(s)
           count == EndId(s) - StartId(s)
           block == StartId(s) + ELF_ADDR
<1>1. ASSUME NEW k \in 0..s.filesz - 1
      PROVE  memory[s.paddr + k] = FirstImage[ELF_ADDR * SECTOR + s.offset + k]
  <2>1. PICK b \in 0..count * SECTOR - 1 :
          pa + b = s.paddr + k /\ block * SECTOR + b = ELF_ADDR * SECTOR + s.offset + k
    BY SegmentFacts
  <2>2. memory[pa + b] = FirstImage[block * SECTOR + b]
    BY <2>1 DEF SegmentRead, Fetched, FirstBlock
  <2> QED
    BY <2>1, <2>2
<1> QED
  BY <1>1 DEF There

\* The bytes of a segment are among those its read is for.
LEMMA SegmentInMemory ==
  ASSUME NEW n \in 1..Len(Segment)
  PROVE  Loaded(Segment[n]) \subseteq Memory
<1> DEFINE s == Segment[n]
           pa == s.paddr - Offset(s)
           count == EndId(s) - StartId(s)
<1>1. /\ s.paddr \in Nat /\ s.filesz \in Nat \ {0} /\ pa \in Nat /\ count \in Nat
      /\ \A k \in 0..s.filesz - 1 : \E b \in 0..count * SECTOR - 1 : pa + b = s.paddr + k
  BY SegmentFacts
<1>2. Touched(s) \subseteq Memory /\ Touched(s) = pa..pa + count * SECTOR - 1
  BY LayoutAssumption DEF Touched
<1>3. PICK p \in Nat, f \in Nat \ {0}, q \in Nat, x \in Nat :
        p = s.paddr /\ f = s.filesz /\ q = pa /\ x = count * SECTOR
  <2>1. count * SECTOR \in Nat
    BY <1>1, SdAssumption
  <2> QED
    BY <1>1, <2>1, Zenon
<1>4. ASSUME NEW a \in p..p + f - 1 PROVE a \in q..q + x - 1
  <2>1. a - p \in 0..f - 1 /\ p + (a - p) = a
    OBVIOUS
  <2>2. \A k \in 0..f - 1 : \E b \in 0..x - 1 : q + b = p + k
    BY <1>1, <1>3, Zenon
  <2>3. PICK b \in 0..x - 1 : q + b = p + (a - p)
    BY <2>1, <2>2
  <2> QED
    BY <2>1, <2>3
<1> QED
  BY <1>2, <1>3, <1>4, Zenon DEF Loaded

\* What a block of a read does to memory: it is where the transfer is for, and
\* what has gone stays.
LEMMA BlockFetches ==
  ASSUME SdInv, MemoryKept, Block, call.fn = "sd_dma_spin_read", disk = FirstImage
  PROVE  /\ UNCHANGED <<call, ret, disk>>
         /\ \A x \in Memory : x \notin call.pa..call.pa + call.count * SECTOR - 1 =>
              memory'[x] = memory[x]
         /\ Fetched /\ call.pa..call.pa + call.count * SECTOR - 1 \subseteq Memory => Fetched'
<1> USE SdParts
<1>1. PICK last \in BOOLEAN, boundary \in BOOLEAN :
        /\ last <=> engine.left = 1
        /\ boundary <=> (host.addr + SECTOR) % PAGE = 0 /\ ~last
  OBVIOUS
<1>2. /\ call.fn \in Transfers /\ Active /\ ~Standing
      /\ engine.dir = Direction /\ engine.moved < call.count
      /\ UNCHANGED <<call, faults>>
  BY <1>1, BlockFacts, Zenon
<1>3. UNCHANGED ret /\ engine'.moved = engine.moved + 1
  BY DEF Block, Environment
<1>4. /\ engine.block = FirstBlock(call.offset) + engine.moved /\ engine.block \in Nat
      /\ engine.dir = "read" /\ host.addr = call.pa + engine.moved * SECTOR
      /\ SECTOR \in Nat \ {0} /\ engine.moved \in Nat /\ call.count \in Nat /\ call.pa \in Nat
  BY <1>2, SdAssumption DEF Engaged, Registered, Direction, Addressed, Active
<1>5. PICK f \in Nat : f = FirstBlock(call.offset)
  <2>1. call.offset \in Nat
    BY DEF Registered
  <2> QED
    BY <1>4, <2>1, SdAssumption, Halves DEF FirstBlock
<1>6. PICK p \in Nat, x \in Nat, y \in Nat, g \in Nat :
        /\ p = call.pa /\ x = engine.moved * SECTOR /\ y = call.count * SECTOR /\ g = f * SECTOR
  <2>1. \A n, s \in Nat : n * s \in Nat
    OBVIOUS
  <2>2. SECTOR \in Nat /\ engine.moved * SECTOR \in Nat /\ call.count * SECTOR \in Nat /\ f * SECTOR \in Nat
    BY <1>4, <2>1
  <2> QED
    BY <1>4, <2>2, Zenon
<1>7. (engine.moved + 1) * SECTOR = x + SECTOR /\ x + SECTOR <= y
  <2>1. engine.moved + 1 <= call.count /\ engine.moved + 1 \in Nat
    BY <1>2, <1>4
  <2>2. (engine.moved + 1) * SECTOR <= call.count * SECTOR
    BY <1>4, <2>1, ProductOrder
  <2>3. (engine.moved + 1) * SECTOR = engine.moved * SECTOR + SECTOR
    BY <1>4
  <2> QED
    BY <1>6, <2>2, <2>3
<1>8. PICK a \in Nat, b \in Nat : a = host.addr /\ b = engine.block * SECTOR /\ a = p + x /\ b = g + x
  <2>1. host.addr = p + x
    BY <1>4, <1>6
  <2>2. engine.block * SECTOR = f * SECTOR + engine.moved * SECTOR
    <3>1. \A n, m, s \in Nat : (n + m) * s = n * s + m * s
      OBVIOUS
    <3>2. engine.block = f + engine.moved /\ SECTOR \in Nat
      BY <1>4, <1>5
    <3> QED
      BY <1>4, <3>1, <3>2
  <2>3. engine.block * SECTOR = g + x
    BY <1>6, <2>2
  <2> QED
    BY <2>1, <2>3
<1>9. a = p + x /\ b = g + x /\ x + SECTOR <= y /\ SECTOR \in Nat \ {0}
  BY <1>4, <1>7, <1>8
<1>10. /\ memory' = [m \in Memory |-> IF m \in a..a + SECTOR - 1 THEN disk[b + m - a] ELSE memory[m]]
      /\ UNCHANGED disk
  BY <1>4, <1>8 DEF Block
<1>11. a..a + SECTOR - 1 \subseteq p..p + y - 1
  BY <1>9
<1>12. ASSUME Fetched, p..p + y - 1 \subseteq Memory
      PROVE  Fetched'
  <2>3. ASSUME NEW n \in 0..(x + SECTOR) - 1
        PROVE  memory'[p + n] = FirstImage[g + n]
    <3>1. p + n \in Memory
      <4>1. p + n \in p..p + y - 1
        BY <1>9
      <4> QED
        BY <1>12, <4>1
    <3>2. CASE n < x
      <4>1. p + n \notin a..a + SECTOR - 1 /\ n \in 0..x - 1
        BY <1>9, <3>2
      <4>2. memory[p + n] = FirstImage[g + n]
        BY <1>5, <1>6, <1>12, <4>1, Zenon DEF Fetched
      <4> QED
        BY <1>10, <3>1, <4>1, <4>2
    <3>3. CASE ~(n < x)
      <4>1. p + n \in a..a + SECTOR - 1 /\ b + (p + n) - a = g + n
        BY <1>9, <3>3
      <4> QED
        BY <1>10, <3>1, <4>1
    <3> QED
      BY <3>2, <3>3
  <2>4. /\ call'.pa = p /\ FirstBlock(call'.offset) = f /\ engine'.moved * SECTOR = x + SECTOR
        /\ FirstBlock(call'.offset) * SECTOR = g
    BY <1>2, <1>3, <1>5, <1>6, <1>7
  <2> QED
    <3>1. ASSUME NEW n \in 0..engine'.moved * SECTOR - 1
          PROVE  memory'[call'.pa + n] = FirstImage[FirstBlock(call'.offset) * SECTOR + n]
      <4>1. n \in 0..(x + SECTOR) - 1
        BY <2>4, Zenon
      <4>2. memory'[p + n] = FirstImage[g + n]
        BY <2>3, <4>1
      <4> QED
        BY <2>4, <4>2
    <3> QED
      BY <3>1 DEF Fetched, FirstBlock
<1>13. ASSUME NEW m \in Memory, m \notin p..p + y - 1
       PROVE  memory'[m] = memory[m]
  BY <1>10, <1>11, <1>13
<1> QED
  BY <1>2, <1>3, <1>6, <1>10, <1>12, <1>13

\* Bytes that a transfer is not for stay.
LEMMA ThereStays ==
  ASSUME SdInv, MemoryKept, Block, call.fn = "sd_dma_spin_read", disk = FirstImage,
         NEW m \in 1..Len(Segment), There(m),
         Loaded(Segment[m]) \cap (call.pa..call.pa + call.count * SECTOR - 1) = {}
  PROVE  There(m)'
<1>1. ASSUME NEW k \in 0..Segment[m].filesz - 1
      PROVE  memory'[Segment[m].paddr + k] = memory[Segment[m].paddr + k]
  <2>1. Segment[m].paddr + k \in Loaded(Segment[m])
    <3>1. Segment[m].paddr \in Nat /\ Segment[m].filesz \in Nat
      BY SegmentFacts
    <3> QED
      BY <3>1 DEF Loaded
  <2>2. Segment[m].paddr + k \in Memory
    BY <2>1, SegmentInMemory
  <2> QED
    BY <2>1, <2>2, BlockFetches
<1> QED
  BY <1>1 DEF There

\* Nothing in memory changes.
LEMMA MemoryStays ==
  ASSUME UNCHANGED memory
  PROVE  \A m : There(m)' <=> There(m)
BY DEF There

\* A block of a segment's read brings its part; one of a header's read leaves
\* the segments that are there.
LEMMA BlockKeepsImage ==
  ASSUME SdInv, TypeAt, MemoryKept, ImageInv, Block, UNCHANGED <<at, seg, read_ok>>
  PROVE  ImageInv'
<1> USE SdParts, ImageParts
<1>1. call.fn \in Transfers /\ UNCHANGED <<call, ret>>
  <2>1. PICK last \in BOOLEAN, boundary \in BOOLEAN :
          /\ last <=> engine.left = 1
          /\ boundary <=> (host.addr + SECTOR) % PAGE = 0 /\ ~last
    OBVIOUS
  <2>2. call.fn \in Transfers
    BY <2>1, BlockFacts, Zenon
  <2> QED
    BY <2>2 DEF Block, Environment
<1>2. CASE at \in {"KINIT_SD", "KINIT_CARD", "KERNEL"}
  BY <1>2 DEF ImageInv
<1>3. CASE at \notin {"KINIT_SD", "KINIT_CARD", "KERNEL"}
  <2>1. call.fn = "sd_dma_spin_read" /\ disk = FirstImage /\ at # "KINIT"
    BY <1>1, <1>3 DEF Transfers
  <2>2. UNCHANGED disk
    BY <2>1, BlockFetches
  <2>3. ASSUME at = "MBR_LOOP", seg > 0
        PROVE  /\ SegmentRead(seg)' /\ Fetched'
               /\ read_ok => \A m \in 1..seg - 1 : There(m)'
    <3>1. SegmentRead(seg) /\ Fetched /\ seg \in 1..Len(Segment)
      BY <2>1, <2>3 DEF TypeAt
    <3>2. call.pa..call.pa + call.count * SECTOR - 1 = Touched(Segment[seg])
      BY <3>1 DEF SegmentRead, Touched
    <3>3. Touched(Segment[seg]) \subseteq Memory
          /\ \A m \in 1..seg - 1 : Loaded(Segment[m]) \cap Touched(Segment[seg]) = {}
      BY <3>1, LayoutAssumption
    <3>4. Fetched'
      BY <2>1, <3>1, <3>2, <3>3, BlockFetches
    <3>5. ASSUME read_ok, NEW m \in 1..seg - 1 PROVE There(m)'
      <4>1. m \in 1..Len(Segment)
        BY <3>1
      <4>2. There(m)
        BY <2>3, <3>5
      <4>3. Loaded(Segment[m]) \cap (call.pa..call.pa + call.count * SECTOR - 1) = {}
        BY <3>2, <3>3
      <4> QED
        BY <2>1, <4>1, <4>2, <4>3, ThereStays
    <3> QED
      BY <1>1, <3>1, <3>4, <3>5 DEF SegmentRead
  <2>4. ASSUME at = "MBR_SEGMENT", read_ok, NEW m \in 1..seg
        PROVE  There(m)'
    <3>1. m \in 1..Len(Segment) /\ There(m)
      <4>1. seg \in Nat /\ seg < Len(Segment) /\ Len(Segment) \in Nat
        BY <2>4, TransferAssumption DEF TypeAt
      <4> QED
        BY <2>4, <4>1
    <3>2. call.pa = BUFFER /\ call.count = 2
      BY <2>1, <2>4
    <3>3. Loaded(Segment[m]) \cap (BUFFER..BUFFER + 2 * SECTOR - 1) = {}
      BY <3>1, LayoutAssumption
    <3> QED
      BY <2>1, <3>1, <3>2, <3>3, ThereStays
  <2> QED
    BY <1>1, <1>3, <2>1, <2>2, <2>3, <2>4 DEF ImageInv
<1> QED
  BY <1>2, <1>3

\* Nothing of it changes.
LEMMA SteadyImage ==
  ASSUME ImageInv, UNCHANGED <<at, seg, read_ok, memory, disk, ret>>, SameCall,
         call.fn \in Transfers => call'.offset = call.offset /\ engine'.moved = engine.moved
  PROVE  ImageInv'
<1> USE ImageParts
<1>1. \A m : There(m)' <=> There(m)
  BY MemoryStays
<1>2. SegmentRead(seg) /\ Fetched => SegmentRead(seg)' /\ Fetched'
  <2> SUFFICES ASSUME SegmentRead(seg), Fetched PROVE SegmentRead(seg)' /\ Fetched'
    OBVIOUS
  <2>1. call.fn \in Transfers
    BY DEF SegmentRead, Transfers
  <2>2. call'.fn = call.fn /\ call'.pa = call.pa /\ call'.count = call.count
        /\ call'.offset = call.offset /\ engine'.moved = engine.moved
    BY <2>1 DEF SameCall
  <2> QED
    BY <2>2 DEF SegmentRead, Fetched, FirstBlock
<1>3. call'.fn = call.fn /\ call'.pa = call.pa /\ call'.count = call.count
  BY DEF SameCall
<1> QED
  BY <1>1, <1>2, <1>3 DEF ImageInv

\* A function returns: with 0, all sectors of a segment have gone.
LEMMA ReturnKeepsImage ==
  ASSUME cardtype = 1, SdInv, TypeAt, ImageInv, UNCHANGED <<at, seg, read_ok, memory, disk>>,
         call' = NoCall, InitPower \/ NoCard \/ Refuse \/ CommandError \/ Response \/ Poll \/ Done
  PROVE  ImageInv'
<1> USE SdParts, ImageParts
<1>1. \A m : There(m)' <=> There(m)
  BY MemoryStays
<1>2. call'.fn = "none"
  BY NoCallFacts
<1>3. call.fn # "none"
  BY WhoRuns DEF InitPower, NoCard, Refuse, CommandError, Response, Poll, Done, At
<1>4. ASSUME at = "MBR_LOOP", seg > 0, ret' = 0 PROVE There(seg)
  <2>1. SegmentRead(seg) /\ Fetched /\ seg \in 1..Len(Segment)
    BY <1>3, <1>4 DEF TypeAt
  <2>2. call.fn \in Transfers
    BY <2>1 DEF SegmentRead, Transfers
  <2>3. engine.moved = call.count
    BY <1>4, <2>2, Results
  <2> QED
    BY <2>1, <2>3, SegmentFetched
<1> QED
  BY <1>1, <1>2, <1>3, <1>4 DEF ImageInv

\* The boot's steps leave memory; a result of 0 tells that the segment is there.
LEMMA BootKeepsImage ==
  ASSUME SdInv, TypeAt, ImageInv, BootStep \/ Kernel
  PROVE  ImageInv'
<1> USE ImageParts
<1>0. call.fn = "none" => call.fn \notin Transfers
  BY DEF Transfers
<1>1. ASSUME NEW fn, NEW pa, NEW count, NEW offset, NEW pages, Call(fn, pa, count, offset, pages)
      PROVE  /\ call.fn = "none" /\ UNCHANGED <<memory, disk, ret>>
             /\ call'.fn = fn /\ call'.pa = pa /\ call'.count = count /\ call'.offset = offset
             /\ engine'.moved = 0
             /\ \A m : There(m)' <=> There(m)
  <2>1. /\ call.fn = "none" /\ UNCHANGED <<memory, disk, ret>>
        /\ call' = [NoCall EXCEPT !.fn = fn, !.pc = "enter", !.pa = pa, !.count = count,
                                  !.offset = offset, !.pages = pages]
        /\ engine' = [engine EXCEPT !.moved = 0]
    BY <1>1 DEF Call, Idle
  <2>2. engine \in [dir : Dir, block : Nat, left : Nat, run : BOOLEAN, moved : Nat]
    BY SdParts DEF Registered
  <2>3. \A m : There(m)' <=> There(m)
    BY <2>1, MemoryStays
  <2> QED
    BY <2>1, <2>2, <2>3 DEF NoCall
<1>2. CASE at' \in {"KINIT_SD", "KINIT_CARD", "KERNEL"}
  BY <1>2 DEF ImageInv
<1>3. CASE FwInit \/ FwCard
  <2>1. PICK fn \in {"sd_init", "sd_spin_init_mem_card"} : Call(fn, 0, 0, 0, <<>>)
    BY <1>3 DEF FwInit, FwCard, Simple
  <2>2. UNCHANGED disk /\ call'.fn = fn
    BY <1>1, <2>1
  <2> QED
    BY <1>3, <2>2 DEF ImageInv, FwInit, FwCard, Go
<1>4. CASE FwRead \/ MbrRead \/ MbrElf
  <2>1. PICK pa, count, offset : Call("sd_dma_spin_read", pa, count, offset, <<>>)
    BY <1>4 DEF FwRead, MbrRead, MbrElf, Read
  <2>2. UNCHANGED disk /\ call'.fn = "sd_dma_spin_read"
    BY <1>1, <2>1
  <2> QED
    BY <1>4, <2>2 DEF ImageInv, FwRead, MbrRead, MbrElf, Go
<1>5. CASE MbrHeader
  <2>1. /\ at = "MBR_LOOP" /\ at' = "MBR_SEGMENT" /\ seg' = seg /\ read_ok' = (read_ok /\ ret = 0)
        /\ Call("sd_dma_spin_read", BUFFER, 2, ELF_ADDR + (Phoff \div SECTOR), <<>>)
    BY <1>5 DEF MbrHeader, Go, Noted, Read
  <2>2. /\ call.fn = "none" /\ UNCHANGED disk /\ call'.fn = "sd_dma_spin_read"
        /\ call'.pa = BUFFER /\ call'.count = 2
        /\ \A m : There(m)' <=> There(m)
    BY <1>1, <2>1
  <2>3. ASSUME read_ok, ret = 0, NEW m \in 1..seg PROVE There(m)
    <3>1. seg \in Nat /\ seg > 0 /\ (m \in 1..seg - 1 \/ m = seg)
      BY <2>3 DEF TypeAt
    <3> QED
      BY <2>1, <2>2, <2>3, <3>1
  <2> QED
    BY <2>1, <2>2, <2>3 DEF ImageInv
<1>6. CASE MbrSegment
  <2> DEFINE s == Segment[seg + 1]
  <2>1. /\ at = "MBR_SEGMENT" /\ at' = "MBR_LOOP" /\ seg' = seg + 1
        /\ read_ok' = (read_ok /\ ret = 0)
        /\ Call("sd_dma_spin_read", s.paddr - Offset(s), EndId(s) - StartId(s),
                StartId(s) + ELF_ADDR, <<>>)
    BY <1>6 DEF MbrSegment, Go, Noted, Read
  <2>2. /\ call.fn = "none" /\ UNCHANGED disk /\ call'.fn = "sd_dma_spin_read"
        /\ call'.pa = s.paddr - Offset(s) /\ call'.count = EndId(s) - StartId(s)
        /\ call'.offset = StartId(s) + ELF_ADDR /\ engine'.moved = 0
        /\ \A m : There(m)' <=> There(m)
    BY <1>1, <2>1
  <2>3. SegmentRead(seg)'
    BY <2>1, <2>2 DEF SegmentRead
  <2>4. Fetched'
    <3>1. 0 * SECTOR - 1 < 0
      BY SdAssumption
    <3>2. 0..engine'.moved * SECTOR - 1 = {}
      BY <2>2, <3>1, SdAssumption
    <3> QED
      BY <3>2 DEF Fetched
  <2>5. seg \in Nat /\ (seg + 1) - 1 = seg
    BY DEF TypeAt
  <2>6. read_ok' => \A m \in 1..seg' - 1 : There(m)'
    BY <2>1, <2>2, <2>5
  <2> QED
    BY <2>1, <2>2, <2>3, <2>4, <2>6 DEF ImageInv
<1>7. CASE MbrEnter
  <2>1. /\ at = "MBR_LOOP" /\ at' = "KINIT" /\ seg = Len(Segment) /\ call.fn = "none"
        /\ read_ok' = (read_ok /\ ret = 0) /\ UNCHANGED <<memory, disk, call>>
    BY <1>7 DEF MbrEnter, Go, Noted, Between, Idle, sd_vars
  <2>2. \A m : There(m)' <=> There(m)
    BY <2>1, MemoryStays
  <2>3. ASSUME read_ok, ret = 0, NEW m \in 1..Len(Segment) PROVE There(m)
    <3>1. seg \in Nat /\ seg > 0 /\ (m \in 1..seg - 1 \/ m = seg)
      BY <2>1, <2>3 DEF TypeAt
    <3> QED
      BY <2>1, <2>3, <3>1
  <2> QED
    BY <2>1, <2>2, <2>3 DEF ImageInv
<1>8. CASE FwSleep \/ FwSpin \/ MbrLost
  <2>1. UNCHANGED <<disk, call>>
    BY <1>8 DEF FwSleep, FwSpin, MbrLost, Others, sd_vars
  <2> QED
    BY <1>8, <2>1 DEF ImageInv, FwSleep, FwSpin, MbrLost, Go
<1>9. CASE KinitSleep \/ KinitSd \/ KinitCard \/ Kernel
  BY <1>2, <1>9 DEF KinitSleep, KinitSd, KinitCard, Kernel, Go
<1> QED
  BY <1>3, <1>4, <1>5, <1>6, <1>7, <1>8, <1>9 DEF BootStep

LEMMA ImageStep ==
  ASSUME cardtype = 1, SdInv, TypeAt, MemoryKept, ImageInv, [Next]_vars
  PROVE  ImageInv'
<1>1. CASE UNCHANGED vars
  <2>1. UNCHANGED <<at, seg, read_ok, memory, disk, ret, call, engine>> /\ SameCall
    BY <1>1 DEF vars, sd_vars, SameCall
  <2> QED
    BY <2>1, SteadyImage
<1>2. CASE SdStep /\ UNCHANGED <<at, seg, read_ok>>
  <2>1. UNCHANGED <<memory, disk>> /\ (call.fn \in Transfers => engine'.moved = engine.moved)
    BY <1>2, DriverLeaves
  <2>2. "sd_spin_init_mem_card" \notin Transfers
    BY DEF Transfers
  <2>3. CASE call' = NoCall /\ (InitPower \/ NoCard \/ Refuse \/ CommandError \/ Response \/ Poll \/ Done)
    BY <1>2, <2>1, <2>3, ReturnKeepsImage
  <2>4. CASE /\ SameCall /\ UNCHANGED ret
             /\ call'.offset = call.offset \/ call.fn = "sd_spin_init_mem_card"
    BY <1>2, <2>1, <2>2, <2>4, SteadyImage
  <2> QED
    BY <1>2, <2>3, <2>4, Ends
<1>3. CASE SdEnvironment /\ ~Block /\ UNCHANGED <<at, seg, read_ok>>
  <2>1. UNCHANGED <<memory, disk, Request, Gone, ret>>
    BY <1>3, EnvironmentImplements DEF Steady
  <2>2. UNCHANGED call
    BY <1>3, CallStays
  <2>3. SameCall /\ (call.fn \in Transfers => engine'.moved = engine.moved)
    BY <2>1, <2>2 DEF SameCall, Gone
  <2> QED
    BY <1>3, <2>1, <2>2, <2>3, SteadyImage
<1> QED
  BY <1>1, <1>2, <1>3, BlockKeepsImage, BootKeepsImage DEF Next, SdNext, SdEnvironment

LEMMA ImageEntered == ImageInv => ImageLoaded
BY DEF ImageInv, There, ImageLoaded

LEMMA InitImage == Init => ImageInv
<1>1. ASSUME Init PROVE at = "FW" /\ disk = FirstImage /\ call.fn = "none"
  BY <1>1, NoCallFacts DEF Init, SdInit
<1> QED
  BY <1>1 DEF ImageInv

-----------------------------------------------------------------------------
(* Types: the bounds that the model gives the counter, blocks and faults.   *)

GtcBounds ==
    /\ counter <= CounterBound /\ delay.from <= CounterBound /\ delay.target <= NONE
    /\ delay.hi <= CounterBound \div Radix /\ delay.lo <= Radix - 1
    /\ Waiting /\ delay.target = NONE => counter + delay.ticks <= CounterBound

LEMMA GtcBounded ==
  ASSUME GtcInv, GtcBounds, [GtcNext \/ GtcCall]_gtc_vars
  PROVE  GtcBounds'
<1>1. /\ Radix \in Nat \ {0} /\ CounterBound \in Nat /\ NONE = CounterBound + 1
      /\ counter \in Nat
      /\ delay \in [pc : {"idle", "hi", "lo", "again"}, hi : Nat, lo : Nat,
                    ticks : Nat, target : Nat, from : Nat]
  BY GtcAssumption DEF GtcInv, NONE
<1>2. CASE UNCHANGED gtc_vars
  BY <1>2 DEF gtc_vars, GtcBounds, Waiting, NONE
<1>3. CASE Tick
  <2>1. counter' = counter + 1 /\ counter < CounterBound /\ delay' = delay /\ NONE' = NONE
        /\ (delay.target = NONE => counter + delay.ticks < CounterBound)
    BY <1>3 DEF Tick, NONE
  <2> QED
    BY <1>1, <2>1 DEF GtcBounds, Waiting
<1>4. CASE ReadHi
  <2>1. delay' = [delay EXCEPT !.hi = counter \div Radix, !.pc = "lo"] /\ counter' = counter
        /\ NONE' = NONE /\ Waiting
    BY <1>4 DEF ReadHi, NONE, Waiting
  <2>2. counter \div Radix <= CounterBound \div Radix
    BY <1>1, UpperOrder DEF GtcBounds
  <2>3. /\ delay'.hi = counter \div Radix /\ delay'.lo = delay.lo /\ delay'.from = delay.from
        /\ delay'.target = delay.target /\ delay'.ticks = delay.ticks
    BY <1>1, <2>1
  <2> QED
    BY <2>1, <2>2, <2>3 DEF GtcBounds
<1>5. CASE ReadLo
  <2>1. delay' = [delay EXCEPT !.lo = counter % Radix, !.pc = "again"] /\ counter' = counter
        /\ NONE' = NONE /\ Waiting
    BY <1>5 DEF ReadLo, NONE, Waiting
  <2>2. counter % Radix <= Radix - 1
    <3>1. counter % Radix \in 0..Radix - 1
      BY <1>1, Halves
    <3> QED
      BY <1>1, <3>1
  <2>3. /\ delay'.hi = delay.hi /\ delay'.lo = counter % Radix /\ delay'.from = delay.from
        /\ delay'.target = delay.target /\ delay'.ticks = delay.ticks
    BY <1>1, <2>1
  <2> QED
    BY <2>1, <2>2, <2>3 DEF GtcBounds
<1>6. CASE ReadAgain
  <2> DEFINE time == delay.hi * Radix + delay.lo
  <2>1. time \in Nat /\ time <= counter
    BY <1>6, TimeRead DEF ReadAgain
  <2>2. PICK t \in Nat : t = time /\ t <= counter
    BY <2>1
  <2>3. /\ counter' = counter /\ NONE' = NONE /\ Waiting
        /\ \/ \E p : delay' = [delay EXCEPT !.pc = p]
           \/ delay' = [delay EXCEPT !.pc = "hi", !.target = t + delay.ticks] /\ delay.target = NONE
    BY <1>6, <2>2 DEF ReadAgain, NONE, Waiting
  <2>4. CASE \E p : delay' = [delay EXCEPT !.pc = p]
    <3>1. /\ delay'.hi = delay.hi /\ delay'.lo = delay.lo /\ delay'.from = delay.from
          /\ delay'.target = delay.target /\ delay'.ticks = delay.ticks
      BY <1>1, <2>4
    <3> QED
      BY <2>3, <3>1 DEF GtcBounds
  <2>5. CASE delay' = [delay EXCEPT !.pc = "hi", !.target = t + delay.ticks] /\ delay.target = NONE
    <3>1. /\ delay'.hi = delay.hi /\ delay'.lo = delay.lo /\ delay'.from = delay.from
          /\ delay'.target = t + delay.ticks /\ delay'.ticks = delay.ticks
      BY <1>1, <2>5
    <3>2. counter + delay.ticks <= CounterBound
      BY <2>3, <2>5 DEF GtcBounds
    <3>3. t + delay.ticks <= CounterBound
      BY <1>1, <2>2, <3>2
    <3> QED
      BY <1>1, <2>3, <3>1, <3>2, <3>3 DEF GtcBounds
  <2> QED
    BY <2>3, <2>4, <2>5
<1>7. CASE GtcCall
  <2>1. PICK n \in Nat : StartDelay(GTC_TPS * n) \/ StartDelay(GTC_TPUS * n)
    BY <1>7 DEF GtcCall, sleep, usleep
  <2>2. PICK ticks \in Nat : StartDelay(ticks)
    <3>1. GTC_TPS * n \in Nat /\ GTC_TPUS * n \in Nat
      BY GtcAssumption
    <3> QED
      BY <2>1, <3>1
  <2>3. PICK now \in 0..CounterBound - ticks :
          /\ counter' = now
          /\ delay' = [delay EXCEPT !.pc = "hi", !.ticks = ticks, !.target = NONE, !.from = now]
    BY <2>2, Zenon DEF StartDelay
  <2>4. /\ delay'.hi = delay.hi /\ delay'.lo = delay.lo /\ delay'.from = now
        /\ delay'.target = NONE /\ delay'.ticks = ticks /\ NONE' = NONE
    BY <1>1, <2>3 DEF NONE
  <2>5. now <= CounterBound /\ now + ticks <= CounterBound /\ NONE <= NONE
    BY <1>1, <2>2
  <2> QED
    BY <2>3, <2>4, <2>5 DEF GtcBounds
<1> QED
  BY <1>2, <1>3, <1>4, <1>5, <1>6, <1>7 DEF GtcNext

LEMMA GtcTyped == GtcInv /\ GtcBounds => GtcTypeOK
<1> SUFFICES ASSUME GtcInv, GtcBounds PROVE GtcTypeOK
  OBVIOUS
<1>1. Radix \in Nat \ {0} /\ CounterBound \in Nat /\ NONE = CounterBound + 1 /\ CounterBound \div Radix \in Nat
  <2>1. Radix \in Nat \ {0} /\ CounterBound \in Nat
    BY GtcAssumption
  <2> QED
    BY <2>1, Halves DEF NONE
<1>2. /\ counter \in Nat
      /\ delay \in [pc : {"idle", "hi", "lo", "again"}, hi : Nat, lo : Nat,
                    ticks : Nat, target : Nat, from : Nat]
  BY DEF GtcInv
<1>3. /\ delay.hi \in 0..CounterBound \div Radix /\ delay.lo \in 0..Radix - 1
      /\ delay.target \in 0..NONE /\ delay.from \in 0..CounterBound
  BY <1>1, <1>2 DEF GtcBounds
<1>4. counter \in 0..CounterBound
  BY <1>1, <1>2 DEF GtcBounds
<1> QED
  BY <1>2, <1>3, <1>4 DEF GtcTypeOK, Delay

LEMMA InitGtcBounds == GtcInit => GtcBounds
<1> SUFFICES ASSUME GtcInit PROVE GtcBounds
  OBVIOUS
<1>1. CounterBound \div Radix \in Nat /\ Radix \in Nat \ {0} /\ CounterBound \in Nat /\ NONE = CounterBound + 1
  <2>1. Radix \in Nat \ {0} /\ CounterBound \in Nat
    BY GtcAssumption
  <2> QED
    BY <2>1, Halves DEF NONE
<1>2. delay = [pc |-> "idle", hi |-> 0, lo |-> 0, ticks |-> 0, target |-> NONE, from |-> 0] /\ counter = 0
  BY DEF GtcInit
<1>3. /\ delay.pc = "idle" /\ delay.hi = 0 /\ delay.lo = 0 /\ delay.target = NONE /\ delay.from = 0
  BY <1>2
<1> QED
  BY <1>1, <1>2, <1>3 DEF GtcBounds, Waiting

\* What the timer does in the whole.
LEMMA GtcPart ==
  ASSUME [Next]_vars
  PROVE  [GtcNext \/ GtcCall]_gtc_vars
<1>1. CASE UNCHANGED gtc_vars
  BY <1>1
<1>2. ASSUME NEW fn, NEW pa, NEW count, NEW offset, NEW pages, Call(fn, pa, count, offset, pages)
      PROVE  UNCHANGED gtc_vars
  BY <1>2 DEF Call
<1>3. CASE FwSleep \/ KinitSleep
  BY <1>3 DEF FwSleep, KinitSleep, GtcCall
<1>4. CASE PowerUp
  <2>1. PowerUpTime \in Nat
    BY SdAssumption
  <2> QED
    BY <1>4, <2>1 DEF PowerUp, GtcCall
<1>5. CASE BootStep /\ ~FwSleep /\ ~KinitSleep
  <2>1. CASE FwInit \/ KinitSd \/ FwCard \/ KinitCard
    BY <1>2, <2>1 DEF FwInit, KinitSd, FwCard, KinitCard, Simple
  <2>2. CASE FwRead \/ MbrRead \/ MbrElf \/ MbrHeader \/ MbrSegment
    BY <1>2, <2>2 DEF FwRead, MbrRead, MbrElf, MbrHeader, MbrSegment, Read
  <2>3. CASE FwSpin \/ MbrLost \/ MbrEnter
    BY <2>3 DEF FwSpin, MbrLost, MbrEnter, sd_vars, gtc_vars
  <2> QED
    BY <1>5, <2>1, <2>2, <2>3 DEF BootStep
<1>6. CASE Kernel
  BY <1>2, <1>6 DEF Kernel
<1>7. CASE SdStep /\ ~PowerUp
  <2>1. UNCHANGED gtc_vars
    BY <1>7 DEF SdStep, InitReset, InitClock, InitPower, NoCard, SetAddress, Refuse, Send,
       CommandError, CommandComplete, Response, Poll, Ack, Restart, Done, Stay
  <2> QED
    BY <2>1
<1>8. CASE SdEnvironment /\ ~GtcNext
  <2>1. CASE ResetDone \/ ClockDone \/ NoAnswer \/ CommandFault \/ BadEcho \/ DataLost \/ Remove
    BY <2>1 DEF ResetDone, ClockDone, NoAnswer, CommandFault, BadEcho, DataLost, Remove, Environment
  <2>2. CASE Answer
    BY <2>2 DEF Answer, Environment
  <2>3. CASE Block
    BY <2>3 DEF Block, Environment
  <2> QED
    BY <1>8, <2>1, <2>2, <2>3 DEF SdEnvironment, NoData, DataFault
<1>9. CASE UNCHANGED vars
  BY <1>9 DEF vars, sd_vars, gtc_vars
<1> QED
  BY <1>3, <1>4, <1>5, <1>6, <1>7, <1>8, <1>9 DEF Next, SdNext

\* Numbers of blocks are those of the card; errors and calls are bounded.
Limits ==
    /\ call.offset + call.count <= Blocks /\ (call.fn \notin Transfers => call.count = 0)
    /\ host.command.arg <= Blocks /\ host.count <= Blocks
    /\ engine.block <= Blocks /\ engine.left <= Blocks /\ engine.moved <= Blocks
    /\ DOMAIN disk = 0..Blocks * SECTOR - 1
    /\ ret \in -9..1 /\ faults.n <= FaultBound
    /\ seg <= Len(Segment) + CallBound /\ (at # "KERNEL" => seg <= Len(Segment))
    /\ read_ok \in BOOLEAN

LEMMA LimitParts ==
  Limits <=>
    /\ call.offset + call.count <= Blocks /\ (call.fn \notin Transfers => call.count = 0)
    /\ host.command.arg <= Blocks /\ host.count <= Blocks
    /\ engine.block <= Blocks /\ engine.left <= Blocks /\ engine.moved <= Blocks
    /\ DOMAIN disk = 0..Blocks * SECTOR - 1
    /\ ret \in -9..1 /\ faults.n <= FaultBound
    /\ seg <= Len(Segment) + CallBound /\ (at # "KERNEL" => seg <= Len(Segment))
    /\ read_ok \in BOOLEAN
BY DEF Limits

LEMMA FirstBlockLow ==
  ASSUME NEW o \in Nat
  PROVE  FirstBlock(o) \in Nat /\ FirstBlock(o) <= o
<1>1. SECTOR \in Nat \ {0}
  BY SdAssumption
<1>2. PICK q \in Nat, r \in Nat : q = o \div SECTOR /\ o = q * SECTOR + r
  BY <1>1, Halves
<1>3. q * 1 <= q * SECTOR
  BY <1>1
<1>4. q <= o
  BY <1>1, <1>2, <1>3
<1> QED
  BY <1>2, <1>4 DEF FirstBlock

\* The fields that the driver's steps write.
LEMMA DriverLimits ==
  ASSUME SdInv, Limits, SdStep, UNCHANGED <<at, seg, read_ok>>
  PROVE  Limits'
<1> USE SdParts, LimitParts
<1>0. Blocks \in Nat /\ 1 <= Blocks
  BY SdAssumption, CardAssumption, BootAssumption
<1>1. /\ call'.offset + call'.count <= Blocks /\ (call'.fn \notin Transfers => call'.count = 0)
      /\ ret' \in -9..1
  <2>1. CASE call' = NoCall /\ (InitPower \/ NoCard \/ Refuse \/ CommandError \/ Response \/ Poll \/ Done)
    <3>1. call'.offset = 0 /\ call'.count = 0
      BY <2>1 DEF NoCall
    <3>2. ret' \in -9..1
      BY <2>1, Results
    <3> QED
      BY <1>0, <3>1, <3>2
  <2>2. CASE /\ SameCall /\ UNCHANGED ret
             /\ call'.offset = call.offset \/ call.fn = "sd_spin_init_mem_card"
    <3>1. call'.fn = call.fn /\ call'.count = call.count /\ UNCHANGED ret
      BY <2>2 DEF SameCall
    <3>2. CASE call'.offset = call.offset
      BY <3>1, <3>2
    <3>3. CASE call.fn = "sd_spin_init_mem_card" /\ call'.offset # call.offset
      <4>1. call.count = 0
        BY <3>3 DEF Transfers
      <4>2. call'.offset = 1
        <5>0. call'.fn = "sd_spin_init_mem_card" /\ call.fn \notin Transfers /\ NoCall.fn = "none"
          BY <3>1, <3>3, NoCallFacts DEF Transfers
        <5>1. ~(NoCard \/ Refuse \/ CommandError \/ InitPower)
          BY <5>0 DEF NoCard, Refuse, CommandError, InitPower, Return, CommandFailed
        <5>2. ~(Poll \/ Ack \/ Restart \/ Done)
          BY <5>0, WhoRuns DEF Poll, Ack, Restart, Done, At
        <5>3. ~(InitReset \/ InitClock \/ PowerUp \/ SetAddress \/ Send \/ CommandComplete)
          <6>1. (InitReset \/ InitClock \/ PowerUp \/ SetAddress \/ Send \/ CommandComplete)
                => \E p : call' = [call EXCEPT !.pc = p]
            BY DEF InitReset, InitClock, PowerUp, SetAddress, Send, CommandComplete, Goto
          <6> QED
            BY <3>3, <6>1 DEF Registered
        <5>4. Response /\ call' # NoCall
          BY <5>0, <5>1, <5>2, <5>3 DEF SdStep
        <5>5. call' = [call EXCEPT !.k = NextStep, !.pc = "send",
                                   !.offset = IF host.resp0 = "rca" THEN 1 ELSE @]
          BY <5>4 DEF Response, Return
        <5> QED
          BY <3>3, <5>5 DEF Registered
      <4> QED
        BY <1>0, <3>1, <4>1, <4>2
    <3> QED
      BY <2>2, <3>2, <3>3
  <2> QED
    BY <2>1, <2>2, Ends
<1>2. host'.command.arg <= Blocks /\ host'.count <= Blocks
  <2>1. CASE InitReset
    <3>1. host'.command.arg = 0 /\ host'.count = 0
      BY <2>1 DEF InitReset, Reset, NoCommand
    <3> QED
      BY <1>0, <3>1
  <2>2. CASE Send
    <3>1. host'.command.arg = call.offset /\ host'.count = call.count
      BY <2>2 DEF Send, Registered
    <3>2. call.offset \in Nat /\ call.count \in Nat
      BY DEF Registered
    <3> QED
      BY <1>0, <3>1, <3>2
  <2>3. CASE ~InitReset /\ ~Send
    <3>1. host'.command = host.command /\ host'.count = host.count
      <4>1. CASE InitClock \/ InitPower \/ SetAddress \/ CommandComplete
        BY <4>1 DEF InitClock, InitPower, SetAddress, CommandComplete, Registered
      <4>2. CASE Ack \/ Restart
        BY <4>2 DEF Ack, Restart, Registered
      <4>3. CASE Poll
        BY <4>3 DEF Poll, Registered
      <4>4. CASE Done
        BY <4>4 DEF Done, Registered
      <4>5. CASE NoCard \/ PowerUp \/ Refuse \/ CommandError \/ Response
        BY <4>5 DEF NoCard, PowerUp, Refuse, CommandError, Response
      <4> QED
        BY <2>3, <4>1, <4>2, <4>3, <4>4, <4>5 DEF SdStep
    <3> QED
      BY <3>1
  <2> QED
    BY <2>1, <2>2, <2>3
<1>3. engine'.block <= Blocks /\ engine'.left <= Blocks /\ engine'.moved <= Blocks
  <2>1. CASE InitReset
    <3>1. engine'.block = 0 /\ engine'.left = 0 /\ engine'.moved = 0
      BY <2>1 DEF InitReset, Stopped
    <3> QED
      BY <1>0, <3>1
  <2>2. CASE Restart
    BY <2>2 DEF Restart, Registered
  <2>3. CASE ~InitReset /\ ~Restart
    <3>1. UNCHANGED engine
      BY <2>3 DEF SdStep, InitClock, InitPower, NoCard, PowerUp, SetAddress, Refuse, Send,
         CommandError, CommandComplete, Response, Poll, Ack, Done, Driver
    <3> QED
      BY <3>1
  <2> QED
    BY <2>1, <2>2, <2>3
<1>4. UNCHANGED <<disk, faults>>
  BY DEF SdStep, InitReset, InitClock, InitPower, NoCard, PowerUp, SetAddress, Refuse, Send,
     CommandError, CommandComplete, Response, Poll, Ack, Restart, Done, Driver
<1> QED
  BY <1>1, <1>2, <1>3, <1>4, LimitParts DEF Limits

\* What the controller and the card do.
LEMMA EnvironmentLimits ==
  ASSUME SdInv, Limits, SdEnvironment, UNCHANGED <<at, seg, read_ok>>
  PROVE  Limits'
<1> USE SdParts, LimitParts
<1>0. Blocks \in Nat /\ FaultBound \in Nat
  BY SdAssumption
<1>1. CASE GtcNext /\ UNCHANGED <<host, engine, card, memory, disk, call, ret, faults>>
  BY <1>1 DEF Limits
<1>2. OneFault /\ MayFail => faults'.n <= FaultBound
  BY <1>0 DEF OneFault, MayFail, Registered
<1>3. CASE ResetDone \/ ClockDone \/ Remove
  <2>1. /\ UNCHANGED <<engine, disk, call, ret>>
        /\ host'.command = host.command /\ host'.count = host.count
        /\ UNCHANGED faults \/ (OneFault /\ MayFail)
    BY <1>3 DEF ResetDone, ClockDone, Remove, Environment, Registered
  <2> QED
    BY <1>2, <2>1 DEF Limits
<1>4. ASSUME host'.command = NoCommand, host'.count = host.count
      PROVE  host'.command.arg <= Blocks /\ host'.count <= Blocks
  <2>1. NoCommand.arg = 0
    BY DEF NoCommand
  <2> QED
    BY <1>0, <1>4, <2>1
<1>5. CASE NoAnswer \/ CommandFault
  <2>1. /\ CommandLost /\ UNCHANGED <<engine, disk, call, ret>>
        /\ UNCHANGED faults \/ (OneFault /\ MayFail)
    BY <1>5 DEF NoAnswer, CommandFault, Environment
  <2>2. PICK stuck \in SUBSET host.inhibit :
           host' = [Raise({"ERR"}) EXCEPT !.inhibit = stuck, !.command = NoCommand]
    BY <2>1, Zenon DEF CommandLost
  <2>3. PICK s : Raise({"ERR"}) = [host EXCEPT !.status = s]
    BY DEF Raise
  <2>4. host'.command = NoCommand /\ host'.count = host.count
    BY <2>2, <2>3 DEF Registered
  <2> QED
    BY <1>2, <1>4, <2>1, <2>4 DEF Limits
<1>6. CASE BadEcho
  <2>1. /\ host' = [Raise({"CC"}) EXCEPT !.resp0 = "none", !.inhibit = {}, !.command = NoCommand]
        /\ UNCHANGED <<engine, disk, call, ret>> /\ OneFault /\ MayFail
    BY <1>6 DEF BadEcho, Environment
  <2>2. PICK s : Raise({"CC"}) = [host EXCEPT !.status = s]
    BY DEF Raise
  <2>3. host'.command = NoCommand /\ host'.count = host.count
    BY <2>1, <2>2 DEF Registered
  <2> QED
    BY <1>2, <1>4, <2>1, <2>3 DEF Limits
<1>7. CASE Answer
  <2>1. PICK resp \in Resp0 : host' = [Raise({"CC"}) EXCEPT !.resp0 = resp,
                                          !.inhibit = @ \ {"CMD"}, !.command = NoCommand]
    BY <1>7, Zenon DEF Answer
  <2>2. /\ UNCHANGED <<disk, call, ret, faults>>
        /\ \/ UNCHANGED engine
           \/ engine' = [dir |-> host.command.mode, block |-> FirstBlock(host.command.arg),
                         left |-> host.count, run |-> TRUE, moved |-> 0]
    BY <1>7 DEF Answer, Environment
  <2>3. host'.command = NoCommand /\ host'.count = host.count
    <3>1. PICK s : Raise({"CC"}) = [host EXCEPT !.status = s]
      BY DEF Raise
    <3> QED
      BY <2>1, <3>1 DEF Registered
  <2>4. engine'.block <= Blocks /\ engine'.left <= Blocks /\ engine'.moved <= Blocks
    <3>1. CASE UNCHANGED engine
      BY <3>1
    <3>2. CASE engine' = [dir |-> host.command.mode, block |-> FirstBlock(host.command.arg),
                          left |-> host.count, run |-> TRUE, moved |-> 0]
      <4>1. PICK arg \in Nat : arg = host.command.arg
        BY DEF Registered
      <4>2. FirstBlock(arg) \in Nat /\ FirstBlock(arg) <= arg
        BY FirstBlockLow
      <4>3. engine'.block = FirstBlock(arg) /\ engine'.left = host.count /\ engine'.moved = 0
        BY <3>2, <4>1
      <4> QED
        BY <1>0, <4>1, <4>2, <4>3
    <3> QED
      BY <2>2, <3>1, <3>2
  <2> QED
    BY <1>4, <2>2, <2>3, <2>4 DEF Limits
<1>8. CASE DataLost /\ (UNCHANGED faults \/ (OneFault /\ MayFail))
  <2>1. /\ engine' = [Stopped EXCEPT !.moved = engine.moved] /\ UNCHANGED <<disk, call, ret>>
        /\ \E stuck : host' = [Raise({"ERR"}) EXCEPT !.inhibit = stuck]
    BY <1>8 DEF DataLost, Environment
  <2>2. engine'.block = 0 /\ engine'.left = 0 /\ engine'.moved = engine.moved
    BY <2>1 DEF Stopped
  <2>3. host'.command = host.command /\ host'.count = host.count
    BY <2>1 DEF Raise, Registered
  <2> QED
    BY <1>0, <1>2, <1>8, <2>1, <2>2, <2>3 DEF Limits
<1>9. CASE Block
  <2>1. PICK last \in BOOLEAN, boundary \in BOOLEAN :
          /\ last <=> engine.left = 1
          /\ boundary <=> (host.addr + SECTOR) % PAGE = 0 /\ ~last
    OBVIOUS
  <2>2. /\ call.fn \in Transfers /\ engine.moved < call.count
        /\ UNCHANGED <<call, faults>>
        /\ host' = [host EXCEPT
                      !.status = @ \cup (IF last THEN {"TC"} ELSE IF boundary THEN {"DMA"} ELSE {}),
                      !.addr = @ + SECTOR, !.inhibit = IF last THEN {} ELSE @]
        /\ engine' = [dir |-> IF last THEN "none" ELSE engine.dir,
                      block |-> IF last THEN 0 ELSE engine.block + 1,
                      left |-> engine.left - 1, run |-> ~last /\ ~boundary,
                      moved |-> engine.moved + 1]
    BY <1>9, <2>1, BlockFacts, Zenon
  <2>3. engine.dir # "none" /\ UNCHANGED ret /\ DOMAIN disk' = DOMAIN disk
    BY <1>9 DEF Block, Engaged, Environment
  <2>4. host'.command = host.command /\ host'.count = host.count
    BY <2>2 DEF Registered
  <2>5. engine.block = FirstBlock(call.offset) + engine.moved
    BY <2>3 DEF Engaged
  <2>6. /\ engine.moved \in Nat /\ engine.left \in Nat /\ call.count \in Nat /\ call.offset \in Nat
        /\ engine.block \in Nat
    BY DEF Registered
  <2>7. FirstBlock(call.offset) \in Nat /\ FirstBlock(call.offset) <= call.offset
    BY <2>6, FirstBlockLow
  <2>8. engine.block + 1 <= Blocks /\ engine.left - 1 <= Blocks /\ engine.moved + 1 <= Blocks
    <3>1. PICK f \in Nat, m \in Nat, l \in Nat, c \in Nat, o \in Nat, b \in Nat :
            /\ f = FirstBlock(call.offset) /\ m = engine.moved /\ l = engine.left
            /\ c = call.count /\ o = call.offset /\ b = engine.block
      BY <2>6, <2>7
    <3>2. b = f + m /\ f <= o /\ m < c /\ o + c <= Blocks /\ l <= Blocks
      BY <2>2, <2>5, <2>7, <3>1
    <3>3. b + 1 <= Blocks /\ l - 1 <= Blocks /\ m + 1 <= Blocks
      BY <1>0, <3>2
    <3> QED
      BY <3>1, <3>3
  <2>9. engine'.block <= Blocks /\ engine'.left <= Blocks /\ engine'.moved <= Blocks
    <3>1. engine'.left = engine.left - 1 /\ engine'.moved = engine.moved + 1
          /\ engine'.block \in {0, engine.block + 1}
      BY <2>2
    <3> QED
      BY <1>0, <2>8, <3>1
  <2> QED
    BY <2>2, <2>3, <2>4, <2>9 DEF Limits
<1> QED
  BY <1>1, <1>3, <1>5, <1>6, <1>7, <1>8, <1>9 DEF SdEnvironment, NoData, DataFault

LEMMA CallLimits ==
  ASSUME SdInv, Limits, NEW fn, NEW pa, NEW count \in Nat, NEW offset \in Nat, NEW pages,
         Call(fn, pa, count, offset, pages), offset + count <= Blocks,
         fn \notin Transfers => count = 0,
         seg' <= Len(Segment) + CallBound, at' # "KERNEL" => seg' <= Len(Segment),
         read_ok' \in BOOLEAN
  PROVE  Limits'
<1> USE SdParts, LimitParts
<1>1. /\ UNCHANGED <<host, disk, ret>>
      /\ call' = [NoCall EXCEPT !.fn = fn, !.pc = "enter", !.pa = pa, !.count = count,
                                !.offset = offset, !.pages = pages]
      /\ faults' = [faults EXCEPT !.hit = FALSE]
      /\ engine' = [engine EXCEPT !.moved = 0]
  BY DEF Call
<1>2. call'.fn = fn /\ call'.count = count /\ call'.offset = offset
  BY <1>1 DEF NoCall
<1>3. engine'.block = engine.block /\ engine'.left = engine.left /\ engine'.moved = 0
      /\ faults'.n = faults.n
  BY <1>1 DEF Registered
<1>4. 0 <= Blocks
  BY SdAssumption
<1> QED
  BY <1>1, <1>2, <1>3, <1>4 DEF Limits

LEMMA BootLimits ==
  ASSUME SdInv, TypeAt, Limits, BootStep \/ Kernel
  PROVE  Limits'
<1> USE LimitParts
<1>1. /\ Blocks \in Nat /\ 1 <= Blocks /\ ELF_ADDR \in Nat /\ ELF_ADDR + 3 <= Blocks
      /\ Len(Segment) \in Nat /\ CallBound \in Nat /\ seg \in Nat /\ 0 + 0 <= Blocks
      /\ Len(Segment) <= Len(Segment) + CallBound
  BY SdAssumption, CardAssumption, BootAssumption, TransferAssumption DEF TypeAt
<1>2. /\ "sd_init" \notin Transfers /\ "sd_spin_init_mem_card" \notin Transfers
      /\ "sd_dma_spin_read" \in Transfers
  BY DEF Transfers
<1>3. CASE FwSleep \/ FwSpin \/ MbrLost \/ MbrEnter \/ KinitSleep
  <2>1. /\ UNCHANGED <<host, engine, disk, call, ret, faults, seg>> /\ at # "KERNEL"
        /\ read_ok' \in BOOLEAN
    BY <1>3 DEF FwSleep, FwSpin, MbrLost, MbrEnter, KinitSleep, Others, Go, Noted, sd_vars
  <2> QED
    BY <2>1 DEF Limits
<1>4. CASE FwInit \/ FwCard \/ KinitSd \/ KinitCard
  <2>1. PICK fn \in {"sd_init", "sd_spin_init_mem_card"} : Call(fn, 0, 0, 0, <<>>)
    BY <1>4 DEF FwInit, FwCard, KinitSd, KinitCard, Simple
  <2>2. seg' \in {seg, Len(Segment)} /\ seg <= Len(Segment) /\ read_ok' \in BOOLEAN
    BY <1>4 DEF FwInit, FwCard, KinitSd, KinitCard, Go
  <2>3. seg' <= Len(Segment) /\ seg' <= Len(Segment) + CallBound
    BY <1>1, <2>2
  <2>4. fn \notin Transfers
    BY <1>2
  <2> QED
    BY <1>1, <2>1, <2>2, <2>3, <2>4, CallLimits
<1>5. CASE FwRead \/ MbrRead \/ MbrElf
  <2>1. PICK pa \in {MBR, MBR_BUFFER, BUFFER}, count \in {1, 3}, offset \in {0, ELF_ADDR} :
          Call("sd_dma_spin_read", pa, count, offset, <<>>) /\ offset + count <= Blocks
    <3>1. 0 + 1 <= Blocks
      BY <1>1
    <3>2. CASE FwRead
      BY <3>1, <3>2 DEF FwRead, Read
    <3>3. CASE MbrRead
      BY <3>1, <3>3 DEF MbrRead, Read
    <3>4. CASE MbrElf
      BY <1>1, <3>4 DEF MbrElf, Read
    <3> QED
      BY <1>5, <3>2, <3>3, <3>4
  <2>2. seg' \in {seg, 0} /\ seg <= Len(Segment) /\ read_ok' \in BOOLEAN
    BY <1>5 DEF FwRead, MbrRead, MbrElf, Go, Noted
  <2>3. seg' <= Len(Segment) /\ seg' <= Len(Segment) + CallBound
    BY <1>1, <2>2
  <2>4. count \in Nat /\ offset \in Nat
    BY <1>1
  <2> QED
    BY <1>2, <2>1, <2>2, <2>3, <2>4, CallLimits
<1>6. CASE MbrHeader
  <2> DEFINE offset == ELF_ADDR + (Phoff \div SECTOR)
  <2>1. /\ Call("sd_dma_spin_read", BUFFER, 2, offset, <<>>)
        /\ seg' = seg /\ seg < Len(Segment) /\ read_ok' \in BOOLEAN
    BY <1>6 DEF MbrHeader, Read, Go, Noted
  <2>2. offset \in Nat /\ offset + 2 <= Blocks
    <3>1. seg + 1 \in 1..Len(Segment) /\ (seg + 1) - 1 = seg
      BY <1>1, <2>1
    <3>2. ELF_ADDR + ((PHOFF + ((seg + 1) - 1) * PHENTSIZE) \div SECTOR) + 2 <= Blocks
      BY <3>1, CardAssumption
    <3>3. PICK x \in Nat : x = PHOFF + seg * PHENTSIZE
      <4>1. \A t, u, v \in Nat : t + u * v \in Nat
        OBVIOUS
      <4> QED
        BY <1>1, <4>1, BootAssumption
    <3>4. x \div SECTOR \in Nat
      BY SdAssumption, Halves
    <3>5. ELF_ADDR + (x \div SECTOR) + 2 <= Blocks
      BY <3>1, <3>2, <3>3
    <3>6. offset = ELF_ADDR + (x \div SECTOR)
      BY <3>3 DEF Phoff
    <3> QED
      BY <1>1, <3>4, <3>5, <3>6
  <2> HIDE DEF offset
  <2>3. seg' <= Len(Segment) /\ seg' <= Len(Segment) + CallBound
    BY <1>1, <2>1
  <2>4. 2 \in Nat
    OBVIOUS
  <2> QED
    BY <1>2, <2>1, <2>2, <2>3, <2>4, CallLimits
<1>7. CASE MbrSegment
  <2> DEFINE n == seg + 1
             s == Segment[n]
  <2>1. /\ Call("sd_dma_spin_read", s.paddr - Offset(s), EndId(s) - StartId(s),
                StartId(s) + ELF_ADDR, <<>>)
        /\ seg' = seg + 1 /\ seg < Len(Segment) /\ read_ok' \in BOOLEAN
    BY <1>7 DEF MbrSegment, Read, Go, Noted, TypeAt
  <2>2. n \in 1..Len(Segment)
    BY <1>1, <2>1
  <2> HIDE DEF n
  <2>3. /\ EndId(s) - StartId(s) \in Nat /\ StartId(s) + ELF_ADDR \in Nat
        /\ (StartId(s) + ELF_ADDR) + (EndId(s) - StartId(s)) = ELF_ADDR + EndId(s)
    BY <2>2, SegmentFacts
  <2>4. ELF_ADDR + EndId(s) <= Blocks
    BY <2>2, CardAssumption
  <2>5. seg' <= Len(Segment) /\ seg' <= Len(Segment) + CallBound
    BY <1>1, <2>1
  <2>6. (StartId(s) + ELF_ADDR) + (EndId(s) - StartId(s)) <= Blocks
    BY <2>3, <2>4
  <2> HIDE DEF s
  <2> QED
    BY <1>2, <2>1, <2>3, <2>5, <2>6, CallLimits
<1>8. CASE Kernel
  <2>1. PICK c \in KernelCalls : Call(c.fn, c.pa, c.count, c.offset, c.pages)
    BY <1>8 DEF Kernel
  <2>2. c.fn \in Transfers /\ c.count \in Nat /\ c.offset \in Nat /\ c.offset + c.count <= Blocks
    BY TransferAssumption, CardAssumption
  <2>3. seg' = seg + 1 /\ seg < Len(Segment) + CallBound /\ at' = "KERNEL" /\ read_ok' \in BOOLEAN
    BY <1>8 DEF Kernel, Go
  <2>4. seg' <= Len(Segment) + CallBound
    BY <1>1, <2>3
  <2> QED
    BY <2>1, <2>2, <2>3, <2>4, CallLimits
<1> QED
  BY <1>3, <1>4, <1>5, <1>6, <1>7, <1>8 DEF BootStep

LEMMA LimitsTyped ==
  ASSUME SdInv, TypeAt, MemoryKept, GtcInv, GtcBounds, Limits
  PROVE  TypeOK
<1> USE SdParts, LimitParts
<1>0. Blocks \in Nat /\ Len(Segment) \in Nat /\ CallBound \in Nat /\ FaultBound \in Nat
  BY SdAssumption, BootAssumption, TransferAssumption
<1>1. GtcTypeOK
  BY GtcTyped
<1>2. host \in Host
  <2>1. host \in [clock : Clock, sd_clock : BOOLEAN, power : BOOLEAN,
                  enabled : SUBSET Status, inhibit : SUBSET Inhibit, status : SUBSET Status,
                  command : [cmd : Commands \cup {"none"}, resp : Resp, arg : Nat, mode : Dir],
                  resp0 : Resp0, addr : Nat, count : Nat, resetting : BOOLEAN]
    BY DEF Registered
  <2>2. host.command.arg \in 0..Blocks /\ host.count \in 0..Blocks
    <3>1. host.command.arg \in Nat /\ host.count \in Nat
      BY <2>1
    <3> QED
      BY <1>0, <3>1
  <2>3. host.command \in [cmd : Commands \cup {"none"}, resp : Resp, arg : 0..Blocks, mode : Dir]
    BY <2>1, <2>2
  <2>4. Dir = {"none", "read", "write"}
    BY DEF Dir
  <2> QED
    BY <2>1, <2>2, <2>3, <2>4 DEF Host
<1>3. engine \in [dir : {"none", "read", "write"}, block : 0..Blocks, left : 0..Blocks,
                  run : BOOLEAN, moved : 0..Blocks]
  <2>1. engine \in [dir : Dir, block : Nat, left : Nat, run : BOOLEAN, moved : Nat]
    BY DEF Registered
  <2>2. engine.block \in 0..Blocks /\ engine.left \in 0..Blocks /\ engine.moved \in 0..Blocks
    <3>1. engine.block \in Nat /\ engine.left \in Nat /\ engine.moved \in Nat
      BY <2>1
    <3> QED
      BY <1>0, <3>1
  <2> QED
    BY <2>1, <2>2 DEF Dir
<1>4. card \in [state : {"idle", "ready", "ident", "stby", "tran", "data"}, app : BOOLEAN,
                busy : 0..BusyBound, inserted : BOOLEAN]
  BY DEF Registered, CardState
<1>5. call.fn \in Fn /\ call.k \in Nat \ {0} /\ call.seen \subseteq Status
  BY DEF Registered
<1>6. faults \in [n : 0..FaultBound, hit : BOOLEAN]
  <2>1. faults \in [n : Nat, hit : BOOLEAN]
    BY DEF Registered
  <2>2. faults.n \in 0..FaultBound
    BY <1>0, <2>1
  <2> QED
    BY <2>1, <2>2
<1>7. SdTypeOK
  BY <1>1, <1>2, <1>3, <1>4, <1>5, <1>6 DEF SdTypeOK, MemoryKept
<1>8. seg \in 0..Len(Segment) + CallBound
  BY <1>0 DEF TypeAt
<1> QED
  BY <1>7, <1>8 DEF TypeOK, TypeAt

LEMMA InitLimits == Init => MemoryKept /\ GtcInv /\ GtcBounds /\ Limits
<1> SUFFICES ASSUME Init PROVE MemoryKept /\ GtcInv /\ GtcBounds /\ Limits
  OBVIOUS
<1>1. /\ GtcInit /\ host = Reset /\ engine = Stopped /\ call = NoCall /\ ret = 0
      /\ memory = [a \in Memory |-> 0] /\ disk = FirstImage /\ seg = 0 /\ read_ok = TRUE
      /\ faults = [n |-> 0, hit |-> FALSE]
  BY DEF Init, SdInit
<1>2. /\ call.offset = 0 /\ call.count = 0 /\ host.command.arg = 0 /\ host.count = 0
      /\ engine.block = 0 /\ engine.left = 0 /\ engine.moved = 0
  BY <1>1 DEF NoCall, Reset, NoCommand, Stopped
<1>3. faults.n = 0
  BY <1>1
<1>4. Blocks \in Nat /\ Len(Segment) \in Nat /\ CallBound \in Nat /\ FaultBound \in Nat
      /\ DOMAIN FirstImage = 0..Blocks * SECTOR - 1
  BY SdAssumption, BootAssumption, TransferAssumption
<1>5. Limits
  BY <1>1, <1>2, <1>3, <1>4 DEF Limits
<1> QED
  BY <1>1, <1>5, InitGtcInv, InitGtcBounds DEF MemoryKept

\* The boot is safe, for cards, images, memories and faults of any number: its
\* state has its types, commands are clocked, and the kernel is entered with a
\* complete image when every read of mbr_bootmain returned 0.  The card is one
\* that is addressed by blocks; the layout of the image is what
\* LayoutAssumption says.
THEOREM BootIsSafe ==
  ASSUME cardtype = 1
  PROVE  Spec => []BootSafe
<1> DEFINE Inv == /\ SdInv /\ TypeAt /\ MemoryKept /\ ImageInv /\ GtcInv /\ GtcBounds /\ Limits
<1>1. Init => Inv
  BY InitSd, InitImage, InitLimits
<1>2. Inv /\ [Next]_vars => Inv'
  <2> SUFFICES ASSUME Inv, [Next]_vars PROVE Inv'
    OBVIOUS
  <2>1. SdInv' /\ TypeAt' /\ Limits'
    <3>1. CASE UNCHANGED vars
      <4>1. Limits'
        BY <3>1 DEF vars, sd_vars, Limits
      <4> QED
        BY <3>1, <4>1, QuietStep, AtInv, SdParts DEF vars, sd_vars, SetUp
    <3> QED
      BY <3>1, BootSdInv, SdStepInv, AtInv, BootLimits, DriverLimits, EnvironmentLimits
         DEF Next, SdNext
  <2>2. MemoryKept' /\ ImageInv'
    BY MemoryInv, ImageStep
  <2>3. GtcInv' /\ GtcBounds'
    BY GtcPart, NextGtcInv, GtcBounded
  <2> QED
    BY <2>1, <2>2, <2>3
<1>3. Inv => BootSafe
  <2>1. SdInv => CommandsClocked
    BY SdParts DEF Commanded, SetUp, Powered, CommandsClocked
  <2> QED
    BY <2>1, ImageEntered, LimitsTyped DEF BootSafe
<1> QED
  BY <1>1, <1>2, <1>3, PTL DEF Spec
=============================================================================
