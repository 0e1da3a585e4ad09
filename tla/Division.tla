------------------------------ MODULE Division ------------------------------
(***************************************************************************)
(* The integer division that the compiler calls (division-arm.c), one step *)
(* per iteration of its loops.  A word is 0..2 * Half - 1; Half is         *)
(* 0x80000000, and a signed number is the word of its two's complement.    *)
(***************************************************************************)
EXTENDS Integers

CONSTANTS Half, Power, Pairs
\* Power: the powers of two of a word.  Pairs: numerators and denominators.
ASSUME WordAssumption == Half \in Nat /\ Half > 1
ASSUME PowerAssumption ==
    /\ Power \subseteq 1..Half /\ 1 \in Power
    /\ \A p \in Power : p # 1 => \E q \in Power : p = 2 * q
    /\ \A p \in Power : p < Half => 2 * p \in Power

Modulus == 2 * Half
Word == 0..Modulus - 1
ASSUME PairsAssumption == Pairs \subseteq Word \X Word

VARIABLES pc,                   \* "idle", "align", "subtract", "sign", "done"
          signed,               \* __aeabi_idivmod, or __aeabi_uidivmod
          n0, d0,               \* the arguments
          n_abs, d_abs,         \* the arguments of __aeabi_uidivmod
          i, shift, denominator, numerator, quot,
          r0, r1                \* the results
division_vars == <<pc, signed, n0, d0, n_abs, d_abs, i, shift, denominator, numerator, quot, r0, r1>>

DivisionTypeOK ==
    /\ pc \in {"idle", "align", "subtract", "sign", "done"}
    /\ signed \in BOOLEAN
    /\ {n0, d0, n_abs, d_abs, i, shift, denominator, numerator, quot, r0, r1} \subseteq Word

DivisionInit ==
    /\ pc = "idle" /\ signed = FALSE /\ n0 = 0 /\ d0 = 0 /\ n_abs = 0 /\ d_abs = 0
    /\ i = 0 /\ shift = 0 /\ denominator = 0 /\ numerator = 0 /\ quot = 0
    /\ r0 = 0 /\ r1 = 0

Neg(x) == (Modulus - x) % Modulus
IsNeg(x) == x >= Half
ABS(x) == IF IsNeg(x) THEN Neg(x) ELSE x
Value(x) == IF IsNeg(x) THEN x - Modulus ELSE x     \* what a signed word means

\* The call; a denominator of 0 goes to __aeabi_idiv0.
Divide(s, n, d) ==
    /\ pc = "idle" /\ d # 0
    /\ signed' = s /\ n0' = n /\ d0' = d
    /\ n_abs' = (IF s THEN ABS(n) ELSE n) /\ d_abs' = (IF s THEN ABS(d) ELSE d)
    /\ numerator' = n_abs' /\ denominator' = d_abs'
    /\ i' = 1 /\ shift' = (2 * d_abs') % Modulus /\ quot' = 0
    /\ pc' = "align" /\ UNCHANGED <<r0, r1>>

Idiv0(n) ==
    /\ pc = "idle"
    /\ signed' = TRUE /\ n0' = n /\ d0' = 0 /\ r0' = Modulus - 1 /\ pc' = "done"
    /\ UNCHANGED <<n_abs, d_abs, i, shift, denominator, numerator, quot, r1>>

\* Mutant of MayShift: the loop as it was before the update.
MayShiftOverflow == shift <= numerator
\* "prevent shift overflow"
MayShift == shift < Half /\ shift <= numerator

Align ==
    /\ pc = "align"
    /\ IF MayShift
       THEN /\ shift' = (2 * shift) % Modulus /\ i' = (2 * i) % Modulus
            /\ denominator' = (2 * denominator) % Modulus
            /\ pc' = pc
       ELSE pc' = "subtract" /\ UNCHANGED <<shift, i, denominator>>
    /\ UNCHANGED <<signed, n0, d0, n_abs, d_abs, numerator, quot, r0, r1>>

\* Mutant of MaySubtract: the comparison of the first implementation.
MaySubtractGreater == numerator > denominator
MaySubtract == numerator >= denominator

Subtract ==
    /\ pc = "subtract" /\ i > 0 /\ MaySubtract
    /\ numerator' = numerator - denominator
    /\ quot' = (quot + i) % Modulus
    /\ UNCHANGED <<pc, signed, n0, d0, n_abs, d_abs, i, shift, denominator, r0, r1>>

Shift ==
    /\ pc = "subtract" /\ i > 0 /\ ~MaySubtract
    /\ i' = i \div 2 /\ denominator' = denominator \div 2
    /\ UNCHANGED <<pc, signed, n0, d0, n_abs, d_abs, shift, numerator, quot, r0, r1>>

\* quot and numerator are left in r0 and r1.
Finish ==
    /\ pc = "subtract" /\ i = 0
    /\ r0' = quot /\ r1' = numerator
    /\ pc' = IF signed THEN "sign" ELSE "done"
    /\ UNCHANGED <<signed, n0, d0, n_abs, d_abs, i, shift, denominator, numerator, quot>>

Signed(result) == IF IsNeg(n0) # IsNeg(d0) THEN Neg(result) ELSE result

\* idivmod: the remainder follows from the quotient.  The quotient is loaded
\* to r0, but then "return 0" sets it.
Sign ==
    /\ pc = "sign"
    /\ r0' = 0
    /\ r1' = (n0 - Signed(r0) * d0) % Modulus
    /\ pc' = "done"
    /\ UNCHANGED <<signed, n0, d0, n_abs, d_abs, i, shift, denominator, numerator, quot>>

DivisionCall ==
    \E p \in Pairs : \/ \E s \in BOOLEAN : Divide(s, p[1], p[2])
                     \/ Idiv0(p[1])
DivisionStep == Align \/ Subtract \/ Shift \/ Finish \/ Sign
DivisionNext == DivisionCall \/ DivisionStep

DivisionSpec == DivisionInit /\ [][DivisionNext]_division_vars

-----------------------------------------------------------------------------
\* Unsigned quotient and remainder are those of the definition, for every
\* denominator that has room for one shift.
QuotientCorrect ==
    pc = "done" /\ ~signed /\ d0 < Half => n0 = r0 * d0 + r1 /\ r1 < d0

\* The signed remainder has the sign of the numerator and its distance to it is
\* a multiple of the denominator, as C99 has it; -2^31 / -1 included.
RemainderCorrect ==
    pc = "done" /\ signed /\ d0 # 0 /\ d_abs < Half =>
        /\ r1 = 0 \/ (IsNeg(r1) <=> IsNeg(n0))
        /\ (Value(n0) - Value(r1)) % d_abs = 0
        /\ ABS(r1) < d_abs

\* For denominators of less than 2^31 (signed: more than -2^31) the unsigned quotient
\* and both remainders are those of C99.  The signed quotient is not, and neither is
\* anything for larger denominators: see below.
DivisionCorrect == DivisionTypeOK /\ QuotientCorrect /\ RemainderCorrect

-----------------------------------------------------------------------------
(* What the comments of division-arm.c say and its code does not do.       *)

\* "round to zero" (lines 23 and 90): the signed quotient.  Line 110 returns 0.
SignedQuotient ==
    pc = "done" /\ signed /\ d0 # 0 /\ d_abs < Half =>
        r0 = IF IsNeg(n0) = IsNeg(d0) THEN n_abs \div d_abs ELSE Neg(n_abs \div d_abs)

\* "prevent shift overflow" (line 61): the unsigned quotient for every denominator.
\* From 2^31 on, shift has overflowed before the loop (line 57).
LargeDenominators == pc = "done" /\ ~signed => n0 = r0 * d0 + r1 /\ r1 < d0
=============================================================================
