--------------------------- MODULE Library_proofs ---------------------------
(***************************************************************************)
(* The serial console and the readers of debugging symbols, as parts of    *)
(* Library: no byte is lost, doubled or reordered whatever the FIFO's      *)
(* depth, and the stabs of an address are reported for every table.        *)
(***************************************************************************)
EXTENDS Library, SequenceTheorems, WellFoundedInduction, TLAPS

-----------------------------------------------------------------------------
(* Sequences of any values: the bytes of the console have no type.         *)

IsSeq(s) == \E S : s \in Seq(S)

LEMMA EmptyIsSeq == IsSeq(<<>>)
<1>1. <<>> \in Seq({})
  BY EmptySeq
<1> QED
  BY <1>1 DEF IsSeq

\* Two sequences, and a value, have a type in common.
LEMMA CommonType ==
  ASSUME NEW s, IsSeq(s), NEW t, IsSeq(t), NEW e
  PROVE  \E S : s \in Seq(S) /\ t \in Seq(S) /\ e \in S
<1>1. PICK A : s \in Seq(A)
  BY DEF IsSeq
<1>2. PICK B : t \in Seq(B)
  BY DEF IsSeq
<1> DEFINE C == A \cup B \cup {e}
<1>3. A \subseteq C /\ B \subseteq C /\ e \in C
  OBVIOUS
<1>4. s \in Seq(C)
  BY <1>1, <1>3, SeqMonotonic
<1>5. t \in Seq(C)
  BY <1>2, <1>3, SeqMonotonic
<1> QED
  BY <1>3, <1>4, <1>5

LEMMA AppendIsSeq ==
  ASSUME NEW s, IsSeq(s), NEW e
  PROVE  IsSeq(Append(s, e)) /\ Len(Append(s, e)) = Len(s) + 1 /\ Len(s) \in Nat
<1>1. PICK S : s \in Seq(S) /\ e \in S
  BY CommonType
<1>2. Append(s, e) \in Seq(S) /\ Len(Append(s, e)) = Len(s) + 1
  BY <1>1, AppendProperties
<1>3. Len(s) \in Nat
  BY <1>1, LenProperties
<1> QED
  BY <1>2, <1>3 DEF IsSeq

LEMMA TailIsSeq ==
  ASSUME NEW s, IsSeq(s), s # <<>>
  PROVE  IsSeq(Tail(s)) /\ Len(Tail(s)) = Len(s) - 1 /\ Len(s) \in Nat
<1>1. PICK S : s \in Seq(S)
  BY DEF IsSeq
<1>2. Tail(s) \in Seq(S) /\ Len(Tail(s)) = Len(s) - 1
  BY <1>1, HeadTailProperties
<1>3. Len(s) \in Nat
  BY <1>1, LenProperties
<1> QED
  BY <1>2, <1>3 DEF IsSeq

\* What is put behind the second part of a sequence is behind the whole.
LEMMA AppendBehind ==
  ASSUME NEW s, IsSeq(s), NEW t, IsSeq(t), NEW e
  PROVE  s \o Append(t, e) = Append(s \o t, e)
<1>1. PICK S : s \in Seq(S) /\ t \in Seq(S) /\ e \in S
  BY CommonType
<1>2. Append(t, e) = t \o <<e>>
  BY <1>1, AppendIsConcat
<1>3. s \o t \in Seq(S)
  BY <1>1, ConcatProperties
<1>4. Append(s \o t, e) = (s \o t) \o <<e>>
  BY <1>1, <1>3, AppendIsConcat
<1>5. <<e>> \in Seq(S)
  BY <1>1
<1>6. (s \o t) \o <<e>> = s \o (t \o <<e>>)
  BY <1>1, <1>5, ConcatAssociative
<1> QED
  BY <1>2, <1>4, <1>6

\* An element moves over the border of two parts.
LEMMA HeadMoves ==
  ASSUME NEW s, IsSeq(s), NEW t, IsSeq(t), t # <<>>
  PROVE  Append(s, Head(t)) \o Tail(t) = s \o t
<1>1. PICK S : s \in Seq(S) /\ t \in Seq(S) /\ Head(t) \in S
  BY CommonType
<1>2. Append(s, Head(t)) = s \o <<Head(t)>>
  BY <1>1, AppendIsConcat
<1>3. <<Head(t)>> \in Seq(S)
  BY <1>1
<1>4. Tail(t) \in Seq(S) /\ Len(Tail(t)) = Len(t) - 1 /\ Len(t) \in Nat
      /\ \A j \in 1 .. Len(Tail(t)) : Tail(t)[j] = t[j + 1]
  BY <1>1, HeadTailProperties, LenProperties
<1>5. (s \o <<Head(t)>>) \o Tail(t) = s \o (<<Head(t)>> \o Tail(t))
  BY <1>1, <1>3, <1>4, ConcatAssociative
<1>6. t = <<Head(t)>> \o Tail(t)
  <2>1. Len(t) # 0
    BY <1>1, EmptySeq
  <2>2. SubSeq(t, 1, Len(t)) = <<t[1]>> \o SubSeq(t, 2, Len(t))
    BY <1>1, <1>4, <2>1, SubSeqRecursiveFirst
  <2>3. SubSeq(t, 1, Len(t)) = t
    BY <1>1, SubSeqFull
  <2>4. SubSeq(t, 2, Len(t)) = Tail(t)
    BY <1>1, TailIsSubSeq
  <2>5. t[1] = Head(t)
    BY <1>1, <1>4, <2>1, <2>3, HeadTailOfSubSeq
  <2> QED
    BY <2>2, <2>3, <2>4, <2>5
<1> QED
  BY <1>2, <1>5, <1>6

LEMMA EmptyParts ==
  ASSUME NEW s, IsSeq(s)
  PROVE  s \o <<>> = s /\ <<>> \o s = s
<1>1. PICK S : s \in Seq(S)
  BY DEF IsSeq
<1> QED
  BY <1>1, ConcatEmptySeq

-----------------------------------------------------------------------------
(* The console.  Every wait of a program leaves the transmit FIFO empty     *)
(* before the port is reset, and nothing is read before the kernel runs.    *)

AreSeqs == IsSeq(line) /\ IsSeq(tx) /\ IsSeq(written) /\ IsSeq(rx) /\ IsSeq(typed) /\ IsSeq(str)

PortState ==
    /\ program = "off" => step = "ready" /\ left = <<>> /\ ~enabled
    /\ program # "off" /\ step \in {"ready", "gets"} => enabled
    /\ ~enabled \/ step \in {"init", "enable"} => tx = <<>>
    /\ step = "gets" => program = "kernel"
    /\ program # "kernel" \/ step \in {"sleep", "init", "enable"} => str = <<>>

ConsoleIInv == AreSeqs /\ PortState /\ ConsoleInOrder

ConsoleIdle == UNCHANGED console_vars

USE DEF ConsoleIInv, ConsoleInOrder

LEMMA ConsoleStart == ConsoleInit => ConsoleIInv
<1> SUFFICES ASSUME ConsoleInit PROVE ConsoleIInv
  OBVIOUS
<1>1. AreSeqs
  BY EmptyIsSeq DEF ConsoleInit, AreSeqs
<1>2. PortState
  BY DEF ConsoleInit, PortState
<1>3. ConsoleTypeOK
  <2>1. Len(tx) = 0 /\ Len(rx) = 0
    BY EmptySeq DEF ConsoleInit
  <2>2. Len(tx) <= Depth /\ Len(rx) <= Depth
    BY <2>1, ConsoleAssumption
  <2>3. /\ program \in {"off", "firmware", "kernel"} /\ enabled \in BOOLEAN /\ overrun \in BOOLEAN
        /\ step \in {"sleep", "init", "enable", "ready", "gets"}
    BY DEF ConsoleInit
  <2> QED
    BY <2>2, <2>3 DEF ConsoleTypeOK
<1>4. OutputInOrder
  BY EmptyIsSeq, EmptyParts DEF ConsoleInit, OutputInOrder
<1>5. InputInOrder
  BY EmptyIsSeq, EmptyParts DEF ConsoleInit, InputInOrder
<1> QED
  BY <1>1, <1>2, <1>3, <1>4, <1>5

LEMMA StartKeeps ==
  ASSUME ConsoleIInv, PowerOn \/ HandOver
  PROVE  ConsoleIInv'
<1>1. /\ program' \in {"firmware", "kernel"} /\ step' = "sleep"
      /\ UNCHANGED <<out_vars, tx_vars, rx_vars, str>>
      /\ program # "kernel"
  BY DEF PowerOn, HandOver, Start
<1> QED
  BY <1>1 DEF AreSeqs, PortState, ConsoleTypeOK, OutputInOrder, InputInOrder, out_vars, tx_vars, rx_vars

LEMMA SleepKeeps ==
  ASSUME ConsoleIInv, Sleep
  PROVE  ConsoleIInv'
BY DEF Sleep, Flushed, AreSeqs, PortState, ConsoleTypeOK, OutputInOrder, InputInOrder,
       out_vars, tx_vars, rx_vars

\* The reset loses nothing that was written: the FIFO is empty.
LEMMA InitKeeps ==
  ASSUME ConsoleIInv, uart_init
  PROVE  ConsoleIInv'
<1>1. /\ step = "init" /\ step' = "enable" /\ UNCHANGED <<program, left, written, line, str>>
      /\ enabled' = FALSE /\ tx' = <<>> /\ rx' = <<>> /\ typed' = <<>> /\ overrun' = FALSE
      /\ tx = <<>> /\ str = <<>>
  BY DEF uart_init, out_vars, PortState
<1>2. AreSeqs'
  BY <1>1, EmptyIsSeq DEF AreSeqs
<1>3. PortState'
  BY <1>1 DEF PortState
<1>4. ConsoleTypeOK'
  <2>1. Len(tx') = 0 /\ Len(rx') = 0
    BY <1>1, EmptySeq
  <2> QED
    BY <1>1, <2>1, ConsoleAssumption DEF ConsoleTypeOK
<1>5. OutputInOrder'
  BY <1>1 DEF OutputInOrder
<1>6. InputInOrder'
  BY <1>1, EmptyIsSeq, EmptyParts DEF InputInOrder
<1> QED
  BY <1>2, <1>3, <1>4, <1>5, <1>6

LEMMA EnableKeeps ==
  ASSUME ConsoleIInv, uart_enable
  PROVE  ConsoleIInv'
BY DEF uart_enable, AreSeqs, PortState, ConsoleTypeOK, OutputInOrder, InputInOrder, rx_vars

LEMMA VprintfKeeps ==
  ASSUME ConsoleIInv, program # "off", uart_spin_vprintf
  PROVE  ConsoleIInv'
BY DEF uart_spin_vprintf, AreSeqs, PortState, ConsoleTypeOK, OutputInOrder, InputInOrder, tx_vars, rx_vars

\* The byte goes behind those that wait: there is room for it.
LEMMA PutKeeps ==
  ASSUME ConsoleIInv, uart_spin_putbyte
  PROVE  ConsoleIInv'
<1>1. /\ step = "ready" /\ left # <<>> /\ Len(tx) < Depth
      /\ written' = Append(written, Head(left)) /\ tx' = Append(tx, Head(left))
      /\ UNCHANGED <<program, step, enabled, line, rx, typed, overrun, str>>
  BY DEF uart_spin_putbyte, TxReady, rx_vars
<1>2. program # "off" /\ enabled
  BY <1>1 DEF PortState
<1>3. AreSeqs'
  BY <1>1, AppendIsSeq DEF AreSeqs
<1>4. PortState'
  BY <1>1, <1>2 DEF PortState
<1>5. ConsoleTypeOK'
  <2>1. Len(tx') <= Depth
    BY <1>1, AppendIsSeq, ConsoleAssumption DEF AreSeqs
  <2> QED
    BY <1>1, <2>1 DEF ConsoleTypeOK
<1>6. OutputInOrder'
  <2>1. line \o Append(tx, Head(left)) = Append(line \o tx, Head(left))
    BY AppendBehind DEF AreSeqs
  <2> QED
    BY <1>1, <2>1 DEF OutputInOrder
<1>7. InputInOrder'
  BY <1>1 DEF InputInOrder
<1> QED
  BY <1>3, <1>4, <1>5, <1>6, <1>7

LEMMA SendKeeps ==
  ASSUME ConsoleIInv, Send
  PROVE  ConsoleIInv'
<1>1. /\ enabled /\ tx # <<>> /\ line' = Append(line, Head(tx)) /\ tx' = Tail(tx)
      /\ UNCHANGED <<program, step, left, written, enabled, rx, typed, overrun, str>>
  BY DEF Send, out_vars, rx_vars
<1>2. AreSeqs'
  BY <1>1, AppendIsSeq, TailIsSeq DEF AreSeqs
<1>3. PortState'
  BY <1>1 DEF PortState
<1>4. ConsoleTypeOK'
  <2>1. Len(tx') <= Depth
    BY <1>1, TailIsSeq, ConsoleAssumption DEF AreSeqs, ConsoleTypeOK
  <2> QED
    BY <1>1, <2>1 DEF ConsoleTypeOK
<1>5. OutputInOrder'
  BY <1>1, HeadMoves DEF AreSeqs, OutputInOrder
<1>6. InputInOrder'
  BY <1>1 DEF InputInOrder
<1> QED
  BY <1>2, <1>3, <1>4, <1>5, <1>6

LEMMA TypeKeeps ==
  ASSUME ConsoleIInv, NEW c, Type_(c)
  PROVE  ConsoleIInv'
<1>1. /\ enabled /\ typed' = Append(typed, c)
      /\ rx' = (IF Len(rx) < Depth THEN Append(rx, c) ELSE rx)
      /\ overrun' = (overrun \/ Len(rx) = Depth)
      /\ UNCHANGED <<program, step, left, written, enabled, tx, line, str>>
  BY DEF Type_, out_vars, tx_vars
<1>2. Len(rx) \in Nat /\ Len(rx) <= Depth
  BY AppendIsSeq DEF AreSeqs, ConsoleTypeOK
<1>3. AreSeqs'
  BY <1>1, AppendIsSeq DEF AreSeqs
<1>4. PortState'
  BY <1>1 DEF PortState
<1>5. ConsoleTypeOK'
  <2>1. Len(rx') <= Depth
    BY <1>1, <1>2, AppendIsSeq, ConsoleAssumption DEF AreSeqs
  <2>2. overrun' \in BOOLEAN
    BY <1>1 DEF ConsoleTypeOK
  <2> QED
    BY <1>1, <2>1, <2>2 DEF ConsoleTypeOK
<1>6. OutputInOrder'
  BY <1>1 DEF OutputInOrder
<1>7. InputInOrder'
  <2> SUFFICES ASSUME ~overrun' PROVE (str \o rx = typed)'
    BY DEF InputInOrder
  <2>1. ~overrun /\ Len(rx) # Depth
    BY <1>1 DEF ConsoleTypeOK
  <2>2. rx' = Append(rx, c)
    BY <1>1, <1>2, <2>1, ConsoleAssumption
  <2>3. str \o Append(rx, c) = Append(str \o rx, c)
    BY AppendBehind DEF AreSeqs
  <2> QED
    BY <1>1, <2>1, <2>2, <2>3 DEF InputInOrder
<1> QED
  BY <1>3, <1>4, <1>5, <1>6, <1>7

LEMMA GetsKeeps ==
  ASSUME ConsoleIInv, Gets
  PROVE  ConsoleIInv'
BY DEF Gets, AreSeqs, PortState, ConsoleTypeOK, OutputInOrder, InputInOrder, out_vars, tx_vars, rx_vars

\* The byte is taken from the FIFO, which is not empty.
LEMMA GetbyteKeeps ==
  ASSUME ConsoleIInv, uart_spin_getbyte
  PROVE  ConsoleIInv'
<1>1. /\ step = "gets" /\ rx # <<>> /\ str' = Append(str, Head(rx)) /\ rx' = Tail(rx)
      /\ step' \in {"ready", "gets"}
      /\ UNCHANGED <<program, left, written, enabled, tx, line, typed, overrun>>
  BY DEF uart_spin_getbyte, RxReady, out_vars, tx_vars
<1>2. AreSeqs'
  BY <1>1, AppendIsSeq, TailIsSeq DEF AreSeqs
<1>3. PortState'
  BY <1>1 DEF PortState
<1>4. ConsoleTypeOK'
  <2>1. Len(rx') <= Depth
    BY <1>1, TailIsSeq, ConsoleAssumption DEF AreSeqs, ConsoleTypeOK
  <2> QED
    BY <1>1, <2>1 DEF ConsoleTypeOK
<1>5. OutputInOrder'
  BY <1>1 DEF OutputInOrder
<1>6. InputInOrder'
  BY <1>1, HeadMoves DEF AreSeqs, InputInOrder
<1> QED
  BY <1>2, <1>3, <1>4, <1>5, <1>6

LEMMA ConsoleStutters ==
  ASSUME ConsoleIInv, ConsoleIdle
  PROVE  ConsoleIInv'
BY DEF ConsoleIdle, AreSeqs, PortState, ConsoleTypeOK, OutputInOrder, InputInOrder,
       console_vars, out_vars, tx_vars, rx_vars

LEMMA ConsoleKeeps ==
  ASSUME ConsoleIInv, [Next]_vars
  PROVE  ConsoleIInv'
<1>1. CASE ConsoleIdle
  BY <1>1, ConsoleStutters
<1>2. CASE ConsoleOp
  <2>1. program # "off" \/ PowerOn \/ UNCHANGED console_vars \/ Nothing
    BY <1>2 DEF ConsoleOp
  <2>2. CASE ConsoleCall
    BY <2>2, ConsoleStutters DEF ConsoleCall, ConsoleIdle
  <2>3. CASE PowerOn \/ HandOver
    BY <2>3, StartKeeps
  <2>4. CASE Sleep
    BY <2>4, SleepKeeps
  <2>5. CASE uart_init
    BY <2>5, InitKeeps
  <2>6. CASE uart_enable
    BY <2>6, EnableKeeps
  <2>7. CASE uart_spin_vprintf
    <3>1. program # "off"
      BY <1>2, <2>7 DEF ConsoleOp, Nothing, uart_spin_vprintf
    <3> QED
      BY <2>7, <3>1, VprintfKeeps
  <2>8. CASE uart_spin_putbyte
    BY <2>8, PutKeeps
  <2>9. CASE uart_spin_getbyte
    BY <2>9, GetbyteKeeps
  <2>10. CASE PrintStep /\ program = "kernel" /\ UNCHANGED console_vars
    BY <2>10, ConsoleStutters DEF ConsoleIdle
  <2>11. CASE Send
    BY <2>11, SendKeeps
  <2>12. CASE Gets
    BY <2>12, GetsKeeps
  <2>13. CASE \E c \in Keys : Type_(c)
    BY <2>13, TypeKeeps
  <2> QED
    BY <1>2, <2>2, <2>3, <2>4, <2>5, <2>6, <2>7, <2>8, <2>9, <2>10, <2>11, <2>12, <2>13
       DEF ConsoleOp, ConsoleNext, Driver
<1> QED
  BY <1>1, <1>2 DEF Next, DivisionOp, LibcOp, StabsOp, vars, ConsoleIdle

\* Console.ConsoleIInv is an invariant.
THEOREM ConsoleInvariance == Spec => []ConsoleIInv
<1>1. Init => ConsoleIInv
  BY ConsoleStart DEF Init
<1>2. ConsoleIInv /\ [Next]_vars => ConsoleIInv'
  BY ConsoleKeeps
<1> QED
  BY <1>1, <1>2, PTL DEF Spec

\* uart_spin_putbyte, uart_spin_getbyte and the resets of the port lose,
\* double and reorder no byte, for any FIFO and whatever is printed or typed.
THEOREM ConsoleSound == Spec => []ConsoleInOrder
<1>1. ConsoleIInv => ConsoleInOrder
  OBVIOUS
<1> QED
  BY <1>1, ConsoleInvariance, PTL

HIDE DEF ConsoleIInv, ConsoleInOrder

-----------------------------------------------------------------------------
(* The stabs.  The loop of get_debug_info turns stabs into functions, but   *)
(* never a source or a line: all that a search of a line reads is as it was *)
(* linked.                                                                  *)

Entry == [type : Type, value : Nat, desc : Nat]

SameUse(s, t) ==
    /\ s.value = t.value
    /\ is_source(s) <=> is_source(t)
    /\ ~is_source(s) /\ is_textline(s) <=> t.type = "SLINE"

TableKept ==
    /\ table0 \in Seq(Entry) /\ stabs \in Seq(Entry) /\ Len(stabs) = Len(table0)
    /\ \A k \in 1..Len(table0) : SameUse(stabs[k], table0[k])

\* What the series of calls for an address has given so far.
SeriesKept ==
    /\ lookup = [addr |-> lookup.addr, last |-> lookup.last, ret |-> lookup.ret,
                 file |-> lookup.file, func |-> lookup.func, all |-> lookup.all]
    /\ lookup.last \in 0..Len(stabs) /\ lookup.ret \in -1..1
    /\ \A j \in lookup.all : j <= lookup.last
    /\ LinesReported

\* readstab64 is always at the header it is about to read, and has .stabs as
\* soon as it has passed it.
ReaderKept ==
    /\ reader = [pc |-> reader.pc, sections |-> reader.sections, class |-> reader.class,
                 i |-> reader.i, at |-> reader.at, es |-> reader.es, es_stab |-> reader.es_stab,
                 stabstr |-> reader.stabstr, printed |-> reader.printed]
    /\ reader.pc \in {"idle", "loop", "done", "error"} /\ reader.class \in {32, 64}
    /\ reader.sections \in Seq(STRING) /\ reader.i \in 0..Len(reader.sections)
    /\ reader.at \in {0, reader.i + 1} /\ reader.stabstr \in {"none", STABSTR}
    /\ reader.pc = "loop" /\ reader.class = 64 =>
         /\ reader.at = reader.i + 1
         /\ (\E k \in 1..reader.i : reader.sections[k] = STABS) => reader.es_stab = STABS
    /\ StabsPrinted

StabsIInv == TableKept /\ SeriesKept /\ ReaderKept

-----------------------------------------------------------------------------
(* The first and the last of a set of places.                               *)

LEMMA LeastIs ==
  ASSUME NEW T, T \subseteq Nat, T # {}
  PROVE  \E x \in T : \A y \in T : x <= y
<1> DEFINE R == {ss \in Nat \X Nat : ss[1] < ss[2]}
<1>1. R = OpToRel(<, Nat)
  BY DEF OpToRel
<1>2. IsWellFoundedOn(R, Nat)
  BY <1>1, NatLessThanWellFounded
<1> HIDE DEF R
<1>3. PICK x \in T : \A y \in T : ~(<<y, x>> \in R)
  BY <1>2, WFMin
<1>4. \A y \in T : ~(y < x)
  BY <1>3 DEF R
<1>5. \A y \in T : y \in Int /\ x \in Int
  OBVIOUS
<1> QED
  BY <1>4, <1>5

LEMMA FirstIs ==
  ASSUME NEW T, T \subseteq Nat, T # {}
  PROVE  First(T) \in T /\ \A y \in T : First(T) <= y
BY LeastIs DEF First

LEMMA LatestIs ==
  ASSUME NEW n \in Nat, NEW T, T \subseteq 1..n, T # {}
  PROVE  Latest(T) \in T /\ \A y \in T : y <= Latest(T)
<1> DEFINE Above == {m \in Nat : \A j \in T : j <= m}
<1>1. PICK x \in Above : \A y \in Above : x <= y
  <2>1. n \in Above
    OBVIOUS
  <2>2. Above \subseteq Nat /\ Above # {}
    BY <2>1
  <2> HIDE DEF Above
  <2> QED
    BY <2>2, LeastIs
<1>2. x \in T
  <2> SUFFICES ASSUME x \notin T PROVE FALSE
    OBVIOUS
  <2>1. PICK s \in T : TRUE
    OBVIOUS
  <2>2. x - 1 \in Nat /\ \A j \in T : j <= x - 1
    BY <2>1
  <2>3. x - 1 \in Above
    BY <2>2
  <2> QED
    BY <1>1, <2>3
<1>3. \A y \in T : y <= x
  OBVIOUS
<1>4. \A z \in T : (\A y \in T : y <= z) => z = x
  BY <1>2, <1>3
<1> QED
  BY <1>2, <1>3 DEF Latest

\* The latest of a set that gets a later one.
LEMMA LatestAdded ==
  ASSUME NEW T, T \subseteq Nat, NEW k \in Nat, \A y \in T : y < k
  PROVE  Latest(T \cup {k}) = k
<1>1. k \in T \cup {k} /\ \A y \in T \cup {k} : y <= k
  OBVIOUS
<1>2. \A z \in T \cup {k} : (\A y \in T \cup {k} : y <= z) => z = k
  BY <1>1
<1>3. (CHOOSE z \in T \cup {k} : \A y \in T \cup {k} : y <= z) = k
  BY <1>1, <1>2
<1> QED
  BY <1>3 DEF Latest

-----------------------------------------------------------------------------
(* The table that is searched and the table as it was linked.               *)

LEMMA TableFacts ==
  ASSUME TableKept
  PROVE  /\ Len(table0) \in Nat /\ DOMAIN table0 = 1..Len(table0) /\ DOMAIN stabs = 1..Len(table0)
         /\ \A k \in 1..Len(table0) : stabs[k] \in Entry /\ table0[k] \in Entry
BY LenProperties, ElementOfSeq DEF TableKept

LEMMA SameSource ==
  ASSUME TableKept, NEW k \in 1..Len(table0)
  PROVE  SourceOf(k) = LinkedSource(k) /\ LinkedSource(k) \in 0..k - 1
<1> DEFINE S == {j \in 1..k - 1 : is_source(table0[j])}
<1>1. Len(table0) \in Nat
  BY TableFacts
<1>2. \A j \in 1..k - 1 : is_source(stabs[j]) <=> is_source(table0[j])
  BY <1>1 DEF TableKept, SameUse
<1>3. {j \in 1..k - 1 : is_source(stabs[j])} = S
  BY <1>2
<1>4. SourceOf(k) = LinkedSource(k)
  BY <1>3 DEF SourceOf, LinkedSource, Before
<1>5. S # {} => Latest(S) \in S
  <2>1. k - 1 \in Nat /\ S \subseteq 1..k - 1
    BY <1>1
  <2> HIDE DEF S
  <2> QED
    BY <2>1, LatestIs
<1>6. S = {} => Latest(S) = 0
  BY DEF Latest
<1> QED
  BY <1>1, <1>4, <1>5, <1>6 DEF LinkedSource

LEMMA SameAddress ==
  ASSUME TableKept, NEW k \in 1..Len(table0)
  PROVE  LineAddr(k) = LinkedAddress(k)
<1>1. Len(table0) \in Nat
  BY TableFacts
<1>2. SourceOf(k) = LinkedSource(k) /\ LinkedSource(k) \in 0..k - 1
  BY SameSource
<1>3. stabs[k].value = table0[k].value
  BY DEF TableKept, SameUse
<1>4. LinkedSource(k) # 0 => stabs[LinkedSource(k)].value = table0[LinkedSource(k)].value
  <2> DEFINE x == LinkedSource(k)
  <2> SUFFICES ASSUME x # 0 PROVE stabs[x].value = table0[x].value
    OBVIOUS
  <2>1. x \in 1..Len(table0)
    BY <1>1, <1>2
  <2> HIDE DEF x
  <2> QED
    BY <2>1 DEF TableKept, SameUse
<1> HIDE DEF FIX_INSTRUCTION_ADDR
<1> QED
  BY <1>2, <1>3, <1>4 DEF LineAddr, LinkedAddress

LEMMA SameLines ==
  ASSUME TableKept
  PROVE  Lines = LinkedLines
BY TableFacts DEF Lines, LinkedLines, TableKept, SameUse

LEMMA SameMatches ==
  ASSUME TableKept
  PROVE  Matches(lookup.addr) = {k \in LinkedLines : AtAddress(k)}
<1>1. \A k \in LinkedLines : LineAddr(k) = LinkedAddress(k)
  BY TableFacts, SameAddress DEF LinkedLines
<1> QED
  BY <1>1, SameLines DEF Matches, AtAddress

-----------------------------------------------------------------------------
(* The steps of the look-up.                                                *)

LEMMA SameBounds ==
  ASSUME NEW a \in Nat, NEW b \in Nat, 1..a = 1..b
  PROVE  a = b
<1>1. ~(a < b)
  <2> SUFFICES ASSUME a < b PROVE FALSE
    OBVIOUS
  <2>1. b \in 1..b /\ b \notin 1..a
    OBVIOUS
  <2> QED
    BY <2>1
<1>2. ~(b < a)
  <2> SUFFICES ASSUME b < a PROVE FALSE
    OBVIOUS
  <2>1. a \in 1..a /\ a \notin 1..b
    OBVIOUS
  <2> QED
    BY <2>1
<1> QED
  BY <1>1, <1>2

\* A search leaves the use of every stab as it was.
LEMMA OverwrittenKeeps ==
  ASSUME TableKept, NEW k, stabs' = Overwritten(k), UNCHANGED table0
  PROVE  TableKept'
<1> DEFINE n == Len(table0)
<1>1. n \in Nat /\ DOMAIN stabs = 1..n /\ \A j \in 1..n : stabs[j] \in Entry
  BY TableFacts
<1> HIDE DEF n
<1>2. \A j \in 1..n : \/ stabs'[j] = stabs[j]
                      \/ /\ ~is_source(stabs[j]) /\ ~is_textline(stabs[j])
                         /\ stabs'[j] = [stabs[j] EXCEPT !.type = "FUN"]
  BY <1>1 DEF Overwritten
<1>3. \A j \in 1..n : stabs'[j] \in Entry
  <2> SUFFICES ASSUME NEW j \in 1..n PROVE stabs'[j] \in Entry
    OBVIOUS
  <2>1. "FUN" \in Type
    BY DEF Type
  <2> QED
    BY <1>1, <1>2, <2>1 DEF Entry
<1>4. stabs' \in [1..n -> Entry]
  BY <1>1, <1>3 DEF Overwritten
<1>5. stabs' \in Seq(Entry) /\ Len(stabs') = n
  <2>1. stabs' \in Seq(Entry)
    BY <1>1, <1>4, SeqDef
  <2>2. Len(stabs') \in Nat /\ DOMAIN stabs' = 1..Len(stabs')
    BY <2>1, LenProperties
  <2>3. DOMAIN stabs' = 1..n
    BY <1>4
  <2>4. Len(stabs') = n
    <3> DEFINE l == Len(stabs')
    <3>1. l \in Nat /\ 1..l = 1..n
      BY <2>2, <2>3
    <3> HIDE DEF l
    <3>2. l = n
      BY <1>1, <3>1, SameBounds
    <3> QED
      BY <3>2 DEF l
  <2> QED
    BY <2>1, <2>4
<1>6. \A j \in 1..n : SameUse(stabs'[j], table0[j])
  <2> SUFFICES ASSUME NEW j \in 1..n PROVE SameUse(stabs'[j], table0[j])
    OBVIOUS
  <2>1. SameUse(stabs[j], table0[j]) /\ stabs[j] \in Entry
    BY <1>1 DEF TableKept, n
  <2>2. CASE stabs'[j] = stabs[j]
    BY <2>1, <2>2
  <2>3. CASE /\ ~is_source(stabs[j]) /\ ~is_textline(stabs[j])
             /\ stabs'[j] = [stabs[j] EXCEPT !.type = "FUN"]
    BY <2>1, <2>3 DEF Entry, SameUse, is_source, is_textline
  <2> QED
    BY <1>2, <2>2, <2>3
<1> QED
  BY <1>5, <1>6 DEF TableKept, n

\* What a call returns, in terms of the table as it was linked: the next
\* line of the first run, or that there is none.
LEMMA SearchFacts ==
  ASSUME StabsIInv, NEW R, R = Returns(lookup.addr, lookup.last)
  PROVE  /\ R \subseteq 1..Len(table0)
         /\ R = {} => lookup.all = FirstRun
         /\ R # {} => /\ First(R) \in R
                      /\ First(R) \notin Matches(lookup.addr) => lookup.all = FirstRun
                      /\ First(R) \in Matches(lookup.addr) =>
                           /\ First(R) \in FirstRun /\ lookup.last < First(R)
                           /\ \A k \in FirstRun : k < First(R) => k <= lookup.last
<1> DEFINE M == {k \in LinkedLines : AtAddress(k)}
           stop == {k \in LinkedLines \ M : \E j \in M : j < k}
           last == lookup.last
           all == lookup.all
<1>1. Matches(lookup.addr) = M /\ Lines = LinkedLines
  BY SameMatches, SameLines DEF StabsIInv
<1>2. R = {k \in M : last < k} \cup stop
  BY <1>1 DEF Returns, Found
<1>3. LinkedLines \subseteq 1..Len(table0) /\ Len(table0) \in Nat /\ last \in Nat
  BY TableFacts DEF LinkedLines, StabsIInv, SeriesKept, TableKept
<1>4. FirstRun = {k \in M : \A j \in LinkedLines \ M : j < k => \A first \in M : j < first}
  BY DEF FirstRun
<1>5. /\ all \subseteq FirstRun /\ \A k \in FirstRun : k <= last => k \in all
  BY DEF StabsIInv, SeriesKept, LinesReported
<1>6. M \subseteq LinkedLines
  OBVIOUS
<1>7. R \subseteq 1..Len(table0)
  BY <1>2, <1>3
<1> HIDE DEF M, last, all
<1>8. R = {} => all = FirstRun
  BY <1>2, <1>3, <1>4, <1>5, <1>6
<1>9. ASSUME R # {} PROVE First(R) \in R /\ \A y \in R : First(R) <= y
  BY <1>3, <1>7, <1>9, FirstIs
<1> DEFINE k == First(R)
<1> HIDE DEF k
<1>10. ASSUME R # {}, k \in M
       PROVE  k \in FirstRun /\ last < k /\ \A x \in FirstRun : x < k => x <= last
  <2>1. k \in R /\ \A y \in R : k <= y
    BY <1>9, <1>10 DEF k
  <2>2. last < k
    BY <1>2, <1>10, <2>1
  <2>3. k \in FirstRun
    <3> SUFFICES ASSUME NEW j \in LinkedLines \ M, j < k, NEW first \in M PROVE j < first
      BY <1>4, <1>10
    <3>1. j \in Nat /\ first \in Nat /\ k \in Nat /\ j # first
      BY <1>3, <1>6, <1>10
    <3>2. j \notin stop
      BY <1>2, <2>1, <3>1
    <3> QED
      BY <3>1, <3>2
  <2>4. ASSUME NEW x \in FirstRun, x < k, ~(x <= last) PROVE FALSE
    <3>1. x \in M /\ x \in Nat /\ k \in Nat
      BY <1>3, <1>4, <1>6, <1>10
    <3>2. x \in R
      BY <1>2, <1>3, <2>4, <3>1
    <3> QED
      BY <2>1, <2>4, <3>1, <3>2
  <2> QED
    BY <2>2, <2>3, <2>4
<1>11. ASSUME R # {}, k \notin M PROVE all = FirstRun
  <2>1. k \in R /\ \A y \in R : k <= y
    BY <1>9, <1>11 DEF k
  <2>2. k \in LinkedLines \ M
    BY <1>2, <1>11, <2>1
  <2>3. PICK f \in M : f < k
    BY <1>2, <1>11, <2>1
  <2>4. \A x \in FirstRun : x <= last
    <3> SUFFICES ASSUME NEW x \in FirstRun, ~(x <= last) PROVE FALSE
      OBVIOUS
    <3>1. x \in M /\ x \in Nat /\ k \in Nat /\ f \in Nat /\ x # k
      BY <1>3, <1>4, <1>6, <1>11, <2>2
    <3>2. x \in R
      BY <1>2, <1>3, <3>1
    <3>3. k < x
      BY <2>1, <3>1, <3>2
    <3>4. k < f
      BY <1>4, <2>2, <3>3
    <3> QED
      BY <2>3, <3>1, <3>4
  <2> QED
    BY <1>5, <2>4
<1> QED
  BY <1>1, <1>7, <1>8, <1>9, <1>10, <1>11 DEF k, last, all

\* A call that finds nothing more ends the series.
LEMMA SeriesEnds ==
  ASSUME StabsIInv, NEW r \in {-1, 0}, lookup' = [lookup EXCEPT !.ret = r],
         TableKept', UNCHANGED table0, lookup.all = FirstRun
  PROVE  SeriesKept'
<1>1. lookup = [addr |-> lookup.addr, last |-> lookup.last, ret |-> lookup.ret,
                file |-> lookup.file, func |-> lookup.func, all |-> lookup.all]
  BY DEF StabsIInv, SeriesKept
<1>2. /\ lookup'.addr = lookup.addr /\ lookup'.last = lookup.last /\ lookup'.ret = r
      /\ lookup'.file = lookup.file /\ lookup'.func = lookup.func /\ lookup'.all = lookup.all
      /\ lookup' = [addr |-> lookup.addr, last |-> lookup.last, ret |-> r,
                    file |-> lookup.file, func |-> lookup.func, all |-> lookup.all]
  BY <1>1
<1>3. Len(stabs') = Len(stabs)
  BY DEF StabsIInv, TableKept
<1>4. (FirstRun)' = FirstRun
  BY <1>2 DEF FirstRun, AtAddress, LinkedAddress, LinkedLines, LinkedSource
<1>5. \A k : (LinkedSource(k))' = LinkedSource(k)
  BY DEF LinkedSource
<1>6. LinesReported'
  BY <1>2, <1>4, <1>5 DEF StabsIInv, SeriesKept, LinesReported
<1> QED
  BY <1>2, <1>3, <1>6 DEF StabsIInv, SeriesKept

\* A call that finds a line reports the next one of the first run.
LEMMA SeriesGrows ==
  ASSUME StabsIInv, NEW k \in FirstRun, NEW f, lookup.last < k, stabs # <<>>,
         \A x \in FirstRun : x < k => x <= lookup.last,
         lookup' = [addr |-> lookup.addr, last |-> k, ret |-> 1,
                    file |-> SourceOf(k), func |-> f, all |-> lookup.all \cup {k}],
         TableKept', UNCHANGED table0
  PROVE  SeriesKept'
<1> DEFINE src == SourceOf(k)
<1> HIDE DEF src
<1>2. /\ lookup'.addr = lookup.addr /\ lookup'.last = k /\ lookup'.ret = 1
      /\ lookup'.file = src /\ lookup'.func = f /\ lookup'.all = lookup.all \cup {k}
      /\ lookup' = [addr |-> lookup.addr, last |-> k, ret |-> 1,
                    file |-> src, func |-> f, all |-> lookup.all \cup {k}]
  BY DEF src
<1>3. Len(stabs') = Len(table0) /\ Len(table0) \in Nat /\ k \in 1..Len(table0)
  BY TableFacts DEF StabsIInv, TableKept, FirstRun, LinkedLines
<1>4. (FirstRun)' = FirstRun
  BY <1>2 DEF FirstRun, AtAddress, LinkedAddress, LinkedLines, LinkedSource
<1>5. (LinkedSource(k))' = LinkedSource(k) /\ src = LinkedSource(k)
  BY <1>3, SameSource DEF LinkedSource, src, StabsIInv
<1> DEFINE all == lookup.all
           last == lookup.last
<1>6. /\ all \subseteq FirstRun /\ \A x \in FirstRun : x <= last => x \in all
      /\ \A x \in all : x <= last
  BY DEF StabsIInv, SeriesKept, LinesReported
<1>13. FirstRun \subseteq 1..Len(table0) /\ last \in Nat
  <2>1. last \in 0..Len(stabs) /\ Len(stabs) = Len(table0)
    BY DEF StabsIInv, SeriesKept, TableKept
  <2>2. FirstRun \subseteq 1..Len(table0)
    BY TableFacts DEF StabsIInv, FirstRun, LinkedLines
  <2> HIDE DEF last
  <2> QED
    BY <1>3, <2>1, <2>2
<1>14. lookup'.last = k /\ lookup'.all = all \cup {k} /\ last < k
       /\ \A x \in FirstRun : x < k => x <= last
  BY <1>2
<1> HIDE DEF all, last
<1>15. \A y \in all : y \in Nat /\ y < k
  BY <1>3, <1>6, <1>13, <1>14
<1>7. Latest(all \cup {k}) = k
  <2>1. all \subseteq Nat /\ k \in Nat
    BY <1>3, <1>15
  <2> QED
    BY <1>15, <2>1, LatestAdded
<1>8. \A x \in FirstRun : x <= k => x \in all \cup {k}
  <2> SUFFICES ASSUME NEW x \in FirstRun, x <= k, x # k PROVE x \in all
    OBVIOUS
  <2>1. x < k
    BY <1>3, <1>13
  <2> QED
    BY <1>6, <1>14, <2>1
<1>9. LinesReported'
  <2>1. (lookup.all \subseteq FirstRun)'
    BY <1>4, <1>6, <1>14
  <2>2. (\A x \in FirstRun : x <= lookup.last => x \in lookup.all)'
    BY <1>4, <1>8, <1>14
  <2>3. (lookup.last = Latest(lookup.all) /\ lookup.file = LinkedSource(lookup.last))'
    BY <1>2, <1>5, <1>7, <1>14
  <2> QED
    BY <1>2, <2>1, <2>2, <2>3 DEF LinesReported
<1>10. \A j \in lookup'.all : j <= lookup'.last
  BY <1>3, <1>14, <1>15
<1>11. lookup'.last \in 0..Len(stabs') /\ lookup'.ret \in -1..1
  BY <1>2, <1>3
<1>12. lookup' = [addr |-> lookup'.addr, last |-> lookup'.last, ret |-> lookup'.ret,
                  file |-> lookup'.file, func |-> lookup'.func, all |-> lookup'.all]
  BY <1>2
<1> QED
  BY <1>9, <1>10, <1>11, <1>12 DEF SeriesKept

LEMMA ReaderStays ==
  ASSUME StabsIInv, UNCHANGED reader
  PROVE  ReaderKept'
BY DEF StabsIInv, ReaderKept, StabsPrinted

LEMMA TableStays ==
  ASSUME StabsIInv, UNCHANGED <<stabs, table0>>
  PROVE  TableKept'
BY DEF StabsIInv, TableKept

LEMMA SeriesStays ==
  ASSUME StabsIInv, UNCHANGED <<stabs, table0, lookup>>
  PROVE  SeriesKept'
<1>1. (FirstRun)' = FirstRun
  BY DEF FirstRun, AtAddress, LinkedAddress, LinkedLines, LinkedSource
<1>2. \A k : (LinkedSource(k))' = LinkedSource(k)
  BY DEF LinkedSource
<1>3. LinesReported'
  BY <1>1, <1>2 DEF StabsIInv, SeriesKept, LinesReported
<1> QED
  BY <1>3 DEF StabsIInv, SeriesKept

LEMMA SearchKeeps ==
  ASSUME StabsIInv, get_debug_info
  PROVE  StabsIInv'
<1> DEFINE R == Returns(lookup.addr, lookup.last)
<1>1. /\ UNCHANGED <<table0, reader>> /\ stabs # <<>>
      /\ IF R = {} THEN lookup' = [lookup EXCEPT !.ret = -1] /\ stabs' = Overwritten(Len(stabs) + 1)
         ELSE /\ stabs' = Overwritten(First(R))
              /\ lookup' = IF First(R) \in Matches(lookup.addr)
                           THEN [lookup EXCEPT !.ret = 1, !.last = First(R), !.file = SourceOf(First(R)),
                                               !.func = FuncOf(First(R)), !.all = @ \cup {First(R)}]
                           ELSE [lookup EXCEPT !.ret = 0]
  BY DEF get_debug_info
<1> HIDE DEF R
<1>2. TableKept'
  BY <1>1, OverwrittenKeeps DEF StabsIInv
<1>3. ReaderKept'
  BY <1>1, ReaderStays
<1>4. SeriesKept'
  <2>1. CASE R = {}
    <3>1. lookup.all = FirstRun
      BY <2>1, SearchFacts DEF R
    <3> QED
      BY <1>1, <1>2, <2>1, <3>1, SeriesEnds
  <2>2. CASE R # {} /\ First(R) \notin Matches(lookup.addr)
    <3>1. lookup.all = FirstRun
      BY <2>2, SearchFacts DEF R
    <3> QED
      BY <1>1, <1>2, <2>2, <3>1, SeriesEnds
  <2>3. CASE R # {} /\ First(R) \in Matches(lookup.addr)
    <3> DEFINE k == First(R)
    <3>1. /\ k \in FirstRun /\ lookup.last < k
          /\ \A x \in FirstRun : x < k => x <= lookup.last
      BY <2>3, SearchFacts DEF R
    <3> DEFINE f == FuncOf(k)
    <3>2. lookup' = [lookup EXCEPT !.ret = 1, !.last = k, !.file = SourceOf(k),
                                   !.func = f, !.all = @ \cup {k}]
      BY <1>1, <2>3
    <3>4. lookup = [addr |-> lookup.addr, last |-> lookup.last, ret |-> lookup.ret,
                    file |-> lookup.file, func |-> lookup.func, all |-> lookup.all]
      BY DEF StabsIInv, SeriesKept
    <3>5. lookup' = [addr |-> lookup.addr, last |-> k, ret |-> 1,
                     file |-> SourceOf(k), func |-> f, all |-> lookup.all \cup {k}]
      BY <3>2, <3>4
    <3> HIDE DEF k, f
    <3>3. UNCHANGED table0 /\ stabs # <<>>
      BY <1>1
    <3> QED
      BY ONLY StabsIInv, <1>2, <3>1, <3>3, <3>5, SeriesGrows
  <2> QED
    BY <2>1, <2>2, <2>3
<1> QED
  BY <1>2, <1>3, <1>4 DEF StabsIInv

\* A new series has reported nothing.
LEMMA SeriesBegins ==
  ASSUME NEW addr, lookup' = [NoLookup EXCEPT !.addr = addr], TableKept'
  PROVE  SeriesKept'
<1>1. lookup' = [addr |-> addr, last |-> 0, ret |-> 1, file |-> 0, func |-> 0, all |-> {}]
  BY DEF NoLookup
<1>2. DOMAIN table0' = 1..Len(table0') /\ Len(table0') \in Nat /\ Len(stabs') = Len(table0')
  BY LenProperties DEF TableKept
<1>4. (\A k \in FirstRun : k \in Nat /\ 0 < k)'
  BY <1>2 DEF FirstRun, LinkedLines
<1>3. LinesReported'
  BY <1>1, <1>4 DEF LinesReported
<1>5. 0 \in 0..Len(stabs')
  BY <1>2
<1>6. lookup' = [addr |-> lookup'.addr, last |-> lookup'.last, ret |-> lookup'.ret,
                  file |-> lookup'.file, func |-> lookup'.func, all |-> lookup'.all]
  BY <1>1
<1>8. lookup'.last = 0 /\ lookup'.ret = 1
  BY <1>1
<1>7. \A j \in lookup'.all : j <= lookup'.last
  BY <1>1
<1> QED
  BY <1>3, <1>5, <1>6, <1>7, <1>8 DEF SeriesKept

\* A table is linked: nothing has been searched.
LEMMA LinkKeeps ==
  ASSUME StabsIInv, NEW t \in Tables, NEW a, StartLookup(t, a)
  PROVE  StabsIInv'
<1>1. stabs' = t /\ table0' = t /\ lookup' = [NoLookup EXCEPT !.addr = a] /\ UNCHANGED reader
  BY DEF StartLookup
<1>2. TableKept'
  <2>1. t \in Seq(Entry)
    BY TablesAssumption DEF Entry
  <2>2. DOMAIN t = 1..Len(t) /\ \A k \in 1..Len(t) : t[k] \in Entry
    BY <2>1, LenProperties, ElementOfSeq
  <2>3. \A k \in 1..Len(t) : SameUse(t[k], t[k])
    BY <2>2 DEF Entry, SameUse, is_source, is_textline
  <2> QED
    BY <1>1, <2>1, <2>3 DEF TableKept
<1>3. SeriesKept'
  BY <1>1, <1>2, SeriesBegins
<1> QED
  BY <1>1, <1>2, <1>3, ReaderStays DEF StabsIInv

LEMMA NextLookupKeeps ==
  ASSUME StabsIInv, NEW a, NextLookup(a)
  PROVE  StabsIInv'
<1>1. UNCHANGED <<stabs, table0, reader>> /\ lookup' = [NoLookup EXCEPT !.addr = a]
  BY DEF NextLookup
<1>2. TableKept'
  BY <1>1, TableStays
<1>3. SeriesKept'
  BY <1>1, <1>2, SeriesBegins
<1> QED
  BY <1>1, <1>2, <1>3, ReaderStays DEF StabsIInv

-----------------------------------------------------------------------------
(* The steps of readstab.                                                   *)

LEMMA OpenKeeps ==
  ASSUME NEW f \in Files, StartReader(f)
  PROVE  ReaderKept'
<1>1. f.sections \in Seq(STRING) /\ f.class \in {32, 64} /\ f.sound \in BOOLEAN
  BY FilesAssumption
<1> DEFINE s == f.sections
           c == f.class
           p == IF f.sound THEN "loop" ELSE "error"
<1>2. reader' = [pc |-> p, sections |-> s, class |-> c, i |-> 0, at |-> 1,
                 es |-> "stack", es_stab |-> "stack", stabstr |-> "none", printed |-> "none"]
  BY DEF StartReader, NoReader
<1>3. s \in Seq(STRING) /\ c \in {32, 64} /\ p \in {"loop", "error"} /\ Len(s) \in Nat
  BY <1>1, LenProperties
<1> HIDE DEF s, c, p
<1>4. /\ reader'.pc = p /\ reader'.sections = s /\ reader'.class = c /\ reader'.i = 0
      /\ reader'.at = 1 /\ reader'.stabstr = "none"
      /\ reader' = [pc |-> reader'.pc, sections |-> reader'.sections, class |-> reader'.class,
                    i |-> reader'.i, at |-> reader'.at, es |-> reader'.es,
                    es_stab |-> reader'.es_stab, stabstr |-> reader'.stabstr,
                    printed |-> reader'.printed]
  BY <1>2
<1>5. StabsPrinted'
  BY <1>3, <1>4 DEF StabsPrinted
<1> QED
  BY <1>3, <1>4, <1>5 DEF ReaderKept

LEMMA HeaderKeeps ==
  ASSUME ReaderKept, ReadHeader
  PROVE  ReaderKept'
<1>1. PICK name \in HeadersAt(reader.at) :
        reader' = [reader EXCEPT !.i = @ + 1, !.at = After(name), !.es = name,
                                 !.stabstr = IF name = STABSTR THEN name ELSE @,
                                 !.es_stab = IF name = STABS THEN name ELSE @]
  BY Zenon DEF ReadHeader
<1>2. reader = [pc |-> reader.pc, sections |-> reader.sections, class |-> reader.class,
                i |-> reader.i, at |-> reader.at, es |-> reader.es, es_stab |-> reader.es_stab,
                stabstr |-> reader.stabstr, printed |-> reader.printed]
  BY DEF ReaderKept
<1> DEFINE s == reader.sections
           n == Len(reader.sections)
           c == reader.class
           x == reader.i
           a == reader.at
           b == After(name)
           r == IF name = STABSTR THEN name ELSE reader.stabstr
           e == IF name = STABS THEN name ELSE reader.es_stab
<1>3. reader' = [pc |-> reader.pc, sections |-> s, class |-> c, i |-> x + 1, at |-> b,
                 es |-> name, es_stab |-> e, stabstr |-> r, printed |-> reader.printed]
  BY <1>1, <1>2
<1>4. reader.pc = "loop" /\ x < n
  BY DEF ReadHeader
<1>5. /\ c \in {32, 64} /\ s \in Seq(STRING) /\ x \in 0..n /\ a \in {0, x + 1}
      /\ reader.stabstr \in {"none", STABSTR}
      /\ c = 64 => a = x + 1 /\ ((\E k \in 1..x : s[k] = STABS) => reader.es_stab = STABS)
  BY <1>4 DEF ReaderKept
<1>6. n \in Nat /\ DOMAIN s = 1..n
  BY <1>5, LenProperties
<1>7. b = IF a = 0 \/ (name = STABSTR /\ c = 32) THEN 0 ELSE a + 1
  BY DEF After
<1>8. a = x + 1 => name = s[a]
  <2>1. a = x + 1 => a \in DOMAIN s
    BY <1>4, <1>5, <1>6
  <2> QED
    BY <2>1 DEF HeadersAt
<1>9. r \in {"none", STABSTR} /\ (name = STABS => e = STABS) /\ (name # STABS => e = reader.es_stab)
  BY <1>5
<1>10. /\ reader'.pc = "loop" /\ reader'.sections = s /\ reader'.class = c /\ reader'.i = x + 1
       /\ reader'.at = b /\ reader'.stabstr = r /\ reader'.es_stab = e
       /\ reader' = [pc |-> reader'.pc, sections |-> reader'.sections, class |-> reader'.class,
                     i |-> reader'.i, at |-> reader'.at, es |-> reader'.es,
                     es_stab |-> reader'.es_stab, stabstr |-> reader'.stabstr,
                     printed |-> reader'.printed]
       /\ Len(reader'.sections) = n
  BY <1>3, <1>4
<1> HIDE DEF s, n, c, x, a, b, r, e
<1>11. x + 1 \in 0..n /\ b \in {0, x + 2} /\ (c = 64 => b = x + 2)
  BY <1>4, <1>5, <1>6, <1>7
<1>12. ASSUME c = 64, NEW k \in 1..x + 1, s[k] = STABS PROVE e = STABS
  <2>1. CASE k = x + 1
    BY <1>5, <1>8, <1>9, <1>12, <2>1
  <2>2. CASE k # x + 1
    <3>1. k \in 1..x
      BY <1>5, <2>2
    <3>2. reader.es_stab = STABS
      BY <1>5, <1>12, <3>1
    <3> QED
      BY <1>9, <3>2
  <2> QED
    BY <2>1, <2>2
<1>13. StabsPrinted'
  BY <1>10 DEF StabsPrinted
<1>14. x \in Nat /\ (x + 1) + 1 = x + 2
  BY <1>5, <1>6
<1> QED
  BY <1>5, <1>9, <1>10, <1>11, <1>12, <1>13, <1>14 DEF ReaderKept

\* At the end all headers have been read, so .stabs as well.
LEMMA PrintKeeps ==
  ASSUME ReaderKept, PrintStabs
  PROVE  ReaderKept'
<1>1. reader = [pc |-> reader.pc, sections |-> reader.sections, class |-> reader.class,
                i |-> reader.i, at |-> reader.at, es |-> reader.es, es_stab |-> reader.es_stab,
                stabstr |-> reader.stabstr, printed |-> reader.printed]
  BY DEF ReaderKept
<1> DEFINE s == reader.sections
           n == Len(reader.sections)
           c == reader.class
           x == reader.i
<1>2. reader.pc = "loop" /\ x = n
  BY DEF PrintStabs
<1>3. /\ c \in {32, 64} /\ s \in Seq(STRING) /\ x \in 0..n /\ reader.at \in {0, x + 1}
      /\ reader.stabstr \in {"none", STABSTR}
      /\ c = 64 => ((\E k \in 1..x : s[k] = STABS) => reader.es_stab = STABS)
  BY <1>2 DEF ReaderKept
<1>4. DOMAIN s = 1..n
  BY <1>3, LenProperties
<1>5. PICK p, q :
        /\ reader' = [pc |-> p, sections |-> s, class |-> c, i |-> x, at |-> reader.at,
                      es |-> reader.es, es_stab |-> reader.es_stab, stabstr |-> reader.stabstr,
                      printed |-> q]
        /\ \/ p = "error"
           \/ p = "done" /\ reader.stabstr # "none" /\ (c = 64 => q = reader.es_stab)
  <2>1. CASE reader.stabstr = "none"
    BY <1>1, <2>1 DEF PrintStabs
  <2>2. CASE reader.stabstr # "none"
    BY <1>1, <2>2 DEF PrintStabs
  <2> QED
    BY <2>1, <2>2
<1>6. /\ reader'.pc = p /\ reader'.sections = s /\ reader'.class = c /\ reader'.i = x
      /\ reader'.at = reader.at /\ reader'.stabstr = reader.stabstr /\ reader'.printed = q
      /\ reader' = [pc |-> reader'.pc, sections |-> reader'.sections, class |-> reader'.class,
                    i |-> reader'.i, at |-> reader'.at, es |-> reader'.es,
                    es_stab |-> reader'.es_stab, stabstr |-> reader'.stabstr,
                    printed |-> reader'.printed]
      /\ Len(reader'.sections) = n
  BY <1>5
<1> HIDE DEF s, n, c, x
<1>7. StabsPrinted'
  <2> SUFFICES ASSUME p = "done", c = 64, NEW k \in DOMAIN s, s[k] = STABS
               PROVE  q = STABS /\ reader.stabstr = STABSTR
    BY <1>6 DEF StabsPrinted
  <2>1. reader.es_stab = STABS
    BY <1>2, <1>3, <1>4
  <2> QED
    BY <1>3, <1>5, <2>1
<1>8. p \in {"done", "error"}
  BY <1>5
<1> QED
  BY <1>3, <1>6, <1>7, <1>8 DEF ReaderKept

LEMMA FailKeeps ==
  ASSUME ReaderKept, ReadFails
  PROVE  ReaderKept'
<1>1. reader = [pc |-> reader.pc, sections |-> reader.sections, class |-> reader.class,
                i |-> reader.i, at |-> reader.at, es |-> reader.es, es_stab |-> reader.es_stab,
                stabstr |-> reader.stabstr, printed |-> reader.printed]
  BY DEF ReaderKept
<1>2. reader' = [reader EXCEPT !.pc = "error"]
  BY DEF ReadFails
<1>3. /\ reader'.pc = "error" /\ reader'.sections = reader.sections /\ reader'.class = reader.class
      /\ reader'.i = reader.i /\ reader'.at = reader.at /\ reader'.stabstr = reader.stabstr
      /\ reader' = [pc |-> reader'.pc, sections |-> reader'.sections, class |-> reader'.class,
                    i |-> reader'.i, at |-> reader'.at, es |-> reader'.es,
                    es_stab |-> reader'.es_stab, stabstr |-> reader'.stabstr,
                    printed |-> reader'.printed]
  BY <1>1, <1>2
<1>4. StabsPrinted'
  BY <1>3 DEF StabsPrinted
<1> QED
  BY <1>3, <1>4 DEF ReaderKept

LEMMA ReaderMoves ==
  ASSUME StabsIInv, ReaderKept', UNCHANGED <<stabs, table0, lookup>>
  PROVE  StabsIInv'
BY TableStays, SeriesStays DEF StabsIInv

-----------------------------------------------------------------------------
(* All steps.                                                               *)

LEMMA StabsStart == StabsInit => StabsIInv
<1> SUFFICES ASSUME StabsInit PROVE StabsIInv
  OBVIOUS
<1>1. TableKept
  <2>1. <<>> \in Seq(Entry) /\ Len(<<>>) = 0
    BY EmptySeq
  <2>2. 1..0 = {}
    OBVIOUS
  <2> QED
    BY <2>1, <2>2 DEF StabsInit, TableKept
<1>2. SeriesKept
  <2>1. lookup = [addr |-> 0, last |-> 0, ret |-> 1, file |-> 0, func |-> 0, all |-> {}]
    BY DEF StabsInit, NoLookup
  <2>2. FirstRun = {}
    <3>1. table0 = <<>> /\ Len(table0) = 0 /\ DOMAIN table0 = 1..Len(table0)
      BY <1>1, TableFacts, EmptySeq DEF StabsInit
    <3> QED
      BY <3>1 DEF FirstRun, LinkedLines
  <2>3. Len(stabs) = 0
    BY EmptySeq DEF StabsInit
  <2>4. LinesReported
    BY <2>1, <2>2 DEF LinesReported
  <2> QED
    BY <2>1, <2>3, <2>4 DEF SeriesKept
<1>3. ReaderKept
  <2>1. /\ reader = [pc |-> "idle", sections |-> <<>>, class |-> 32, i |-> 0, at |-> 1,
                     es |-> "stack", es_stab |-> "stack", stabstr |-> "none", printed |-> "none"]
        /\ <<>> \in Seq(STRING) /\ Len(<<>>) = 0
    BY EmptySeq DEF StabsInit, NoReader
  <2>2. StabsPrinted
    BY <2>1 DEF StabsPrinted
  <2> QED
    BY <2>1, <2>2 DEF ReaderKept
<1> QED
  BY <1>1, <1>2, <1>3 DEF StabsIInv

LEMMA StabsKeeps ==
  ASSUME StabsIInv, [Next]_vars
  PROVE  StabsIInv'
<1>1. CASE UNCHANGED stabs_vars
  BY <1>1, TableStays, SeriesStays, ReaderStays DEF StabsIInv, stabs_vars
<1>2. CASE StabsOp
  <2>1. CASE StabsCall
    <3>1. CASE \E t \in Tables, a \in Addresses : StartLookup(t, a)
      BY <3>1, LinkKeeps
    <3>2. CASE \E f \in Files : StartReader(f)
      <4>1. PICK f \in Files : StartReader(f)
        BY <3>2
      <4>2. ReaderKept'
        BY <4>1, OpenKeeps
      <4> QED
        BY <4>1, <4>2, ReaderMoves DEF StartReader
    <3> QED
      BY <2>1, <3>1, <3>2 DEF StabsCall
  <2>2. CASE get_debug_info
    BY <2>2, SearchKeeps
  <2>3. CASE \E a \in Addresses : NextLookup(a)
    BY <2>3, NextLookupKeeps
  <2>4. CASE ReadHeader
    <3>1. ReaderKept'
      BY <2>4, HeaderKeeps DEF StabsIInv
    <3> QED
      BY <2>4, <3>1, ReaderMoves DEF ReadHeader
  <2>5. CASE PrintStabs
    <3>1. ReaderKept'
      BY <2>5, PrintKeeps DEF StabsIInv
    <3> QED
      BY <2>5, <3>1, ReaderMoves DEF PrintStabs
  <2>6. CASE ReadFails
    <3>1. ReaderKept'
      BY <2>6, FailKeeps DEF StabsIInv
    <3> QED
      BY <2>6, <3>1, ReaderMoves DEF ReadFails
  <2> QED
    BY <1>2, <2>1, <2>2, <2>3, <2>4, <2>5, <2>6 DEF StabsOp, StabsStep
<1> QED
  BY <1>1, <1>2 DEF Next, DivisionOp, LibcOp, ConsoleOp, vars

\* What a series of calls of get_debug_info and what readstab keep, for every
\* table and every file.
THEOREM StabsInvariance == Spec => []StabsIInv
<1>1. Init => StabsIInv
  BY StabsStart DEF Init
<1>2. StabsIInv /\ [Next]_vars => StabsIInv'
  BY StabsKeeps
<1> QED
  BY <1>1, <1>2, PTL DEF Spec

\* get_debug_info reports every line stab of the first run of an address, once,
\* in order and with its source, whatever earlier searches wrote to the table,
\* and readstab64 prints .stabs wherever the section stands.
THEOREM StabsSound == Spec => []StabsCorrect
<1>1. StabsIInv => StabsCorrect
  <2> SUFFICES ASSUME StabsIInv PROVE StabsCorrect
    OBVIOUS
  <2>1. \A k \in DOMAIN stabs : stabs[k].type \in Type
    BY TableFacts DEF StabsIInv, Entry
  <2>2. reader.at \in 0..Len(reader.sections) + 1
    <3>1. Len(reader.sections) \in Nat
      BY LenProperties DEF StabsIInv, ReaderKept
    <3>2. reader.i \in 0..Len(reader.sections) /\ reader.at \in {0, reader.i + 1}
      BY DEF StabsIInv, ReaderKept
    <3> DEFINE n == Len(reader.sections)
               x == reader.i
               a == reader.at
    <3>3. n \in Nat /\ x \in 0..n /\ a \in {0, x + 1}
      BY <3>1, <3>2
    <3> HIDE DEF n, x, a
    <3>4. a \in 0..n + 1
      BY <3>3
    <3> QED
      BY <3>4 DEF a, n
  <2>3. StabsTypeOK
    BY <2>1, <2>2 DEF StabsIInv, SeriesKept, ReaderKept, StabsTypeOK
  <2> QED
    BY <2>3 DEF StabsIInv, SeriesKept, ReaderKept, StabsCorrect
<1> QED
  BY <1>1, StabsInvariance, PTL

-----------------------------------------------------------------------------
(* memcpy and memset.                                                      *)

LEMMA DivMod ==
  ASSUME NEW m \in Nat, m > 0, NEW x \in Nat
  PROVE  x % m \in 0..m - 1 /\ x \div m \in Nat /\ x = (x \div m) * m + (x % m)
<1>1. x % m \in 0..m - 1 /\ x \div m \in Nat
  OBVIOUS
<1>2. x = (x \div m) * m + (x % m)
  OBVIOUS
<1> QED
  BY <1>1, <1>2

LEMMA OneMultiple ==
  ASSUME NEW m \in Nat, m > 0, NEW k \in Int
  PROVE  k * m \in Int /\ (k >= 1 => k * m >= m) /\ (k <= -1 => k * m <= -m) /\ (k = 0 => k * m = 0)
OBVIOUS

LEMMA MultipleIs ==
  ASSUME NEW m \in Nat, m > 0, NEW x \in Nat, NEW k \in Int, x = k * m
  PROVE  x % m = 0
<1> DEFINE d == x \div m
           s == x % m
<1>1. s \in 0..m - 1 /\ d \in Int /\ x = d * m + s
  BY DivMod
<1> HIDE DEF d, s
<1>2. (k - d) * m = s
  <2>1. (k - d) * m = k * m - d * m
    BY <1>1
  <2>2. k * m \in Int /\ d * m \in Int
    BY <1>1
  <2> QED
    BY <1>1, <2>1, <2>2
<1>3. k - d \in Int /\ k - d = 0
  BY <1>1, <1>2, OneMultiple
<1>4. s = 0
  BY <1>2, <1>3, OneMultiple
<1> QED
  BY <1>4 DEF s

\* Word boundaries: the next one, and the one that the first loop goes to.
LEMMA Boundaries ==
  ASSUME NEW m \in Nat, m > 0, NEW x \in Nat
  PROVE  (x % m = 0 => (x + m) % m = 0) /\ (x + (m - (x % m))) % m = 0 /\ m - (x % m) \in 1..m
<1> DEFINE d == x \div m
           s == x % m
<1>1. s \in 0..m - 1 /\ d \in Int /\ x = d * m + s
  BY DivMod
<1> HIDE DEF d, s
<1>2. (d + 1) * m = d * m + m /\ d * m \in Int
  BY <1>1
<1>3. x + (m - s) = (d + 1) * m /\ x + (m - s) \in Nat /\ d + 1 \in Int /\ m - s \in 1..m
  BY <1>1, <1>2
<1>4. (x + (m - s)) % m = 0
  BY <1>3, MultipleIs
<1>5. s = 0 => (x + m) % m = 0
  <2> SUFFICES ASSUME s = 0 PROVE (x + m) % m = 0
    OBVIOUS
  <2>1. x + m = (d + 1) * m /\ x + m \in Nat
    BY <1>1, <1>2
  <2> QED
    BY <1>3, <2>1, MultipleIs
<1>6. x % m = 0 => (x + m) % m = 0
  BY <1>5 DEF s
<1>7. (x + (m - (x % m))) % m = 0
  BY <1>4 DEF s
<1>8. m - (x % m) \in 1..m
  BY <1>3 DEF s
<1> QED
  BY <1>6, <1>7, <1>8

CopyRecord ==
    [fn : {"none", "memcpy", "memset"}, pc : {"idle", "enter", "head", "words", "tail", "done"},
     dst : Nat, src : Nat, length : Nat, t : Nat, dst0 : Nat, src0 : Nat, n : Nat]

\* The memory when k bytes have gone.
Copied(fn, d, s, k) ==
    [a \in Memory |-> IF a \notin d..d + k - 1 THEN a ELSE IF fn = "memset" THEN s ELSE s + (a - d)]
gone == copy.dst - copy.dst0

\* Where a call is: what has gone and what is left make up the whole.
Remains ==
    /\ copy.pc = "enter" => gone + copy.length = copy.n
    /\ copy.pc = "head" => /\ copy.t >= 1 /\ gone + copy.t + copy.length = copy.n
                           /\ \/ copy.length = 0
                              \/ (copy.src + copy.t) % wsize = 0 /\ (copy.dst + copy.t) % wsize = 0
    /\ copy.pc = "words" => gone + copy.t * wsize + (copy.length % wsize) = copy.n
    /\ copy.pc = "tail" => gone + copy.t = copy.n
    /\ copy.pc = "done" => gone = copy.n \/ (copy.fn = "memcpy" /\ copy.dst0 = copy.src0)

Underway ==
    /\ copy.fn # "none" /\ CopyAllowed(copy.dst0, copy.src0, copy.n)
    /\ copy.fn = "memset" => copy.pc \in {"enter", "done"} /\ copy.src = copy.src0
    /\ copy.fn = "memcpy" => copy.src = copy.src0 + gone
    /\ copy.dst >= copy.dst0
    /\ mem = Copied(copy.fn, copy.dst0, copy.src0, gone)
    /\ Remains /\ WordsAligned

CopyIInv ==
    /\ copy \in CopyRecord
    /\ copy.pc = "idle" => mem = [a \in Memory |-> a]
    /\ copy.pc # "idle" => Underway

\* The bytes that a loop moves are still those of the source.
LEMMA Moves ==
  ASSUME NEW d \in Nat, NEW s \in Nat, NEW n \in Nat, CopyAllowed(d, s, n),
         NEW k \in Nat, NEW b \in Nat, k + b <= n,
         NEW old, old = Copied("memcpy", d, s, k)
  PROVE  [a \in Memory |-> IF a \in d + k..d + k + b - 1 THEN old[(s + k) + (a - (d + k))] ELSE old[a]]
           = Copied("memcpy", d, s, k + b)
<1> SUFFICES ASSUME NEW a \in Memory
             PROVE  (IF a \in d + k..d + k + b - 1 THEN old[(s + k) + (a - (d + k))] ELSE old[a])
                    = Copied("memcpy", d, s, k + b)[a]
  BY DEF Copied
<1>1. a \in Nat
  BY LibcAssumption
<1>2. Copied("memcpy", d, s, k + b)[a] = IF a \notin d..d + (k + b) - 1 THEN a ELSE s + (a - d)
  BY DEF Copied
<1>3. CASE a \in d + k..d + k + b - 1
  <2> DEFINE o == (s + k) + (a - (d + k))
  <2>1. o \in Nat /\ o \in s..s + n - 1 /\ o \notin d..d + k - 1 /\ o = s + (a - d) /\ a \in d..d + (k + b) - 1
    BY <1>1, <1>3 DEF CopyAllowed
  <2>2. o \in Memory
    BY <2>1 DEF CopyAllowed
  <2> HIDE DEF o
  <2>3. old[o] = o
    BY <2>1, <2>2 DEF Copied
  <2> QED
    BY <1>2, <1>3, <2>1, <2>3 DEF o
<1>4. CASE a \notin d + k..d + k + b - 1
  <2>1. old[a] = IF a \notin d..d + k - 1 THEN a ELSE s + (a - d)
    BY DEF Copied
  <2> QED
    BY <1>1, <1>2, <1>4, <2>1
<1> QED
  BY <1>3, <1>4

LEMMA CopyStarts ==
  ASSUME CopyIInv, NEW c \in Copies, NEW fn \in {"memcpy", "memset"}, StartCopy(fn, c)
  PROVE  CopyIInv'
<1> DEFINE d == c.dst
           s == c.src
           n == c.length
<1>1. d \in Nat /\ s \in Nat /\ n \in Nat /\ CopyAllowed(d, s, n)
  BY CopiesAssumption
<1>2. copy' = [fn |-> fn, pc |-> "enter", dst |-> d, src |-> s, length |-> n,
               t |-> 0, dst0 |-> d, src0 |-> s, n |-> n]
      /\ mem' = [a \in Memory |-> a]
  BY DEF StartCopy, CopyIInv
<1> HIDE DEF d, s, n
<1>3. copy' \in CopyRecord
  BY <1>1, <1>2 DEF CopyRecord
<1>4. gone' = 0
  BY <1>1, <1>2 DEF gone
<1>5. Copied(fn, d, s, 0) = [a \in Memory |-> a]
  <2>1. d..d + 0 - 1 = {}
    BY <1>1
  <2> QED
    BY <2>1 DEF Copied
<1>6. mem' = Copied(copy'.fn, copy'.dst0, copy'.src0, 0)
  BY <1>2, <1>5
<1>7. Remains'
  BY <1>1, <1>2, <1>4 DEF Remains
<1>8. WordsAligned'
  BY <1>2 DEF WordsAligned
<1>9. Underway'
  BY <1>1, <1>2, <1>4, <1>6, <1>7, <1>8 DEF Underway, Copied
<1> QED
  BY <1>2, <1>3, <1>9 DEF CopyIInv

\* What a running call is known by.
LEMMA Running ==
  ASSUME CopyIInv, copy.pc # "idle"
  PROVE  /\ Underway /\ copy \in CopyRecord /\ copy.fn \in {"memcpy", "memset"} /\ wsize \in Nat /\ wsize > 0
         /\ copy.dst \in Nat /\ copy.src \in Nat /\ copy.length \in Nat /\ copy.t \in Nat
         /\ copy.dst0 \in Nat /\ copy.src0 \in Nat /\ copy.n \in Nat /\ gone \in Nat
         /\ copy = [fn |-> copy.fn, pc |-> copy.pc, dst |-> copy.dst, src |-> copy.src, length |-> copy.length,
                    t |-> copy.t, dst0 |-> copy.dst0, src0 |-> copy.src0, n |-> copy.n]
<1>1. Underway /\ copy \in CopyRecord /\ wsize \in Nat /\ wsize > 0
  BY LibcAssumption DEF CopyIInv
<1>2. gone \in Nat
  BY <1>1 DEF Underway, gone, CopyRecord
<1> QED
  BY <1>1, <1>2 DEF Underway, CopyRecord

\* A step that moves no bytes.
LEMMA MovesNothing ==
  ASSUME CopyIInv, copy.pc # "idle", mem' = mem,
         NEW pc2 \in {"head", "words", "tail", "done"}, NEW t2 \in Nat, NEW len \in Nat,
         copy' = [fn |-> copy.fn, pc |-> pc2, dst |-> copy.dst, src |-> copy.src, length |-> len,
                  t |-> t2, dst0 |-> copy.dst0, src0 |-> copy.src0, n |-> copy.n],
         copy.fn = "memset" => pc2 = "done",
         Remains', WordsAligned'
  PROVE  CopyIInv'
<1>1. Underway /\ gone' = gone
  BY Running DEF gone
<1>2. copy' \in CopyRecord
  BY Running DEF CopyRecord
<1>3. Underway'
  BY <1>1 DEF Underway, Copied
<1> QED
  BY <1>2, <1>3 DEF CopyIInv

LEMMA EnterKeeps ==
  ASSUME CopyIInv, EnterCopy
  PROVE  CopyIInv'
<1>1. copy.fn = "memcpy" /\ copy.pc = "enter" /\ mem' = mem
      /\ copy' = IF copy.length = 0 \/ copy.dst = copy.src THEN [copy EXCEPT !.pc = "done"]
                 ELSE IF Aligned THEN [copy EXCEPT !.pc = "words", !.t = copy.length \div wsize]
                 ELSE [copy EXCEPT !.pc = "head", !.t = HeadLength, !.length = @ - HeadLength]
  BY DEF EnterCopy
<1> DEFINE len == copy.length
           src == copy.src
           dst == copy.dst
<1>2. /\ Underway /\ wsize \in Nat /\ wsize > 0 /\ len \in Nat /\ src \in Nat /\ dst \in Nat
      /\ copy.dst0 \in Nat /\ copy.src0 \in Nat /\ copy.n \in Nat /\ gone \in Nat /\ copy.t \in Nat
      /\ copy = [fn |-> copy.fn, pc |-> copy.pc, dst |-> dst, src |-> src, length |-> len,
                 t |-> copy.t, dst0 |-> copy.dst0, src0 |-> copy.src0, n |-> copy.n]
  BY <1>1, Running
<1>3. gone + len = copy.n /\ src = copy.src0 + gone /\ dst = copy.dst0 + gone
  BY <1>1, <1>2 DEF Underway, Remains, gone
<1>4. CASE len = 0 \/ dst = src
  <2>1. copy' = [fn |-> copy.fn, pc |-> "done", dst |-> dst, src |-> src, length |-> len,
                 t |-> copy.t, dst0 |-> copy.dst0, src0 |-> copy.src0, n |-> copy.n]
    BY <1>1, <1>2, <1>4
  <2>2. gone' = gone
    BY <2>1 DEF gone
  <2>3. Remains'
    BY <1>1, <1>2, <1>3, <1>4, <2>1, <2>2 DEF Remains
  <2>4. WordsAligned'
    BY <2>1 DEF WordsAligned
  <2> QED
    BY <1>1, <1>2, <2>1, <2>3, <2>4, MovesNothing
<1>5. CASE ~(len = 0 \/ dst = src) /\ Aligned
  <2>1. copy' = [fn |-> copy.fn, pc |-> "words", dst |-> dst, src |-> src, length |-> len,
                 t |-> len \div wsize, dst0 |-> copy.dst0, src0 |-> copy.src0, n |-> copy.n]
    BY <1>1, <1>2, <1>5
  <2>2. gone' = gone
    BY <2>1 DEF gone
  <2>3. len \div wsize \in Nat /\ len = (len \div wsize) * wsize + (len % wsize) /\ len % wsize \in Nat
    BY <1>2, DivMod
  <2>4. gone + (len \div wsize) * wsize + (len % wsize) = copy.n
    <3>1. (len \div wsize) * wsize \in Int
      BY <1>2, <2>3
    <3> QED
      BY <1>2, <1>3, <2>3, <3>1
  <2>5. Remains'
    BY <2>1, <2>2, <2>4 DEF Remains
  <2>6. WordsAligned'
    BY <1>5, <2>1 DEF WordsAligned, Aligned
  <2> QED
    BY <1>1, <1>2, <2>1, <2>3, <2>5, <2>6, MovesNothing
<1>6. CASE ~(len = 0 \/ dst = src) /\ ~Aligned
  <2> DEFINE h == HeadLength
  <2>1. /\ h \in 1..len
        /\ len - h = 0 \/ ((src + h) % wsize = 0 /\ (dst + h) % wsize = 0)
    <3>1. CASE src % wsize # dst % wsize \/ len < wsize
      <4>1. h = len
        BY <3>1 DEF HeadLength
      <4> QED
        BY <1>2, <1>6, <4>1
    <3>2. CASE ~(src % wsize # dst % wsize \/ len < wsize)
      <4>1. h = wsize - (src % wsize) /\ h = wsize - (dst % wsize)
        BY <3>2 DEF HeadLength
      <4>2. h \in 1..wsize
        BY <1>2, <4>1, Boundaries
      <4>3. (src + h) % wsize = 0
        BY <1>2, <4>1, Boundaries
      <4>4. (dst + h) % wsize = 0
        BY <1>2, <4>1, Boundaries
      <4> HIDE DEF h
      <4>5. h \in 1..len
        BY <1>2, <3>2, <4>2
      <4> QED
        BY <4>3, <4>4, <4>5
    <3> QED
      BY <3>1, <3>2
  <2>2. copy' = [fn |-> copy.fn, pc |-> "head", dst |-> dst, src |-> src, length |-> len - h,
                 t |-> h, dst0 |-> copy.dst0, src0 |-> copy.src0, n |-> copy.n]
    BY <1>1, <1>2, <1>6
  <2> HIDE DEF h
  <2>3. gone' = gone
    BY <2>2 DEF gone
  <2>4. gone + h + (len - h) = copy.n /\ h >= 1 /\ h \in Nat /\ len - h \in Nat
    BY <1>2, <1>3, <2>1
  <2>5. Remains'
    BY <2>1, <2>2, <2>3, <2>4 DEF Remains
  <2>6. WordsAligned'
    BY <2>2 DEF WordsAligned
  <2> QED
    BY <1>1, <1>2, <2>2, <2>4, <2>5, <2>6, MovesNothing
<1> QED
  BY <1>4, <1>5, <1>6

\* A step that moves b bytes.
LEMMA MovesBytes ==
  ASSUME CopyIInv, copy.pc \in {"head", "words", "tail"}, NEW b \in Nat, gone + b <= copy.n,
         NEW next, NEW pc2 \in {"head", "words", "tail"}, NEW t2 \in Nat,
         next = [fn |-> copy.fn, pc |-> pc2, dst |-> copy.dst, src |-> copy.src, length |-> copy.length,
                 t |-> t2, dst0 |-> copy.dst0, src0 |-> copy.src0, n |-> copy.n],
         Move(b, next)
  PROVE  /\ copy' = [fn |-> "memcpy", pc |-> pc2, dst |-> copy.dst + b, src |-> copy.src + b,
                     length |-> copy.length, t |-> t2, dst0 |-> copy.dst0, src0 |-> copy.src0, n |-> copy.n]
         /\ gone' = gone + b
         /\ Remains' /\ WordsAligned' => CopyIInv'
<1>1. /\ Underway /\ copy.fn = "memcpy" /\ copy.dst \in Nat /\ copy.src \in Nat /\ copy.length \in Nat
      /\ copy.dst0 \in Nat /\ copy.src0 \in Nat /\ copy.n \in Nat /\ gone \in Nat
      /\ copy.dst = copy.dst0 + gone /\ copy.src = copy.src0 + gone
  BY Running DEF Underway, gone
<1>2. copy' = [fn |-> "memcpy", pc |-> pc2, dst |-> copy.dst + b, src |-> copy.src + b,
               length |-> copy.length, t |-> t2, dst0 |-> copy.dst0, src0 |-> copy.src0, n |-> copy.n]
  BY <1>1 DEF Move
<1>3. gone' = gone + b
  BY <1>1, <1>2 DEF gone
<1>4. mem' = Copied("memcpy", copy.dst0, copy.src0, gone + b)
  <2> DEFINE d == copy.dst0
             s == copy.src0
             n == copy.n
             k == gone
  <2>1. d \in Nat /\ s \in Nat /\ n \in Nat /\ k \in Nat /\ CopyAllowed(d, s, n) /\ mem = Copied("memcpy", d, s, k)
        /\ k + b <= n
    BY <1>1 DEF Underway
  <2>2. mem' = [a \in Memory |-> IF a \in d + k..d + k + b - 1 THEN mem[(s + k) + (a - (d + k))] ELSE mem[a]]
    BY <1>1 DEF Move
  <2> HIDE DEF d, s, n, k
  <2>3. mem' = Copied("memcpy", d, s, k + b)
    BY <2>1, <2>2, Moves
  <2> QED
    BY <2>3 DEF d, s, k
<1>5. copy' \in CopyRecord
  BY <1>1, <1>2 DEF CopyRecord
<1>6. ASSUME Remains', WordsAligned' PROVE Underway'
  BY <1>1, <1>2, <1>3, <1>4, <1>6 DEF Underway, Copied
<1> QED
  BY <1>2, <1>3, <1>5, <1>6 DEF CopyIInv

LEMMA HeadKeeps ==
  ASSUME CopyIInv, CopyHead
  PROVE  CopyIInv'
<1> DEFINE len == copy.length
           src == copy.src
           dst == copy.dst
           t == copy.t
<1>1. /\ copy.pc = "head" /\ Underway /\ wsize \in Nat /\ wsize > 0 /\ len \in Nat /\ src \in Nat /\ dst \in Nat
      /\ copy.dst0 \in Nat /\ copy.src0 \in Nat /\ copy.n \in Nat /\ gone \in Nat /\ t \in Nat
      /\ copy = [fn |-> copy.fn, pc |-> copy.pc, dst |-> dst, src |-> src, length |-> len,
                 t |-> t, dst0 |-> copy.dst0, src0 |-> copy.src0, n |-> copy.n]
  BY Running DEF CopyHead
<1>2. /\ t >= 1 /\ gone + t + len = copy.n
      /\ len = 0 \/ ((src + t) % wsize = 0 /\ (dst + t) % wsize = 0)
  BY <1>1 DEF Underway, Remains
<1>3. gone + 1 <= copy.n
  BY <1>1, <1>2
<1>4. CASE t = 1
  <2> DEFINE next == [fn |-> copy.fn, pc |-> "words", dst |-> dst, src |-> src, length |-> len,
                      t |-> len \div wsize, dst0 |-> copy.dst0, src0 |-> copy.src0, n |-> copy.n]
  <2>1. Move(1, next)
    <3> DEFINE words == Words(copy)
               k == len \div wsize
    <3>1. words = [copy EXCEPT !.pc = "words", !.t = k]
      BY DEF Words
    <3>2. copy = [fn |-> copy.fn, pc |-> copy.pc, dst |-> dst, src |-> src, length |-> len,
                  t |-> t, dst0 |-> copy.dst0, src0 |-> copy.src0, n |-> copy.n]
      BY <1>1
    <3> HIDE DEF words, k
    <3>3. words = [fn |-> copy.fn, pc |-> "words", dst |-> dst, src |-> src, length |-> len,
                   t |-> k, dst0 |-> copy.dst0, src0 |-> copy.src0, n |-> copy.n]
      BY ONLY <3>1, <3>2
    <3> QED
      BY <1>4, <3>3 DEF CopyHead, words, k
  <2>2. len \div wsize \in Nat /\ len = (len \div wsize) * wsize + (len % wsize) /\ len % wsize \in Nat
    BY <1>1, DivMod
  <2>3. /\ copy' = [fn |-> "memcpy", pc |-> "words", dst |-> dst + 1, src |-> src + 1, length |-> len,
                    t |-> len \div wsize, dst0 |-> copy.dst0, src0 |-> copy.src0, n |-> copy.n]
        /\ gone' = gone + 1
        /\ Remains' /\ WordsAligned' => CopyIInv'
    BY <1>1, <1>3, <2>1, <2>2, MovesBytes
  <2>4. (gone + 1) + (len \div wsize) * wsize + (len % wsize) = copy.n
    <3>1. (len \div wsize) * wsize \in Int
      BY <1>1, <2>2
    <3> QED
      BY <1>1, <1>2, <1>4, <2>2, <3>1
  <2>5. Remains'
    BY <2>3, <2>4 DEF Remains
  <2>6. len \div wsize > 0 => (src + 1) % wsize = 0 /\ (dst + 1) % wsize = 0
    <3> SUFFICES ASSUME len = 0 PROVE ~(len \div wsize > 0)
      BY <1>2, <1>4
    <3>1. len \div wsize >= 1 => (len \div wsize) * wsize >= wsize
      BY <1>1, <2>2, OneMultiple
    <3> QED
      BY <1>1, <2>2, <3>1
  <2>7. WordsAligned'
    BY <2>3, <2>6 DEF WordsAligned, Aligned
  <2> QED
    BY <2>3, <2>5, <2>7
<1>5. CASE t # 1
  <2> DEFINE next == [fn |-> copy.fn, pc |-> "head", dst |-> dst, src |-> src, length |-> len,
                      t |-> t - 1, dst0 |-> copy.dst0, src0 |-> copy.src0, n |-> copy.n]
  <2>1. Move(1, next)
    <3>1. LessOne = next
      BY <1>1 DEF LessOne
    <3> QED
      BY <1>5, <3>1 DEF CopyHead
  <2>2. t - 1 \in Nat /\ t - 1 >= 1
    BY <1>1, <1>2, <1>5
  <2>3. /\ copy' = [fn |-> "memcpy", pc |-> "head", dst |-> dst + 1, src |-> src + 1, length |-> len,
                    t |-> t - 1, dst0 |-> copy.dst0, src0 |-> copy.src0, n |-> copy.n]
        /\ gone' = gone + 1
        /\ Remains' /\ WordsAligned' => CopyIInv'
    BY <1>1, <1>3, <2>1, <2>2, MovesBytes
  <2>4. (gone + 1) + (t - 1) + len = copy.n /\ (src + 1) + (t - 1) = src + t /\ (dst + 1) + (t - 1) = dst + t
    BY <1>1, <1>2
  <2>5. len = 0 \/ (((src + 1) + (t - 1)) % wsize = 0 /\ ((dst + 1) + (t - 1)) % wsize = 0)
    BY <1>2, <2>4
  <2>6. Remains'
    BY <2>2, <2>3, <2>4, <2>5 DEF Remains
  <2>7. WordsAligned'
    BY <2>3 DEF WordsAligned
  <2> QED
    BY <2>3, <2>6, <2>7
<1> QED
  BY <1>4, <1>5

LEMMA WordKeeps ==
  ASSUME CopyIInv, CopyWord
  PROVE  CopyIInv'
<1> DEFINE len == copy.length
           src == copy.src
           dst == copy.dst
           t == copy.t
           rest == len % wsize
<1>1. /\ copy.pc = "words" /\ Underway /\ wsize \in Nat /\ wsize > 0 /\ len \in Nat /\ src \in Nat /\ dst \in Nat
      /\ copy.dst0 \in Nat /\ copy.src0 \in Nat /\ copy.n \in Nat /\ gone \in Nat /\ t \in Nat
      /\ copy = [fn |-> copy.fn, pc |-> copy.pc, dst |-> dst, src |-> src, length |-> len,
                 t |-> t, dst0 |-> copy.dst0, src0 |-> copy.src0, n |-> copy.n]
  BY Running DEF CopyWord
<1>2. rest \in Nat
  BY <1>1, DivMod
<1>3. gone + t * wsize + rest = copy.n
  BY <1>1 DEF Underway, Remains
<1>4. t > 0 => src % wsize = 0 /\ dst % wsize = 0
  BY <1>1 DEF Underway, WordsAligned, Aligned
<1>5. Tail_(copy) = [fn |-> copy.fn, pc |-> "tail", dst |-> dst, src |-> src, length |-> len,
                     t |-> rest, dst0 |-> copy.dst0, src0 |-> copy.src0, n |-> copy.n]
  <2>1. Tail_(copy) = [copy EXCEPT !.pc = "tail", !.t = rest]
    BY DEF Tail_
  <2> HIDE DEF rest
  <2> QED
    BY <1>1, <2>1
<1> HIDE DEF rest
<1>6. CASE t = 0
  <2>1. copy' = [fn |-> copy.fn, pc |-> "tail", dst |-> dst, src |-> src, length |-> len,
                 t |-> rest, dst0 |-> copy.dst0, src0 |-> copy.src0, n |-> copy.n]
        /\ mem' = mem
    BY <1>5, <1>6 DEF CopyWord
  <2>2. gone + rest = copy.n
    BY <1>1, <1>2, <1>3, <1>6
  <2>3. Remains'
    BY <2>1, <2>2 DEF Remains, gone
  <2>4. WordsAligned' /\ copy.fn # "memset"
    BY <1>1, <2>1 DEF WordsAligned, Underway
  <2> QED
    BY <1>1, <1>2, <2>1, <2>3, <2>4, MovesNothing
<1>7. CASE t > 0
  <2>1. (t - 1) * wsize = t * wsize - wsize /\ t * wsize \in Int /\ (t - 1) * wsize \in Int /\ t - 1 \in Nat
    BY <1>1, <1>7
  <2>2. (gone + wsize) + (t - 1) * wsize + rest = copy.n
    BY <1>1, <1>2, <1>3, <2>1
  <2>3. (t - 1) * wsize >= 0
    <3>1. t - 1 = 0 \/ t - 1 >= 1
      BY <1>1, <1>7
    <3> QED
      BY <1>1, <2>1, <3>1, OneMultiple
  <2>4. gone + wsize <= copy.n
    BY <1>1, <1>2, <2>1, <2>2, <2>3
  <2>5. (src + wsize) % wsize = 0 /\ (dst + wsize) % wsize = 0
    BY <1>1, <1>4, <1>7, Boundaries
  <2>6. CASE t = 1
    <3> DEFINE next == [fn |-> copy.fn, pc |-> "tail", dst |-> dst, src |-> src, length |-> len,
                        t |-> rest, dst0 |-> copy.dst0, src0 |-> copy.src0, n |-> copy.n]
    <3>1. Move(wsize, next)
      BY <1>5, <2>6 DEF CopyWord
    <3>2. /\ copy' = [fn |-> "memcpy", pc |-> "tail", dst |-> dst + wsize, src |-> src + wsize, length |-> len,
                      t |-> rest, dst0 |-> copy.dst0, src0 |-> copy.src0, n |-> copy.n]
          /\ gone' = gone + wsize
          /\ Remains' /\ WordsAligned' => CopyIInv'
      BY <1>1, <1>2, <2>4, <3>1, MovesBytes
    <3>3. (gone + wsize) + rest = copy.n
      BY <1>1, <1>2, <2>2, <2>6
    <3>4. Remains'
      BY <3>2, <3>3 DEF Remains
    <3>5. WordsAligned'
      BY <3>2 DEF WordsAligned
    <3> QED
      BY <3>2, <3>4, <3>5
  <2>7. CASE t # 1
    <3> DEFINE next == [fn |-> copy.fn, pc |-> "words", dst |-> dst, src |-> src, length |-> len,
                        t |-> t - 1, dst0 |-> copy.dst0, src0 |-> copy.src0, n |-> copy.n]
    <3>1. Move(wsize, next)
      <4>1. LessOne = next
        BY <1>1 DEF LessOne
      <4> QED
        BY <1>7, <2>7, <4>1 DEF CopyWord
    <3>2. /\ copy' = [fn |-> "memcpy", pc |-> "words", dst |-> dst + wsize, src |-> src + wsize, length |-> len,
                      t |-> t - 1, dst0 |-> copy.dst0, src0 |-> copy.src0, n |-> copy.n]
          /\ gone' = gone + wsize
          /\ Remains' /\ WordsAligned' => CopyIInv'
      BY <1>1, <2>1, <2>4, <3>1, MovesBytes
    <3>3. (gone + wsize) + (t - 1) * wsize + (len % wsize) = copy.n
      BY <2>2 DEF rest
    <3>4. Remains'
      BY <3>2, <3>3 DEF Remains
    <3>5. WordsAligned'
      BY <2>5, <3>2 DEF WordsAligned, Aligned
    <3> QED
      BY <3>2, <3>4, <3>5
  <2> QED
    BY <2>6, <2>7
<1> QED
  BY <1>1, <1>6, <1>7

LEMMA CopyTailKeeps ==
  ASSUME CopyIInv, CopyTail
  PROVE  CopyIInv'
<1> DEFINE len == copy.length
           src == copy.src
           dst == copy.dst
           t == copy.t
<1>1. /\ copy.pc = "tail" /\ copy.fn = "memcpy" /\ Underway
      /\ len \in Nat /\ src \in Nat /\ dst \in Nat
      /\ copy.dst0 \in Nat /\ copy.src0 \in Nat /\ copy.n \in Nat /\ gone \in Nat /\ t \in Nat
      /\ copy = [fn |-> copy.fn, pc |-> copy.pc, dst |-> dst, src |-> src, length |-> len,
                 t |-> t, dst0 |-> copy.dst0, src0 |-> copy.src0, n |-> copy.n]
  BY Running DEF CopyTail
<1>2. gone + t = copy.n
  BY <1>1 DEF Underway, Remains
<1>3. CASE t = 0
  <2>1. copy' = [fn |-> copy.fn, pc |-> "done", dst |-> dst, src |-> src, length |-> len,
                 t |-> t, dst0 |-> copy.dst0, src0 |-> copy.src0, n |-> copy.n]
        /\ mem' = mem
    BY <1>1, <1>3 DEF CopyTail
  <2>2. Remains' /\ WordsAligned'
    BY <1>1, <1>2, <1>3, <2>1 DEF Remains, gone, WordsAligned
  <2> QED
    BY <1>1, <2>1, <2>2, MovesNothing
<1>4. CASE t # 0
  <2> DEFINE next == [fn |-> copy.fn, pc |-> "tail", dst |-> dst, src |-> src, length |-> len,
                      t |-> t - 1, dst0 |-> copy.dst0, src0 |-> copy.src0, n |-> copy.n]
  <2>1. Move(1, next)
    <3>1. LessOne = next
      BY <1>1 DEF LessOne
    <3> QED
      BY <1>4, <3>1 DEF CopyTail
  <2>2. t - 1 \in Nat /\ gone + 1 <= copy.n
    BY <1>1, <1>2, <1>4
  <2>3. /\ copy' = [fn |-> "memcpy", pc |-> "tail", dst |-> dst + 1, src |-> src + 1, length |-> len,
                    t |-> t - 1, dst0 |-> copy.dst0, src0 |-> copy.src0, n |-> copy.n]
        /\ gone' = gone + 1
        /\ Remains' /\ WordsAligned' => CopyIInv'
    BY <1>1, <2>1, <2>2, MovesBytes
  <2>4. (gone + 1) + (t - 1) = copy.n
    BY <1>1, <1>2
  <2>5. Remains' /\ WordsAligned'
    BY <2>3, <2>4 DEF Remains, WordsAligned
  <2> QED
    BY <2>3, <2>5
<1> QED
  BY <1>3, <1>4

LEMMA SetByteKeeps ==
  ASSUME CopyIInv, SetByte
  PROVE  CopyIInv'
<1> DEFINE len == copy.length
           src == copy.src
           dst == copy.dst
<1>1. /\ copy.pc = "enter" /\ copy.fn = "memset" /\ Underway
      /\ len \in Nat /\ src \in Nat /\ dst \in Nat
      /\ copy.dst0 \in Nat /\ copy.src0 \in Nat /\ copy.n \in Nat /\ gone \in Nat /\ copy.t \in Nat
      /\ copy = [fn |-> copy.fn, pc |-> copy.pc, dst |-> dst, src |-> src, length |-> len,
                 t |-> copy.t, dst0 |-> copy.dst0, src0 |-> copy.src0, n |-> copy.n]
  BY Running DEF SetByte
<1>2. gone + len = copy.n /\ dst = copy.dst0 + gone /\ src = copy.src0
  BY <1>1 DEF Underway, Remains, gone
<1>3. CASE len = 0
  <2>1. copy' = [fn |-> copy.fn, pc |-> "done", dst |-> dst, src |-> src, length |-> len,
                 t |-> copy.t, dst0 |-> copy.dst0, src0 |-> copy.src0, n |-> copy.n]
        /\ mem' = mem
    BY <1>1, <1>3 DEF SetByte
  <2>2. Remains' /\ WordsAligned'
    BY <1>1, <1>2, <1>3, <2>1 DEF Remains, gone, WordsAligned
  <2> QED
    BY <1>1, <2>1, <2>2, MovesNothing
<1>4. CASE len # 0
  <2> DEFINE d == copy.dst0
             k == gone
  <2>1. copy' = [fn |-> "memset", pc |-> "enter", dst |-> dst + 1, src |-> src, length |-> len - 1,
                 t |-> copy.t, dst0 |-> d, src0 |-> src, n |-> copy.n]
        /\ mem' = [mem EXCEPT ![dst] = src]
    BY <1>1, <1>2, <1>4 DEF SetByte
  <2>2. gone' = k + 1 /\ len - 1 \in Nat
    BY <1>1, <1>2, <1>4, <2>1 DEF gone
  <2>3. mem = Copied("memset", d, src, k) /\ d \in Nat /\ k \in Nat /\ dst = d + k
    BY <1>1, <1>2 DEF Underway
  <2>4. mem' = Copied("memset", d, src, k + 1)
    <3> HIDE DEF d, k, src
    <3>1. mem' = [a \in Memory |-> IF a = d + k THEN src ELSE IF a \notin d..d + k - 1 THEN a ELSE src]
      BY <2>1, <2>3 DEF Copied
    <3>2. \A a \in Memory : a \notin d..d + (k + 1) - 1 <=> a # d + k /\ a \notin d..d + k - 1
      BY <2>3, LibcAssumption
    <3> QED
      BY <3>1, <3>2 DEF Copied
  <2>5. copy' \in CopyRecord
    BY <1>1, <2>1, <2>2 DEF CopyRecord
  <2>6. Remains' /\ WordsAligned'
    BY <1>1, <1>2, <2>1, <2>2 DEF Remains, WordsAligned
  <2>7. mem' = Copied(copy.fn, copy.dst0, copy.src0, gone)'
    BY <2>1, <2>2, <2>4 DEF Copied
  <2>8. CopyAllowed(copy.dst0, copy.src0, copy.n)' /\ (copy.dst >= copy.dst0)'
    BY <1>1, <1>2, <2>1 DEF Underway
  <2>9. Underway'
    BY <1>2, <2>1, <2>6, <2>7, <2>8 DEF Underway
  <2> QED
    BY <2>1, <2>5, <2>9 DEF CopyIInv
<1> QED
  BY <1>3, <1>4

LEMMA CopyStutters ==
  ASSUME CopyIInv, UNCHANGED <<mem, copy>>
  PROVE  CopyIInv'
BY DEF CopyIInv, Underway, Remains, WordsAligned, Aligned, gone, Copied

LEMMA CopyKeeps ==
  ASSUME CopyIInv, [Next]_vars
  PROVE  CopyIInv'
<1>1. ASSUME LibcCall PROVE CopyIInv'
  <2>1. ASSUME NEW c \in Copies, NEW fn \in {"memcpy", "memset"}, StartCopy(fn, c) PROVE CopyIInv'
    BY <2>1, CopyStarts
  <2>2. ASSUME NEW f, NEW s, StartPrint(f, s) PROVE CopyIInv'
    BY <2>2, CopyStutters DEF StartPrint
  <2> QED
    BY <1>1, <2>1, <2>2 DEF LibcCall
<1>2. ASSUME PrintStep PROVE UNCHANGED <<mem, copy>>
  BY <1>2 DEF PrintStep, PrintChar, PrintEnd, PrintDirective
<1>3. ASSUME LibcStep PROVE CopyIInv'
  BY <1>2, <1>3, EnterKeeps, HeadKeeps, WordKeeps, CopyTailKeeps, SetByteKeeps, CopyStutters
     DEF LibcStep, CopyStep
<1>4. ASSUME ConsoleCall \/ ConsoleNext PROVE UNCHANGED <<mem, copy>>
  <2>1. ASSUME ConsoleCall PROVE UNCHANGED <<mem, copy>>
    BY <2>1 DEF ConsoleCall, StartPrint
  <2>2. ASSUME Driver PROVE UNCHANGED <<mem, copy>>
    BY <1>2, <2>2 DEF Driver, Sleep, uart_init, uart_enable, uart_spin_vprintf,
       uart_spin_putbyte, uart_spin_getbyte, libc_vars
  <2>3. ASSUME PowerOn \/ HandOver \/ Send \/ Gets \/ \E c \in Keys : Type_(c)
        PROVE  UNCHANGED <<mem, copy>>
    BY <2>3 DEF PowerOn, HandOver, Start, Send, Gets, Type_, libc_vars
  <2> QED
    BY <1>4, <2>1, <2>2, <2>3 DEF ConsoleNext
<1>5. ASSUME DivisionOp \/ StabsOp \/ UNCHANGED vars PROVE UNCHANGED <<mem, copy>>
  BY <1>5 DEF DivisionOp, StabsOp, vars, libc_vars
<1> QED
  BY <1>1, <1>3, <1>4, <1>5, CopyStutters DEF Next, LibcOp, ConsoleOp

\* What has gone, and where a call of memcpy or memset is.
THEOREM CopyInvariance == Spec => []CopyIInv
<1>1. Init => CopyIInv
  BY DEF Init, LibcInit, NoCopy, CopyIInv, CopyRecord
<1>2. CopyIInv /\ [Next]_vars => CopyIInv'
  BY CopyKeeps
<1> QED
  BY <1>1, <1>2, PTL DEF Spec

\* memcpy and memset, for every size of a word and all addresses and lengths
\* that do not overlap upwards: the bytes of the destination are those of the
\* source, no other byte changes, and words are moved between aligned addresses.
THEOREM CopySound == Spec => []CopyCorrect
<1>1. CopyIInv => CopyCorrect
  <2> SUFFICES ASSUME CopyIInv PROVE CopiedExactly /\ WordsAligned
    BY DEF CopyCorrect
  <2>1. WordsAligned
    BY DEF CopyIInv, WordsAligned, Underway
  <2>2. ASSUME copy.pc = "done", NEW a \in Memory
        PROVE  mem[a] = IF a \notin copy.dst0..copy.dst0 + copy.n - 1 THEN a
                        ELSE IF copy.fn = "memset" THEN copy.src0
                        ELSE copy.src0 + (a - copy.dst0)
    <3>1. Underway /\ copy.dst0 \in Nat /\ copy.src0 \in Nat /\ a \in Nat
      BY <2>2, Running, LibcAssumption
    <3>2. mem[a] = IF a \notin copy.dst0..copy.dst0 + gone - 1 THEN a
                   ELSE IF copy.fn = "memset" THEN copy.src0 ELSE copy.src0 + (a - copy.dst0)
      BY <3>1 DEF Underway, Copied
    <3>3. gone = copy.n \/ (copy.fn = "memcpy" /\ copy.dst0 = copy.src0)
      BY <2>2, <3>1 DEF Underway, Remains
    <3> QED
      BY <3>1, <3>2, <3>3
  <2> QED
    BY <2>1, <2>2 DEF CopiedExactly
<1> QED
  BY <1>1, CopyInvariance, PTL
=============================================================================
