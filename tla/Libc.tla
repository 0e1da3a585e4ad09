-------------------------------- MODULE Libc --------------------------------
(***************************************************************************)
(* memcpy and memset (lib/libc/string), and vsnprintf (lib/libc/stdio),    *)
(* one step per iteration of their loops.                                  *)
(***************************************************************************)
EXTENDS Integers, Sequences, SequencesExt

CONSTANTS wsize,       \* bytes of a long
          Memory,      \* addresses
          Copies,      \* dst, src, length of the calls of memcpy and memset
          Formats,     \* format strings with their arguments: sequences of items
          Sizes        \* sizes of the destination of vsnprintf

ASSUME LibcAssumption ==
    /\ wsize \in Nat \ {0} /\ Memory \subseteq Nat
    /\ Sizes \subseteq Nat \ {0}
\* "not handling overlap": a copy goes down, or to a place apart.
CopyAllowed(d, s, n) ==
    /\ d..d + n - 1 \subseteq Memory /\ s..s + n - 1 \subseteq Memory
    /\ d <= s \/ s + n <= d
ASSUME CopiesAssumption ==
    /\ Copies \subseteq [dst : Nat, src : Nat, length : Nat]
    /\ \A c \in Copies : CopyAllowed(c.dst, c.src, c.length)

VARIABLES mem,                 \* bytes
          copy,                \* the running memcpy or memset
          print                \* the running vsnprintf
libc_vars == <<mem, copy, print>>

NoCopy == [fn |-> "none", pc |-> "idle", dst |-> 0, src |-> 0, length |-> 0, t |-> 0,
           dst0 |-> 0, src0 |-> 0, n |-> 0]
NoPrint == [pc |-> "idle", fmt |-> <<>>, args |-> <<>>, size |-> 0, f |-> 1, flag |-> {},
            width |-> 0, str |-> <<>>, ret |-> 0, full |-> FALSE, items |-> <<>>]

LibcInit == mem = [a \in Memory |-> a] /\ copy = NoCopy /\ print = NoPrint

LibcTypeOK ==
    /\ DOMAIN mem = Memory
    /\ copy.fn \in {"none", "memcpy", "memset"}
    /\ copy.pc \in {"idle", "enter", "head", "words", "tail", "done"}
    /\ {copy.length, copy.t} \subseteq Nat
    /\ print.pc \in {"idle", "char", "directive", "done", "beyond"}
    /\ print.flag \subseteq {"ZEROPAD"} /\ print.width \in Nat

-----------------------------------------------------------------------------
(* memcpy: single bytes up to a word boundary if both pointers reach one   *)
(* together, then words, then the bytes that are left.                     *)

StartCopy(fn, c) ==
    /\ copy.pc = "idle"
    /\ copy' = [fn |-> fn, pc |-> "enter", dst |-> c.dst, src |-> c.src, length |-> c.length,
                t |-> 0, dst0 |-> c.dst, src0 |-> c.src, n |-> c.length]
    /\ UNCHANGED <<mem, print>>

\* All bytes one by one if the low bits differ or there is less than a word.
HeadLength ==
    IF copy.src % wsize # copy.dst % wsize \/ copy.length < wsize
    THEN copy.length ELSE wsize - (copy.src % wsize)

Aligned == copy.src % wsize = 0 /\ copy.dst % wsize = 0

EnterCopy ==
    /\ copy.fn = "memcpy" /\ copy.pc = "enter"
    /\ copy' = IF copy.length = 0 \/ copy.dst = copy.src THEN [copy EXCEPT !.pc = "done"]
               ELSE IF Aligned THEN [copy EXCEPT !.pc = "words", !.t = copy.length \div wsize]
               ELSE [copy EXCEPT !.pc = "head", !.t = HeadLength, !.length = @ - HeadLength]
    /\ UNCHANGED <<mem, print>>

\* The next n bytes go; t counts down, and at 0 the next loop begins.
Move(n, next) ==
    /\ mem' = [a \in Memory |-> IF a \in copy.dst..copy.dst + n - 1
                                THEN mem[copy.src + (a - copy.dst)] ELSE mem[a]]
    /\ copy' = [next EXCEPT !.dst = @ + n, !.src = @ + n]
    /\ UNCHANGED print

Words(c) == [c EXCEPT !.pc = "words", !.t = c.length \div wsize]
\* Mutant of Tail_: "& wsize" for "& wmask".
TailMask(c) == [c EXCEPT !.pc = "tail", !.t = IF (c.length \div wsize) % 2 = 1 THEN wsize ELSE 0]
Tail_(c) == [c EXCEPT !.pc = "tail", !.t = c.length % wsize]
LessOne == [copy EXCEPT !.t = @ - 1]

CopyHead ==
    /\ copy.pc = "head"
    /\ Move(1, IF copy.t = 1 THEN Words(copy) ELSE LessOne)

CopyWord ==
    /\ copy.pc = "words"
    /\ IF copy.t = 0 THEN copy' = Tail_(copy) /\ UNCHANGED <<mem, print>>
       ELSE Move(wsize, IF copy.t = 1 THEN Tail_(copy) ELSE LessOne)

CopyTail ==
    /\ copy.pc = "tail" /\ copy.fn = "memcpy"
    /\ IF copy.t = 0 THEN copy' = [copy EXCEPT !.pc = "done"] /\ UNCHANGED <<mem, print>>
       ELSE Move(1, LessOne)

\* memset: a byte at a time; src is the value.
SetByte ==
    /\ copy.fn = "memset" /\ copy.pc = "enter"
    /\ IF copy.length = 0 THEN copy' = [copy EXCEPT !.pc = "done"] /\ UNCHANGED mem
       ELSE /\ mem' = [mem EXCEPT ![copy.dst] = copy.src]
            /\ copy' = [copy EXCEPT !.dst = @ + 1, !.length = @ - 1]
    /\ UNCHANGED print

CopyStep == EnterCopy \/ CopyHead \/ CopyWord \/ CopyTail \/ SetByte

-----------------------------------------------------------------------------
(* vsnprintf.  A format is a sequence of characters without its NUL.       *)

digits == <<"0", "1", "2", "3", "4", "5", "6", "7", "8", "9", "A", "B", "C", "D", "E", "F">>
IsDigit(c) == c \in {digits[d] : d \in 1..10}
DigitOf(c) == (CHOOSE d \in 1..10 : digits[d] = c) - 1
Base(c) == CASE c \in {"d", "u"} -> 10 [] c = "o" -> 8 [] c \in {"x", "p"} -> 16
Convert == {"d", "u", "o", "x", "p"}
NUL == "nul"

\* A format is given by its items: text, or a conversion with its argument, or a
\* percent sign at its end.
Text(item) ==
    IF item.conv = "text" THEN item.text
    ELSE IF item.conv = "end" THEN <<"%">>
    ELSE <<"%">> \o (IF item.zero THEN <<"0">> ELSE <<>>)
         \o (IF item.width > 0 THEN <<digits[item.width + 1]>> ELSE <<>>) \o <<item.conv>>
Used(items) == SelectSeq(items, LAMBDA item : item.conv \notin {"text", "%", "end"})

StartPrint(call, size) ==
    /\ print.pc = "idle"
    /\ print' = [NoPrint EXCEPT !.pc = "char", !.fmt = FlattenSeq([k \in DOMAIN call |-> Text(call[k])]),
                                !.args = [k \in DOMAIN Used(call) |-> Used(call)[k].arg],
                                !.size = size, !.items = call]
    /\ UNCHANGED <<mem, copy>>

Next_ == IF print.f > Len(print.fmt) THEN NUL ELSE print.fmt[print.f]

\* set_ch, for each of chars: when pos reaches size, the last place takes the
\* NUL and size is returned.
Put(chars, next) ==
    LET all == print.str \o chars IN
    IF Len(all) < print.size THEN [next EXCEPT !.str = all]
    ELSE [next EXCEPT !.str = SubSeq(all, 1, print.size - 1) \o <<NUL>>, !.pc = "done",
                      !.ret = print.size, !.full = TRUE]

\* The digits of a number, least significant first.
Digits[n \in Nat, base \in {8, 10, 16}] ==
    IF n = 0 THEN <<>> ELSE <<digits[(n % base) + 1]>> \o Digits[n \div base, base]
Buf(n, base) == IF n = 0 THEN <<"0">> ELSE Digits[n, base]

\* "flag | FLAG_ZEROPAD" is never 0: a width always pads with zeros, and keeps
\* only that many of the lowest digits.
Number(c, val) ==
    LET sign == IF c = "d" /\ val < 0 THEN <<"-">> ELSE <<>>
        buf == Buf(IF val < 0 THEN -val ELSE val, Base(c))
    IN  sign \o (IF print.width = 0 THEN Reverse(buf)
                 ELSE [k \in 1..print.width |->
                         LET w == print.width - k IN IF w >= Len(buf) THEN "0" ELSE buf[w + 1]])

NullString == <<NUL>>      \* a pointer, not a string
StringOf(arg) == IF arg = NullString THEN <<"(", "n", "u", "l", "l", ")">> ELSE arg
Pad(s) == IF Len(s) >= print.width THEN s ELSE s \o [k \in 1..print.width - Len(s) |-> " "]

\* Mutant of Finished: the width stays for the next directive.
FinishedKeeps(next) == [next EXCEPT !.f = @ + 1, !.pc = "char", !.flag = {}]
Finished(next) == [next EXCEPT !.f = @ + 1, !.pc = "char", !.flag = {}, !.width = 0]

PrintChar ==
    /\ print.pc = "char" /\ Next_ # NUL
    /\ print' = IF Next_ = "%" THEN [print EXCEPT !.pc = "directive", !.f = @ + 1]
                ELSE Put(<<Next_>>, [print EXCEPT !.f = @ + 1])
    /\ UNCHANGED <<mem, copy>>

PrintEnd ==
    /\ print.pc = "char" /\ Next_ = NUL
    /\ print' = Put(<<NUL>>, [print EXCEPT !.pc = "done", !.ret = Len(print.str)])
    /\ UNCHANGED <<mem, copy>>

\* The switch, once per character of a directive.  After a percent sign at the end
\* the NUL is printed and passed, and the loop reads what lies behind the format.
PrintDirective ==
    /\ print.pc = "directive"
    /\ print' =
         CASE Next_ \in Convert \cup {"c", "s"} ->
                Put(CASE Next_ = "s" -> Pad(StringOf(Head(print.args)))
                      [] Next_ = "c" -> <<Head(print.args)>>
                      [] OTHER -> Number(Next_, Head(print.args)),
                    Finished([print EXCEPT !.args = Tail(@)]))
           [] Next_ = "%" -> Put(<<"%">>, Finished(print))
           [] Next_ = "0" /\ print.width = 0 -> [print EXCEPT !.flag = {"ZEROPAD"}, !.f = @ + 1]
           [] IsDigit(Next_) /\ (Next_ # "0" \/ print.width > 0) ->
                [print EXCEPT !.width = 10 * @ + DigitOf(Next_), !.f = @ + 1]
           [] OTHER -> Put(<<"%", Next_>>,
                           [print EXCEPT !.f = @ + 1, !.pc = IF Next_ = NUL THEN "beyond" ELSE "char"])
    /\ UNCHANGED <<mem, copy>>

PrintStep == PrintChar \/ PrintEnd \/ PrintDirective

LibcCall ==
    \/ \E c \in Copies, fn \in {"memcpy", "memset"} : StartCopy(fn, c)
    \/ \E f \in Formats, s \in Sizes : StartPrint(f, s)
LibcStep == CopyStep \/ PrintStep

-----------------------------------------------------------------------------
(* Properties.                                                             *)

\* memcpy and memset change the destination and nothing else: its bytes are
\* the source's, whatever the alignment of the two and the length.
CopiedExactly ==
    copy.pc = "done" =>
        \A a \in Memory :
            mem[a] = IF a \notin copy.dst0..copy.dst0 + copy.n - 1 THEN a
                     ELSE IF copy.fn = "memset" THEN copy.src0
                     ELSE copy.src0 + (a - copy.dst0)

\* A word is only ever read or written at a word boundary.
WordsAligned == copy.pc = "words" /\ copy.t > 0 => Aligned

\* str is never written beyond size, and at the return it is a string that
\* ends inside it; the return value is its length, or size when it was cut.
OutputBounded ==
    /\ Len(print.str) <= print.size
    /\ print.pc = "done" =>
         /\ print.str # <<>> /\ Last(print.str) = NUL
         /\ print.ret = IF print.full THEN print.size ELSE Len(print.str) - 1
         /\ \A k \in 1..Len(print.str) - 1 : print.str[k] # NUL

\* What C prints for an item (C99, 7.19.6.1): blanks or, after the sign, zeros on
\* the left up to the width, never less than all digits, those of %x in lower case.
Fill(char, width, s) == [k \in 1..(IF width > Len(s) THEN width - Len(s) ELSE 0) |-> char]
LowerCase(c) == CASE c = "A" -> "a" [] c = "B" -> "b" [] c = "C" -> "c" [] c = "D" -> "d"
                  [] c = "E" -> "e" [] c = "F" -> "f" [] OTHER -> c
PositionalOf(n, base) ==
    LET len == CHOOSE k \in 1..(n + 1) : n < base^k /\ (k = 1 \/ n >= base^(k - 1))
    IN  [k \in 1..len |-> LowerCase(digits[((n \div base^(len - k)) % base) + 1])]
InC(item) ==
    CASE item.conv = "text" -> item.text
      [] item.conv = "%" -> <<"%">>
      [] item.conv \in {"c", "s"} ->
           LET s == IF item.conv = "s" THEN item.arg ELSE <<item.arg>>
           IN  Fill(" ", item.width, s) \o s
      [] OTHER ->
           LET sign == IF item.arg < 0 THEN <<"-">> ELSE <<>>
               n == PositionalOf(IF item.arg < 0 THEN -item.arg ELSE item.arg, Base(item.conv))
           IN  IF item.zero THEN sign \o Fill("0", item.width - Len(sign), n) \o n
               ELSE Fill(" ", item.width, sign \o n) \o sign \o n

\* Where this vsnprintf means to do what C does: the width of a number has room for
\* its digits and comes with the flag 0, or there is none; no other width pads; and
\* %x has no digit above 9.  C leaves %p and a null string open.
AsC(item) ==
    CASE item.conv \in {"text", "%"} -> TRUE
      [] item.conv = "c" -> item.width <= 1
      [] item.conv = "s" -> item.arg # NullString /\ item.width <= Len(item.arg)
      [] item.conv \in {"d", "u", "o", "x"} ->
           LET n == Buf(IF item.arg < 0 THEN -item.arg ELSE item.arg, Base(item.conv))
           IN  /\ item.width = 0 \/ (item.zero /\ item.arg >= 0 /\ item.width >= Len(n))
               /\ \A k \in DOMAIN n : IsDigit(n[k])
      [] OTHER -> FALSE

Printed_(from, to) == FlattenSeq([k \in 1..(to - from + 1) |-> InC(print.items[from + k - 1])])

\* Such items come out as C prints them whatever stands before or behind them,
\* items of the other kind included: no flag, width or argument of one directive
\* is left to the next.
PrintsAsC ==
    print.pc = "done" /\ ~print.full =>
        LET n == Len(print.items)
            out == Front(print.str)
        IN  /\ \A k \in 1..n : (\A j \in 1..k : AsC(print.items[j])) => IsPrefix(Printed_(1, k), out)
            /\ \A k \in 1..n : (\A j \in k..n : AsC(print.items[j])) => IsSuffix(Printed_(k, n), out)
            /\ (\A k \in 1..n : AsC(print.items[k])) => out = Printed_(1, n)

\* memcpy and memset keep C's promises: exact for every length and alignment,
\* and words are moved only between addresses that allow it.
CopyCorrect == CopiedExactly /\ WordsAligned

\* vsnprintf writes nothing outside the buffer, and the items that it means to print
\* as C does come out as in C.
PrintCorrect == LibcTypeOK /\ OutputBounded /\ PrintsAsC

-----------------------------------------------------------------------------
\* snprintf.c:28: the flag 0 stands for "padding with zero".  Line 93 tests it with
\* "|", so a number with a width is padded with zeros without it as well.
PadsByFlag ==
    print.pc = "done" /\ ~print.full /\ Len(print.items) = 1
        /\ print.items[1].conv \in {"d", "u"} /\ print.items[1].arg >= 0
        /\ print.items[1].width >= Len(Buf(print.items[1].arg, 10))
      => Front(print.str) = InC(print.items[1])
=============================================================================
