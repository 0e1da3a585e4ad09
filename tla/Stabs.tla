-------------------------------- MODULE Stabs -------------------------------
(***************************************************************************)
(* The readers of debugging symbols: get_debug_info, which looks up an     *)
(* address in the kernel's table of stabs (kern/debug/debug_info.c), and   *)
(* readstab, which prints that table from an ELF file (tools/stab).        *)
(***************************************************************************)
EXTENDS Integers, Sequences, FiniteSets

CONSTANTS Tables,      \* tables of stabs: sequences of type, value, desc
          Addresses,   \* looked up
          Files        \* ELF files: class, whether the header is sound, names of sections

VARIABLES stabs, table0,   \* the table; as it was linked
          lookup,          \* addr, last, and what the last call returned
          reader           \* the running readstab
stabs_vars == <<stabs, table0, lookup, reader>>

Type == {"SO", "SOL", "SLINE", "FUN", "PSYM", "LSYM"}   \* N_..., one for each use

ASSUME TablesAssumption ==
    \A t \in Tables : t \in Seq([type : Type, value : Nat, desc : Nat])
ASSUME FilesAssumption ==
    \A f \in Files :
        f.sections \in Seq(STRING) /\ f.class \in {32, 64} /\ f.sound \in BOOLEAN

NoLookup == [addr |-> 0, last |-> 0, ret |-> 1, file |-> 0, func |-> 0, all |-> {}]
NoReader == [pc |-> "idle", sections |-> <<>>, class |-> 32, i |-> 0, at |-> 1,
             es |-> "stack", es_stab |-> "stack", stabstr |-> "none", printed |-> "none"]

StabsInit == stabs = <<>> /\ table0 = <<>> /\ lookup = NoLookup /\ reader = NoReader

StabsTypeOK ==
    /\ \A k \in DOMAIN stabs : stabs[k].type \in Type
    /\ lookup.last \in 0..Len(stabs) /\ lookup.ret \in -1..1
    /\ reader.pc \in {"idle", "loop", "done", "error"}
    /\ reader.at \in 0..Len(reader.sections) + 1

-----------------------------------------------------------------------------
is_source(s) == (s.type = "SO" /\ s.desc # 0) \/ s.type = "SOL"
is_textline(s) == s.type = "SLINE"
\* "n_type = N_FUN" assigns: any other stab becomes a function, and stays one.
is_func(s) == TRUE

FIX_INSTRUCTION_ADDR(x) == x - (x % 4)
Before(k, P(_)) == {j \in 1..k - 1 : P(stabs[j])}
Latest(S) == IF S = {} THEN 0 ELSE CHOOSE j \in S : \A other \in S : other <= j

SourceOf(k) == Latest(Before(k, is_source))
FuncOf(k) == Latest({j \in 1..k - 1 : ~is_source(stabs[j]) /\ ~is_textline(stabs[j]) /\ is_func(stabs[j])})
LineAddr(k) == stabs[k].value + IF SourceOf(k) = 0 THEN 0
                                ELSE FIX_INSTRUCTION_ADDR(stabs[SourceOf(k)].value)

Lines == {k \in DOMAIN stabs : ~is_source(stabs[k]) /\ is_textline(stabs[k])}
Matches(addr) == {k \in Lines : LineAddr(k) = FIX_INSTRUCTION_ADDR(addr)}

Found(k, last) == last < k

\* The loop returns at the first stab that matches beyond last, or at the
\* first line that does not match after one that did.
ReturnsAnywhere(addr, last) ==   \* mutant of Returns: the search goes on
    {k \in Matches(addr) : Found(k, last)}
Returns(addr, last) ==
    LET stop == {k \in Lines \ Matches(addr) : \E j \in Matches(addr) : j < k}
    IN  {k \in Matches(addr) : Found(k, last)} \cup stop
First(S) == CHOOSE k \in S : \A other \in S : k <= other

\* Types the loop has overwritten on its way to stab k.
Overwritten(k) ==
    [j \in DOMAIN stabs |->
       IF j < k /\ ~is_source(stabs[j]) /\ ~is_textline(stabs[j])
       THEN [stabs[j] EXCEPT !.type = "FUN"] ELSE stabs[j]]

get_debug_info ==
    /\ stabs # <<>> /\ lookup.ret = 1
    /\ LET R == Returns(lookup.addr, lookup.last) IN
       IF R = {} THEN /\ lookup' = [lookup EXCEPT !.ret = -1]
                      /\ stabs' = Overwritten(Len(stabs) + 1)
       ELSE LET k == First(R) IN
            /\ lookup' = IF k \in Matches(lookup.addr)
                         THEN [lookup EXCEPT !.ret = 1, !.last = k, !.file = SourceOf(k),
                                             !.func = FuncOf(k), !.all = @ \cup {k}]
                         ELSE [lookup EXCEPT !.ret = 0]
            /\ stabs' = Overwritten(k)
    /\ UNCHANGED <<table0, reader>>

\* A caller asks for all stabs of an address: last starts at 0 and is passed
\* on from call to call.  The table keeps what earlier calls did to it.
StartLookup(t, addr) ==
    /\ stabs = <<>> /\ stabs' = t /\ table0' = t
    /\ lookup' = [NoLookup EXCEPT !.addr = addr]
    /\ UNCHANGED reader
NextLookup(addr) ==
    /\ stabs # <<>> /\ lookup.ret # 1
    /\ lookup' = [NoLookup EXCEPT !.addr = addr]
    /\ UNCHANGED <<stabs, table0, reader>>

-----------------------------------------------------------------------------
(* readstab: the position in the file is the header that is read next, or  *)
(* 0 when it is somewhere else.                                            *)

STABSTR == ".stabstr"
STABS == ".stabs"

StartReader(f) ==
    /\ reader.pc = "idle"
    /\ reader' = [NoReader EXCEPT !.pc = IF f.sound THEN "loop" ELSE "error",
                                  !.sections = f.sections, !.class = f.class]
    /\ UNCHANGED <<stabs, table0, lookup>>

\* Bytes elsewhere, taken for a header, may look like any.
HeadersAt(at) ==
    IF at \in DOMAIN reader.sections THEN {reader.sections[at]}
    ELSE {"garbage"} \cup {reader.sections[k] : k \in DOMAIN reader.sections}

\* readstab64 goes back after reading the strings, readstab32 does not.
After(name) ==
    IF reader.at = 0 \/ (name = STABSTR /\ reader.class = 32) THEN 0 ELSE reader.at + 1

ReadHeader ==
    /\ reader.pc = "loop" /\ reader.i < Len(reader.sections)
    /\ \E name \in HeadersAt(reader.at) :
          reader' = [reader EXCEPT !.i = @ + 1, !.at = After(name), !.es = name,
                                   !.stabstr = IF name = STABSTR THEN name ELSE @,
                                   !.es_stab = IF name = STABS THEN name ELSE @]
    /\ UNCHANGED <<stabs, table0, lookup>>

\* readstab32 prints the section of the last header that it read.
PrintStabs ==
    /\ reader.pc = "loop" /\ reader.i = Len(reader.sections)
    /\ reader' = IF reader.stabstr = "none" THEN [reader EXCEPT !.pc = "error"]
                 ELSE [reader EXCEPT !.pc = "done",
                                     !.printed = IF reader.class = 64 THEN reader.es_stab
                                                 ELSE reader.es]
    /\ UNCHANGED <<stabs, table0, lookup>>

\* err(4, ...): lseek, read or malloc fails.
ReadFails ==
    /\ reader.pc = "loop" /\ reader' = [reader EXCEPT !.pc = "error"]
    /\ UNCHANGED <<stabs, table0, lookup>>

StabsCall ==
    \/ \E t \in Tables, a \in Addresses : StartLookup(t, a)
    \/ \E f \in Files : StartReader(f)
StabsStep ==
    \/ get_debug_info
    \/ \E a \in Addresses : NextLookup(a)
    \/ ReadHeader \/ PrintStabs \/ ReadFails

-----------------------------------------------------------------------------
(* Properties.                                                             *)

\* The line stabs of an address in the table as it was linked, and the first
\* of its runs: up to the next line that has another address.
LinkedSource(k) == Latest({j \in 1..k - 1 : is_source(table0[j])})
LinkedAddress(k) ==
    table0[k].value + IF LinkedSource(k) = 0 THEN 0
                      ELSE FIX_INSTRUCTION_ADDR(table0[LinkedSource(k)].value)
LinkedLines == {k \in DOMAIN table0 : table0[k].type = "SLINE"}
AtAddress(k) == LinkedAddress(k) = FIX_INSTRUCTION_ADDR(lookup.addr)
FirstRun ==
    {k \in LinkedLines : AtAddress(k)
        /\ \A j \in {x \in LinkedLines : x < k /\ ~AtAddress(x)} :
             \A first \in {x \in LinkedLines : AtAddress(x)} : j < first}

\* Repeated calls of get_debug_info report each line stab of the first run once, in
\* order and with its own source file, and stop after the last; an earlier
\* search, which writes to the table, takes nothing from a later one.
LinesReported ==
    /\ lookup.all \subseteq FirstRun
    /\ \A k \in FirstRun : k <= lookup.last => k \in lookup.all
    /\ lookup.all # {} => lookup.last = Latest(lookup.all) /\ lookup.file = LinkedSource(lookup.last)
    /\ stabs # <<>> /\ lookup.ret # 1 => lookup.all = FirstRun

\* readstab prints .stabs with the strings of .stabstr, in whatever order
\* an ELF64 file has its sections.
StabsPrinted ==
    reader.pc = "done" /\ reader.class = 64
        /\ (\E k \in DOMAIN reader.sections : reader.sections[k] = STABS)
      => reader.printed = STABS /\ reader.stabstr = STABSTR

\* get_debug_info reports the lines and source files of the table as it was linked,
\* and readstab64 prints that table.  Nothing is said of function names, of the
\* two results that end a series (0 and -1), and of readstab32: see below.
StabsCorrect == StabsTypeOK /\ LinesReported /\ StabsPrinted

-----------------------------------------------------------------------------
(* What the comments say and the code does not do.                         *)

\* debug_info.c:69-70: 0 "if no stab left", less "if didn't find any".  When the
\* lines of the address are the last of the table, their series ends with -1.
EndsAsStated == stabs # <<>> /\ lookup.ret = -1 => FirstRun = {}

\* readstab.c:214: "Locate the stab section".  readstab32 goes to the section whose
\* header it read last, from a place it has lost.
Stabs32Printed ==
    reader.pc = "done" /\ reader.class = 32
        /\ (\E k \in DOMAIN reader.sections : reader.sections[k] = STABS)
      => reader.printed = STABS
=============================================================================
