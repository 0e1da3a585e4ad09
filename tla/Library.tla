------------------------------ MODULE Library ------------------------------
(***************************************************************************)
(* The parts of the kernel and its tools that are called and return, with  *)
(* no state that outlives a call but the table of stabs: each behaviour is *)
(* one series of calls of one of them.                                     *)
(***************************************************************************)
EXTENDS Division, Console, Stabs

vars == <<division_vars, libc_vars, console_vars, stabs_vars>>

Init == DivisionInit /\ LibcInit /\ ConsoleInit /\ StabsInit

Nothing ==
    /\ pc = "idle" /\ copy.pc = "idle" /\ print.pc = "idle" /\ program = "off"
    /\ reader.pc = "idle" /\ stabs = <<>>

DivisionOp ==
    /\ (Nothing /\ DivisionCall) \/ DivisionStep
    /\ UNCHANGED <<libc_vars, console_vars, stabs_vars>>
LibcOp ==
    /\ program = "off" /\ ((Nothing /\ LibcCall) \/ LibcStep)
    /\ UNCHANGED <<division_vars, console_vars, stabs_vars>>
ConsoleOp ==
    /\ (Nothing \/ program # "off") /\ (ConsoleCall \/ ConsoleNext)
    /\ UNCHANGED <<division_vars, stabs_vars>>
StabsOp ==
    /\ (Nothing /\ StabsCall) \/ StabsStep
    /\ UNCHANGED <<division_vars, libc_vars, console_vars>>

Next == DivisionOp \/ LibcOp \/ ConsoleOp \/ StabsOp

\* Code that runs goes on: nothing else in these functions waits.  The port
\* sends what is in its FIFO.  Nothing is assumed of what calls these functions:
\* the firmware may never come to the kernel.
Fairness ==
    /\ WF_vars(DivisionStep /\ UNCHANGED <<libc_vars, console_vars, stabs_vars>>)
    /\ WF_vars(LibcStep /\ program = "off" /\ UNCHANGED <<division_vars, console_vars, stabs_vars>>)
    /\ WF_vars(Driver /\ UNCHANGED <<division_vars, stabs_vars>>)
    /\ WF_vars(Send /\ UNCHANGED <<division_vars, stabs_vars>>)
    /\ WF_vars((get_debug_info \/ ReadHeader \/ PrintStabs)
               /\ UNCHANGED <<division_vars, libc_vars, console_vars>>)

Spec == Init /\ [][Next]_vars
FairSpec == Spec /\ Fairness

\* Each call returns: a division by a denominator with room for a shift ends,
\* memcpy counts down, vsnprintf reaches the NUL, the end of the buffer or (after a
\* format that ends in a percent sign) memory behind the format, the port that
\* firmware or kernel initialises becomes usable, uart_spin_puts gets room for its
\* bytes, the series of lookups of an address is exhausted, and readstab ends.
CallsReturn ==
    /\ (pc \in {"align", "subtract", "sign"} /\ d_abs < Half) ~> (pc = "done")
    /\ (copy.pc \in {"enter", "head", "words", "tail"}) ~> (copy.pc = "done")
    /\ (print.pc \in {"char", "directive"}) ~> (print.pc \in {"done", "beyond"})
    /\ (step \in {"sleep", "init", "enable"}) ~> (step = "ready")
    /\ (left # <<>>) ~> (left = <<>>)
    /\ (stabs # <<>> /\ lookup.ret = 1) ~> (lookup.ret # 1)
    /\ (reader.pc = "loop") ~> (reader.pc \in {"done", "error"})
=============================================================================
