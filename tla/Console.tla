------------------------------ MODULE Console ------------------------------
(***************************************************************************)
(* The serial console: the UART driver (drivers/serial), and the programs  *)
(* that share the port, firmware and kernel.  The port sends and receives  *)
(* on its own, through a FIFO each way.                                    *)
(***************************************************************************)
EXTENDS Libc

CONSTANTS Depth,       \* of a FIFO
          BUFSIZ,      \* of the buffer of uart_spin_vprintf
          Printed,     \* formats of uart_spin_printf
          Greeting,    \* what the firmware prints
          Keys,        \* bytes that are typed; "nul" ends a line
          TypedMax     \* bytes typed in a behaviour

ASSUME ConsoleAssumption == Depth \in Nat \ {0} /\ BUFSIZ \in Nat \ {0} /\ TypedMax \in Nat

VARIABLES program,       \* "off", "firmware", "kernel"
          step,          \* of the program: "sleep", "init", "enable", "ready", "gets"
          left,          \* bytes that uart_spin_puts still has to write
          written,       \* all bytes written so far
          enabled, tx, line,            \* transmitter, its FIFO, bytes sent
          rx, typed, overrun,           \* receive FIFO, bytes since uart_init
          str                           \* buffer of uart_spin_gets
out_vars == <<left, written>>
tx_vars == <<enabled, tx, line>>
rx_vars == <<rx, typed, overrun>>
console_vars == <<program, step, out_vars, tx_vars, rx_vars, str>>

ConsoleInit ==
    /\ program = "off" /\ step = "ready" /\ left = <<>> /\ written = <<>>
    /\ enabled = FALSE /\ tx = <<>> /\ line = <<>>
    /\ rx = <<>> /\ typed = <<>> /\ overrun = FALSE /\ str = <<>>

ConsoleTypeOK ==
    /\ program \in {"off", "firmware", "kernel"}
    /\ step \in {"sleep", "init", "enable", "ready", "gets"}
    /\ Len(tx) <= Depth /\ Len(rx) <= Depth
    /\ enabled \in BOOLEAN /\ overrun \in BOOLEAN

-----------------------------------------------------------------------------
(* Firmware and kernel both start with sleep, uart_init and uart_enable.   *)

Start(p) ==
    /\ program' = p /\ step' = "sleep"
    /\ UNCHANGED <<libc_vars, out_vars, tx_vars, rx_vars, str>>
PowerOn == program = "off" /\ Start("firmware")
\* The firmware may as well stay where it is: in "spin: while (1)".
HandOver == program = "firmware" /\ step = "ready" /\ left = <<>> /\ Start("kernel")

\* Mutant of Flushed: no wait.
FlushedNever == TRUE

\* "Wait for UART fifo to flush": a second is enough to send all of it.
Flushed == tx = <<>> \/ ~enabled

Sleep ==
    /\ step = "sleep" /\ Flushed /\ step' = "init"
    /\ UNCHANGED <<libc_vars, program, out_vars, tx_vars, rx_vars, str>>

\* Both directions are disabled and reset.
uart_init ==
    /\ step = "init" /\ step' = "enable"
    /\ enabled' = FALSE /\ tx' = <<>> /\ rx' = <<>> /\ typed' = <<>> /\ overrun' = FALSE
    /\ UNCHANGED <<libc_vars, program, out_vars, line, str>>

uart_enable ==
    /\ step = "enable" /\ step' = "ready" /\ enabled' = TRUE
    /\ left' = IF program = "firmware" THEN Greeting ELSE <<>>
    /\ UNCHANGED <<libc_vars, program, written, tx, line, rx_vars, str>>

-----------------------------------------------------------------------------
(* Output.                                                                 *)

\* The string of the buffer goes to uart_spin_puts, up to its NUL.
UpToNul(s) == SubSeq(s, 1, (CHOOSE k \in DOMAIN s : s[k] = NUL) - 1)
uart_spin_vprintf ==
    /\ step = "ready" /\ print.pc = "done" /\ left = <<>>
    /\ left' = UpToNul(print.str) /\ print' = NoPrint
    /\ UNCHANGED <<mem, copy, program, step, written, tx_vars, rx_vars, str>>

TxReady == Len(tx) < Depth

\* A byte that is written to a full FIFO is lost.
uart_spin_putbyte ==
    /\ step = "ready" /\ left # <<>> /\ TxReady
    /\ left' = Tail(left) /\ written' = Append(written, Head(left))
    /\ tx' = IF Len(tx) < Depth THEN Append(tx, Head(left)) ELSE tx
    /\ UNCHANGED <<libc_vars, program, step, enabled, line, rx_vars, str>>

Send ==
    /\ enabled /\ tx # <<>>
    /\ line' = Append(line, Head(tx)) /\ tx' = Tail(tx)
    /\ UNCHANGED <<libc_vars, program, step, out_vars, enabled, rx_vars, str>>

-----------------------------------------------------------------------------
(* Input: uart_spin_gets, called by the system call gets.                  *)

Type_(c) ==
    /\ enabled /\ Len(typed) < TypedMax
    /\ typed' = Append(typed, c)
    /\ rx' = (IF Len(rx) < Depth THEN Append(rx, c) ELSE rx)
    /\ overrun' = (overrun \/ Len(rx) = Depth)
    /\ UNCHANGED <<libc_vars, program, step, out_vars, tx_vars, str>>

Gets ==
    /\ program = "kernel" /\ step = "ready" /\ left = <<>> /\ print.pc = "idle" /\ str = <<>>
    /\ step' = "gets"
    /\ UNCHANGED <<libc_vars, program, out_vars, tx_vars, rx_vars, str>>

RxReady == rx # <<>>

\* An empty FIFO reads as anything; the loop ends after a NUL.
uart_spin_getbyte ==
    /\ step = "gets" /\ RxReady
    /\ LET byte == IF rx = <<>> THEN "noise" ELSE Head(rx) IN
       /\ str' = Append(str, byte)
       /\ rx' = (IF rx = <<>> THEN rx ELSE Tail(rx))
       /\ step' = (IF byte = NUL THEN "ready" ELSE step)
    /\ UNCHANGED <<libc_vars, program, out_vars, tx_vars, typed, overrun>>

ConsoleCall ==
    /\ program = "kernel" /\ step = "ready" /\ left = <<>> /\ Len(written) <= Len(Greeting)
    /\ \E f \in Printed : StartPrint(f, BUFSIZ)
    /\ UNCHANGED console_vars

Driver ==
    \/ Sleep \/ uart_init \/ uart_enable
    \/ uart_spin_vprintf \/ uart_spin_putbyte \/ uart_spin_getbyte
    \/ PrintStep /\ program = "kernel" /\ UNCHANGED console_vars

ConsoleNext ==
    \/ PowerOn \/ HandOver \/ Driver \/ Send \/ Gets
    \/ \E c \in Keys : Type_(c)

-----------------------------------------------------------------------------
\* Every byte that a program wrote comes out, once and in order, though the
\* FIFO fills up and the next program resets the port.
OutputInOrder == line \o tx = written

\* A line read has the bytes that were typed since the port was initialised,
\* unless the FIFO overran before they were fetched.
InputInOrder == ~overrun => str \o rx = typed

\* The port loses, doubles and reorders no byte in either direction.
ConsoleInOrder == ConsoleTypeOK /\ OutputInOrder /\ InputInOrder
=============================================================================
