-------------------------------- MODULE Ahci --------------------------------
(***************************************************************************)
(* ahci_init_port (drivers/ata/ahci.c), called for one port after another, *)
(* against a host bus adapter that runs by itself: it stops and starts     *)
(* after the driver's bits, links to devices, receives their FISes, and    *)
(* writes to memory at the addresses it was given.                         *)
(***************************************************************************)
EXTENDS Integers, FiniteSets

CONSTANTS PortCount, Device   \* Device: what may be at a port: "none", "disk"
ASSUME AhciAssumption == PortCount \in Nat

Ports == 1..PortCount
\* Areas of memory of AHCI_PORT_RAM_SIZE; 0 is the PROM's, used before.
Area == 0..PortCount + 1

VARIABLES
    port,        \* registers of each port
    device,      \* what is there
    memory_,     \* each area: the port its contents came from; 0 cleared, -1 old
    current, pc_,              \* the port being initialised, the next statement
    ahci_current_rambase, result
ahci_vars == <<port, device, memory_, current, pc_, ahci_current_rambase, result>>

DET == {"none", "present", "connect", "offline"}
LowPower == {"partial", "slumber", "devslp"}
IPM == {"none", "active"} \cup LowPower
PortRegisters ==
    [cmd : SUBSET {"FRE", "START", "SUD"}, CR : BOOLEAN, FR : BOOLEAN, reset : BOOLEAN,
     det : DET, ipm : IPM, busy : BOOLEAN, drq : BOOLEAN, err : BOOLEAN, clb : Area, fb : Area, ci : BOOLEAN]

AhciTypeOK ==
    /\ port \in [Ports -> PortRegisters] /\ device \in [Ports -> Device]
    /\ memory_ \in [Area -> [fis : -1..PortCount, data : -1..PortCount]]
    /\ current \in 1..PortCount + 1 /\ ahci_current_rambase \in Area
    /\ result \in [Ports -> {"none", "ENODEV", "EINVAL", "0"}]
    /\ pc_ \in {"call", "halted", "reset", "unreset", "fb", "fre", "detect", "wait",
                "clb", "startable", "start_fre", "start", "ready", "issue", "complete"}

\* The PROM may have left a port running, in its own memory.
Left(running) ==
    [cmd |-> IF running THEN {"FRE", "START", "SUD"} ELSE {}, CR |-> running, FR |-> running,
     reset |-> FALSE, det |-> IF running THEN "connect" ELSE "none",
     ipm |-> IF running THEN "active" ELSE "none", busy |-> ~running, drq |-> FALSE, err |-> FALSE, clb |-> 0, fb |-> 0, ci |-> FALSE]

AhciInit ==
    /\ device \in [Ports -> Device]
    /\ \E running \in SUBSET {p \in Ports : device[p] = "disk"} :
         port = [p \in Ports |-> Left(p \in running)]
    /\ memory_ = [a \in Area |-> [fis |-> -1, data |-> -1]]
    /\ current = 1 /\ pc_ = "call" /\ ahci_current_rambase = 1
    /\ result = [p \in Ports |-> "none"]

-----------------------------------------------------------------------------
(* The driver.                                                             *)

me == port[current]
AtStage(place) == pc_ = place /\ current \in Ports
Set(new) == port' = [port EXCEPT ![current] = new]
Go_(next) == pc_' = next /\ UNCHANGED <<device, current, ahci_current_rambase>>
Quiet == UNCHANGED <<memory_, result>>

\* Mutant of Halted: no wait.
HaltedAlways == TRUE

\* Halt FIS and command processing, and wait for it.
Halt == AtStage("call") /\ Set([me EXCEPT !.cmd = @ \ {"FRE", "START"}]) /\ Go_("halted") /\ Quiet
Halted == ~me.CR /\ ~me.FR
WaitHalted == AtStage("halted") /\ Halted /\ Go_("reset") /\ Quiet /\ UNCHANGED port

\* The reset drops the link, and delay(1) is enough for the link to notice.
PortReset ==
    /\ AtStage("reset") /\ Go_("unreset") /\ Quiet
    /\ Set([me EXCEPT !.reset = TRUE, !.det = "none", !.ipm = "none",
                      !.busy = TRUE, !.drq = FALSE, !.err = FALSE])
EndReset == AtStage("unreset") /\ Set([me EXCEPT !.reset = FALSE]) /\ Go_("fb") /\ Quiet

SetFisBuffer ==
    /\ AtStage("fb") /\ Go_("fre")
    /\ memory_' = [memory_ EXCEPT ![ahci_current_rambase].fis = 0]
    /\ Set([me EXCEPT !.fb = ahci_current_rambase]) /\ UNCHANGED result
FisBitsSpinUp == {"SUD"}         \* mutant of FisBits
FisBits == {"FRE", "SUD"}
EnableFis == AtStage("fre") /\ Set([me EXCEPT !.cmd = @ \cup FisBits]) /\ Go_("detect") /\ Quiet

Return_(r, base) ==
    /\ result' = [result EXCEPT ![current] = r] /\ ahci_current_rambase' = base
    /\ current' = current + 1 /\ pc_' = "call" /\ UNCHANGED device

\* After delay(1000) the device should be connected.
NoDevice ==
    /\ AtStage("detect") /\ me.det \in {"none", "offline"}
    /\ Return_("ENODEV", ahci_current_rambase) /\ UNCHANGED <<port, memory_>>
Connected ==
    /\ AtStage("detect") /\ me.det \in {"present", "connect"} /\ Go_("wait") /\ Quiet
    /\ UNCHANGED port

PortReady == ~me.busy /\ ~me.drq /\ ~me.err
WaitPort == AtStage("wait") /\ PortReady /\ Go_("clb") /\ Quiet /\ UNCHANGED port
SetCommandList ==
    /\ AtStage("clb") /\ Set([me EXCEPT !.clb = ahci_current_rambase]) /\ Go_("startable") /\ Quiet

ahci_port_startable ==
    ~me.CR /\ ~me.busy /\ ~me.drq /\ (me.det = "connect" \/ me.ipm \in LowPower)
PortStart ==
    \/ AtStage("startable") /\ ahci_port_startable /\ Go_("start_fre") /\ Quiet /\ UNCHANGED port
    \/ AtStage("start_fre") /\ Set([me EXCEPT !.cmd = @ \cup {"FRE"}]) /\ Go_("start") /\ Quiet
    \/ AtStage("start") /\ Set([me EXCEPT !.cmd = @ \cup {"START"}]) /\ Go_("ready") /\ Quiet

\* The command in slot 0 has its table and its data in the area of clb.  Its
\* memory is filled in before; then the port has to be ready.
ClearBuffer(m, a) == [m EXCEPT ![a].data = 0]
WaitReady ==
    /\ AtStage("ready") /\ PortReady /\ Go_("issue") /\ UNCHANGED <<port, result>>
    /\ memory_' = ClearBuffer(memory_, me.clb)
Issue == AtStage("issue") /\ Set([me EXCEPT !.ci = TRUE]) /\ Go_("complete") /\ Quiet

\* Mutant of NextArea: all ports use the same memory.
NextAreaSame(base) == base
NextArea(base) == base + 1
\* The command in slot 0 was completed.
Finished_ == ~me.ci
Complete ==
    /\ AtStage("complete") /\ Finished_
    /\ Return_("0", NextArea(ahci_current_rambase)) /\ UNCHANGED <<port, memory_>>

ahci_init_port ==
    \/ Halt \/ WaitHalted \/ PortReset \/ EndReset \/ SetFisBuffer \/ EnableFis
    \/ NoDevice \/ Connected \/ WaitPort \/ SetCommandList \/ PortStart
    \/ WaitReady \/ Issue \/ Complete

-----------------------------------------------------------------------------
(* The adapter and its devices.                                            *)

Adapter(p, new) ==
    /\ port' = [port EXCEPT ![p] = new]
    /\ UNCHANGED <<device, current, pc_, ahci_current_rambase, result>>

\* The adapter follows the bits FRE and START after a while; a
\* stop clears the command.
Follow(p) ==
    \/ /\ port[p].FR <=> "FRE" \notin port[p].cmd
       /\ Adapter(p, [port[p] EXCEPT !.FR = ~@]) /\ UNCHANGED memory_
    \/ /\ port[p].CR <=> "START" \notin port[p].cmd
       /\ Adapter(p, [port[p] EXCEPT !.CR = ~@, !.ci = @ /\ ~port[p].CR]) /\ UNCHANGED memory_

\* The link comes up in two steps; without work it may save power.
Link(p) ==
    /\ device[p] = "disk" /\ ~port[p].reset /\ port[p].det # "connect"
    /\ Adapter(p, [port[p] EXCEPT !.det = IF @ = "none" THEN "present" ELSE "connect",
                                 !.ipm = IF port[p].det = "none" THEN @ ELSE "active"])
    /\ UNCHANGED memory_
Sleep(p) ==
    /\ port[p].det = "connect" /\ ~port[p].busy /\ ~port[p].drq /\ ~port[p].ci
    /\ \E ipm \in LowPower \cup {"active"} : Adapter(p, [port[p] EXCEPT !.ipm = ipm])
    /\ UNCHANGED memory_

\* The device's first FIS ends BSY; it goes to the receive buffer, and may
\* report an error.
Signature(p) ==
    /\ port[p].det = "connect" /\ port[p].busy /\ port[p].FR
    /\ \E err \in BOOLEAN : Adapter(p, [port[p] EXCEPT !.busy = FALSE, !.err = err])
    /\ memory_' = [memory_ EXCEPT ![port[p].fb].fis = p]

\* IDENTIFY DEVICE: a FIS that announces data, for which the link wakes up;
\* then the data, and a FIS.
Announce(p) ==
    /\ port[p].ci /\ port[p].CR /\ ~port[p].err /\ ~port[p].drq
    /\ Adapter(p, [port[p] EXCEPT !.drq = TRUE, !.ipm = "active"])
    /\ memory_' = [memory_ EXCEPT ![port[p].fb].fis = p]
Execute(p) ==
    /\ port[p].ci /\ port[p].CR /\ ~port[p].err /\ port[p].drq
    /\ Adapter(p, [port[p] EXCEPT !.ci = FALSE, !.drq = FALSE])
    /\ memory_' = [memory_ EXCEPT ![port[p].clb].data = p, ![port[p].fb].fis = p]

\* A failed command is never cleared: the adapter waits to be restarted.
TaskFileError(p) ==
    /\ port[p].ci /\ port[p].CR /\ Adapter(p, [port[p] EXCEPT !.err = TRUE])
    /\ UNCHANGED memory_

AdapterStep(p) == Follow(p) \/ Link(p) \/ Signature(p) \/ Announce(p) \/ Execute(p)

AhciNext == ahci_init_port \/ \E p \in Ports : AdapterStep(p) \/ Sleep(p) \/ TaskFileError(p)

AhciSpec == AhciInit /\ [][AhciNext]_ahci_vars

-----------------------------------------------------------------------------
\* An address is changed only while the adapter does not use it: a port that
\* the PROM left running is stopped first.
AddressesQuiet ==
    [][\A p \in Ports :
         /\ port'[p].fb # port[p].fb => ~port[p].FR
         /\ port'[p].clb # port[p].clb => ~port[p].CR]_ahci_vars

\* No other port was given the command list of a port in use, nor, with it,
\* its tables and data; and only a port where no device was found at first
\* was given its buffer for FISes.
AreasApart ==
    \A p, q \in Ports : p # q /\ result[p] = "0" =>
        /\ port[q].clb # port[p].clb
        /\ port[q].fb = port[p].fb => result[q] = "ENODEV"

\* A port that was initialised runs, and what its device said about itself is
\* in its memory: neither old nor cleared after it arrived, nor another's.
DeviceIdentified ==
    \A p \in Ports : result[p] = "0" =>
        /\ {"FRE", "START"} \subseteq port[p].cmd /\ port[p].clb = port[p].fb
        /\ memory_[port[p].clb].data = p

\* A port is started only when its device is linked, not busy and without error,
\* and when no address is left that the PROM gave it.
StartsReady ==
    [][\A p \in Ports : "START" \in port'[p].cmd \ port[p].cmd =>
         /\ port[p].det = "connect" /\ ~port[p].busy /\ ~port[p].err
         /\ 0 \notin {port[p].fb, port[p].clb}]_ahci_vars

\* What the adapter reads and writes for commands, whenever it does, is in
\* memory that one port has; the buffers for FISes are another matter.
PortsApart == AhciTypeOK /\ AreasApart /\ DeviceIdentified

\* Addresses change only while the adapter does not use them, and START is set
\* (it may be cleared at any time) only for a device that is ready.
PortsQuiet == AddressesQuiet /\ StartsReady

\* ahci.h draws the memory of a port with a buffer for its FISes: what is there
\* once the port is initialised was received by it.  Violated: a port that
\* returned ENODEV goes on receiving into the area that the next one is given.
FisBufferOwn == \A p \in Ports : result[p] = "0" => memory_[port[p].fb].fis = p
=============================================================================
