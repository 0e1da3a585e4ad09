------------------------------ MODULE SdDriver ------------------------------
(***************************************************************************)
(* The driver of the SD host controller (sd-zynq7000.c, use-sd-zynq7000.c) *)
(* against a model of the controller and the card.  The driver polls; each *)
(* access to a register that the controller also changes is a step of its  *)
(* own, and the controller, its DMA engine and the card step in between.   *)
(*                                                                         *)
(* Memory and card are bytes.  A block has SECTOR bytes (512), the engine  *)
(* stops at multiples of PAGE (4096).  What the controller does with a     *)
(* count of 0 is not defined; no transfer here has one.                    *)
(***************************************************************************)
EXTENDS Gtc, Integers, Sequences, FiniteSets

CONSTANTS SECTOR, PAGE,
          Memory, Blocks,  \* addresses, and number of blocks of the card
          FirstImage,      \* first contents of the card
          cardtype,        \* 1: SDHC, 0: SD(SC)
          PowerUpTime,     \* 2000 microseconds
          BusyBound,       \* bound: times the card answers that it is not ready
          FaultBound       \* bound: errors of the card and its removal

ASSUME SdAssumption ==
    /\ SECTOR \in Nat \ {0} /\ PAGE \in Nat \ {0} /\ PAGE % SECTOR = 0
    /\ Memory \subseteq Nat /\ Blocks \in Nat /\ FirstImage \in [0..Blocks * SECTOR - 1 -> Nat]
    /\ cardtype \in {0, 1} /\ PowerUpTime \in Nat /\ BusyBound \in Nat /\ FaultBound \in Nat

VARIABLES
    host,      \* the registers of the controller
    engine,    \* its transfer; moved: sectors gone since the call
    card,      \* the card in the slot
    memory, disk,
    call,      \* the running function: its name, its arguments, its locals
    ret,       \* what the last function returned
    faults     \* errors so far, and whether one hit the running function

sd_vars == <<gtc_vars, host, engine, card, memory, disk, call, ret, faults>>

Status == {"CC", "TC", "DMA", "ERR"}
Inhibit == {"CMD", "DAT"}
Fn == {"none", "sd_init", "sd_spin_init_mem_card", "sd_dma_spin_read",
       "sd_dma_spin_write", "sd_dma_spin_load"}
Transfers == {"sd_dma_spin_read", "sd_dma_spin_write", "sd_dma_spin_load"}

-----------------------------------------------------------------------------
(* Commands.                                                               *)

Commands == {"CMD0", "CMD8", "CMD55", "ACMD41", "CMD2", "CMD3", "CMD9", "CMD7",
             "CMD18", "CMD25"}
Resp == {"NONE", "R1", "R1B", "R2", "R3", "R6"}
Resp0 == {"none", "0x1AA", "busy", "ready", "no_rca", "rca"}   \* contents that matter
Clock == {"off", "starting", "stable"}

\* Response type and the DAT_PRESENT bit, for the commands that are sent.
sd_frame_cmd(cmd) ==
    [resp |-> CASE cmd = "CMD0" -> "NONE"
                [] cmd \in {"CMD7", "CMD8", "CMD55", "CMD18", "CMD25"} -> "R1"
                [] cmd \in {"CMD2", "CMD9"} -> "R2"
                [] cmd = "ACMD41" -> "R3"
                [] cmd = "CMD3" -> "R6",
     data |-> cmd \in {"CMD18", "CMD25"}]

\* The response settings under which the controller takes the card's answer:
\* with the right length, and no check of an index or CRC that is not there.
Takes(cmd) ==
    CASE cmd = "CMD0" -> {"NONE"}
      [] cmd \in {"CMD2", "CMD9"} -> {"R2"}
      [] cmd = "ACMD41" -> {"R3"}
      [] OTHER -> {"R1", "R1B", "R6"}

\* The commands of sd_spin_init_mem_card and the codes of their failures.
Step == <<"CMD0", "CMD8", "CMD55", "ACMD41", "CMD2", "CMD3", "CMD9", "CMD7">>
Code == <<-2, -3, -5, -5, -6, -7, -8, -9>>

\* The direction bit of the transfer mode; the mode of other commands has none.
TransferMode(cmd) ==
    CASE cmd = "CMD18" -> "read" [] cmd = "CMD25" -> "write" [] OTHER -> "none"

NoCommand == [cmd |-> "none", resp |-> "NONE", arg |-> 0, mode |-> "none"]
Reset ==
    [clock |-> "off", sd_clock |-> FALSE, power |-> FALSE, enabled |-> {},
     inhibit |-> {}, status |-> {}, command |-> NoCommand, resp0 |-> "none",
     addr |-> 0, count |-> 0, resetting |-> FALSE]
Stopped == [dir |-> "none", block |-> 0, left |-> 0, run |-> FALSE, moved |-> 0]
NoCall == [fn |-> "none", pc |-> "idle", k |-> 1, pa |-> 0, count |-> 0,
           offset |-> 0, pages |-> <<>>, seen |-> {}]   \* k: the step, or the page

Host ==
    [clock : Clock, sd_clock : BOOLEAN, power : BOOLEAN,
     enabled : SUBSET Status, inhibit : SUBSET Inhibit, status : SUBSET Status,
     command : [cmd : Commands \cup {"none"}, resp : Resp,
                arg : 0..Blocks, mode : {"none", "read", "write"}],
     resp0 : Resp0,
     addr : Nat, count : 0..Blocks, resetting : BOOLEAN]

SdTypeOK ==
    /\ GtcTypeOK
    /\ host \in Host
    /\ engine \in [dir : {"none", "read", "write"}, block : 0..Blocks, left : 0..Blocks,
                   run : BOOLEAN, moved : 0..Blocks]
    /\ card \in [state : {"idle", "ready", "ident", "stby", "tran", "data"}, app : BOOLEAN,
                 busy : 0..BusyBound, inserted : BOOLEAN]
    /\ DOMAIN memory = Memory /\ DOMAIN disk = 0..Blocks * SECTOR - 1
    /\ call.fn \in Fn /\ call.k \in Nat \ {0} /\ call.seen \subseteq Status
    /\ ret \in -9..1
    /\ faults \in [n : 0..FaultBound, hit : BOOLEAN]

SdInit ==
    /\ GtcInit
    /\ host = Reset /\ engine = Stopped
    /\ card \in [state : {"idle"}, app : {FALSE}, busy : {0}, inserted : BOOLEAN]
    /\ memory = [a \in Memory |-> 0] /\ disk = FirstImage
    /\ call = NoCall /\ ret = 0
    /\ faults = [n |-> 0, hit |-> FALSE]

-----------------------------------------------------------------------------
(* The driver.                                                             *)

Idle == call.fn = "none"
At(pc) == call.pc = pc /\ ~Waiting
Goto(pc) == call' = [call EXCEPT !.pc = pc]

\* pages: the physical addresses of the pages from the one of va on (load).
Call(fn, pa, count, offset, pages) ==
    /\ Idle /\ ~Waiting
    /\ call' = [NoCall EXCEPT !.fn = fn, !.pc = "enter", !.pa = pa, !.count = count,
                              !.offset = offset, !.pages = pages]
    /\ faults' = [faults EXCEPT !.hit = FALSE]
    /\ engine' = [engine EXCEPT !.moved = 0]
    /\ UNCHANGED <<gtc_vars, host, card, memory, disk, ret>>

Return(value) == call' = NoCall /\ ret' = value

Driver == UNCHANGED <<engine, card, memory, disk, faults>>
Stay == UNCHANGED <<gtc_vars, ret>>

\* sd_init: reset the controller and wait, start its clock and wait, then
\* the card's clock, the power and the status bits.
InitReset ==
    /\ At("enter") /\ call.fn = "sd_init"
    /\ host' = [Reset EXCEPT !.resetting = TRUE]
    /\ engine' = [Stopped EXCEPT !.moved = 0]
    /\ Goto("reset") /\ Stay /\ UNCHANGED <<card, memory, disk, faults>>

InitClock ==
    /\ At("reset") /\ ~host.resetting
    /\ host' = [host EXCEPT !.clock = "starting"]
    /\ Goto("clock") /\ Stay /\ Driver

ClockStable == host.clock = "stable"

InitPower ==
    /\ At("clock") /\ ClockStable
    /\ host' = [host EXCEPT !.sd_clock = TRUE, !.power = TRUE, !.enabled = Status]
    /\ Return(0) /\ UNCHANGED gtc_vars /\ Driver

\* sd_spin_init_mem_card, sd_dma_spin_*: no card.
NoCard ==
    /\ At("enter") /\ call.fn \notin {"none", "sd_init"} /\ ~card.inserted
    /\ Return(-1) /\ UNCHANGED <<gtc_vars, host>> /\ Driver

\* usleep(2000), the first command after it.
PowerUp ==
    /\ At("enter") /\ call.fn = "sd_spin_init_mem_card" /\ card.inserted
    /\ usleep(PowerUpTime)
    /\ Goto("send") /\ UNCHANGED <<host, ret>> /\ Driver

\* The address of the DMA engine, then the command.
SetAddress ==
    /\ At("enter") /\ call.fn \in Transfers /\ card.inserted
    /\ host' = [host EXCEPT !.addr = IF call.fn = "sd_dma_spin_load" THEN call.pages[1]
                                     ELSE call.pa]
    /\ Goto("send") /\ Stay /\ Driver

CurrentCommand ==
    CASE call.fn = "sd_spin_init_mem_card" -> Step[call.k]
      [] call.fn = "sd_dma_spin_write" -> "CMD25"
      [] OTHER -> "CMD18"

\* What a function returns when sd_spin_send_cmd fails.
CommandFailed ==
    Return(IF call.fn = "sd_spin_init_mem_card" THEN Code[call.k] ELSE -2)

\* sd_spin_send_cmd: the lines must be free ...
Inhibited ==
    \/ "CMD" \in host.inhibit
    \/ "DAT" \in host.inhibit /\ sd_frame_cmd(CurrentCommand).data

Refuse ==
    /\ At("send") /\ Inhibited
    /\ CommandFailed /\ UNCHANGED <<gtc_vars, host>> /\ Driver

\* Normal and error status are cleared.
Cleared(status) == {}

\* ... then count, argument, status and mode are written, and the command.
Send ==
    /\ At("send") /\ ~Inhibited
    /\ LET frame == sd_frame_cmd(CurrentCommand) IN
       host' = [host EXCEPT
                  !.count = call.count, !.status = Cleared(@),
                  !.command = [cmd |-> CurrentCommand, resp |-> frame.resp,
                               arg |-> call.offset, mode |-> TransferMode(CurrentCommand)],
                  !.inhibit = {"CMD"} \cup IF frame.data THEN {"DAT"} ELSE {}]
    /\ Goto("command") /\ Stay /\ Driver

\* ERR leaves the status as it is.
CommandError ==
    /\ At("command") /\ "ERR" \in host.status
    /\ CommandFailed /\ UNCHANGED <<gtc_vars, host>> /\ Driver

AfterCommand(status) == status \ {"CC"}

\* CC is cleared and sd_spin_send_cmd returns 0.  A transfer then polls; the
\* next command of the initialisation depends on the response.
CommandComplete ==
    /\ At("command") /\ "CC" \in host.status /\ "ERR" \notin host.status
    /\ host' = [host EXCEPT !.status = AfterCommand(@)]
    /\ Goto(IF call.fn \in Transfers THEN "poll" ELSE "response")
    /\ Stay /\ Driver

\* Mutant of NextStep: CMD3 is not repeated.
NextStepOnce ==
    CASE call.k = 4 /\ host.resp0 = "busy" -> 3
      [] OTHER -> call.k + 1

\* ACMD41 until the card is ready, CMD3 until it has an address (here 1), the
\* argument of CMD9 and CMD7.
NextStep ==
    CASE call.k = 4 /\ host.resp0 = "busy" -> 3
      [] call.k = 6 /\ host.resp0 = "no_rca" -> 6
      [] OTHER -> call.k + 1

LastStep == Len(Step)
BadPattern == call.k = 2 /\ host.resp0 # "0x1AA"

Response ==
    /\ At("response")
    /\ IF BadPattern THEN Return(-4)
       ELSE IF call.k = LastStep THEN Return(cardtype)
       ELSE /\ call' = [call EXCEPT !.k = NextStep, !.pc = "send",
                          !.offset = IF host.resp0 = "rca" THEN 1 ELSE @]
            /\ UNCHANGED ret
    /\ UNCHANGED <<gtc_vars, host>> /\ Driver

\* Mutant of Served: the engine is restarted before its interrupt is acknowledged.
ServedLate == <<"restart", "ack">>

\* SD_INTR_DMA is acknowledged, then the address is written, which restarts
\* the engine.
Served == <<"ack", "restart">>
Then(pc) == IF Served[1] = pc THEN Served[2] ELSE "done"

\* One read of the status; the rest of the loop's body works on what it saw.
Poll ==
    /\ At("poll") /\ host.status # {}
    /\ IF "ERR" \in host.status
       THEN /\ host' = [host EXCEPT !.status = @ \ {"ERR"}]
            /\ Return(-3)
       ELSE /\ call' = [call EXCEPT !.seen = host.status,
                                    !.pc = IF "DMA" \in host.status THEN Served[1] ELSE "done"]
            /\ UNCHANGED <<host, ret>>
    /\ UNCHANGED gtc_vars /\ Driver

Ack ==
    /\ At("ack")
    /\ host' = [host EXCEPT !.status = @ \ {"DMA"}]
    /\ Goto(Then("ack")) /\ Stay /\ Driver

\* Mutant of NextAddress: the page is followed by the next physical one.
NextPhysical == host.addr

\* sd_dma_spin_load walks the page table at the end of a page.
NextAddress ==
    IF call.fn = "sd_dma_spin_load" /\ host.addr % PAGE = 0
    THEN call.pages[call.k + 1] ELSE host.addr

Restart ==
    /\ At("restart")
    /\ host' = [host EXCEPT !.addr = NextAddress]
    /\ engine' = [engine EXCEPT !.run = @ \/ engine.left > 0]
    /\ call' = [call EXCEPT !.pc = Then("restart"),
                            !.k = IF call.fn = "sd_dma_spin_load" THEN @ + 1 ELSE @]
    /\ Stay /\ UNCHANGED <<card, memory, disk, faults>>

\* The loop ends when it saw TC.
Done ==
    /\ At("done")
    /\ IF "TC" \in call.seen
       THEN host' = [host EXCEPT !.status = @ \ {"TC"}] /\ Return(0)
       ELSE Goto("poll") /\ UNCHANGED <<host, ret>>
    /\ UNCHANGED gtc_vars /\ Driver

SdStep ==
    \/ InitReset \/ InitClock \/ InitPower \/ NoCard \/ PowerUp \/ SetAddress
    \/ Refuse \/ Send \/ CommandError \/ CommandComplete \/ Response
    \/ Poll \/ Ack \/ Restart \/ Done

-----------------------------------------------------------------------------
(* The controller and the card.                                            *)

Environment == UNCHANGED <<gtc_vars, call, ret>>
Raise(bits) == [host EXCEPT !.status = @ \cup (bits \cap host.enabled)]

ResetDone ==
    /\ host.resetting
    /\ host' = [host EXCEPT !.resetting = FALSE]
    /\ Environment /\ UNCHANGED <<engine, card, memory, disk, faults>>

ClockDone ==
    /\ host.clock = "starting"
    /\ host' = [host EXCEPT !.clock = "stable"]
    /\ Environment /\ UNCHANGED <<engine, card, memory, disk, faults>>

Outstanding == host.command.cmd # "none" /\ host.sd_clock /\ host.power

\* The states of the card in which it answers; RCA 0 addresses no card.
Legal(cmd) ==
    CASE cmd = "CMD0" -> TRUE
      [] cmd \in {"CMD8", "CMD55"} -> card.state = "idle"
      [] cmd = "ACMD41" -> card.state = "idle" /\ card.app
      [] cmd = "CMD2" -> card.state = "ready"
      [] cmd = "CMD3" -> card.state \in {"ident", "stby"}
      [] cmd \in {"CMD9", "CMD7"} -> card.state = "stby" /\ host.command.arg # 0
      [] OTHER -> card.state = "tran"

Answers == Outstanding /\ card.inserted /\ Legal(host.command.cmd)
           /\ host.command.resp \in Takes(host.command.cmd)

\* The card after command cmd, and its response; it may be busy for a while.
Answered(cmd, next, resp) ==
    CASE cmd = "CMD0" -> next \in [state : {"idle"}, app : {FALSE}, busy : 0..BusyBound,
                                   inserted : {TRUE}] /\ resp = "none"
      [] cmd = "CMD8" -> next = card /\ resp = "0x1AA"
      [] cmd = "CMD55" -> next = [card EXCEPT !.app = TRUE] /\ resp = "none"
      [] cmd = "ACMD41" ->
           \/ /\ card.busy > 0 /\ resp = "busy"
              /\ next = [card EXCEPT !.app = FALSE, !.busy = @ - 1]
           \/ resp = "ready" /\ next = [card EXCEPT !.app = FALSE, !.state = "ready"]
      [] cmd = "CMD2" -> next = [card EXCEPT !.state = "ident"] /\ resp = "none"
      [] cmd = "CMD3" ->
           \/ /\ card.busy > 0 /\ resp = "no_rca"
              /\ next = [card EXCEPT !.state = "stby", !.busy = @ - 1]
           \/ resp = "rca" /\ next = [card EXCEPT !.state = "stby", !.busy = 0]
      [] cmd = "CMD9" -> next = card /\ resp = "none"
      [] cmd = "CMD7" -> next = [card EXCEPT !.state = "tran"] /\ resp = "none"
      [] OTHER -> next = [card EXCEPT !.state = "data"] /\ resp = "none"

\* The argument of a transfer: a block on SDHC cards, a byte on SD(SC) ones.
FirstBlock(arg) == IF cardtype = 1 THEN arg ELSE arg \div SECTOR

Answer ==
    /\ Answers
    /\ \E next \in [state : {"idle", "ready", "ident", "stby", "tran", "data"},
                    app : BOOLEAN, busy : 0..BusyBound, inserted : {TRUE}],
          resp \in Resp0 :
         /\ Answered(host.command.cmd, next, resp)
         /\ card' = next
         /\ host' = [Raise({"CC"}) EXCEPT !.resp0 = resp, !.inhibit = @ \ {"CMD"},
                                         !.command = NoCommand]
    /\ engine' = IF host.command.cmd \in {"CMD18", "CMD25"}
                 THEN [dir |-> host.command.mode,
                       block |-> FirstBlock(host.command.arg), left |-> host.count,
                       run |-> TRUE, moved |-> 0]
                 ELSE engine
    /\ Environment /\ UNCHANGED <<memory, disk, faults>>

\* No answer, or one with a bad CRC: the lines may stay inhibited.
CommandLost ==
    \E stuck \in SUBSET host.inhibit :
       host' = [Raise({"ERR"}) EXCEPT !.inhibit = stuck, !.command = NoCommand]

NoAnswer ==
    /\ Outstanding /\ ~Answers
    /\ CommandLost
    /\ Environment /\ UNCHANGED <<engine, card, memory, disk, faults>>

MayFail == faults.n < FaultBound
OneFault == faults' = [n |-> faults.n + 1, hit |-> TRUE]

CommandFault ==
    /\ Answers /\ MayFail /\ OneFault
    /\ CommandLost
    /\ Environment /\ UNCHANGED <<engine, card, memory, disk>>

\* CMD8 is answered by a card of another voltage.
BadEcho ==
    /\ Answers /\ host.command.cmd = "CMD8" /\ MayFail /\ OneFault
    /\ host' = [Raise({"CC"}) EXCEPT !.resp0 = "none", !.inhibit = {}, !.command = NoCommand]
    /\ Environment /\ UNCHANGED <<engine, card, memory, disk>>

\* A block goes; the last one ends the transfer (auto CMD12), the end of a page
\* stops the engine until its address is written.
Block ==
    /\ engine.run /\ card.inserted
    /\ LET a == host.addr  b == engine.block * SECTOR
           last == engine.left = 1
           boundary == (a + SECTOR) % PAGE = 0 /\ ~last
       IN  /\ IF engine.dir = "read"
              THEN /\ memory' = [x \in Memory |-> IF x \in a..a + SECTOR - 1
                                                  THEN disk[b + x - a] ELSE memory[x]]
                   /\ UNCHANGED disk
              ELSE /\ disk' = [x \in DOMAIN disk |-> IF x \in b..b + SECTOR - 1
                                                     THEN memory[a + x - b] ELSE disk[x]]
                   /\ UNCHANGED memory
           /\ host' = [Raise(CASE last -> {"TC"} [] boundary -> {"DMA"} [] OTHER -> {})
                        EXCEPT !.addr = a + SECTOR, !.inhibit = IF last THEN {} ELSE @]
           /\ engine' = [dir |-> IF last THEN "none" ELSE engine.dir,
                         block |-> IF last THEN 0 ELSE engine.block + 1,
                         left |-> engine.left - 1, run |-> ~last /\ ~boundary,
                         moved |-> engine.moved + 1]
           /\ card' = [card EXCEPT !.state = IF last THEN "tran" ELSE @]
    /\ Environment /\ UNCHANGED faults

\* Bad CRC or no data: the engine stops, the card may be left in the transfer.
DataLost ==
    /\ engine.dir # "none"
    /\ engine' = [Stopped EXCEPT !.moved = engine.moved]
    /\ \E stuck \in SUBSET host.inhibit : host' = [Raise({"ERR"}) EXCEPT !.inhibit = stuck]
    /\ \E s \in {"tran", "data"} : card' = [card EXCEPT !.state = s]
    /\ Environment /\ UNCHANGED <<memory, disk>>

NoData == ~card.inserted /\ DataLost /\ UNCHANGED faults
DataFault == card.inserted /\ MayFail /\ OneFault /\ DataLost

Remove ==
    /\ card.inserted /\ MayFail /\ OneFault
    /\ card' = [card EXCEPT !.inserted = FALSE]
    /\ Environment /\ UNCHANGED <<host, engine, memory, disk>>

SdEnvironment ==
    \/ ResetDone \/ ClockDone \/ Answer \/ NoAnswer \/ CommandFault \/ BadEcho
    \/ Block \/ NoData \/ DataFault \/ Remove
    \/ GtcNext /\ UNCHANGED <<host, engine, card, memory, disk, call, ret, faults>>

SdNext == SdStep \/ SdEnvironment

\* The controller and the card go on, and so does the core.
SdFair ==
    /\ WF_sd_vars(SdStep) /\ GtcFair
    /\ WF_sd_vars(ResetDone \/ ClockDone) /\ WF_sd_vars(Answer \/ NoAnswer)
    /\ WF_sd_vars(Block \/ NoData)

-----------------------------------------------------------------------------
(* Properties.                                                             *)

\* A command is written only when the controller's clock is stable and the
\* card has its clock and power: the waits of sd_init are all there.
CommandsClocked ==
    host.command.cmd # "none" => host.clock = "stable" /\ host.sd_clock /\ host.power

\* Every function of the driver returns, whatever is lost on the way: no
\* interrupt of the DMA engine is cleared unseen, no poll waits for nothing.
CallsReturn == (call.fn # "none") ~> (call.fn = "none")

\* A function fails only for a fault during its own run, or because the lines
\* or the card were left in the middle of something by an earlier one: what an
\* earlier command or transfer left in the status registers is never taken
\* for its own, and every step of the initialisation is one the card accepts.
NoSpuriousFailure ==
    [][call.fn # "none" /\ call'.fn = "none" /\ ret' < 0 =>
         \/ faults.hit \/ ~card.inserted \/ host.inhibit # {}
         \/ call.fn \in Transfers /\ card.state # "tran"]_sd_vars

\* The bytes of memory that a transfer is for.
Bytes(c) ==
    [i \in 1..c.count * SECTOR |->
       IF c.fn = "sd_dma_spin_load" THEN c.pages[1 + ((i - 1) \div PAGE)] + ((i - 1) % PAGE)
       ELSE c.pa + i - 1]
=============================================================================
