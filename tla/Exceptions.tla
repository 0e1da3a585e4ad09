----------------------------- MODULE Exceptions -----------------------------
(***************************************************************************)
(* Exception entry and exit, register by register: the vector table        *)
(* (interrupt_vector.S), the C entries (kern/arch/.../interrupt.c), the    *)
(* interrupt controller and its set-up (kern/init/.../interrupt.c), and    *)
(* the register part of a context switch (sched_main.c, _exec).            *)
(*                                                                         *)
(* An instruction group of an entry sequence is a step, so an exception    *)
(* that is not masked may come between any two of them.  A register holds  *)
(* a token: [of |-> p, n |-> v] is what program p left in it in its state  *)
(* v, [of |-> vector, n |-> i] is the address of group i of a vector's     *)
(* code, and SCRATCH is anything the C code leaves there.                  *)
(* Queues, statuses and page tables are those of Process.                  *)
(***************************************************************************)
EXTENDS Naturals, FiniteSets

CONSTANTS Program,     \* user programs, and the idle loop of the kernel
          First,       \* the program that init_sched starts
          Line,        \* interrupt lines that have a device
          TIMER,       \* the line of the private timer, 29
          FiqBound,    \* bound: fast interrupts that are explored
          AbortsOccur  \* programs may fault

ASSUME ProgramAssumption ==
    /\ First \in Program
    /\ Program \cap {"SVC", "IRQ", "FIQ", "UND", "PABT", "DABT", "KERNEL"} = {}
ASSUME LineAssumption == Line \subseteq 16..95 /\ TIMER \in Line /\ TIMER < 32
ASSUME FaultAssumption == FiqBound \in Nat /\ AbortsOccur \in BOOLEAN

Vector == {"SVC", "IRQ", "FIQ", "UND", "PABT", "DABT"}
Fatal == {"UND", "PABT", "DABT"}            \* their handlers end in while (1)

\* The mode an exception is taken to; both aborts share mode and context.
ModeOf(k) == IF k \in {"PABT", "DABT"} THEN "ABT" ELSE k
Mode == {"USR", "SYS"} \cup {ModeOf(k) : k \in Vector}

Val == [of : Program \cup Vector \cup {"KERNEL"}, n : 0..7]
SCRATCH == [of |-> "KERNEL", n |-> 0]
V_SYS_STACK == [of |-> "KERNEL", n |-> 1]
RESULT == [of |-> "KERNEL", n |-> 2]        \* a result of a system call

\* An address: late counts the instructions by which it is beyond `at`.
Address == [at : Val, late : 0..2]
Psr == [mode : Mode, I : BOOLEAN, F : BOOLEAN]
UserPsr == [mode |-> "USR", I |-> FALSE, F |-> FALSE]

\* r0, r1, then r2 to r7 as one, then r8 to r12, which FIQ mode banks.
Registers == [r0 : Val, r1 : Val, rest : Val, hi : Val, sp : Val, lr : Val,
              pc : Address, cpsr : Psr]

At(k, i) == [at |-> [of |-> k, n |-> i], late |-> 0]
Fresh(p, v) ==
    LET x == [of |-> p, n |-> v] IN
    [r0 |-> x, r1 |-> x, rest |-> x, hi |-> x, sp |-> x, lr |-> x,
     pc |-> [at |-> x, late |-> 0], cpsr |-> UserPsr]

VARIABLES
    cpu,        \* the registers that SYS and USR mode see
    bank,       \* lr and spsr of each exception mode, and r8 to r12 of FIQ
    context,    \* context_svc, context_abort, ...: the context objects
    pcb,        \* the cpu field of each PCB
    running,    \* the PCB at the head of the running queue
    frame,      \* the return address on top of the system stack
    gic,        \* what interrupt_init has set up; sctlr: IRQs unmasked in the CPSR
    pending, active,   \* lines that are raised, and the acknowledged one
    \* History, read by the properties only:
    logical,    \* the registers as each program (or its system call) left them
    fiqs        \* fast interrupts taken so far

vars == <<cpu, bank, context, pcb, running, frame, gic, pending, active, logical, fiqs>>

Gic == [step : 0..8, dcr : BOOLEAN, target : SUBSET Line, priority : 0..255,
        enabled : SUBSET Line, pmr : 0..255, icr : BOOLEAN]

TypeOK ==
    /\ cpu \in Registers
    /\ bank \in [{ModeOf(k) : k \in Vector} -> [lr : Address, spsr : Psr, hi : Val]]
    /\ context \in [{ModeOf(k) : k \in Vector} -> Registers]
    /\ pcb \in [Program -> Registers]
    /\ running \in Program
    /\ frame \in Address
    /\ gic \in Gic
    /\ pending \subseteq Line
    /\ active \in SUBSET Line
    /\ logical \in [Program -> Registers]
    /\ fiqs \in 0..FiqBound

Init ==
    /\ cpu = [Fresh(First, 0) EXCEPT !.cpsr = [mode |-> "SYS", I |-> TRUE, F |-> TRUE]]
    /\ bank = [x \in {ModeOf(k) : k \in Vector} |->
                   [lr |-> At("KERNEL", 0), spsr |-> UserPsr, hi |-> SCRATCH]]
    /\ context = [x \in {ModeOf(k) : k \in Vector} |-> Fresh(First, 0)]
    /\ pcb = [p \in Program |-> Fresh(p, 0)]
    /\ running = First
    /\ frame = At("KERNEL", 0)
    /\ gic = [step |-> 0, dcr |-> FALSE, target |-> {}, priority |-> 0,
              enabled |-> {}, pmr |-> 0, icr |-> FALSE]
    /\ pending = {}
    /\ active = {}
    /\ logical = [p \in Program |-> Fresh(p, 0)]
    /\ fiqs = 0

-----------------------------------------------------------------------------
(* interrupt_init, called once by kinit; gic.step counts its calls.        *)

\* Where a core ends that enters a vector too early, see EarlyException.
NullContext == At("KERNEL", 3)
Lost == cpu.pc = NullContext

Setup(i, g) ==
    /\ gic.step = i /\ ~Lost
    /\ gic' = [g EXCEPT !.step = i + 1]

Quiet == UNCHANGED <<bank, context, pcb, running, frame, pending, active, logical, fiqs>>

prepare_ICDDCR == Setup(0, [gic EXCEPT !.dcr = TRUE]) /\ Quiet /\ UNCHANGED cpu

\* Private lines always go to their own core; the loop sends the shared ones
\* to core 0, all but 36, 93 and 94.
Targeted(l) == l \in 16..31 \/ l \in (0..95) \ {36, 93, 94}

prepare_ICDIPTR ==
    Setup(1, [gic EXCEPT !.target = {l \in Line : Targeted(l)}]) /\ Quiet /\ UNCHANGED cpu

\* Bytes 4, 3, 2, 1 in each word; the largest stands for all.
prepare_ICDIPR == Setup(2, [gic EXCEPT !.priority = 4]) /\ Quiet /\ UNCHANGED cpu

prepare_ICDISER == Setup(3, [gic EXCEPT !.enabled = Line]) /\ Quiet /\ UNCHANGED cpu

prepare_ICCPMR == Setup(4, [gic EXCEPT !.pmr = 255]) /\ Quiet /\ UNCHANGED cpu
prepare_ICCICR == Setup(5, [gic EXCEPT !.icr = TRUE]) /\ Quiet /\ UNCHANGED cpu

\* The vectors go to 0xFFFF0000 and both masks in the CPSR are cleared.
asm_sctlr ==
    /\ Setup(6, gic)
    /\ cpu' = [cpu EXCEPT !.cpsr = [@ EXCEPT !.I = FALSE, !.F = FALSE]]
    /\ Quiet

\* The context objects are allocated, init_sched starts the first program and
\* with it the timer.
init_context_container ==
    /\ Setup(7, gic)
    /\ cpu' = logical[First]
    /\ Quiet

InterruptInit ==
    \/ prepare_ICDDCR \/ prepare_ICDIPTR \/ prepare_ICDIPR \/ prepare_ICDISER
    \/ prepare_ICCPMR \/ prepare_ICCICR \/ asm_sctlr \/ init_context_container

Up == gic.step = 8

-----------------------------------------------------------------------------
(* The programs, the devices and the processor.                            *)

InProgram == Up /\ cpu.cpsr.mode = "USR"

\* A program executes any instruction but SVC.
Execute ==
    /\ InProgram
    /\ \E v \in {0, 1} :
         /\ cpu' = Fresh(running, v)
         /\ logical' = [logical EXCEPT ![running] = Fresh(running, v)]
    /\ UNCHANGED <<bank, context, pcb, running, frame, gic, pending, active, fiqs>>

\* A device raises its line, even before the kernel is up; the timer does so from
\* init_sched on, again and again (auto-reload).
Raise(l) ==
    /\ Up \/ l # TIMER
    /\ l \notin pending
    /\ pending' = pending \cup {l}
    /\ UNCHANGED <<cpu, bank, context, pcb, running, frame, gic, active, logical, fiqs>>

\* The controller presents line l to the processor.
Signalled(l) ==
    /\ l \in pending \cap gic.enabled \cap gic.target
    /\ gic.dcr /\ gic.icr /\ gic.priority < gic.pmr
    /\ active = {}

\* Instructions by which lr is beyond the one to resume at (a fault: to retry).
Late(k) == CASE k = "SVC" -> 0 [] k = "DABT" -> 2 [] OTHER -> 1

\* The processor takes an exception: lr and spsr of the new mode, IRQs masked,
\* FIQs masked by a FIQ only, and the first group of the vector's code.
Enter(k) ==
    /\ bank' = [bank EXCEPT ![ModeOf(k)].lr = [cpu.pc EXCEPT !.late = Late(k)],
                            ![ModeOf(k)].spsr = cpu.cpsr]
    /\ cpu' = [cpu EXCEPT !.pc = At(k, 1),
                          !.cpsr = [mode |-> ModeOf(k), I |-> TRUE,
                                    F |-> @.F \/ k = "FIQ"]]
    /\ UNCHANGED <<context, pcb, running, frame, gic, pending, active, logical>>

\* Between asm_sctlr and init_context_container: the vector stores the registers
\* through a null pointer.  Nothing is mapped there, and the data abort has no
\* context either, so the core takes aborts for ever.
EarlyException ==
    /\ gic.step = 7 /\ ~Lost
    /\ (~cpu.cpsr.I /\ \E l \in Line : Signalled(l)) \/ (~cpu.cpsr.F /\ FiqBound > 0)
    /\ cpu' = [cpu EXCEPT !.pc = NullContext,
                          !.cpsr = [mode |-> "ABT", I |-> TRUE, F |-> @.F]]
    /\ UNCHANGED <<bank, context, pcb, running, frame, gic, pending, active, logical, fiqs>>

SupervisorCall == InProgram /\ Enter("SVC") /\ UNCHANGED fiqs

TakeIrq ==
    /\ Up /\ ~cpu.cpsr.I /\ \E l \in Line : Signalled(l)
    /\ Enter("IRQ") /\ UNCHANGED fiqs

TakeFiq ==
    /\ Up /\ ~cpu.cpsr.F /\ fiqs < FiqBound
    /\ Enter("FIQ") /\ fiqs' = fiqs + 1

Fault ==
    /\ InProgram /\ AbortsOccur
    /\ \E k \in Fatal : Enter(k)
    /\ UNCHANGED fiqs

-----------------------------------------------------------------------------
(* The entry sequence int_pre_k, group by group.                           *)

AtGroup(k, i) == cpu.pc = At(k, i)

\* The context of its mode takes r0 to r12, lr (as pc) and spsr (as cpsr).
Save(k) ==
    /\ AtGroup(k, 1)
    /\ LET b == bank[ModeOf(k)] IN
       context' = [context EXCEPT ![ModeOf(k)] =
                     [@ EXCEPT !.r0 = cpu.r0, !.r1 = cpu.r1, !.rest = cpu.rest,
                               !.hi = IF k = "FIQ" THEN b.hi ELSE cpu.hi,
                               !.pc = b.lr, !.cpsr = b.spsr]]
    /\ cpu' = [cpu EXCEPT !.r0 = SCRATCH, !.pc = At(k, 2)]
    /\ UNCHANGED <<bank, pcb, running, frame, gic, pending, active, logical, fiqs>>

\* Mutant of ToMode: the mode is written with the masks cleared.
ToModeUnmasked(psr, m) == [mode |-> m, I |-> FALSE, F |-> FALSE]

\* and 0xFFFFFFE0, orr m: the mode bits only.
ToMode(psr, m) == [psr EXCEPT !.mode = m]

SwitchMode(k) ==
    /\ AtGroup(k, 2)
    /\ cpu' = [cpu EXCEPT !.cpsr = ToMode(@, "SYS"), !.pc = At(k, 3)]
    /\ UNCHANGED <<bank, context, pcb, running, frame, gic, pending, active, logical, fiqs>>

\* The program's sp and lr go to r0 and r1; the system stack; bl int_ent_k.
NewStack(k) ==
    /\ AtGroup(k, 3)
    /\ cpu' = [cpu EXCEPT !.r0 = cpu.sp, !.r1 = cpu.lr, !.sp = V_SYS_STACK,
                          !.lr = [of |-> k, n |-> 6], !.pc = At(k, 4)]
    /\ UNCHANGED <<bank, context, pcb, running, frame, gic, pending, active, logical, fiqs>>

-----------------------------------------------------------------------------
(* int_ent_k.                                                              *)

\* int_ent_irq and int_ent_data_abort step the pc back by one instruction.
Corrected(k, ctx) == IF k \in {"IRQ", "DABT"} THEN [ctx EXCEPT !.pc.late = @ - 1] ELSE ctx

\* Up to the dispatch: lr is pushed, sp and lr complete the context, an IRQ is
\* acknowledged, and the PCB of the running task takes the context: that of
\* an IRQ before its pc is corrected, that of a data abort after.
Entered(k) ==
    /\ AtGroup(k, 4)
    /\ frame' = [at |-> cpu.lr, late |-> 0]
    /\ LET full == [context[ModeOf(k)] EXCEPT !.sp = cpu.r0, !.lr = cpu.r1]
           copied == IF k = "DABT" THEN Corrected(k, full) ELSE full
       IN  /\ context' = [context EXCEPT ![ModeOf(k)] = Corrected(k, full)]
           /\ pcb' = [pcb EXCEPT ![running] = copied]
    /\ cpu' = [cpu EXCEPT !.r0 = SCRATCH, !.r1 = SCRATCH, !.rest = SCRATCH,
                          !.hi = SCRATCH, !.lr = SCRATCH,
                          !.pc = At(k, IF k \in Fatal THEN 0 ELSE 5)]
    /\ UNCHANGED <<bank, running, gic, logical, fiqs>>

EnterSvc == Entered("SVC") /\ UNCHANGED <<pending, active>>

\* Reading ICCIAR makes the pending line the active one; all have the same
\* priority (the controller keeps the upper five bits), so the lowest goes first.
EnterIrq ==
    /\ \E l \in Line :
         /\ Signalled(l) /\ \A other \in Line : Signalled(other) => l <= other
         /\ active' = {l}
         /\ pending' = pending \ {l}
    /\ Entered("IRQ")

EnterFiq == Entered("FIQ") /\ UNCHANGED <<pending, active>>

\* "system down": the handlers of faults do not return.
EnterFatal(k) == Entered(k) /\ UNCHANGED <<pending, active>>
Down == \E k \in Fatal : AtGroup(k, 0)

\* From the end of the handler to its return: sp and lr of the context go to
\* r0 and r1, and the return address is popped.
Leave(ctx) ==
    cpu' = [cpu EXCEPT !.r0 = ctx.sp, !.r1 = ctx.lr, !.pc = frame]

\* syscall() that returns a result in r0, or none.
Call ==
    /\ AtGroup("SVC", 5)
    /\ \E r \in {RESULT, context["SVC"].r0} :
         /\ context' = [context EXCEPT !["SVC"].r0 = r]
         /\ logical' = [logical EXCEPT ![running].r0 = r]
         /\ Leave(context["SVC"])
    /\ UNCHANGED <<bank, pcb, running, frame, gic, pending, active, fiqs>>

\* A system call that does not return: _wait without a zombie child, gets, a
\* request that pages_alloc cannot serve, an abort in the kernel.  So does a
\* sched_main whose allocations find no page.  IRQs stay masked.
Spin ==
    /\ \E k \in {"SVC", "IRQ"} :
          /\ AtGroup(k, 5) /\ (k = "IRQ" => active = {TIMER})
          /\ cpu' = [cpu EXCEPT !.pc = At(k, 0)]
    /\ UNCHANGED <<bank, context, pcb, running, frame, gic, pending, active, logical, fiqs>>
Stuck == AtGroup("SVC", 0) \/ AtGroup("IRQ", 0)

\* switch_to: the context of the interrupted task is kept, the other's returns.
SwitchTo(from, to, mode, saved) ==
    /\ pcb' = [saved EXCEPT ![from] = context[mode]]
    /\ context' = [context EXCEPT ![mode] = pcb'[to]]
    /\ running' = to
    /\ Leave(context'[mode])

\* _exec: the task gets the registers of a new image.  context_switch(task,
\* task, context_svc) copies context_svc to itself, since it was set before.
ExecCall ==
    /\ AtGroup("SVC", 5)
    /\ LET image == [Fresh(running, 0) EXCEPT !.r0 = RESULT] IN
         /\ context' = [context EXCEPT !["SVC"] = image]
         /\ pcb' = [pcb EXCEPT ![running] = image]
         /\ logical' = [logical EXCEPT ![running] = image]
         /\ Leave(image)
    /\ UNCHANGED <<bank, running, frame, gic, pending, active, fiqs>>

\* Mutant of EndOfInterrupt: ICCEOIR is not written.
NoEndOfInterrupt == active

\* ICCEOIR is written with the line acknowledged.
EndOfInterrupt == {}

\* sched_main on line 29.  Which ready task it takes is Process's matter.
SchedMain ==
    /\ AtGroup("IRQ", 5) /\ active = {TIMER}
    /\ \E to \in Program : SwitchTo(running, to, "IRQ", pcb)
    /\ active' = EndOfInterrupt
    /\ UNCHANGED <<bank, frame, gic, pending, logical, fiqs>>

OtherLine ==
    /\ AtGroup("IRQ", 5) /\ active # {TIMER}
    /\ Leave(context["IRQ"])
    /\ active' = EndOfInterrupt
    /\ UNCHANGED <<bank, context, pcb, running, frame, gic, pending, logical, fiqs>>

LeaveFiq ==
    /\ AtGroup("FIQ", 5)
    /\ Leave(context["FIQ"])
    /\ UNCHANGED <<bank, context, pcb, running, frame, gic, pending, active, logical, fiqs>>

-----------------------------------------------------------------------------
(* The exit sequence.                                                      *)

\* Mutant of RestoredLr: all vectors move as int_pre_FIQ does.
RestoredLrSwapped(k) == cpu.lr

\* lr is taken back from r1, but the two are swapped in int_pre_FIQ.
RestoredLr(k) == IF k = "FIQ" THEN cpu.lr ELSE cpu.r1

Restore(k) ==
    /\ AtGroup(k, 6)
    /\ cpu' = [cpu EXCEPT !.lr = RestoredLr(k), !.sp = cpu.r0,
                          !.cpsr = ToMode(@, ModeOf(k)), !.pc = At(k, 7)]
    /\ UNCHANGED <<bank, context, pcb, running, frame, gic, pending, active, logical, fiqs>>

\* spsr, r0 to r12 and pc from the context; spsr becomes cpsr.
Return(k) ==
    /\ AtGroup(k, 7)
    /\ LET ctx == context[ModeOf(k)] IN
         /\ cpu' = [ctx EXCEPT !.sp = cpu.sp, !.lr = cpu.lr,
                               !.hi = IF k = "FIQ" THEN cpu.hi ELSE @]
         /\ bank' = [bank EXCEPT ![ModeOf(k)].spsr = ctx.cpsr,
                                 !["FIQ"].hi = IF k = "FIQ" THEN ctx.hi ELSE @]
    /\ UNCHANGED <<context, pcb, running, frame, gic, pending, active, logical, fiqs>>

Handler ==
    \/ \E k \in Vector : \/ Save(k) \/ SwitchMode(k) \/ NewStack(k)
                         \/ Restore(k) \/ Return(k)
    \/ EnterSvc \/ EnterIrq \/ EnterFiq \/ \E k \in Fatal : EnterFatal(k)
    \/ Call \/ ExecCall \/ Spin \/ SchedMain \/ OtherLine \/ LeaveFiq

Next ==
    \/ InterruptInit \/ Execute \/ \E l \in Line : Raise(l)
    \/ EarlyException \/ SupervisorCall \/ TakeIrq \/ TakeFiq \/ Fault
    \/ Handler

Spec == Init /\ [][Next]_vars

\* The core executes its instructions, an interrupt that stays signalled while
\* IRQs are unmasked again and again is taken, and the timer keeps ticking.
FairSpec ==
    /\ Spec
    /\ WF_vars(InterruptInit) /\ WF_vars(Handler) /\ SF_vars(TakeIrq)
    /\ WF_vars(Raise(TIMER))

\* What later steps read: banked registers and contexts only while a handler
\* of their mode runs or is interrupted, the PCBs of the tasks switched out.
Live(m) ==
    \E k \in Vector : ModeOf(k) = m /\ k \in {cpu.pc.at.of, bank["FIQ"].lr.at.of,
                                               context["FIQ"].pc.at.of}
view == <<cpu, running, gic, pending, active, logical, fiqs,
          [m \in DOMAIN bank |-> IF Live(m) THEN <<bank[m], context[m]>> ELSE <<>>],
          [p \in Program |-> IF p = running THEN <<>> ELSE <<pcb[p]>>],
          IF InProgram THEN <<>> ELSE <<frame>> >>

-----------------------------------------------------------------------------
(* Properties.                                                             *)

\* Whenever a program executes, every register, pc and psr included, is as it
\* or its last system call left it: entry, context switch and exit are
\* transparent.  (Until a FIQ: its vector loses lr, r12 and an instruction.)
RegistersIntact == fiqs = 0 /\ InProgram => cpu = logical[running]

\* A task that is not running has its complete, resumable registers in its
\* PCB, whatever copies of a context with an uncorrected pc went there before.
SwitchedOutIntact == fiqs = 0 => \A p \in Program \ {running} : pcb[p] = logical[p]

\* "No nested interrupt": between the push and the pop of a return address,
\* the word on the one system stack stays the handler's own.
StackUndisturbed ==
    \A k \in {"SVC", "IRQ"} : AtGroup(k, 5) /\ fiqs = 0 => frame = At(k, 6)

\* A timer interrupt that is raised is acknowledged, whatever the program and other
\* devices do, unless a fault or a call that does not return stops the kernel:
\* every step of interrupt_init and every end of interrupt before it were right
\* (interrupt.c:214).
TimerAcknowledged ==
    (TIMER \in pending) ~> (TIMER \in active \/ Down \/ Stuck \/ fiqs > 0)

\* From every group of every vector the core comes to a program or to a loop of the
\* handler itself: no exit sequence, context or return address sends it back into
\* a handler for ever (interrupt_vector.S:79-112).
ReturnsToProgram == (Up /\ ~InProgram) ~> (InProgram \/ Down \/ Stuck \/ fiqs > 0)

\* Entry, switch and exit of the kernel cannot be seen by any program, whether
\* it runs or is switched out, nor by the handler that an exception interrupts.
ContextsIntact == TypeOK /\ RegistersIntact /\ SwitchedOutIntact /\ StackUndisturbed
=============================================================================
