------------------------------- MODULE Process ------------------------------
(***************************************************************************)
(* The process subsystem: the process table and new_pcb (sched_main.c),    *)
(* the boot process (sched_init.c, init.c), the SVC and IRQ handlers       *)
(* (zynq7000/interrupt.c), the process system calls (syscall.c) and the    *)
(* round-robin dispatch, over the queues of policy_rr.c.                   *)
(*                                                                         *)
(* One CPU; both handlers run with IRQs masked, so a handler is one step.  *)
(* A PCB is identified with its pid, a page table with the pid it was      *)
(* made for, and a register file is reduced to the program counter, r0     *)
(* and the processor mode.  What the page tables map is not in this        *)
(* module.                                                                 *)
(***************************************************************************)
EXTENDS QueueOps

CONSTANTS MaxPcb,       \* MAX_PCB, the length of pcb_list
          PcMax,        \* the last position of a user program
          Syscalls,     \* the system calls that user programs issue
          ForkBound,    \* bound: no fork once cnt_pcb exceeds it
          SpinBound     \* bound: iterations of _wait's loop that are explored

ASSUME MaxPcbAssumption == MaxPcb \in Nat /\ MaxPcb >= 3
ASSUME PcMaxAssumption == PcMax \in Nat /\ PcMax > 4
ASSUME SyscallsAssumption ==
    Syscalls \subseteq {"debug", "fork", "exec", "wait", "getpid", "getppid", "exit"}
ASSUME BoundsAssumption == ForkBound \in 0..MaxPcb /\ SpinBound \in Nat

Pid == 0..MaxPcb        \* MaxPcb itself is the slot past the end of pcb_list

\* Positions in the kernel's own program, then in user programs.
SVC_FORK == 0           \* init_sched at its SVC 1
FORKED == 1             \* the instruction after it
SVC_EXEC == 2           \* the parent, timer armed, at its SVC 2
IDLE == 3               \* the child, back in kinit, in while (1)
USER_ENTRY == 4
UserPc == USER_ENTRY..PcMax
Pc == 0..(PcMax + 1)

ENTRY == MaxPcb + 1     \* the ELF entry address that exec leaves in r0
Context == [pc : Pc, r0 : 0..ENTRY, mode : {"NONE", "SYS", "USR"}]
ZeroContext == [pc |-> 0, r0 |-> 0, mode |-> "NONE"]

VARIABLES
    state,        \* "boot", "run", "wait" (in _wait's loop), "abort" (in the
                  \* data-abort handler, for good) or "corrupt" (pcb_list overrun)
    queue,        \* the six queues of policy_rr.c
    status, ppid, page_table, saved,    \* fields of pcb_t; saved is pcb_t.cpu
    cnt_pcb,
    cpu, TTBR0,   \* the register file and translation base of the CPU
    timer,        \* the private timer is running
    \* History, read by the properties only:
    owner,        \* the process whose instructions the CPU executes
    logical       \* the register file as each process itself last left it

table == <<status, ppid, page_table, cnt_pcb>>
history == <<owner, logical>>
vars == <<state, queue, status, ppid, page_table, saved, cnt_pcb, cpu, TTBR0,
          timer, owner, logical>>

TypeOK ==
    /\ state \in {"boot", "run", "wait", "abort", "corrupt"}
    /\ queue \in [Status -> Seq(Pid)]
    /\ status \in [Pid -> Status \cup {"NONE"}]
    /\ ppid \in [Pid -> Pid]
    /\ page_table \in [Pid -> Pid]
    /\ saved \in [Pid -> Context]
    /\ cnt_pcb \in 0..(MaxPcb + 1)
    /\ cpu \in Context
    /\ TTBR0 \in Pid
    /\ timer \in BOOLEAN
    /\ owner \in Pid
    /\ logical \in [Pid -> Context]

Init ==
    /\ state = "boot"
    /\ queue = [s \in Status |-> <<>>]
    /\ status = [p \in Pid |-> "NONE"]
    /\ ppid = [p \in Pid |-> 0]
    /\ page_table = [p \in Pid |-> 0]
    /\ saved = [p \in Pid |-> ZeroContext]
    /\ cnt_pcb = 0
    /\ cpu = [pc |-> SVC_FORK, r0 |-> 0, mode |-> "SYS"]
    /\ TTBR0 = 0
    /\ timer = FALSE
    /\ owner = 0
    /\ logical = [p \in Pid |-> ZeroContext]

-----------------------------------------------------------------------------
(* What the handlers share.                                                *)

NoRunning == queue["RUNNING"] = <<>>

\* sched_get_running dereferences the head of the running queue.
Running == Head(queue["RUNNING"])

\* sched_get_bypid and sched_get_zombie_child: the queued PCBs they search.
Queued(q, p) == \E s \in Status : Holds(q[s], p)
ZombieChildren(p) == {i \in DOMAIN queue["ZOMBIE"] : ppid[queue["ZOMBIE"][i]] = p}

\* new_pcb: the next pid, queued and marked NEW.
Created(q, p) == [q EXCEPT !["NEW"] = Push(@, p)]

\* context_svc on entry to int_ent_svc: lr_svc is the instruction after the SVC.
SvcContext == [cpu EXCEPT !.pc = @ + 1]

\* context_irq on entry to int_ent_irq: lr_irq is one instruction late.
IrqContext == [cpu EXCEPT !.pc = @ + 1]

\* Mutant of IrqReturn: the return address is not corrected.
IrqReturnLate == IrqContext

\* The address int_ent_irq returns to.
IrqReturn == [IrqContext EXCEPT !.pc = @ - 1]

\* The CPU stands at an SVC instruction with this number.
AtSvc(id) ==
    /\ state = "run"
    /\ \/ cpu.mode = "SYS" /\ cpu.pc = SVC_FORK /\ id = "fork"
       \/ cpu.mode = "SYS" /\ cpu.pc = SVC_EXEC /\ id = "exec"
       \/ cpu.mode = "USR" /\ cpu.pc < PcMax /\ id \in Syscalls

\* int_ent_svc: n_pcb is found, the context saved in it and syscall(id) called.
Svc(id) == AtSvc(id) /\ ~NoRunning

\* _fork gives the child an L1 table of its own (slb_alloc_align).
ChildTable(f, c) == c

\* _exit asks whether the parent is blocked in wait.
Sleeps(st, f) == st[f] = "WAIT"

\* Mutant of Pick: the process behind the first one.
PickSecond(q) == IF Len(q["READY"]) > 1 THEN q["READY"][2] ELSE Head(q["READY"])

\* sched_pick: the first ready process.
Pick(q) == Head(q["READY"])

\* Mutant of SwitchMm: the wrong one of its two tables.
SwitchMmFrom(from, to) == page_table[from]

\* switch_mm: the translation base after a switch.
SwitchMm(from, to) == page_table[to]

\* The handler restores ctx.
Resume(ctx) == cpu' = ctx /\ logical' = [logical EXCEPT ![owner] = ctx]

-----------------------------------------------------------------------------
(* Boot: init_sched and kinit.                                             *)

InitSched ==
    /\ state = "boot"
    /\ state' = "run"
    /\ LET first == Created(queue, 0)
           ready == Move(first, 0, "NEW", "READY")
           up == Move(ready, 0, "READY", "RUNNING")
       IN  queue' = Created(up, 1)
    /\ status' = [status EXCEPT ![0] = "RUNNING", ![1] = "NEW"]
    /\ ppid' = [ppid EXCEPT ![0] = 0]
    /\ page_table' = [page_table EXCEPT ![0] = 0]
    /\ cnt_pcb' = 2
    /\ logical' = [logical EXCEPT ![0] = cpu]
    /\ UNCHANGED <<saved, cpu, TTBR0, timer, owner>>

\* The parent (r0 = pid of the child) starts the private timer.
StartTimer ==
    /\ state = "run" /\ cpu.mode = "SYS" /\ cpu.pc = FORKED /\ cpu.r0 # 0
    /\ timer' = TRUE
    /\ Resume([cpu EXCEPT !.pc = SVC_EXEC])
    /\ UNCHANGED <<state, queue, table, saved, TTBR0, owner>>

\* The child (r0 = 0) returns from init_sched and spins in kinit.
BecomeIdle ==
    /\ state = "run" /\ cpu.mode = "SYS" /\ cpu.pc = FORKED /\ cpu.r0 = 0
    /\ Resume([cpu EXCEPT !.pc = IDLE])
    /\ UNCHANGED <<state, queue, table, saved, TTBR0, timer, owner>>

\* A user program executes instructions other than SVC.
UserStep ==
    /\ state = "run" /\ cpu.mode = "USR"
    /\ \E pc \in UserPc \ {cpu.pc} : Resume([cpu EXCEPT !.pc = pc])
    /\ UNCHANGED <<state, queue, table, saved, TTBR0, timer, owner>>

-----------------------------------------------------------------------------
(* System calls.                                                           *)

\* _fork: a new PCB, a copy of the caller's, with a page table of its own.
Fork ==
    /\ Svc("fork") /\ cnt_pcb <= ForkBound
    /\ LET f == Running
           c == cnt_pcb
           father == [SvcContext EXCEPT !.r0 = c]
           child == [SvcContext EXCEPT !.r0 = 0]
       IN  /\ state' = IF c = MaxPcb THEN "corrupt" ELSE state
           /\ queue' = Move(Created(queue, c), c, "NEW", "READY")
           /\ status' = [status EXCEPT ![c] = "READY"]
           /\ ppid' = [ppid EXCEPT ![c] = f]
           /\ page_table' = [page_table EXCEPT ![c] = ChildTable(f, c)]
           /\ saved' = [saved EXCEPT ![f] = father, ![c] = child]
           /\ cnt_pcb' = cnt_pcb + 1
           /\ cpu' = father
           /\ logical' = [logical EXCEPT ![owner] = father, ![c] = child]
    /\ UNCHANGED <<TTBR0, timer, owner>>

\* _exec: a fresh user context, then context_switch(task, task, context_svc).
Exec ==
    /\ Svc("exec")
    /\ LET image == [pc |-> USER_ENTRY, r0 |-> ENTRY, mode |-> "USR"]
       IN  /\ saved' = [saved EXCEPT ![Running] = image]
           /\ Resume(image)
    /\ TTBR0' = SwitchMm(Running, Running)
    /\ UNCHANGED <<state, queue, table, timer, owner>>

\* _getpid, _getppid, and SVC 0 (svc_print), which returns r0 as it was.
Simple(id, r0) ==
    /\ Svc(id)
    /\ saved' = [saved EXCEPT ![Running] = SvcContext]
    /\ Resume([SvcContext EXCEPT !.r0 = r0])
    /\ UNCHANGED <<state, queue, table, TTBR0, timer, owner>>

GetPid == Simple("getpid", Running)
GetPpid == Simple("getppid", ppid[Running])
Debug == Simple("debug", cpu.r0)

\* _exit: the zombie returns to its program; there is no switch to another.
Exit ==
    /\ Svc("exit")
    /\ LET p == Running
           f == ppid[p]
           finished == Move(queue, p, "RUNNING", "ZOMBIE")
           marked == [status EXCEPT ![p] = "ZOMBIE"]
       IN  IF ~Queued(finished, f)
           THEN \* f_pcb is NULL: f_pcb->status faults
                /\ state' = "abort"
                /\ queue' = finished
                /\ status' = marked
           ELSE IF Sleeps(marked, f)
           THEN /\ queue' = Move(finished, f, "WAIT", "READY")
                /\ status' = [marked EXCEPT ![f] = "READY"]
                /\ UNCHANGED state
           ELSE /\ queue' = finished
                /\ status' = marked
                /\ UNCHANGED state
    /\ saved' = [saved EXCEPT ![Running] = SvcContext]
    /\ Resume(SvcContext)
    /\ UNCHANGED <<ppid, page_table, cnt_pcb, TTBR0, timer, owner>>

\* _wait: the call, and then each iteration of its while (1).
Wait ==
    /\ Svc("wait")
    /\ state' = "wait"
    /\ saved' = [saved EXCEPT ![Running] = SvcContext]
    /\ UNCHANGED <<queue, table, cpu, TTBR0, timer, history>>

WaitIterate ==
    /\ state = "wait"
    /\ IF ZombieChildren(owner) # {}
       THEN LET c == queue["ZOMBIE"][CHOOSE i \in ZombieChildren(owner) :
                                        \A j \in ZombieChildren(owner) : i <= j]
            IN  /\ queue' = [queue EXCEPT !["ZOMBIE"] = Pop(@, c)]
                /\ state' = "run"
                /\ Resume([SvcContext EXCEPT !.r0 = ppid[c]])
                /\ UNCHANGED status
       ELSE /\ Len(queue["WAIT"]) < SpinBound
            /\ queue' = Move(queue, owner, "RUNNING", "WAIT")
            /\ status' = [status EXCEPT ![owner] = "WAIT"]
            /\ UNCHANGED <<state, cpu, logical>>
    /\ UNCHANGED <<ppid, page_table, cnt_pcb, saved, TTBR0, timer, owner>>

-----------------------------------------------------------------------------
(* Interrupts.                                                             *)

\* switch_to: save on_return in cpu_from, then load on_return from cpu_to.
SwitchTo(from, to, on_return) ==
    LET stored == [saved EXCEPT ![from] = on_return]
    IN  /\ saved' = stored
        /\ cpu' = stored[to]

\* IRQ 29, the private timer: int_ent_irq and sched_main.
Tick ==
    /\ state = "run" /\ timer /\ ~NoRunning
    /\ LET now == Running
           preempted == Move(queue, now, "RUNNING", "READY")
           new == Pick(preempted)
       IN  /\ queue' = Move(preempted, new, "READY", "RUNNING")
           /\ status' = [status EXCEPT ![now] = "READY", ![new] = "RUNNING"]
           /\ SwitchTo(now, new, IrqReturn)
           /\ TTBR0' = SwitchMm(now, new)
           /\ owner' = new
    /\ UNCHANGED <<state, ppid, page_table, cnt_pcb, timer, logical>>

\* Any other interrupt: the context is stored before its pc is corrected.
OtherIrq ==
    /\ state = "run" /\ ~NoRunning
    /\ saved' = [saved EXCEPT ![Running] = IrqContext]
    /\ cpu' = IrqReturn
    /\ UNCHANGED <<state, queue, table, TTBR0, timer, history>>

\* With nothing running, sched_get_running faults on address 0 in the SVC or
\* IRQ handler, and again in the data-abort handler, which calls it first.
HandlerFaults ==
    /\ NoRunning
    /\ \/ \E id \in Syscalls \cup {"fork", "exec"} : AtSvc(id)
       \/ state = "run" /\ timer
    /\ state' = "abort"
    /\ UNCHANGED <<queue, table, saved, cpu, TTBR0, timer, history>>

-----------------------------------------------------------------------------
Boot == InitSched \/ StartTimer \/ BecomeIdle

SystemCall == Fork \/ Exec \/ GetPid \/ GetPpid \/ Debug \/ Exit \/ Wait

Interrupt == Tick \/ OtherIrq \/ HandlerFaults

Next == Boot \/ UserStep \/ SystemCall \/ WaitIterate \/ Interrupt

Spec == Init /\ [][Next]_vars

\* The CPU executes the boot code it stands at, and the running timer keeps
\* interrupting; nothing is assumed of user programs.
Fairness ==
    /\ WF_vars(Boot)
    /\ WF_vars(owner = 0 /\ cpu.mode = "SYS" /\ (Fork \/ Exec))
    /\ WF_vars(Tick)

FairSpec == Spec /\ Fairness

-----------------------------------------------------------------------------
(* Safety.                                                                 *)

\* The queues q hold PCBs below n, each under its status in st and once; only
\* _wait's sched_free removes a zombie from the queues, and only _wait's loop
\* may queue its caller repeatedly (syscall.c:309).
Matches(q, st, n) ==
    \A s \in Status :
        /\ \A p \in Contents(q[s]) : st[p] = s /\ p < n
        /\ s # "ZOMBIE" => \A p \in Pid : st[p] = s => p \in Contents(q[s])
        /\ s # "WAIT" => NoDuplicates(q[s])

\* Every PCB that new_pcb made is queued under its status and nowhere else.  A
\* lost or doubled PCB would show only when the scheduler comes to pick it.
QueuesMatchStatus == Matches(queue, status, cnt_pcb)

\* While a process runs it is the only one in the running queue, and the CPU
\* executes it: on its page table and with the registers it last had, whatever
\* interrupts and switches happened in between (context_switch, int_ent_irq).
CpuBelongsToRunning ==
    state = "run" /\ ~NoRunning =>
        /\ queue["RUNNING"] = <<owner>>
        /\ TTBR0 = page_table[owner]
        /\ cpu = logical[owner]

\* A preempted or newly forked process resumes exactly where it stopped: its
\* PCB holds its registers, although int_ent_irq stores them before it has
\* corrected pc (interrupt.c:189-193) and switch_to stores them again.
PreemptedContextIntact ==
    \A p \in Pid : status[p] = "READY" => saved[p] = logical[p]

-----------------------------------------------------------------------------
(* The inductive invariant.                                                *)

\* Before init_sched.
Booting ==
    state = "boot" =>
        /\ cnt_pcb = 0 /\ owner = 0 /\ TTBR0 = 0
        /\ \A s \in Status : queue[s] = <<>>
        /\ \A p \in Pid : status[p] = "NONE"

\* Only the process the CPU executes is ever in the running queue; it leaves
\* that queue for good when it exits or waits, which is when the first zombie
\* and the first waiter appear: nothing is dispatched from then on.
LastOneRuns ==
    /\ state # "boot" => status[owner] \in {"RUNNING", "ZOMBIE", "WAIT"}
    /\ Contents(queue["RUNNING"]) \subseteq {owner}
    /\ ~NoRunning => queue["ZOMBIE"] = <<>> /\ queue["WAIT"] = <<>>
    /\ state = "wait" => queue["ZOMBIE"] = <<>> /\ status[owner] \in {"RUNNING", "WAIT"}

\* A process that can run has the page table that was made for it.
OwnTables == \A p \in Pid : status[p] \in {"READY", "RUNNING"} => page_table[p] = p

\* A running process stands inside its program.
PcInProgram == cpu.pc <= PcMax /\ \A p \in Pid : logical[p].pc <= PcMax

IInv ==
    /\ TypeOK
    /\ Booting
    /\ QueuesMatchStatus
    /\ LastOneRuns
    /\ CpuBelongsToRunning
    /\ PreemptedContextIntact
    /\ OwnTables
    /\ PcInProgram

-----------------------------------------------------------------------------
(* Action properties.                                                      *)

\* p is nearer to the head of the ready queue than q.
Ahead(p, q) ==
    \E i, j \in DOMAIN queue["READY"] :
        i < j /\ queue["READY"][i] = p /\ queue["READY"][j] = q

\* Round robin (report.tex:74-76): a ready process is never overtaken, neither
\* in the queue nor to the CPU, whatever forks and preemptions happen.
FifoOrder ==
    [][\A p, q \in Pid : Ahead(p, q) =>
          /\ status'[q] # "RUNNING"
          /\ status'[p] = "READY" /\ status'[q] = "READY" => Ahead(p, q)']_vars

-----------------------------------------------------------------------------
(* Liveness.                                                               *)

\* Every ready process is given the CPU, unless the system goes down (a _wait
\* that never returns, an _exit that leaves nothing running) or overruns.
ReadyRuns ==
    \A p \in Pid :
        status[p] = "READY" ~> (status[p] = "RUNNING" \/ state # "run" \/ NoRunning)

-----------------------------------------------------------------------------
(* What the repository's texts say and the code does not do.               *)

\* report.tex:76: the cycle of picking the first ready process "continues
\* until [the process] terminates".  After _exit nothing is running, and the
\* next SVC or timer interrupt takes the kernel down instead of dispatching.
SurvivesExit == state # "abort"

\* report.tex:88: a process that waits "will be put into the waiting queue and
\* wait to be wake up".  _wait goes on with its loop instead, with interrupts
\* masked, and puts itself into the queue again in every turn.
WaitsUntilWoken ==
    [][\A p \in Pid :
          status[p] = "WAIT" /\ status'[p] = "WAIT"
          => Len(SelectSeq(queue'["WAIT"], LAMBDA q : q = p))
                = Len(SelectSeq(queue["WAIT"], LAMBDA q : q = p))]_vars
=============================================================================
