------------------------------ MODULE RunQueues -----------------------------
(***************************************************************************)
(* What the scheduling policy promises (kern/sched/policy_rr.h): the life  *)
(* cycle of a PCB as the nine operations of the interface, over one FIFO   *)
(* per status.  PolicyRR, the linked lists of policy_rr.c, implements it.  *)
(* The interface checks nothing: the caller's part of the contract (the    *)
(* task is in the status the transition starts from) is the guard here.    *)
(***************************************************************************)
EXTENDS QueueOps

CONSTANT Pcb    \* the PCBs that callers pass to the interface

VARIABLES queue,   \* queue[s]: the PCBs queued under status s, head first
          status   \* status[p]: pcb_t.status, or "NONE" before sched_new

vars == <<queue, status>>

TypeOK ==
    /\ queue \in [Status -> Seq(Pcb)]
    /\ status \in [Pcb -> Status \cup {"NONE", "FREED"}]

Init ==
    /\ queue = [s \in Status |-> <<>>]
    /\ status = [p \in Pcb |-> "NONE"]

Transition(p, from, to) ==
    /\ status[p] = from
    /\ queue' = Move(queue, p, from, to)
    /\ status' = [status EXCEPT ![p] = to]

New(p) ==
    /\ status[p] = "NONE"
    /\ queue' = [queue EXCEPT !["NEW"] = Push(@, p)]
    /\ status' = [status EXCEPT ![p] = "NEW"]

Mature(p)  == Transition(p, "NEW", "READY")
Allow(p)   == Transition(p, "READY", "RUNNING")
Block(p)   == Transition(p, "RUNNING", "WAIT")
Preempt(p) == Transition(p, "RUNNING", "READY")
Wake(p)    == Transition(p, "WAIT", "READY")
Finish(p)  == Transition(p, "RUNNING", "ZOMBIE")
Kill(p)    == \E s \in {"NEW", "READY", "RUNNING", "WAIT"} : Transition(p, s, "ABORT")

\* sched_free only unlinks; that the PCB is dead is recorded in the status
\* of this abstract specification alone.
Free(p) ==
    /\ status[p] = "ZOMBIE"
    /\ queue' = [queue EXCEPT !["ZOMBIE"] = Pop(@, p)]
    /\ status' = [status EXCEPT ![p] = "FREED"]

Next ==
    \E p \in Pcb :
        \/ New(p) \/ Mature(p) \/ Allow(p) \/ Block(p) \/ Preempt(p)
        \/ Wake(p) \/ Finish(p) \/ Kill(p) \/ Free(p)

Spec == Init /\ [][Next]_vars

-----------------------------------------------------------------------------
\* report.tex:74: "Each queue contains all processes with the same status".
\* Every queue holds exactly the PCBs that carry its status, each of them once.
StatusMatchesQueue ==
    \A s \in Status :
        /\ Contents(queue[s]) = {p \in Pcb : status[p] = s}
        /\ NoDuplicates(queue[s])
=============================================================================
