------------------------------ MODULE QueueOps ------------------------------
(***************************************************************************)
(* The process queues of kern/sched/policy_rr.c as values: one FIFO of     *)
(* PCBs for each process status, and what queue_push, queue_pop and the    *)
(* searches do to them.  Pop removes the FIRST occurrence and leaves a     *)
(* queue that does not hold the task alone, as the loop of queue_pop does; *)
(* it is written without recursion so that it can be proved about.         *)
(***************************************************************************)
EXTENDS Naturals, Sequences

\* proc_status_t, pcb.h; also the names of the six queues.
Status == {"NEW", "READY", "RUNNING", "WAIT", "ZOMBIE", "ABORT"}

Contents(q) == {q[i] : i \in DOMAIN q}

Holds(q, task) == \E i \in DOMAIN q : q[i] = task

FirstIndex(q, task) ==
    CHOOSE i \in DOMAIN q : q[i] = task /\ \A j \in 1..(i - 1) : q[j] # task

\* Mutant of Push: a last-in first-out queue.
PushFront(q, task) == <<task>> \o q

\* queue_push: a fresh element at the tail.
Push(q, task) == Append(q, task)

\* queue_pop: unlink the first element that points at task.
Pop(q, task) ==
    IF Holds(q, task)
    THEN LET k == FirstIndex(q, task)
         IN  [i \in 1..(Len(q) - 1) |-> IF i < k THEN q[i] ELSE q[i + 1]]
    ELSE q

\* Mutant of Move: the task is not taken out of the queue it leaves.
MoveNoPop(queue, task, from, to) == [queue EXCEPT ![to] = Push(@, task)]

\* Every transition of the life cycle is a pop and then a push.
Move(queue, task, from, to) ==
    LET popped == [queue EXCEPT ![from] = Pop(@, task)]
    IN  [popped EXCEPT ![to] = Push(@, task)]

\* No PCB is queued twice in q.
NoDuplicates(q) == \A i, j \in DOMAIN q : q[i] = q[j] => i = j
=============================================================================
