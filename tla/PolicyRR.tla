------------------------------ MODULE PolicyRR ------------------------------
(***************************************************************************)
(* kern/sched/policy_rr.c as it is written: six queue_t {head, tail} of    *)
(* linked queue_element_t {pcb, next}, the two list routines and the nine  *)
(* operations of the policy interface.                                     *)
(*                                                                         *)
(* External: slb_alloc hands out an element that no queue reaches.  The    *)
(* slb_free of queue_pop leaves the words of the element as they were.     *)
(***************************************************************************)
EXTENDS QueueOps, FiniteSets

CONSTANTS Pcb,       \* the PCBs that callers pass to the interface
          Element,   \* addresses slb_alloc(sizeof(queue_element_t)) may return
          NULL

ASSUME NullIsNobody == NULL \notin Pcb \cup Element
ASSUME EnoughElements ==
    /\ IsFiniteSet(Pcb) /\ IsFiniteSet(Element)
    /\ Cardinality(Element) >= Cardinality(Pcb) + 1

VARIABLES head, tail,   \* queue_t, one for each status
          pcb, next,    \* queue_element_t, by address
          task_status,  \* pcb_t.status, or "NONE" before sched_new
          freed         \* PCBs passed to sched_free

lists == <<head, tail, pcb, next>>
policy_vars == <<head, tail, pcb, next, task_status, freed>>

Pointer == Element \cup {NULL}

PolicyTypeOK ==
    /\ head \in [Status -> Pointer]
    /\ tail \in [Status -> Pointer]
    /\ pcb \in [Element -> Pcb \cup {NULL}]
    /\ next \in [Element -> Pointer]
    /\ task_status \in [Pcb -> Status \cup {"NONE"}]
    /\ freed \in SUBSET Pcb

\* init_rr (never called: the queues are zero-initialised statics).
PolicyInit ==
    /\ head = [s \in Status |-> NULL]
    /\ tail = [s \in Status |-> NULL]
    /\ pcb = [e \in Element |-> NULL]
    /\ next = [e \in Element |-> NULL]
    /\ task_status = [p \in Pcb |-> "NONE"]
    /\ freed = {}

-----------------------------------------------------------------------------
\* A state of the lists as one value, so that an operation can pop and then push.
Lists == [head |-> head, tail |-> tail, pcb |-> pcb, next |-> next]

\* The elements met when following next from e: at most one for each address.
Walk(l, e) ==
    LET from[n \in 0..Cardinality(Element)] ==
            IF n = 0 THEN e
            ELSE IF from[n - 1] = NULL THEN NULL ELSE l.next[from[n - 1]]
        steps == {n \in 0..Cardinality(Element) : from[n] # NULL}
    IN  [i \in 1..Cardinality(steps) |-> from[i - 1]]

Live(l) == UNION {Contents(Walk(l, l.head[s])) : s \in Status}

QueuePush(l, q, task) ==
    LET e == CHOOSE x \in Element : x \notin Live(l)
        filled == [l EXCEPT !.pcb[e] = task, !.next[e] = NULL]
    IN  IF l.head[q] = NULL
        THEN [filled EXCEPT !.head[q] = e, !.tail[q] = e]
        ELSE [filled EXCEPT !.next[l.tail[q]] = e, !.tail[q] = e]

\* Mutants of NewHead and NewTail: the unlinked element is taken for the
\* first, and tail is not moved back.
HeadAlwaysNext(l, q, task, p) == l.next[p]
TailKept(l, q, task, last) == l.tail[q]

\* head and tail are compared through their PCBs, as in the code.
NewHead(l, q, task, p) == IF l.pcb[l.head[q]] = task THEN l.next[p] ELSE l.head[q]
NewTail(l, q, task, last) == IF l.pcb[l.tail[q]] = task THEN last ELSE l.tail[q]

\* The loop stops at the first element p whose pcb is task; last is the one
\* before it.
QueuePop(l, q, task) ==
    LET w == Walk(l, l.head[q])
        hits == {i \in DOMAIN w : l.pcb[w[i]] = task}
        k == CHOOSE i \in hits : \A j \in hits : i <= j
        p == w[k]
        last == IF k = 1 THEN NULL ELSE w[k - 1]
    IN  IF hits = {} THEN l
        ELSE [l EXCEPT !.head[q] = NewHead(l, q, task, p),
                       !.tail[q] = NewTail(l, q, task, last),
                       !.next = IF last # NULL THEN [@ EXCEPT ![last] = l.next[p]] ELSE @]

SetLists(l) ==
    /\ head' = l.head
    /\ tail' = l.tail
    /\ pcb' = l.pcb
    /\ next' = l.next

PopPush(task, from, to) == SetLists(QueuePush(QueuePop(Lists, from, task), to, task))

SetStatus(task, s) == task_status' = [task_status EXCEPT ![task] = s]

-----------------------------------------------------------------------------
\* The interface.  The first conjunct of each is the caller's obligation.
sched_new(task) ==
    /\ task_status[task] = "NONE"
    /\ SetLists(QueuePush(Lists, "NEW", task))
    /\ SetStatus(task, "NEW")
    /\ UNCHANGED freed

sched_mature(task) ==
    /\ task_status[task] = "NEW"
    /\ PopPush(task, "NEW", "READY")
    /\ SetStatus(task, "READY")
    /\ UNCHANGED freed

sched_allow(task) ==
    /\ task_status[task] = "READY"
    /\ PopPush(task, "READY", "RUNNING")
    /\ SetStatus(task, "RUNNING")
    /\ UNCHANGED freed

sched_block(task) ==
    /\ task_status[task] = "RUNNING"
    /\ PopPush(task, "RUNNING", "WAIT")
    /\ SetStatus(task, "WAIT")
    /\ UNCHANGED freed

sched_preempt(task) ==
    /\ task_status[task] = "RUNNING"
    /\ PopPush(task, "RUNNING", "READY")
    /\ SetStatus(task, "READY")
    /\ UNCHANGED freed

sched_wake(task) ==
    /\ task_status[task] = "WAIT"
    /\ PopPush(task, "WAIT", "READY")
    /\ SetStatus(task, "READY")
    /\ UNCHANGED freed

sched_finish(task) ==
    /\ task_status[task] = "RUNNING"
    /\ PopPush(task, "RUNNING", "ZOMBIE")
    /\ SetStatus(task, "ZOMBIE")
    /\ UNCHANGED freed

\* The switch of sched_kill: a zombie or aborted task would not be unlinked.
sched_kill(task) ==
    /\ task_status[task] \in {"NEW", "READY", "RUNNING", "WAIT"}
    /\ PopPush(task, task_status[task], "ABORT")
    /\ SetStatus(task, "ABORT")
    /\ UNCHANGED freed

\* sched_free leaves status at ZOMBIE: only the queue forgets the task.
sched_free(task) ==
    /\ task_status[task] = "ZOMBIE" /\ task \notin freed
    /\ SetLists(QueuePop(Lists, "ZOMBIE", task))
    /\ freed' = freed \cup {task}
    /\ UNCHANGED task_status

PolicyNext ==
    \E task \in Pcb :
        \/ sched_new(task) \/ sched_mature(task) \/ sched_allow(task)
        \/ sched_block(task) \/ sched_preempt(task) \/ sched_wake(task)
        \/ sched_finish(task) \/ sched_kill(task) \/ sched_free(task)

PolicySpec == PolicyInit /\ [][PolicyNext]_policy_vars

-----------------------------------------------------------------------------
\* The lists stay lists: no element is on two queues, and tail is the last
\* element that head reaches (or both are NULL), so that the next queue_push
\* (policy_rr.c:52-58) links its element where queue_pop will look for it.
ListsWellFormed ==
    /\ \A s \in Status :
          LET w == Walk(Lists, head[s])
          IN  /\ NoDuplicates(w)
              /\ tail[s] = IF w = <<>> THEN NULL ELSE w[Len(w)]
    /\ \A s, t \in Status :
          s # t => Contents(Walk(Lists, head[s])) \cap Contents(Walk(Lists, head[t])) = {}

\* The linked lists implement the FIFOs of the policy's contract: every
\* operation of policy_rr.c maps to the operation of policy_rr.h it is named for.
AbstractQueue ==
    [s \in Status |->
        LET w == Walk(Lists, head[s]) IN [i \in DOMAIN w |-> pcb[w[i]]]]

AbstractStatus == [p \in Pcb |-> IF p \in freed THEN "FREED" ELSE task_status[p]]

Policy == INSTANCE RunQueues WITH queue <- AbstractQueue, status <- AbstractStatus

ImplementsPolicy == Policy!Spec

\* Seen through the lists, every queue holds exactly the PCBs of its status.
ListsMatchStatus == Policy!StatusMatchesQueue

\* The lists, their ends and the statuses agree after every transition: what is
\* pushed to the middle, unlinked at an end or the only element of a queue.
ListsConsistent == PolicyTypeOK /\ ListsWellFormed /\ ListsMatchStatus
=============================================================================
