---------------------------- MODULE PageAllocator ---------------------------
(***************************************************************************)
(* What the physical page allocator promises its callers: a set of free    *)
(* frames, from which a request takes a run of contiguous frames whenever  *)
(* there is one, and to which callers return frames they hold.             *)
(* PagesManage, the free list of kern/mm/pages_manage.c, implements it.    *)
(***************************************************************************)
EXTENDS Naturals

CONSTANTS PoolLo, PoolHi   \* the frames PoolLo..PoolHi-1 are managed

VARIABLES free,      \* the frames that no caller holds
          request,   \* the frames a pending request asks for, 0 without one
          hung       \* a request could not be met: the kernel stops (while (1))

vars == <<free, request, hung>>

Frames == PoolLo..(PoolHi - 1)

Init == free = Frames /\ request = 0 /\ hung = FALSE

\* n contiguous frames from a.
Run(a, n) == a..(a + n - 1)

Request ==
    /\ request = 0
    /\ \E n \in 1..(PoolHi - PoolLo + 1) : request' = n
    /\ UNCHANGED <<free, hung>>

Alloc ==
    /\ request # 0 /\ ~hung
    /\ \E a \in Frames : Run(a, request) \subseteq free /\ free' = free \ Run(a, request)
    /\ request' = 0
    /\ UNCHANGED hung

\* Memory is exhausted only when no run of free frames is long enough.
Exhaust ==
    /\ request # 0 /\ ~hung
    /\ \A a \in Frames : ~(Run(a, request) \subseteq free)
    /\ hung' = TRUE
    /\ UNCHANGED <<free, request>>

Free ==
    /\ request = 0
    /\ \E a \in Frames, n \in 1..(PoolHi - PoolLo) :
          /\ Run(a, n) \subseteq Frames \ free
          /\ free' = free \cup Run(a, n)
    /\ UNCHANGED <<request, hung>>

Next == Request \/ Alloc \/ Exhaust \/ Free

Spec == Init /\ [][Next]_vars
=============================================================================
