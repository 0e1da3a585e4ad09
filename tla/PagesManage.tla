----------------------------- MODULE PagesManage ----------------------------
(***************************************************************************)
(* kern/mm/pages_manage.c: the first-fit allocator of physical pages.      *)
(* The free list is threaded through the free memory itself: the first     *)
(* words of every free area are its free_area_t {next, size}.  The list is *)
(* searched one area per step, and each call ends in one step that does    *)
(* all it writes.                                                          *)
(*                                                                         *)
(* The unit is the frame of 4096 bytes: requests that are not a multiple   *)
(* of it are refused before anything is touched (lines 29-34 and 70-74)    *)
(* and no caller makes one.  An address is a frame number, physical and    *)
(* virtual ones being the same up to the constant of P2V and V2P.          *)
(***************************************************************************)
EXTENDS Naturals

CONSTANTS PoolLo, PoolHi   \* the pool is the frames PoolLo..PoolHi-1

ASSUME PoolAssumption ==
    /\ PoolLo \in Nat /\ PoolHi \in Nat
    /\ 0 < PoolLo /\ PoolLo < PoolHi

NULL == 0
Frames == PoolLo..(PoolHi - 1)
Pointer == Frames \cup {NULL}

VARIABLES
    farea_head,     \* the first free area
    next, size,     \* free_area_t, by the address of the area
    pc,             \* "idle", "alloc" or "free" (searching), "hang"
    last, cur,      \* the two pointers of the search; cur is the code's next
    st, need,       \* the area to free, or the size to allocate, in frames
    nodes,          \* history: the addresses of the areas on the list
    owned           \* history: the frames that callers hold

memory == <<farea_head, next, size>>
call == <<pc, last, cur, st, need>>
vars == <<farea_head, next, size, pc, last, cur, st, need, nodes, owned>>

TypeOK ==
    /\ farea_head \in Pointer
    /\ next \in [Frames -> Pointer]
    /\ size \in [Frames -> Nat]
    /\ pc \in {"idle", "alloc", "free", "hang"}
    /\ last \in Pointer
    /\ cur \in Pointer
    /\ st \in Frames
    /\ need \in Nat
    /\ nodes \in SUBSET Frames
    /\ owned \in SUBSET Frames

\* init_pspace: pages_free of the whole pool into an empty list.
Init ==
    /\ farea_head = PoolLo
    /\ next = [a \in Frames |-> NULL]
    /\ size = [a \in Frames |-> IF a = PoolLo THEN PoolHi - PoolLo ELSE 0]
    /\ pc = "idle"
    /\ last = NULL
    /\ cur = NULL
    /\ st = PoolLo
    /\ need = 0
    /\ nodes = {PoolLo}
    /\ owned = {}

\* The frames of n pages from a.
Run(a, n) == a..(a + n - 1)

\* The locals of a call die with it.
Return ==
    /\ pc' = "idle"
    /\ last' = NULL
    /\ cur' = NULL
    /\ st' = PoolLo
    /\ need' = 0

-----------------------------------------------------------------------------
(* pages_alloc.                                                            *)

AllocCall ==
    /\ pc = "idle"
    /\ \E n \in 1..(PoolHi - PoolLo + 1) : need' = n
    /\ pc' = "alloc"
    /\ last' = NULL
    /\ cur' = farea_head
    /\ UNCHANGED <<memory, st, nodes, owned>>

AllocSearch ==
    /\ pc = "alloc" /\ cur # NULL /\ need > size[cur]
    /\ last' = cur
    /\ cur' = next[cur]
    /\ UNCHANGED <<memory, pc, st, need, nodes, owned>>

AllocHang ==
    /\ pc = "alloc" /\ cur = NULL
    /\ pc' = "hang"
    /\ UNCHANGED <<memory, last, cur, st, need, nodes, owned>>

\* Mutant of SplitSize: one frame of the rest is lost.
SplitShort == [size EXCEPT ![cur] = need, ![cur + need] = size[cur] - need - 1]

\* Mutant of SplitNext: the rest is linked back to the area it was cut from.
SplitCycle == [next EXCEPT ![cur] = cur + need, ![cur + need] = cur]

\* pages_split: the area q behind the first need frames gets the rest.
SplitSize == [size EXCEPT ![cur] = need, ![cur + need] = size[cur] - need]
SplitNext == [next EXCEPT ![cur] = cur + need, ![cur + need] = next[cur]]

\* Mutant of Unlink: the head of the list is not moved.
UnlinkInner(nx) ==
    /\ next' = IF last # NULL THEN [nx EXCEPT ![last] = nx[cur]] ELSE nx
    /\ UNCHANGED farea_head

\* Unlink cur from a list whose pointers are nx.
Unlink(nx) ==
    /\ next' = IF last # NULL THEN [nx EXCEPT ![last] = nx[cur]] ELSE nx
    /\ farea_head' = IF cur = farea_head THEN nx[cur] ELSE farea_head

AllocTake ==
    /\ pc = "alloc" /\ cur # NULL /\ need <= size[cur]
    /\ IF need < size[cur]
       THEN /\ size' = SplitSize
            /\ Unlink(SplitNext)
            /\ nodes' = (nodes \ {cur}) \cup {cur + need}
       ELSE /\ UNCHANGED size
            /\ Unlink(next)
            /\ nodes' = nodes \ {cur}
    /\ owned' = owned \cup Run(cur, need)
    /\ Return

-----------------------------------------------------------------------------
(* pages_free, of frames that the caller holds.                            *)

FreeCall ==
    /\ pc = "idle"
    /\ \E a \in Frames, n \in 1..(PoolHi - PoolLo) :
          /\ Run(a, n) \subseteq owned
          /\ st' = a
          /\ need' = n
    /\ pc' = "free"
    /\ last' = NULL
    /\ cur' = farea_head
    /\ UNCHANGED <<memory, nodes, owned>>

FreeSearch ==
    /\ pc = "free" /\ cur # NULL /\ cur < st
    /\ last' = cur
    /\ cur' = next[cur]
    /\ UNCHANGED <<memory, pc, st, need, nodes, owned>>

\* Mutant of MergesLast: the area before is never extended.
MergesNever == FALSE

\* The freed area continues the one before it, or reaches the one behind it.
MergesLast == last # NULL /\ last + size[last] = st
MergesNext == cur # NULL /\ st + need = cur

FreeLink ==
    /\ pc = "free" /\ (cur = NULL \/ cur >= st)
    /\ LET temp == IF MergesLast THEN last ELSE st
           after == IF MergesNext THEN next[cur] ELSE cur
           whole == (IF MergesLast THEN size[last] + need ELSE need)
                        + (IF MergesNext THEN size[cur] ELSE 0)
       IN  /\ size' = [size EXCEPT ![st] = need, ![temp] = whole]
           /\ next' = IF last # NULL
                      THEN [next EXCEPT ![st] = cur, ![last] = st, ![temp] = after]
                      ELSE [next EXCEPT ![st] = after]
           /\ farea_head' = IF last = NULL THEN st ELSE farea_head
           /\ nodes' = (nodes \cup {temp}) \ (IF MergesNext THEN {cur} ELSE {})
    /\ owned' = owned \ Run(st, need)
    /\ Return

-----------------------------------------------------------------------------
Next == AllocCall \/ AllocSearch \/ AllocHang \/ AllocTake
            \/ FreeCall \/ FreeSearch \/ FreeLink

Spec == Init /\ [][Next]_vars

\* The search of a call goes on: it is plain sequential code.
FairSpec == Spec /\ WF_vars(AllocSearch \/ AllocHang \/ AllocTake \/ FreeSearch \/ FreeLink)

-----------------------------------------------------------------------------
(* Safety.                                                                 *)

Area(a) == Run(a, size[a])

\* b follows a on the list: no other area lies between them.
Follows(a, b) ==
    IF b = NULL
    THEN \A c \in nodes : c <= a
    ELSE b \in nodes /\ a < b /\ \A c \in nodes : c <= a \/ b <= c

\* The pointers thread the areas in the order of their addresses, from
\* farea_head on, without a cycle or a lost area (pages_manage.c:51-52, 75-91).
ListSorted ==
    /\ IF farea_head = NULL THEN nodes = {}
       ELSE farea_head \in nodes /\ \A c \in nodes : farea_head <= c
    /\ \A a \in nodes : Follows(a, next[a])

\* Every area is a non-empty run of frames inside the pool, and two areas
\* neither overlap nor touch: touching ones were merged (lines 82-92).  This
\* is what makes first fit find a long enough run whenever one exists.
AreasCoalesced ==
    /\ \A a \in nodes : size[a] > 0 /\ a + size[a] <= PoolHi
    /\ \A a, b \in nodes : a < b => a + size[a] < b

\* The list is threaded by address, and what it threads is merged: the order
\* the merging of neighbours relies on, and the result of it.
FreeListOrdered == ListSorted /\ AreasCoalesced

\* No frame is lost and none is both free and held by a caller.
FramesAccounted ==
    \A f \in Frames : f \in owned <=> ~ \E a \in nodes : f \in Area(a)

\* Where a search stands: cur is the head of the list or follows last, what
\* it passed is too small or lies before st, and the area being freed is held.
SearchOK ==
    /\ pc \in {"alloc", "free"} =>
          /\ IF last = NULL THEN cur = farea_head
             ELSE last \in nodes /\ cur = next[last]
          /\ need > 0
    /\ pc = "alloc" => \A a \in nodes : (cur = NULL \/ a < cur) => size[a] < need
    /\ pc = "free" => Run(st, need) \subseteq owned /\ (last # NULL => last < st)

\* The inductive invariant.
IInv == TypeOK /\ ListSorted /\ AreasCoalesced /\ FramesAccounted /\ SearchOK

-----------------------------------------------------------------------------
(* Refinement: the free list implements the set of free frames.            *)

FreeFrames == {f \in Frames : \E a \in nodes : f \in Area(a)}

\* What a pending pages_alloc asks for.
Request == IF pc \in {"alloc", "hang"} THEN need ELSE 0

Allocator == INSTANCE PageAllocator
    WITH free <- FreeFrames, request <- Request, hung <- (pc = "hang")

\* pages_alloc and pages_free do to the set of free frames what their callers
\* are promised; in particular no request hangs the kernel while a long enough
\* run of frames is free.
ImplementsAllocator == Allocator!Spec

\* Every call returns or hangs: the searches end, which a cycle made by a
\* wrong link would prevent.
CallsEnd == (pc \in {"alloc", "free"}) ~> (pc \in {"idle", "hang"})
=============================================================================
