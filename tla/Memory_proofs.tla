---------------------------- MODULE Memory_proofs ---------------------------
(***************************************************************************)
(* Proofs about the memory of the kernel.  The page allocator, for every   *)
(* pool: its free list stays sorted and coalesced and accounts for every   *)
(* frame, and it implements PageAllocator.  The slab, for every page size, *)
(* number of pages and set of requests: no two pieces of memory in use     *)
(* overlap, an object has one owner, and the counts are exact.             *)
(***************************************************************************)
EXTENDS PagesManage, Slab, FiniteSetTheorems, SequenceTheorems, WellFoundedInduction, TLAPS

LEMMA InitIInv == Init => IInv
<1> SUFFICES ASSUME Init PROVE IInv
  OBVIOUS
<1> USE PoolAssumption DEF Init
<1>1. TypeOK
  BY DEF TypeOK, Pointer, Frames, NULL
<1>2. ListSorted
  BY DEF ListSorted, Follows, Frames, NULL
<1>3. AreasCoalesced
  BY DEF AreasCoalesced, Frames
<1>4. FramesAccounted
  BY DEF FramesAccounted, Area, Run, Frames
<1>5. SearchOK
  BY DEF SearchOK
<1> QED
  BY <1>1, <1>2, <1>3, <1>4, <1>5 DEF IInv

\* A call starts, or its search moves on by one area.
LEMMA SearchSteps ==
  ASSUME IInv, AllocCall \/ AllocSearch \/ AllocHang \/ FreeCall \/ FreeSearch
  PROVE  IInv'
<1> USE PoolAssumption
<1>1. UNCHANGED <<farea_head, next, size, nodes, owned>>
  BY DEF AllocCall, AllocSearch, AllocHang, FreeCall, FreeSearch, memory
<1>2. TypeOK'
  <2> USE DEF IInv, TypeOK, memory, Pointer
  <2>1. CASE AllocCall
    BY <2>1 DEF AllocCall
  <2>2. CASE AllocSearch
    BY <2>2 DEF AllocSearch
  <2>3. CASE AllocHang
    BY <2>3 DEF AllocHang
  <2>4. CASE FreeCall
    BY <2>4 DEF FreeCall
  <2>5. CASE FreeSearch
    BY <2>5 DEF FreeSearch
  <2> QED
    BY <2>1, <2>2, <2>3, <2>4, <2>5
<1>3. ListSorted' /\ AreasCoalesced' /\ FramesAccounted'
  BY <1>1 DEF IInv, ListSorted, AreasCoalesced, FramesAccounted, Follows, Area, Run
<1>4. SearchOK'
  <2>1. CASE AllocCall
    <3>1. need' > 0 /\ pc' = "alloc" /\ last' = NULL /\ cur' = farea_head
      BY <2>1 DEF AllocCall
    <3>2. \A a \in nodes : cur' # NULL /\ ~(a < cur')
      BY <3>1 DEF IInv, ListSorted, TypeOK, Frames, Pointer, NULL
    <3> QED
      BY <1>1, <3>1, <3>2 DEF SearchOK
  <2>2. CASE AllocSearch
    <3>1. cur \in nodes
      BY <2>2 DEF AllocSearch, IInv, SearchOK, ListSorted, Follows, TypeOK, Frames, NULL
    <3>2. \A a \in nodes : (cur' = NULL \/ a < cur') => a <= cur
      BY <2>2, <3>1 DEF AllocSearch, IInv, ListSorted, Follows, TypeOK, Frames, NULL
    <3> QED
      BY <1>1, <2>2, <3>1, <3>2 DEF AllocSearch, IInv, SearchOK, TypeOK, Frames, NULL, Pointer
  <2>3. CASE AllocHang
    BY <2>3 DEF AllocHang, SearchOK
  <2>4. CASE FreeCall
    BY <1>1, <2>4 DEF FreeCall, IInv, SearchOK, TypeOK, Run, NULL
  <2>5. CASE FreeSearch
    <3>1. cur \in nodes
      BY <2>5 DEF FreeSearch, IInv, SearchOK, ListSorted, Follows, TypeOK, Frames, NULL
    <3> QED
      BY <1>1, <2>5, <3>1 DEF FreeSearch, IInv, SearchOK, Run
  <2> QED
    BY <2>1, <2>2, <2>3, <2>4, <2>5
<1> QED
  BY <1>2, <1>3, <1>4 DEF IInv

\* What a search that stopped at cur knows of the list around it.
LEMMA AtCur ==
  ASSUME IInv, pc \in {"alloc", "free"}
  PROVE  /\ cur # NULL => cur \in nodes
         /\ last = NULL <=> cur = farea_head
         /\ last # NULL => last \in nodes /\ next[last] = cur
         /\ \A a \in nodes : \/ last # NULL /\ a <= last
                             \/ cur # NULL /\ cur <= a
         /\ last # NULL /\ cur # NULL => last < cur /\ last + size[last] < cur
<1> USE PoolAssumption
<1>1. /\ last = NULL => cur = farea_head
      /\ last # NULL => last \in nodes /\ next[last] = cur
  BY DEF IInv, SearchOK
<1>2. cur # NULL => cur \in nodes
  BY <1>1 DEF IInv, ListSorted, Follows
<1>3. \A a \in nodes : \/ last # NULL /\ a <= last
                       \/ cur # NULL /\ cur <= a
  BY <1>1, <1>2 DEF IInv, ListSorted, Follows, TypeOK, Frames
<1>4. last # NULL /\ cur # NULL => last < cur /\ last + size[last] < cur
  <2> SUFFICES ASSUME last # NULL, cur # NULL PROVE last < cur /\ last + size[last] < cur
    OBVIOUS
  <2>1. last < cur
    BY <1>1, <1>2 DEF IInv, ListSorted, Follows
  <2> QED
    BY <1>1, <1>2, <2>1 DEF IInv, AreasCoalesced
<1>5. last # NULL => cur # farea_head
  <2> SUFFICES ASSUME last # NULL, cur = farea_head PROVE FALSE
    OBVIOUS
  <2>1. farea_head \in nodes /\ farea_head <= last
    BY <1>1 DEF IInv, ListSorted
  <2>2. cur # NULL /\ last < cur
    BY <1>4, <2>1 DEF IInv, TypeOK, Frames, NULL
  <2> QED
    BY <1>1, <2>1, <2>2 DEF IInv, TypeOK, Frames
<1> QED
  BY <1>1, <1>2, <1>3, <1>4, <1>5

\* The types of what is on the list, and what the list says of two areas.
LEMMA OnList ==
  ASSUME IInv
  PROVE  /\ NULL \notin Frames /\ PoolLo \in Frames /\ Frames \subseteq Nat
         /\ nodes \subseteq Frames
         /\ \A a \in Frames : a \in Nat /\ size[a] \in Nat /\ next[a] \in Pointer
         /\ \A a \in nodes : size[a] > 0 /\ a + size[a] <= PoolHi
         /\ \A a, b \in nodes : a < b => a + size[a] < b
         /\ \A a \in nodes : Follows(a, next[a])
         /\ IF farea_head = NULL THEN nodes = {}
            ELSE farea_head \in nodes /\ \A c \in nodes : farea_head <= c
BY PoolAssumption DEF IInv, TypeOK, ListSorted, AreasCoalesced, Frames, NULL

LEMMA TakeWhole ==
  ASSUME IInv, AllocTake, need = size[cur]
  PROVE  IInv'
<1> USE PoolAssumption, OnList
<1> DEFINE N == nodes \ {cur}
<1>1. /\ cur \in nodes /\ need \in Nat /\ need > 0
      /\ last = NULL <=> cur = farea_head
      /\ last # NULL => last \in nodes /\ next[last] = cur /\ last < cur
      /\ \A a \in nodes : a # cur => (last # NULL /\ a <= last) \/ cur < a
  <2>1. pc \in {"alloc", "free"} /\ cur # NULL
    BY DEF AllocTake
  <2>2. need \in Nat /\ need > 0
    BY <2>1 DEF AllocTake, IInv, TypeOK, SearchOK
  <2> QED
    BY <2>1, <2>2, AtCur
<1>2. /\ size' = size /\ nodes' = N /\ owned' = owned \cup Run(cur, need)
      /\ next' = IF last # NULL THEN [next EXCEPT ![last] = next[cur]] ELSE next
      /\ farea_head' = IF cur = farea_head THEN next[cur] ELSE farea_head
      /\ pc' = "idle" /\ last' = NULL /\ cur' = NULL /\ st' = PoolLo /\ need' = 0
  BY <1>1 DEF AllocTake, Unlink, Return
<1>3. TypeOK'
  <2>1. Run(cur, need) \subseteq Frames
    BY <1>1, need = size[cur] DEF Run, Frames
  <2>2. next' \in [Frames -> Pointer] /\ farea_head' \in Pointer
    BY <1>1, <1>2 DEF IInv, TypeOK
  <2> QED
    BY <1>1, <1>2, <2>1, <2>2, PoolLo \in Frames DEF IInv, TypeOK, Pointer
<1>4. ListSorted'
  <2>1. Follows(cur, next[cur])
    BY <1>1
  <2>2. IF farea_head' = NULL THEN N = {}
        ELSE farea_head' \in N /\ \A b \in N : farea_head' <= b
    BY <1>1, <1>2, <2>1 DEF Follows
  <2>3. ASSUME NEW a \in N PROVE Follows(a, next[a])'
    <3>1. CASE a = last
      <4>1. last # NULL /\ last < cur
        BY <1>1, <3>1
      <4>2. next'[a] = next[cur]
        BY <1>1, <1>2, <3>1, <4>1 DEF IInv, TypeOK
      <4>3. \A b \in N : b <= last \/ cur < b
        BY <1>1
      <4> QED
        BY <1>1, <1>2, <2>1, <3>1, <4>1, <4>2, <4>3 DEF Follows
    <3>2. CASE a # last
      <4>1. next'[a] = next[a] /\ Follows(a, next[a])
        BY <1>1, <1>2, <3>2 DEF IInv, TypeOK
      <4>2. next[a] # cur
        <5> SUFFICES ASSUME next[a] = cur PROVE FALSE
          OBVIOUS
        <5>1. a < cur /\ \A b \in nodes : b <= a \/ cur <= b
          BY <1>1, <4>1 DEF Follows
        <5>2. last # NULL /\ a <= last /\ last < cur
          BY <1>1, <5>1
        <5> QED
          BY <1>1, <3>2, <5>1, <5>2
      <4> QED
        BY <1>1, <1>2, <4>1, <4>2 DEF Follows
    <3> QED
      BY <3>1, <3>2
  <2> QED
    BY <1>2, <2>2, <2>3 DEF ListSorted
<1>5. AreasCoalesced'
  BY <1>2 DEF AreasCoalesced
<1>6. FramesAccounted'
  <2> SUFFICES ASSUME NEW f \in Frames
               PROVE  f \in owned' <=> ~ \E a \in nodes' : f \in a..(a + size'[a] - 1)
    BY DEF FramesAccounted, Area, Run
  <2>1. f \in owned <=> ~ \E a \in nodes : f \in a..(a + size[a] - 1)
    BY DEF IInv, FramesAccounted, Area, Run
  <2>2. f \in owned' <=> f \in owned \/ f \in cur..(cur + size[cur] - 1)
    BY <1>2, need = size[cur] DEF Run
  <2>3. \A a \in N : a + size[a] < cur \/ cur + size[cur] < a
    BY <1>1
  <2>4. ASSUME NEW a \in N, f \in a..(a + size[a] - 1), f \in cur..(cur + size[cur] - 1)
        PROVE  FALSE
    <3>1. a \in Nat /\ cur \in Nat /\ f \in Nat /\ size[a] \in Nat /\ size[cur] \in Nat
      BY <1>1
    <3>2. a <= f /\ f < a + size[a] /\ cur <= f /\ f < cur + size[cur]
      BY <2>4, <3>1
    <3> QED
      BY <2>3, <3>1, <3>2
  <2> QED
    BY <1>1, <1>2, <2>1, <2>2, <2>4
<1>7. SearchOK'
  BY <1>2 DEF SearchOK
<1> QED
  BY <1>3, <1>4, <1>5, <1>6, <1>7 DEF IInv

LEMMA TakeSplit ==
  ASSUME IInv, AllocTake, need < size[cur]
  PROVE  IInv'
<1> USE PoolAssumption, OnList
<1> DEFINE N == nodes \ {cur}
           q == cur + need
<1>1. /\ cur \in nodes /\ need \in Nat /\ need > 0
      /\ last = NULL <=> cur = farea_head
      /\ last # NULL => last \in nodes /\ next[last] = cur /\ last < cur
      /\ \A a \in nodes : a # cur => (last # NULL /\ a <= last) \/ cur < a
  <2>1. pc \in {"alloc", "free"} /\ cur # NULL
    BY DEF AllocTake
  <2>2. need \in Nat /\ need > 0
    BY <2>1 DEF AllocTake, IInv, TypeOK, SearchOK
  <2> QED
    BY <2>1, <2>2, AtCur
<1>2. /\ q \in Frames /\ cur < q /\ q < cur + size[cur]
      /\ size[cur] \in Nat /\ size[cur] - need \in Nat /\ size[cur] - need > 0
      /\ q + (size[cur] - need) = cur + size[cur]
  BY <1>1 DEF Frames
<1>3. \A a \in N : \/ a < cur /\ a + size[a] < cur
                   \/ q < a /\ cur + size[cur] < a
  BY <1>1, <1>2
<1>4. /\ nodes' = N \cup {q} /\ owned' = owned \cup Run(cur, need)
      /\ farea_head' = IF cur = farea_head THEN q ELSE farea_head
      /\ pc' = "idle" /\ last' = NULL /\ cur' = NULL /\ st' = PoolLo /\ need' = 0
      /\ size' = SplitSize
      /\ next' = IF last # NULL THEN [SplitNext EXCEPT ![last] = SplitNext[cur]]
                 ELSE SplitNext
      /\ SplitNext[cur] = q
  BY <1>1, <1>2 DEF AllocTake, Unlink, Return, SplitNext, IInv, TypeOK
<1>5. /\ size' \in [Frames -> Nat] /\ size'[q] = size[cur] - need
      /\ \A a \in N : size'[a] = size[a]
  BY <1>1, <1>2, <1>3, <1>4 DEF SplitSize, IInv, TypeOK
<1>6. /\ SplitNext \in [Frames -> Pointer] /\ SplitNext[q] = next[cur]
      /\ \A a \in N : SplitNext[a] = next[a]
  BY <1>1, <1>2, <1>3 DEF SplitNext, IInv, TypeOK, Pointer
<1>7. /\ next' \in [Frames -> Pointer] /\ next'[q] = next[cur]
      /\ \A a \in N : next'[a] = IF a = last THEN q ELSE next[a]
  <2>1. CASE last = NULL
    BY <1>1, <1>4, <1>6, <2>1
  <2>2. CASE last # NULL
    <3>1. next' = [SplitNext EXCEPT ![last] = q]
      BY <1>4, <2>2
    <3>2. last \in Frames /\ last # q /\ q \in Pointer
      BY <1>1, <1>2, <2>2 DEF Pointer
    <3> QED
      BY <1>6, <3>1, <3>2
  <2> QED
    BY <2>1, <2>2
<1>8. TypeOK'
  <2>1. Run(cur, need) \subseteq Frames
    BY <1>1, <1>2 DEF Run, Frames
  <2> QED
    BY <1>1, <1>2, <1>4, <1>5, <1>7, <2>1, PoolLo \in Frames DEF IInv, TypeOK, Pointer
<1>9. ListSorted'
  <2>1. Follows(cur, next[cur])
    BY <1>1
  <2>2. farea_head' # NULL /\ farea_head' \in N \cup {q}
        /\ \A b \in N \cup {q} : farea_head' <= b
    BY <1>1, <1>2, <1>3, <1>4
  <2>3. ASSUME NEW a \in Frames, a = q PROVE Follows(a, next[a])'
    <3>1. CASE next[cur] = NULL
      <4>1. \A b \in nodes : b <= cur
        BY <2>1, <3>1 DEF Follows
      <4>2. \A b \in N \cup {q} : b <= q
        BY <1>1, <1>2, <4>1
      <4> QED
        BY <1>4, <1>7, <2>3, <3>1, <4>2 DEF Follows
    <3>2. CASE next[cur] # NULL
      <4>1. next[cur] \in nodes /\ cur < next[cur] /\ \A b \in nodes : b <= cur \/ next[cur] <= b
        BY <2>1, <3>2 DEF Follows
      <4>2. next[cur] \in N /\ q < next[cur] /\ \A b \in N \cup {q} : b <= q \/ next[cur] <= b
        BY <1>1, <1>2, <1>3, <4>1
      <4> QED
        BY <1>4, <1>7, <2>3, <3>2, <4>2 DEF Follows
    <3> QED
      BY <3>1, <3>2
  <2>4. ASSUME NEW a \in N PROVE Follows(a, next[a])'
    <3>1. CASE a = last
      <4>1. last # NULL /\ last < cur /\ next'[a] = q
        BY <1>1, <1>7, <3>1
      <4>2. \A b \in N : b <= last \/ q <= b
        BY <1>1, <1>3
      <4> QED
        BY <1>1, <1>2, <1>4, <3>1, <4>1, <4>2 DEF Follows
    <3>2. CASE a # last
      <4>1. next'[a] = next[a] /\ Follows(a, next[a])
        BY <1>7, <3>2
      <4>2. next[a] # cur
        <5> SUFFICES ASSUME next[a] = cur PROVE FALSE
          OBVIOUS
        <5>1. a < cur /\ \A b \in nodes : b <= a \/ cur <= b
          BY <1>1, <4>1 DEF Follows
        <5>2. last # NULL /\ a <= last /\ last < cur
          BY <1>1, <5>1
        <5> QED
          BY <1>1, <3>2, <5>1, <5>2
      <4>3. next[a] # NULL => next[a] \in N /\ a < next[a] /\ \A b \in N : b <= a \/ next[a] <= b
        BY <4>1, <4>2 DEF Follows
      <4>4. next[a] # NULL => q <= a \/ next[a] <= q
        <5>1. a < cur \/ q < a
          BY <1>3
        <5>2. CASE next[a] # NULL /\ a < cur
          <6>1. next[a] <= cur
            BY <1>1, <4>1, <5>2 DEF Follows
          <6> QED
            BY <1>1, <1>2, <4>3, <5>2, <6>1
        <5> QED
          BY <1>1, <1>2, <5>1, <5>2
      <4>5. next[a] = NULL => \A b \in N \cup {q} : b <= a
        BY <1>1, <1>2, <1>3, <4>1 DEF Follows
      <4> QED
        BY <1>4, <4>1, <4>3, <4>4, <4>5 DEF Follows
    <3> QED
      BY <3>1, <3>2
  <2> QED
    BY <1>2, <1>4, <2>2, <2>3, <2>4 DEF ListSorted
<1>10. AreasCoalesced'
  <2>1. \A a \in N \cup {q} : size'[a] > 0 /\ a + size'[a] <= PoolHi
    BY <1>1, <1>2, <1>5
  <2>2. \A a, b \in N \cup {q} : a < b => a + size'[a] < b
    BY <1>1, <1>2, <1>3, <1>5
  <2> QED
    BY <1>4, <2>1, <2>2 DEF AreasCoalesced
<1>11. FramesAccounted'
  <2> SUFFICES ASSUME NEW f \in Frames
               PROVE  f \in owned' <=> ~ \E a \in nodes' : f \in a..(a + size'[a] - 1)
    BY DEF FramesAccounted, Area, Run
  <2>1. f \in owned <=> ~ \E a \in nodes : f \in a..(a + size[a] - 1)
    BY DEF IInv, FramesAccounted, Area, Run
  <2>2. f \in owned' <=> f \in owned \/ (cur <= f /\ f < q)
    BY <1>1, <1>2, <1>4 DEF Run
  <2>3. f \in q..(q + size'[q] - 1) <=> q <= f /\ f < cur + size[cur]
    BY <1>1, <1>2, <1>5
  <2>4. f \in cur..(cur + size[cur] - 1) <=> cur <= f /\ f < cur + size[cur]
    BY <1>1, <1>2
  <2>5. ASSUME NEW a \in N, f \in a..(a + size[a] - 1), cur <= f, f < cur + size[cur]
        PROVE  FALSE
    <3>1. a \in Nat /\ cur \in Nat /\ f \in Nat /\ size[a] \in Nat /\ size[cur] \in Nat
      BY <1>1
    <3>2. a <= f /\ f < a + size[a]
      BY <2>5, <3>1
    <3> QED
      BY <1>2, <1>3, <2>5, <3>1, <3>2
  <2> QED
    BY <1>1, <1>2, <1>4, <1>5, <2>1, <2>2, <2>3, <2>4, <2>5
<1>12. SearchOK'
  BY <1>4 DEF SearchOK
<1> QED
  BY <1>8, <1>9, <1>10, <1>11, <1>12 DEF IInv

\* The frames being freed lie between last and cur and overlap no area.
LEMMA FreeGap ==
  ASSUME IInv, FreeLink
  PROVE  /\ st \in Frames /\ need \in Nat /\ need > 0
         /\ Run(st, need) \subseteq owned /\ st + need <= PoolHi
         /\ last # NULL => last < st /\ last + size[last] <= st
         /\ cur # NULL => st + need <= cur
         /\ \A a \in nodes : (a < st /\ a + size[a] <= st) \/ st + need <= a
<1> USE PoolAssumption
<1>1. /\ cur # NULL => cur \in nodes
      /\ last # NULL => last \in nodes
  BY AtCur DEF FreeLink
<1>2. /\ st \in Frames /\ need \in Nat /\ need > 0 /\ Run(st, need) \subseteq owned
      /\ last # NULL => last < st
  BY DEF FreeLink, IInv, TypeOK, SearchOK
<1>3. st \in Nat /\ st + need <= PoolHi
  <2>1. st \in Nat /\ st + need - 1 \in Run(st, need)
    BY <1>2 DEF Run, Frames
  <2>2. st + need - 1 \in Frames
    BY <1>2, <2>1 DEF IInv, TypeOK
  <2> QED
    BY <1>2, <2>1, <2>2 DEF Frames
<1>4. ASSUME NEW a \in nodes
      PROVE  (a < st /\ a + size[a] <= st) \/ st + need <= a
  <2>1. a \in Frames /\ a \in Nat /\ size[a] \in Nat /\ size[a] > 0
    BY OnList
  <2>2. \A f \in Run(st, need) : ~(f \in Area(a))
    BY <1>2 DEF IInv, FramesAccounted, TypeOK
  <2>3. \A f \in Nat : st <= f /\ f < st + need => ~(a <= f /\ f < a + size[a])
    BY <1>2, <1>3, <2>1, <2>2 DEF Run, Area
  <2>4. CASE a < st
    <3>1. ~(a <= st /\ st < a + size[a])
      BY <1>2, <1>3, <2>3
    <3> QED
      BY <1>3, <2>1, <2>4, <3>1
  <2>5. CASE st <= a
    <3>1. ~(a < st + need)
      BY <1>2, <1>3, <2>1, <2>3, <2>5
    <3> QED
      BY <1>2, <1>3, <2>1, <3>1
  <2> QED
    BY <1>3, <2>1, <2>4, <2>5
<1>5. cur # NULL => st + need <= cur
  <2> SUFFICES ASSUME cur # NULL PROVE st + need <= cur
    OBVIOUS
  <2>1. cur >= st /\ cur \in nodes
    BY <1>1 DEF FreeLink
  <2>2. cur \in Nat
    BY <2>1, OnList
  <2> QED
    BY <1>3, <1>4, <2>1, <2>2
<1>6. last # NULL => last + size[last] <= st
  <2> SUFFICES ASSUME last # NULL PROVE last + size[last] <= st
    OBVIOUS
  <2>1. last \in nodes /\ last < st
    BY <1>1, <1>2
  <2>2. last \in Nat
    BY <2>1, OnList
  <2> QED
    BY <1>2, <1>3, <1>4, <2>1, <2>2
<1> QED
  BY <1>2, <1>3, <1>4, <1>5, <1>6

LEMMA LinkPreserves ==
  ASSUME IInv, FreeLink
  PROVE  IInv'
<1> DEFINE t == IF MergesLast THEN last ELSE st
           after == IF MergesNext THEN next[cur] ELSE cur
           whole == (IF MergesLast THEN size[last] + need ELSE need)
                        + (IF MergesNext THEN size[cur] ELSE 0)
           K == nodes \ ((IF MergesLast THEN {last} ELSE {})
                            \cup (IF MergesNext THEN {cur} ELSE {}))
<1>1. /\ cur # NULL => cur \in nodes
      /\ last = NULL <=> cur = farea_head
      /\ last # NULL => last \in nodes /\ next[last] = cur
      /\ \A a \in nodes : (last # NULL /\ a <= last) \/ (cur # NULL /\ cur <= a)
      /\ last # NULL /\ cur # NULL => last < cur
  BY AtCur DEF FreeLink
<1>2. /\ st \in Frames /\ need \in Nat /\ need > 0
      /\ Run(st, need) \subseteq owned /\ st + need <= PoolHi
      /\ last # NULL => last < st /\ last + size[last] <= st
      /\ cur # NULL => st + need <= cur
      /\ \A a \in nodes : (a < st /\ a + size[a] <= st) \/ st + need <= a
  BY FreeGap
<1>3. /\ NULL \notin Frames /\ PoolHi \in Nat /\ st \in Nat
      /\ nodes \subseteq Frames /\ Frames \subseteq Nat
      /\ \A a \in nodes : a \in Nat /\ size[a] \in Nat /\ size[a] > 0 /\ a + size[a] <= PoolHi
      /\ \A a, b \in nodes : a < b => a + size[a] < b
      /\ last # NULL => last \in Nat /\ size[last] \in Nat /\ size[last] > 0
      /\ cur # NULL => cur \in Nat /\ size[cur] \in Nat /\ size[cur] > 0 /\ cur + size[cur] <= PoolHi
  <2>1. /\ NULL \notin Frames /\ nodes \subseteq Frames /\ Frames \subseteq Nat
        /\ \A a \in Frames : a \in Nat /\ size[a] \in Nat /\ next[a] \in Pointer
        /\ \A a \in nodes : size[a] > 0 /\ a + size[a] <= PoolHi
        /\ \A a, b \in nodes : a < b => a + size[a] < b
    BY OnList
  <2> QED
    BY <1>1, <1>2, <2>1, PoolAssumption
<1>4. /\ MergesLast => last # NULL /\ last + size[last] = st
      /\ ~MergesLast /\ last # NULL => last + size[last] < st
      /\ MergesNext => cur # NULL /\ st + need = cur
      /\ ~MergesNext /\ cur # NULL => st + need < cur
  BY <1>2, <1>3 DEF MergesLast, MergesNext
<1>5. /\ MergesLast => t = last /\ last \notin K
      /\ ~MergesLast => t = st
      /\ MergesNext => after = next[cur] /\ cur \notin K
      /\ ~MergesNext => after = cur
      /\ K \subseteq nodes
      /\ \A a \in nodes : a \in K \/ (MergesLast /\ a = last) \/ (MergesNext /\ a = cur)
      /\ t \in Frames /\ t \in Nat
  BY <1>1, <1>2, <1>3, <1>4
<1>6. /\ whole \in Nat /\ whole > 0 /\ t + whole <= PoolHi
      /\ t + whole = IF MergesNext THEN cur + size[cur] ELSE st + need
  <2>1. CASE MergesLast /\ MergesNext
    BY <1>2, <1>3, <1>4, <2>1
  <2>2. CASE MergesLast /\ ~MergesNext
    BY <1>2, <1>3, <1>4, <2>2
  <2>3. CASE ~MergesLast /\ MergesNext
    BY <1>2, <1>3, <1>4, <2>3
  <2>4. CASE ~MergesLast /\ ~MergesNext
    BY <1>2, <1>3, <1>4, <2>4
  <2> QED
    BY <2>1, <2>2, <2>3, <2>4
<1>7. /\ size' = [size EXCEPT ![st] = need, ![t] = whole]
      /\ next' = IF last # NULL
                 THEN [next EXCEPT ![st] = cur, ![last] = st, ![t] = after]
                 ELSE [next EXCEPT ![st] = after]
      /\ nodes' = (nodes \cup {t}) \ (IF MergesNext THEN {cur} ELSE {})
      /\ owned' = owned \ Run(st, need)
      /\ farea_head' = IF last = NULL THEN st ELSE farea_head
      /\ pc' = "idle" /\ last' = NULL /\ cur' = NULL /\ st' = PoolLo /\ need' = 0
  BY DEF FreeLink, Return
<1> HIDE DEF t, after, whole, K
\* The merged area is apart from the areas that stay.
<1>8. /\ nodes' = K \cup {t} /\ st \notin K /\ t \notin K
      /\ \A a \in K : (a < t /\ a + size[a] < t) \/ t + whole < a
  <2>1. ASSUME NEW a \in K
        PROVE  (a < t /\ a + size[a] < t) \/ t + whole < a
    <3>1. a \in nodes /\ a \in Nat /\ size[a] \in Nat
      BY <1>3, <1>5
    <3>2. CASE a < st /\ a + size[a] <= st
      <4>1. last # NULL /\ a <= last
        BY <1>1, <1>2, <1>3, <3>1, <3>2
      <4>2. CASE MergesLast
        BY <1>1, <1>3, <1>5, <3>1, <4>1, <4>2
      <4>3. CASE ~MergesLast
        <5>1. last < st /\ last + size[last] < st /\ t = st /\ last \in nodes
          BY <1>1, <1>2, <1>4, <1>5, <4>1, <4>3
        <5>2. a + size[a] < st
          BY <1>3, <3>1, <4>1, <5>1
        <5> QED
          BY <3>2, <5>1, <5>2
      <4> QED
        BY <4>2, <4>3
    <3>3. CASE st + need <= a
      <4>1. cur # NULL /\ cur <= a
        BY <1>1, <1>2, <1>3, <3>1, <3>3
      <4>2. CASE MergesNext
        BY <1>1, <1>3, <1>5, <1>6, <3>1, <4>1, <4>2
      <4>3. CASE ~MergesNext
        BY <1>2, <1>3, <1>4, <1>6, <3>1, <4>1, <4>3
      <4> QED
        BY <4>2, <4>3
    <3> QED
      BY <1>2, <3>1, <3>2, <3>3
  <2>2. t \notin K
    BY <1>3, <1>5, <1>6, <2>1
  <2>3. st \notin K
    BY <1>2, <1>3, <1>5
  <2>4. cur # NULL => t # cur
    BY <1>1, <1>2, <1>3, <1>5
  <2>5. MergesLast => last \in nodes
    BY <1>1, <1>4
  <2>6. nodes' = K \cup {t}
    <3>1. CASE MergesNext
      BY <1>4, <1>5, <1>7, <2>4, <2>5, <3>1
    <3>2. CASE ~MergesNext
      BY <1>5, <1>7, <2>5, <3>2
    <3> QED
      BY <3>1, <3>2
  <2> QED
    BY <2>1, <2>2, <2>3, <2>6
<1>9. /\ size' \in [Frames -> Nat] /\ size'[t] = whole
      /\ \A a \in K : size'[a] = size[a]
  BY <1>2, <1>3, <1>5, <1>6, <1>7, <1>8 DEF IInv, TypeOK
\* What follows the merged area.
<1>10. /\ after \in K \cup {NULL}
       /\ after = NULL => \A a \in K : a < t
       /\ after # NULL => t < after /\ \A a \in K : a < t \/ after <= a
  <2>1. CASE MergesNext
    <3>1. cur \in nodes /\ Follows(cur, next[cur]) /\ after = next[cur] /\ t < cur
      BY <1>1, <1>2, <1>3, <1>4, <1>5, <2>1 DEF IInv, ListSorted
    <3>2. ASSUME NEW a \in K PROVE a < t \/ cur < a
      <4>1. a \in Nat /\ cur \in Nat /\ size[cur] \in Nat /\ t + whole = cur + size[cur]
        BY <1>3, <1>5, <1>6, <2>1, <3>1
      <4> QED
        BY <1>5, <1>8, <4>1
    <3>3. CASE after = NULL
      <4>1. \A a \in nodes : a <= cur
        BY <3>1, <3>3 DEF Follows
      <4>2. ASSUME NEW a \in K PROVE a < t
        <5>1. a \in Nat /\ cur \in Nat /\ a <= cur
          BY <1>3, <1>5, <3>1, <4>1
        <5> QED
          BY <3>2, <5>1
      <4> QED
        BY <3>3, <4>2
    <3>4. CASE after # NULL
      <4>1. after \in nodes /\ cur < after /\ \A a \in nodes : a <= cur \/ after <= a
        BY <3>1, <3>4 DEF Follows
      <4>2. after # last /\ after # cur
        BY <1>1, <1>3, <3>1, <4>1
      <4> QED
        BY <1>3, <1>5, <3>1, <3>2, <4>1, <4>2
    <3> QED
      BY <3>3, <3>4
  <2>2. CASE ~MergesNext
    <3>1. after = cur
      BY <1>5, <2>2
    <3>2. ASSUME NEW a \in K PROVE a < t \/ (cur # NULL /\ cur <= a)
      <4>1. a \in nodes /\ a \in Nat
        BY <1>3, <1>5
      <4>2. a < t \/ t + whole < a
        BY <1>8
      <4>3. CASE t + whole < a
        BY <1>1, <1>2, <1>3, <1>6, <2>2, <4>1, <4>3
      <4> QED
        BY <4>2, <4>3
    <3>3. cur # NULL => cur \in K /\ t < cur
      BY <1>1, <1>2, <1>3, <1>5, <2>2
    <3>4. after # NULL => t < after /\ \A a \in K : a < t \/ after <= a
      BY <3>1, <3>2, <3>3
    <3> QED
      BY <3>1, <3>2, <3>3, <3>4
  <2> QED
    BY <2>1, <2>2
<1>11. /\ next' \in [Frames -> Pointer] /\ next'[t] = after
       /\ \A a \in K : next'[a] = IF a = last THEN t ELSE next[a]
  <2>1. next \in [Frames -> Pointer] /\ after \in Pointer /\ cur \in Pointer /\ st \in Pointer
    BY <1>2, <1>3, <1>5, <1>10 DEF IInv, TypeOK, Pointer
  <2>2. CASE last = NULL
    <3>1. t = st /\ NULL \notin K /\ next' = [next EXCEPT ![st] = after]
      BY <1>3, <1>4, <1>5, <1>7, <2>2
    <3> QED
      BY <1>2, <1>8, <2>1, <2>2, <3>1
  <2>3. CASE last # NULL
    <3>1. last \in Frames /\ last # st /\ st \in Frames
      BY <1>1, <1>2, <1>3, <2>3
    <3>2. next' = [next EXCEPT ![st] = cur, ![last] = st, ![t] = after]
      BY <1>7, <2>3
    <3>3. next' \in [Frames -> Pointer] /\ next'[t] = after
      BY <1>5, <2>1, <3>1, <3>2
    <3>4. ASSUME NEW a \in K PROVE next'[a] = IF a = last THEN t ELSE next[a]
      <4>1. a \in Frames /\ a # st /\ a # t
        BY <1>3, <1>5, <1>8
      <4>2. a = last => t = st
        BY <1>5
      <4> QED
        BY <2>1, <3>1, <3>2, <4>1, <4>2
    <3> QED
      BY <3>3, <3>4
  <2> QED
    BY <2>2, <2>3
<1>12. TypeOK'
  <2>1. st \in Pointer /\ PoolLo \in Frames /\ nodes' \subseteq Frames
    BY <1>2, <1>3, <1>5, <1>8, OnList DEF Pointer
  <2> QED
    BY <1>7, <1>9, <1>11, <2>1 DEF IInv, TypeOK, Pointer
<1>13. AreasCoalesced'
  <2>1. \A a \in K \cup {t} : size'[a] > 0 /\ a + size'[a] <= PoolHi
    BY <1>3, <1>5, <1>6, <1>9
  <2>2. ASSUME NEW a \in K \cup {t}, NEW b \in K \cup {t}, a < b
        PROVE  a + size'[a] < b
    <3>1. CASE a = t
      BY <1>3, <1>5, <1>6, <1>8, <1>9, <2>2, <3>1
    <3>2. CASE a \in K /\ b = t
      <4>1. a \in Nat /\ size[a] \in Nat /\ size'[a] = size[a]
        BY <1>3, <1>5, <1>9, <3>2
      <4> QED
        BY <1>5, <1>6, <1>8, <2>2, <3>2, <4>1
    <3>3. CASE a \in K /\ b \in K
      BY <1>3, <1>5, <1>9, <2>2, <3>3
    <3> QED
      BY <3>1, <3>2, <3>3
  <2> QED
    BY <1>8, <2>1, <2>2 DEF AreasCoalesced
<1>14. ListSorted'
  <2>1. /\ farea_head' # NULL /\ farea_head' \in K \cup {t}
        /\ \A b \in K \cup {t} : farea_head' <= b
    <3>1. CASE last = NULL
      <4>1. farea_head' = t /\ t = st /\ t # NULL
        BY <1>3, <1>4, <1>5, <1>7, <3>1
      <4>2. ASSUME NEW b \in K PROVE t <= b
        <5>1. b \in Nat /\ b \in nodes /\ cur # NULL /\ cur <= b
          BY <1>1, <1>3, <1>5, <3>1
        <5> QED
          BY <1>2, <1>3, <4>1, <5>1
      <4> QED
        BY <1>5, <4>1, <4>2
    <3>2. CASE last # NULL
      <4>1. /\ farea_head' = farea_head /\ farea_head \in nodes /\ farea_head \in Nat
            /\ farea_head # NULL /\ \A c \in nodes : farea_head <= c
        BY <1>1, <1>3, <1>7, <3>2 DEF IInv, ListSorted
      <4>2. farea_head <= last /\ last <= t
        BY <1>1, <1>2, <1>3, <1>5, <3>2, <4>1
      <4>3. farea_head # cur
        BY <1>1, <3>2
      <4> QED
        BY <1>3, <1>5, <3>2, <4>1, <4>2, <4>3
    <3> QED
      BY <3>1, <3>2
  <2>2. ASSUME NEW a \in Frames, a = t PROVE Follows(a, next[a])'
    <3>1. CASE after = NULL
      <4>1. \A b \in K \cup {t} : b <= a
        BY <1>3, <1>5, <1>10, <2>2, <3>1
      <4> QED
        BY <1>8, <1>11, <2>2, <3>1, <4>1 DEF Follows
    <3>2. CASE after # NULL
      <4>1. after \in K /\ a < after /\ \A b \in K \cup {t} : b <= a \/ after <= b
        BY <1>3, <1>5, <1>10, <2>2, <3>2
      <4> QED
        BY <1>8, <1>11, <2>2, <3>2, <4>1 DEF Follows
    <3> QED
      BY <3>1, <3>2
  <2>3. ASSUME NEW a \in K PROVE Follows(a, next[a])'
    <3>1. a \in nodes /\ a \in Nat /\ Follows(a, next[a])
      BY <1>3, <1>5 DEF IInv, ListSorted
    <3>2. CASE a = last
      <4>1. last # NULL /\ t = st /\ a < t /\ next'[a] = t /\ t # NULL
        BY <1>2, <1>3, <1>5, <1>11, <3>1, <3>2
      <4>2. ASSUME NEW b \in K PROVE b <= a \/ t <= b
        <5>1. b \in nodes /\ b \in Nat
          BY <1>3, <1>5
        <5>2. b <= last \/ (cur # NULL /\ cur <= b)
          BY <1>1, <5>1
        <5> QED
          BY <1>2, <1>3, <3>2, <4>1, <5>1, <5>2
      <4> QED
        BY <1>5, <1>8, <4>1, <4>2 DEF Follows
    <3>3. CASE a # last
      <4>1. next'[a] = next[a]
        BY <1>11, <3>3
      <4>2. CASE next[a] = NULL
        <5>1. \A b \in nodes : b <= a
          BY <3>1, <4>2 DEF Follows
        <5>2. t <= a
          <6>1. cur # NULL /\ cur <= a
            BY <1>1, <1>3, <3>1, <3>3, <5>1
          <6> QED
            BY <1>2, <1>3, <1>5, <3>1, <6>1
        <5> QED
          BY <1>5, <1>8, <4>1, <4>2, <5>1, <5>2 DEF Follows
      <4>3. CASE next[a] # NULL
        <5>1. next[a] \in nodes /\ a < next[a] /\ \A b \in nodes : b <= a \/ next[a] <= b
          BY <3>1, <4>3 DEF Follows
        <5>2. next[a] \in Nat
          BY <1>3, <5>1
        <5>3. next[a] <= t \/ t <= a
          <6>1. CASE last # NULL /\ a <= last
            <7>1. last \in nodes /\ last \in Nat /\ a < last
              BY <1>1, <1>3, <3>1, <3>3, <6>1
            <7>2. last <= a \/ next[a] <= last
              BY <5>1, <7>1
            <7> QED
              BY <1>2, <1>3, <1>5, <3>1, <5>2, <7>1, <7>2
          <6>2. CASE cur # NULL /\ cur <= a
            BY <1>2, <1>3, <1>5, <3>1, <6>2
          <6> QED
            BY <1>1, <3>1, <6>1, <6>2
        <5>4. MergesNext => next[a] # cur
          <6> SUFFICES ASSUME MergesNext, next[a] = cur PROVE FALSE
            OBVIOUS
          <6>1. last # NULL /\ a <= last /\ last < cur
            BY <1>1, <1>3, <3>1, <4>3, <5>1
          <6>2. last \in nodes /\ last \in Nat /\ cur \in Nat /\ a < last
            <7>1. cur \in Nat
              BY <1>3, <4>3
            <7>2. last \in nodes /\ last \in Nat /\ a # last
              BY <1>1, <1>3, <3>3, <6>1
            <7> QED
              BY <3>1, <6>1, <7>1, <7>2
          <6>3. last <= a \/ cur <= last
            BY <5>1, <6>2
          <6> QED
            BY <3>1, <6>1, <6>2, <6>3
        <5>5. next[a] \in K \cup {t}
          BY <1>5, <5>1, <5>4
        <5> QED
          BY <1>5, <1>8, <4>1, <4>3, <5>1, <5>3, <5>5 DEF Follows
      <4> QED
        BY <4>2, <4>3
    <3> QED
      BY <3>2, <3>3
  <2> QED
    BY <1>5, <1>8, <2>1, <2>2, <2>3 DEF ListSorted
<1>15. FramesAccounted'
  <2> SUFFICES ASSUME NEW f \in Frames
               PROVE  f \in owned' <=> ~ \E a \in nodes' : f \in a..(a + size'[a] - 1)
    BY DEF FramesAccounted, Area, Run
  <2> f \in Nat
    BY <1>3
  <2>1. f \in owned <=> ~ \E a \in nodes : f \in a..(a + size[a] - 1)
    BY DEF IInv, FramesAccounted, Area, Run
  <2>2. f \in owned' <=> f \in owned /\ ~(st <= f /\ f < st + need)
    BY <1>2, <1>3, <1>7 DEF Run
  <2>3. st <= f /\ f < st + need => f \in owned
    BY <1>2, <1>3 DEF Run
  <2>4. f \in t..(t + size'[t] - 1) <=> t <= f /\ f < t + whole
    BY <1>5, <1>6, <1>9
  <2>5. (\E a \in nodes' : f \in a..(a + size'[a] - 1))
           <=> \/ \E a \in K : f \in a..(a + size[a] - 1)
               \/ t <= f /\ f < t + whole
    BY <1>8, <1>9, <2>4
  <2>6. (\E a \in nodes : f \in a..(a + size[a] - 1))
           <=> \/ \E a \in K : f \in a..(a + size[a] - 1)
               \/ MergesLast /\ last <= f /\ f < st
               \/ MergesNext /\ st + need <= f /\ f < t + whole
    <3>1. MergesLast => last \in nodes /\ (f \in last..(last + size[last] - 1) <=> last <= f /\ f < st)
      BY <1>1, <1>2, <1>3, <1>4
    <3>2. MergesNext => cur \in nodes /\ (f \in cur..(cur + size[cur] - 1) <=> st + need <= f /\ f < t + whole)
      BY <1>1, <1>2, <1>3, <1>4, <1>6
    <3> QED
      BY <1>5, <3>1, <3>2
  <2>7. t <= f /\ f < t + whole <=> \/ MergesLast /\ last <= f /\ f < st
                                    \/ st <= f /\ f < st + need
                                    \/ MergesNext /\ st + need <= f /\ f < t + whole
    <3>1. CASE MergesLast
      BY <1>2, <1>3, <1>4, <1>5, <1>6, <3>1
    <3>2. CASE ~MergesLast
      BY <1>2, <1>3, <1>4, <1>5, <1>6, <3>2
    <3> QED
      BY <3>1, <3>2
  <2> QED
    BY <2>1, <2>2, <2>3, <2>5, <2>6, <2>7
<1>16. SearchOK'
  BY <1>7 DEF SearchOK
<1> QED
  BY <1>12, <1>13, <1>14, <1>15, <1>16 DEF IInv

LEMMA NextIInv == IInv /\ [Next]_vars => IInv'
<1> SUFFICES ASSUME IInv, [Next]_vars PROVE IInv'
  OBVIOUS
<1>1. CASE AllocCall \/ AllocSearch \/ AllocHang \/ FreeCall \/ FreeSearch
  BY <1>1, SearchSteps
<1>2. CASE AllocTake
  <2>1. need <= size[cur] /\ need \in Nat /\ size[cur] \in Nat
    <3>1. cur \in Frames
      BY <1>2 DEF AllocTake, IInv, TypeOK, Pointer
    <3> QED
      BY <1>2, <3>1 DEF AllocTake, IInv, TypeOK
  <2> QED
    BY <1>2, <2>1, TakeWhole, TakeSplit
<1>3. CASE FreeLink
  BY <1>3, LinkPreserves
<1>4. CASE UNCHANGED vars
  <2>1. TypeOK'
    BY <1>4 DEF vars, IInv, TypeOK
  <2>2. ListSorted' /\ AreasCoalesced' /\ FramesAccounted'
    BY <1>4 DEF vars, IInv, ListSorted, Follows, AreasCoalesced, FramesAccounted, Area, Run
  <2>3. SearchOK'
    BY <1>4 DEF vars, IInv, SearchOK, Run
  <2> QED
    BY <2>1, <2>2, <2>3 DEF IInv
<1> QED
  BY <1>1, <1>2, <1>3, <1>4 DEF Next

\* Whatever is allocated and freed in whatever order, the free list keeps its
\* order, its areas stay inside the pool and merged, and every frame is either
\* free or held by a caller (pages_manage.c:20-111).
THEOREM Invariance == Spec => []IInv
<1> QED
  BY InitIInv, NextIInv, PTL DEF Spec

\* The list that pages_alloc and pages_free leave is sorted by address, and
\* its areas neither overlap nor touch nor leave the pool.
THEOREM Ordered == Spec => []FreeListOrdered
<1>1. IInv => FreeListOrdered
  BY DEF IInv, FreeListOrdered
<1> QED
  BY <1>1, Invariance, PTL

\* No frame is lost, and none is handed out while it is free or free while held.
THEOREM Accounted == Spec => []FramesAccounted
<1>1. IInv => FramesAccounted
  BY DEF IInv
<1> QED
  BY <1>1, Invariance, PTL

-----------------------------------------------------------------------------
(* Refinement.                                                             *)

LEMMA InitRefines == Init => Allocator!Init
<1> USE PoolAssumption
<1> SUFFICES ASSUME Init PROVE Allocator!Init
  OBVIOUS
<1>1. ASSUME NEW f \in Frames PROVE f \in Area(PoolLo) /\ PoolLo \in nodes
  BY DEF Init, Area, Run, Frames
<1>2. FreeFrames = Frames
  BY <1>1 DEF FreeFrames
<1>3. (pc = "hang") = FALSE /\ Request = 0
  BY DEF Init, Request
<1> QED
  BY <1>2, <1>3 DEF Allocator!Init, Allocator!Frames, Frames

\* The free frames are the ones nobody holds.
LEMMA FreeIsUnowned ==
  /\ IInv => FreeFrames = Frames \ owned
  /\ IInv' => FreeFrames' = Frames \ owned'
BY DEF IInv, TypeOK, FramesAccounted, FreeFrames, Frames

\* A run of free frames lies in one area, for areas do not touch: when every
\* area is shorter than the request, no run is long enough.
LEMMA RunInOneArea ==
  ASSUME IInv, need \in Nat, \A x \in nodes : size[x] < need,
         NEW a \in Frames, need > 0, Run(a, need) \subseteq FreeFrames
  PROVE  FALSE
<1>1. a \in Nat /\ a \in Run(a, need)
  BY OnList DEF Run
<1>2. PICK x \in nodes : a \in Area(x)
  BY <1>1 DEF FreeFrames
<1>3. /\ x \in Nat /\ size[x] \in Nat /\ size[x] < need
      /\ x <= a /\ a < x + size[x]
  <2>1. x \in Frames /\ x \in Nat /\ size[x] \in Nat /\ size[x] < need
    BY OnList
  <2> QED
    BY <1>1, <1>2, <2>1 DEF Area, Run
<1>4. x + size[x] \in Run(a, need)
  BY <1>1, <1>3 DEF Run
<1>5. PICK y \in nodes : x + size[x] \in Area(y)
  BY <1>4 DEF FreeFrames
<1>6. y \in Nat /\ size[y] \in Nat /\ y <= x + size[x] /\ x + size[x] < y + size[y]
  BY <1>3, <1>5, OnList DEF Area, Run
<1>7. (x < y => x + size[x] < y) /\ (y < x => y + size[y] < x)
  BY OnList
<1> QED
  BY <1>3, <1>6, <1>7

LEMMA StepRefines == IInv /\ [Next]_vars => [Allocator!Next]_(Allocator!vars)
<1> USE PoolAssumption
<1> SUFFICES ASSUME IInv, [Next]_vars PROVE [Allocator!Next]_(Allocator!vars)
  OBVIOUS
<1>1. IInv'
  BY NextIInv
<1>2. FreeFrames = Frames \ owned /\ FreeFrames' = Frames \ owned'
  BY <1>1, FreeIsUnowned
<1>3. CASE AllocSearch \/ FreeCall \/ FreeSearch \/ UNCHANGED vars
  <2>1. UNCHANGED owned /\ (pc' = "hang") = (pc = "hang") /\ UNCHANGED Request
    BY <1>3 DEF AllocSearch, FreeCall, FreeSearch, vars, Request
  <2> QED
    BY <1>2, <2>1 DEF Allocator!vars
<1>4. CASE AllocCall
  <2>1. UNCHANGED owned /\ (pc' = "hang") = (pc = "hang") /\ Request = 0
        /\ \E n \in 1..(PoolHi - PoolLo + 1) : Request' = n
    BY <1>4 DEF AllocCall, Request
  <2> QED
    BY <1>2, <2>1 DEF Allocator!Next, Allocator!Request
<1>5. CASE AllocHang
  <2>1. /\ need \in Nat /\ need > 0 /\ Request = need /\ Request' = need
        /\ \A x \in nodes : size[x] < need
        /\ UNCHANGED owned /\ (pc = "hang") = FALSE /\ (pc' = "hang") = TRUE
    BY <1>5 DEF AllocHang, IInv, TypeOK, SearchOK, Request
  <2>2. \A a \in Frames : ~(Run(a, need) \subseteq FreeFrames)
    BY <2>1, RunInOneArea
  <2>3. \A a \in Allocator!Frames : ~(Allocator!Run(a, Request) \subseteq FreeFrames)
    BY <2>1, <2>2 DEF Allocator!Frames, Allocator!Run, Frames, Run
  <2>4. Request # 0 /\ UNCHANGED <<FreeFrames, Request>>
    BY <1>2, <2>1
  <2> QED
    BY <2>1, <2>3, <2>4 DEF Allocator!Next, Allocator!Exhaust
<1>6. CASE AllocTake
  <2>1. /\ need \in Nat /\ need > 0 /\ Request = need /\ Request' = 0
        /\ cur \in nodes /\ need <= size[cur]
        /\ owned' = owned \cup Run(cur, need)
        /\ (pc = "hang") = FALSE /\ (pc' = "hang") = FALSE
    BY <1>6, AtCur DEF AllocTake, Return, IInv, TypeOK, SearchOK, Request
  <2>2. cur \in Frames /\ Run(cur, need) \subseteq FreeFrames
    BY <2>1, OnList DEF FreeFrames, Area, Run, Frames
  <2>3. FreeFrames' = FreeFrames \ Run(cur, need)
    BY <1>2, <2>1
  <2> QED
    BY <2>1, <2>2, <2>3
    DEF Allocator!Next, Allocator!Alloc, Allocator!Frames, Allocator!Run, Frames, Run
<1>7. CASE FreeLink
  <2>1. /\ st \in Frames /\ need \in 1..(PoolHi - PoolLo) /\ Run(st, need) \subseteq owned
        /\ Run(st, need) \subseteq Frames
    BY <1>7, FreeGap DEF Frames, Run
  <2>2. /\ owned' = owned \ Run(st, need) /\ Request = 0 /\ Request' = 0
        /\ (pc = "hang") = FALSE /\ (pc' = "hang") = FALSE
    BY <1>7 DEF FreeLink, Return, Request
  <2> DEFINE R == Run(st, need)
  <2> HIDE DEF R
  <2>3. FreeFrames' = FreeFrames \cup R /\ R \subseteq Frames \ FreeFrames
    <3>1. owned' = owned \ R /\ R \subseteq owned /\ R \subseteq Frames
      BY <2>1, <2>2 DEF R
    <3> QED
      BY <1>2, <3>1
  <2> QED
    BY <2>1, <2>2, <2>3
    DEF R, Allocator!Next, Allocator!Free, Allocator!Frames, Allocator!Run, Frames, Run
<1> QED
  BY <1>3, <1>4, <1>5, <1>6, <1>7 DEF Next

\* The free list implements the set of free frames: a request is met whenever
\* some run of free frames is long enough, however the pool was cut up before
\* (pages_manage.c:20-111), and hangs the kernel (line 38) only otherwise.
THEOREM Refinement == Spec => ImplementsAllocator
<1> QED
  BY InitRefines, StepRefines, Invariance, PTL DEF Spec, ImplementsAllocator, Allocator!Spec

-----------------------------------------------------------------------------
(* The slab: numbers.                                                      *)

LEMMA PowerNat ==
  ASSUME NEW k \in Nat
  PROVE  2^k \in Nat
<1>1. IsFiniteSet(1..k) /\ Cardinality(1..k) = k
  BY FS_Interval
<1>2. IsFiniteSet(SUBSET (1..k)) /\ Cardinality(SUBSET (1..k)) = 2^k
  BY <1>1, FS_SUBSET
<1> QED
  BY <1>2, FS_CardinalityType

LEMMA MultipleOf ==
  ASSUME NEW h \in Nat \ {0}, NEW a \in Int
  PROVE  (h * a) % h = 0
<1> DEFINE b == (h * a) \div h
           r == (h * a) % h
<1>1. b \in Int /\ r \in 0..h - 1 /\ h * a = h * b + r
  BY h * a \in Int
<1> SUFFICES r = 0
  OBVIOUS
<1> HIDE DEF b, r
<1>2. h * (a - b) = r
  BY <1>1
<1>3. CASE a - b >= 1
  <2>1. h * (a - b) >= h * 1
    BY <1>1, <1>3
  <2> QED
    BY <1>1, <1>2, <2>1
<1>4. CASE a - b <= -1
  <2>1. h * (a - b) <= h * (-1)
    BY <1>1, <1>4
  <2> QED
    BY <1>1, <1>2, <2>1
<1>5. CASE a = b
  BY <1>2, <1>5
<1> QED
  BY <1>1, <1>3, <1>4, <1>5

\* The next multiple.
LEMMA RoundUpFacts ==
  ASSUME NEW n \in Nat, NEW m \in Nat \ {0}
  PROVE  /\ RoundUp(n, m) \in Nat /\ RoundUp(n, m) >= n /\ RoundUp(n, m) < n + m
         /\ RoundUp(n, m) % m = 0
<1> DEFINE q == (n + m - 1) \div m
<1>1. q \in Int /\ (n + m - 1) % m \in 0..m - 1 /\ n + m - 1 = m * q + ((n + m - 1) % m)
  OBVIOUS
<1>2. m * q \in Int /\ q * m = m * q
  BY <1>1
<1>3. RoundUp(n, m) = m * q
  BY <1>2 DEF RoundUp
<1>4. (m * q) % m = 0
  BY <1>1, MultipleOf
<1> HIDE DEF q
<1> QED
  BY <1>1, <1>2, <1>3, <1>4

LEMMA QuotientOrder ==
  ASSUME NEW h \in Nat \ {0}, NEW c \in Nat, NEW d \in Nat, c <= d
  PROVE  c \div h <= d \div h /\ c \div h \in Nat
<1>1. /\ c \div h \in Int /\ d \div h \in Int /\ c % h \in 0..h - 1 /\ d % h \in 0..h - 1
      /\ c = h * (c \div h) + (c % h) /\ d = h * (d \div h) + (d % h)
  OBVIOUS
<1> DEFINE p == c \div h
           q == d \div h
<1> SUFFICES p <= q /\ p \in Nat
  OBVIOUS
<1> HIDE DEF p, q
<1>0. /\ p \in Int /\ q \in Int /\ h * p \in Int /\ h * q \in Int
      /\ h * p <= c /\ d < h * q + h /\ c < h * p + h
  BY <1>1 DEF p, q
<1>2. p <= q
  <2> SUFFICES ASSUME q + 1 <= p PROVE FALSE
    BY <1>0
  <2>1. h * (q + 1) <= h * p
    BY <1>0
  <2>2. h * (q + 1) = h * q + h
    BY <1>0
  <2> QED
    BY <1>0, <2>1, <2>2
<1>3. p \in Nat
  <2> SUFFICES ASSUME p + 1 <= 0 PROVE FALSE
    BY <1>0
  <2>1. h * (p + 1) <= h * 0
    BY <1>0
  <2>2. h * (p + 1) = h * p + h /\ h * 0 = 0
    BY <1>0
  <2> QED
    BY <1>0, <2>1, <2>2
<1> QED
  BY <1>2, <1>3

LEMMA PoolSizeFacts ==
  ASSUME NEW n \in Nat
  PROVE  /\ PoolSize(n) \in Nat /\ PoolSize(n) >= n + POOL_T + 10
<1>1. PoolObjs \in Nat \ {0} /\ PageSize \in Nat \ {0}
  BY PoolObjsAssumption, PageSizeAssumption
<1>2. n * PoolObjs \in Nat /\ n * PoolObjs >= n
  BY <1>1
<1> DEFINE t == n * PoolObjs + POOL_T + 10
<1>3. t \in Nat /\ t >= n + POOL_T + 10
  BY <1>2 DEF POOL_T
<1>4. PoolSize(n) = RoundUp(t, PageSize)
  BY DEF PoolSize
<1>5. n + POOL_T + 10 \in Nat
  BY DEF POOL_T
<1> HIDE DEF t
<1> QED
  BY <1>1, <1>3, <1>4, <1>5, RoundUpFacts

-----------------------------------------------------------------------------
(* How a pool is cut.                                                      *)

LEMMA SegmFacts ==
  ASSUME NEW b \in Nat, NEW ps \in Nat, NEW os \in Nat \ {0}, NEW al \in Nat \ {0}
  PROVE  /\ Segm(b, ps, os, al) \subseteq b..b + ps
         /\ \A i \in Segm(b, ps, os, al) :
               b + POOL_T <= i /\ i + os <= b + ps /\ i % al = 0
         /\ \A i, j \in Segm(b, ps, os, al) : i < j => i + os <= j
<1> DEFINE first == RoundUp(b + POOL_T, al)
           m == SegmStep(os, al)
<1>1. first \in Nat /\ first >= b + POOL_T /\ b + POOL_T \in Nat
  BY RoundUpFacts DEF POOL_T
<1>2. m \in Nat \ {0} /\ m >= os
  BY DEF SegmStep, Maximum
<1>3. Segm(b, ps, os, al) = {i \in first..(b + ps - os) : (i - first) % m = 0 /\ i % al = 0}
  BY DEF Segm
<1> HIDE DEF first, m
<1>4. ASSUME NEW i \in Segm(b, ps, os, al)
      PROVE  i \in Nat /\ b + POOL_T <= i /\ i + os <= b + ps /\ i % al = 0 /\ b <= i
  BY <1>1, <1>3, <1>4 DEF POOL_T
<1>5. ASSUME NEW i \in Segm(b, ps, os, al), NEW j \in Segm(b, ps, os, al), i < j
      PROVE  i + os <= j
  <2> DEFINE u == i - first
             v == j - first
  <2>1. u \in Nat /\ v \in Nat /\ u % m = 0 /\ v % m = 0 /\ u < v
    BY <1>1, <1>3, <1>5
  <2>2. v - u = j - i
    BY <1>1, <1>4
  <2> HIDE DEF u, v
  <2> DEFINE p == u \div m
             q == v \div m
  <2>3. p \in Int /\ q \in Int /\ u = m * p /\ v = m * q
    BY <1>2, <2>1
  <2> HIDE DEF p, q
  <2>4. q >= p + 1
    <3> SUFFICES ASSUME q <= p PROVE FALSE
      BY <2>3
    <3>1. m * q <= m * p
      BY <1>2, <2>3
    <3> QED
      BY <2>1, <2>3, <3>1
  <2>5. m * q >= m * (p + 1) /\ m * (p + 1) = m * p + m
    BY <1>2, <2>3, <2>4
  <2>6. v - u >= m
    BY <1>2, <2>1, <2>3, <2>5
  <2> QED
    BY <1>2, <1>4, <1>5, <2>2, <2>6
<1> QED
  BY <1>4, <1>5

\* There is an object if there is room for one at the alignment.
LEMMA SegmRoom ==
  ASSUME NEW b \in Nat, NEW ps \in Nat, NEW os \in Nat \ {0}, NEW al \in Nat \ {0},
         POOL_T + al + os <= ps + 1
  PROVE  Segm(b, ps, os, al) # {}
<1> DEFINE first == RoundUp(b + POOL_T, al)
           m == SegmStep(os, al)
<1>1. first \in Nat /\ first < b + POOL_T + al /\ first % al = 0
  BY RoundUpFacts DEF POOL_T
<1>2. m \in Nat \ {0}
  BY DEF SegmStep, Maximum
<1>3. Segm(b, ps, os, al) = {i \in first..(b + ps - os) : (i - first) % m = 0 /\ i % al = 0}
  BY DEF Segm
<1> HIDE DEF first, m
<1>4. first \in first..(b + ps - os)
  BY <1>1 DEF POOL_T
<1>5. (first - first) % m = 0
  <2>1. first - first = m * 0
    BY <1>1, <1>2
  <2> QED
    BY <1>2, <2>1, MultipleOf
<1> QED
  BY <1>1, <1>3, <1>4, <1>5

\* Descending lists a set of numbers, each once.
LEMMA DescendingFacts ==
  ASSUME NEW S, S \subseteq Nat, IsFiniteSet(S)
  PROVE  /\ Descending(S) \in Seq(S) /\ IsInjective(Descending(S))
         /\ Len(Descending(S)) = Cardinality(S)
<1> DEFINE above(x) == {y \in S : y > x}
           c == Cardinality(S)
           R == [x \in S |-> Cardinality(above(x))]
           D == Descending(S)
<1>1. \A x \in S : above(x) \subseteq S \ {x} /\ IsFiniteSet(above(x))
  <2> TAKE x \in S
  <2>1. above(x) \subseteq S \ {x}
    OBVIOUS
  <2> QED
    BY <2>1, FS_Subset
<1>2. c \in Nat /\ \A x \in S : R[x] \in 0..c - 1
  <2>1. c \in Nat
    BY FS_CardinalityType
  <2>2. ASSUME NEW x \in S PROVE R[x] \in 0..c - 1
    <3>1. IsFiniteSet(S \ {x}) /\ Cardinality(S \ {x}) = c - 1
      BY FS_RemoveElement
    <3>2. Cardinality(above(x)) <= c - 1
      BY <1>1, <3>1, FS_Subset
    <3>3. Cardinality(above(x)) \in Nat
      BY <1>1, FS_CardinalityType
    <3> QED
      BY <2>1, <3>2, <3>3
  <2> QED
    BY <2>1, <2>2
<1>3. \A x, y \in S : x < y => R[y] < R[x]
  <2> SUFFICES ASSUME NEW x \in S, NEW y \in S, x < y PROVE R[y] < R[x]
    OBVIOUS
  <2>0. \A z \in S : z \in Nat
    OBVIOUS
  <2>1. above(y) \subseteq above(x) \ {y} /\ y \in above(x)
    <3>1. y > x /\ ~(y > y)
      BY <2>0
    <3>2. \A z \in S : z > y => z > x
      BY <2>0, <3>1
    <3> QED
      BY <3>1, <3>2
  <2>2. IsFiniteSet(above(x) \ {y}) /\ Cardinality(above(x) \ {y}) = Cardinality(above(x)) - 1
    BY <1>1, <2>1, FS_RemoveElement
  <2>3. Cardinality(above(y)) <= Cardinality(above(x) \ {y})
    BY <2>1, <2>2, FS_Subset
  <2> QED
    BY <1>2, <2>2, <2>3
<1>4. R \in Injection(S, 0..c - 1)
  <2>1. R \in [S -> 0..c - 1]
    BY <1>2
  <2>2. \A x, y \in S : R[x] = R[y] => x = y
    BY <1>2, <1>3
  <2> HIDE DEF R
  <2> QED
    BY <2>1, <2>2 DEF Injection, IsInjective
<1>5. R \in Surjection(S, 0..c - 1)
  <2> HIDE DEF c
  <2>1. IsFiniteSet(0..c - 1) /\ Cardinality(0..c - 1) = c
    BY <1>2, FS_Interval
  <2> QED
    BY <1>4, <2>1, FS_Injection DEF c
<1>6. \A n \in 1..c : \E x \in S : R[x] = n - 1
  <2> HIDE DEF R, c
  <2>1. \A m \in 0..c - 1 : \E x \in S : R[x] = m
    BY <1>5 DEF Surjection
  <2>2. \A n \in 1..c : n - 1 \in 0..c - 1
    BY <1>2
  <2> QED
    BY <2>1, <2>2
<1>7. \A n \in 1..c : D[n] \in S /\ R[D[n]] = n - 1
  <2> TAKE n \in 1..c
  <2>1. D[n] = CHOOSE x \in S : Cardinality({y \in S : y > x}) = n - 1
    BY DEF Descending
  <2>2. \E x \in S : Cardinality({y \in S : y > x}) = n - 1
    BY <1>6
  <2>3. D[n] \in S /\ Cardinality({y \in S : y > D[n]}) = n - 1
    BY <2>1, <2>2
  <2> QED
    BY <2>3
<1>8. D = [n \in 1..c |-> D[n]]
  BY DEF Descending
<1> HIDE DEF R, D, c
<1>9. D \in Seq(S) /\ Len(D) = c /\ DOMAIN D = 1..c
  BY <1>2, <1>7, <1>8
<1>10. IsInjective(D)
  BY <1>2, <1>7, <1>9 DEF IsInjective
<1> QED
  BY <1>9, <1>10 DEF D, c

LEMMA LeastOf ==
  ASSUME NEW T, T \subseteq Nat, T # {}
  PROVE  Min(T) \in T /\ \A x \in T : Min(T) <= x
<1> DEFINE R == {ss \in Nat \X Nat : ss[1] < ss[2]}
<1>1. R = OpToRel(<, Nat)
  BY DEF OpToRel
<1>2. IsWellFoundedOn(R, Nat)
  BY <1>1, NatLessThanWellFounded
<1> HIDE DEF R
<1>3. PICK x \in T : \A y \in T : ~(<<y, x>> \in R)
  BY <1>2, WFMin
<1>4. \A y \in T : y < x => <<y, x>> \in R
  BY DEF R
<1>5. \A y \in T : x <= y
  <2>1. \A y \in T : ~(y < x)
    BY <1>3, <1>4
  <2>2. \A y \in T : y \in Int /\ x \in Int
    OBVIOUS
  <2> QED
    BY <2>1, <2>2
<1> QED
  BY <1>3, <1>5 DEF Min

\* A block of pages_alloc: whole pages of those that are free.
LEMMA BlocksFacts ==
  ASSUME NEW pg, pg \subseteq 1..NPages, NEW bytes \in Nat, NEW b \in Blocks(pg, bytes)
  PROVE  b \in Nat /\ Span(b, bytes) \subseteq pg
<1> DEFINE fits == {m \in pg : Span(m * PageSize, bytes) \subseteq pg}
<1>1. fits # {} /\ b = Min(fits) * PageSize
  BY DEF Blocks
<1>2. fits \subseteq Nat /\ PageSize \in Nat
  <2>1. pg \subseteq Nat /\ PageSize \in Nat
    BY NPagesAssumption, PageSizeAssumption
  <2> QED
    BY <2>1
<1>3. Min(fits) \in fits
  BY <1>1, <1>2, LeastOf
<1>4. Min(fits) \in Nat /\ Span(Min(fits) * PageSize, bytes) \subseteq pg
  BY <1>2, <1>3
<1> HIDE DEF fits
<1> QED
  BY <1>1, <1>2, <1>4

\* The bytes of a block lie in its pages.
LEMMA SpanFacts ==
  ASSUME NEW b \in Nat, NEW bytes \in Nat, NEW o \in Nat, b <= o, o < b + bytes
  PROVE  o \div PageSize \in Span(b, bytes)
<1>1. PageSize \in Nat \ {0}
  BY PageSizeAssumption
<1>2. b + bytes - 1 \in Nat /\ o <= b + bytes - 1
  OBVIOUS
<1>3. b \div PageSize <= o \div PageSize /\ o \div PageSize \in Nat /\ b \div PageSize \in Nat
  BY <1>1, QuotientOrder
<1>4. o \div PageSize <= (b + bytes - 1) \div PageSize /\ (b + bytes - 1) \div PageSize \in Nat
  BY <1>1, <1>2, QuotientOrder
<1> QED
  BY <1>3, <1>4 DEF Span

-----------------------------------------------------------------------------
(* The invariant of a slab: P is its pools, each with the alignment and    *)
(* the size of its objects, pg the free pages, T the objects taken, and f  *)
(* the one of them that slb_init took without counting it.                 *)

Grid(x) == Segm(x.pool.base, x.pool.size, x.size, x.align)
Inside(x, o) == x.pool.base <= o /\ o < x.pool.base + x.pool.size
TakenIn(x, T, f) == {o \in T : Inside(x, o)} \ {f}
SpanOf(x) == Span(x.pool.base, x.pool.size)

PoolRec == [base : Nat, size : Nat, inuse : Nat, free : Seq(Nat)]

PoolSound(x, T, f) ==
    /\ x.pool \in PoolRec /\ x.align \in Nat \ {0} /\ x.size \in Nat
    /\ x = [pool |-> x.pool, align |-> x.align, size |-> x.size]
    /\ x.size >= OBJ_T /\ x.pool.size >= POOL_T
    /\ ToSet(x.pool.free) \subseteq Grid(x) /\ IsInjective(x.pool.free)
    /\ ToSet(x.pool.free) \cap T = {}
    /\ x.pool.inuse = Cardinality(TakenIn(x, T, f))

PoolsSound(P, pg, T, f) ==
    /\ \A x \in P : PoolSound(x, T, f)
    /\ \A x, y \in P : x # y => SpanOf(x) \cap SpanOf(y) = {}
    /\ pg \cap UNION {SpanOf(x) : x \in P} = {}
    /\ pg \cup UNION {SpanOf(x) : x \in P} = 1..NPages
    /\ T \subseteq Nat /\ \A o \in T : \E x \in P : o \in Grid(x)
    /\ f \in T

\* The caches: no two for one pair, no pool listed twice, each wide enough for
\* an object wherever a pool of it begins; the last is that of the descriptors.
Serves(c, k) == c.align = k.align /\ c.size = k.size
Roomy(k) == /\ k.align \in Nat \ {0} /\ k.size \in Nat /\ k.size >= OBJ_T
            /\ POOL_T + k.align + k.size <= PoolSize(k.size) + 1
CacheRec == [at : Nat, align : Nat, size : Nat, pools : Seq(PoolRec)]
BasesApart(cs) ==
    \A k, l \in DOMAIN cs : \A m \in DOMAIN cs[k].pools, n \in DOMAIN cs[l].pools :
        cs[k].pools[m].base = cs[l].pools[n].base => k = l /\ m = n
CachesApart(cs) ==
    \A k, l \in DOMAIN cs : cs[k].at = cs[l].at \/ Serves(cs[k], cs[l]) => k = l
Shape(cs) ==
    /\ cs \in Seq(CacheRec) /\ cs # <<>>
    /\ \A k \in DOMAIN cs : Roomy(cs[k])
    /\ CachesApart(cs) /\ BasesApart(cs)
    /\ Serves(cs[Len(cs)], AllocKey(SLB_T, 0))

Sound(cs, pg, T) == Shape(cs) /\ PoolsSound(PoolsIn(cs), pg, T, cs[Len(cs)].at)

\* Objects of pools in P that serve k.
Served(P, o, k) == \E x \in P : o \in Grid(x) /\ Serves(x, k)

KeyOf(h) == IF h.api = "slb" THEN AllocKey(h.len, h.align) ELSE AllocKey(UpBound(h.len), 0)

SlabIInv ==
    /\ Sound(caches, pages, HeldObjs \cup Descriptors \cup lost)
    /\ hung \in BOOLEAN
    /\ \A d \in Descriptors : Served(Pools, d, AllocKey(SLB_T, 0))
    /\ \A h \in held :
          /\ Served(Pools, h.obj, KeyOf(h))
          /\ \/ h.api = "slb" /\ <<h.len, h.align>> \in Requests
             \/ h.api = "kmalloc" /\ h.len \in Lengths /\ h.align = 0
    /\ \A g, h \in held : g.obj = h.obj => g = h
    /\ IsFiniteSet(held)
    /\ HeldObjs \cap (Descriptors \cup lost) = {} /\ Descriptors \cap lost = {}

LEMMA GridFacts ==
  ASSUME NEW x, NEW T, NEW f, PoolSound(x, T, f)
  PROVE  /\ \A o \in Grid(x) : /\ o \in Nat /\ Inside(x, o) /\ x.pool.base + POOL_T <= o
                               /\ o + x.size <= x.pool.base + x.pool.size /\ o % x.align = 0
         /\ \A i, j \in Grid(x) : i < j => i + x.size <= j
<1> DEFINE b == x.pool.base
           ps == x.pool.size
           os == x.size
           al == x.align
<1>1. b \in Nat /\ ps \in Nat /\ os \in Nat \ {0} /\ al \in Nat \ {0}
  BY DEF PoolSound, PoolRec, OBJ_T
<1>2. Grid(x) = Segm(b, ps, os, al)
  BY DEF Grid
<1>3. \A o : Inside(x, o) <=> b <= o /\ o < b + ps
  BY DEF Inside
<1> HIDE DEF b, ps, os, al
<1>4. /\ Grid(x) \subseteq b..b + ps
      /\ \A i \in Grid(x) : b + POOL_T <= i /\ i + os <= b + ps /\ i % al = 0
      /\ \A i, j \in Grid(x) : i < j => i + os <= j
  BY <1>1, <1>2, SegmFacts
<1>5. \A o \in Grid(x) : o \in Nat /\ b <= o /\ o < b + ps
  BY <1>1, <1>4
<1> QED
  BY <1>3, <1>4, <1>5 DEF b, ps, os, al

\* No byte is inside two pools.
LEMMA InsideOne ==
  ASSUME NEW x, NEW y, NEW T, NEW U, NEW f, NEW g, PoolSound(x, T, f), PoolSound(y, U, g),
         SpanOf(x) \cap SpanOf(y) = {}, NEW o \in Nat, Inside(x, o), Inside(y, o)
  PROVE  FALSE
<1>1. /\ x.pool.base \in Nat /\ x.pool.size \in Nat
      /\ y.pool.base \in Nat /\ y.pool.size \in Nat
  BY DEF PoolSound, PoolRec
<1>2. o \div PageSize \in Span(x.pool.base, x.pool.size)
  BY <1>1, SpanFacts DEF Inside
<1>3. o \div PageSize \in Span(y.pool.base, y.pool.size)
  BY <1>1, SpanFacts DEF Inside
<1> QED
  BY <1>2, <1>3 DEF SpanOf

LEMMA InsideFinite ==
  ASSUME NEW x, NEW T, T \subseteq Nat, NEW f, NEW U, NEW g, PoolSound(x, U, g)
  PROVE  IsFiniteSet(TakenIn(x, T, f)) /\ Cardinality(TakenIn(x, T, f)) \in Nat
<1> DEFINE b == x.pool.base
           e == x.pool.base + x.pool.size
<1>1. b \in Nat /\ e \in Nat
  BY DEF PoolSound, PoolRec
<1>0. \A o \in TakenIn(x, T, f) : o \in T /\ b <= o /\ o < e
  BY DEF TakenIn, Inside
<1> HIDE DEF b, e
<1>2. TakenIn(x, T, f) \subseteq b..e
  <2> SUFFICES ASSUME NEW o \in TakenIn(x, T, f) PROVE o \in b..e
    OBVIOUS
  <2>1. o \in Nat /\ b <= o /\ o < e
    BY <1>0
  <2> QED
    BY <1>1, <2>1
<1>3. IsFiniteSet(b..e)
  BY <1>1, FS_Interval
<1> QED
  BY <1>2, <1>3, FS_Subset, FS_CardinalityType

LEMMA ListFacts ==
  ASSUME NEW S, NEW s \in Seq(S), IsInjective(s), s # <<>>
  PROVE  /\ Head(s) \in ToSet(s) /\ Tail(s) \in Seq(S) /\ IsInjective(Tail(s))
         /\ ToSet(Tail(s)) = ToSet(s) \ {Head(s)} /\ ToSet(s) \subseteq S
<1>1. Len(s) \in Nat /\ Len(s) > 0 /\ DOMAIN s = 1..Len(s) /\ Head(s) = s[1]
  BY EmptySeq
<1>2. /\ Tail(s) \in Seq(S) /\ Len(Tail(s)) = Len(s) - 1 /\ DOMAIN Tail(s) = 1..Len(s) - 1
      /\ \A n \in 1..Len(s) - 1 : Tail(s)[n] = s[n + 1]
  BY <1>1, HeadTailProperties
<1>3. \A a, b \in DOMAIN s : s[a] = s[b] => a = b
  BY DEF IsInjective
<1>4. IsInjective(Tail(s))
  <2> SUFFICES ASSUME NEW a \in DOMAIN Tail(s), NEW b \in DOMAIN Tail(s), Tail(s)[a] = Tail(s)[b]
               PROVE  a = b
    BY DEF IsInjective
  <2>1. a + 1 \in DOMAIN s /\ b + 1 \in DOMAIN s /\ s[a + 1] = s[b + 1] /\ a \in Nat /\ b \in Nat
    BY <1>1, <1>2
  <2> QED
    BY <1>3, <2>1
<1>5. ToSet(Tail(s)) \subseteq ToSet(s) \ {Head(s)}
  <2> SUFFICES ASSUME NEW a \in DOMAIN Tail(s) PROVE Tail(s)[a] \in ToSet(s) /\ Tail(s)[a] # s[1]
    BY <1>1 DEF ToSet
  <2>1. a + 1 \in DOMAIN s /\ 1 \in DOMAIN s /\ Tail(s)[a] = s[a + 1] /\ a + 1 # 1
    BY <1>1, <1>2
  <2> QED
    BY <1>3, <2>1 DEF ToSet
<1>6. ToSet(s) \ {Head(s)} \subseteq ToSet(Tail(s))
  <2> SUFFICES ASSUME NEW a \in DOMAIN s, s[a] # s[1] PROVE s[a] \in ToSet(Tail(s))
    BY <1>1 DEF ToSet
  <2>1. a - 1 \in DOMAIN Tail(s) /\ Tail(s)[a - 1] = s[a]
    <3>1. a # 1 /\ a \in 1..Len(s)
      BY <1>1
    <3>2. a - 1 \in 1..Len(s) - 1 /\ a - 1 + 1 = a
      BY <1>1, <3>1
    <3> QED
      BY <1>2, <3>2
  <2> QED
    BY <2>1 DEF ToSet
<1>7. Head(s) \in ToSet(s) /\ ToSet(s) \subseteq S
  BY <1>1 DEF ToSet
<1> QED
  BY <1>2, <1>4, <1>5, <1>6, <1>7

LEMMA PrefixFacts ==
  ASSUME NEW S, NEW s \in Seq(S), NEW e \in S
  PROVE  /\ <<e>> \o s \in Seq(S) /\ Len(<<e>> \o s) = Len(s) + 1
         /\ DOMAIN (<<e>> \o s) = 1..Len(s) + 1 /\ (<<e>> \o s)[1] = e
         /\ \A n \in DOMAIN s : n + 1 \in DOMAIN (<<e>> \o s) /\ (<<e>> \o s)[n + 1] = s[n]
         /\ \A n \in DOMAIN (<<e>> \o s) : n # 1 => n - 1 \in DOMAIN s /\ (<<e>> \o s)[n] = s[n - 1]
         /\ ToSet(<<e>> \o s) = {e} \cup ToSet(s)
<1> DEFINE t == <<e>> \o s
<1>1. /\ t \in Seq(S) /\ Len(t) = Len(s) + 1 /\ Len(s) \in Nat /\ DOMAIN s = 1..Len(s)
      /\ DOMAIN t = 1..Len(s) + 1 /\ t[1] = e
      /\ \A n \in 1..Len(s) + 1 : n # 1 => t[n] = s[n - 1]
  OBVIOUS
<1>2. /\ \A n \in DOMAIN s : n + 1 \in DOMAIN t /\ t[n + 1] = s[n]
      /\ \A n \in DOMAIN t : n # 1 => n - 1 \in DOMAIN s /\ t[n] = s[n - 1]
  <2> HIDE DEF t
  <2>1. \A n \in DOMAIN s : n + 1 \in 1..Len(s) + 1 /\ n + 1 # 1 /\ (n + 1) - 1 = n
    BY <1>1
  <2>2. \A n \in DOMAIN t : n # 1 => n - 1 \in DOMAIN s /\ t[n] = s[n - 1]
    BY <1>1
  <2> QED
    BY <1>1, <2>1, <2>2
<1>3. ToSet(t) = {e} \cup ToSet(s)
  <2> HIDE DEF t
  <2>1. ToSet(t) \subseteq {e} \cup ToSet(s)
    BY <1>1, <1>2 DEF ToSet
  <2>2. 1 \in DOMAIN t
    BY <1>1
  <2>3. {e} \cup ToSet(s) \subseteq ToSet(t)
    BY <1>1, <1>2, <2>2 DEF ToSet
  <2> QED
    BY <2>1, <2>3
<1> HIDE DEF t
<1>4. /\ t \in Seq(S) /\ Len(t) = Len(s) + 1
      /\ DOMAIN t = 1..Len(s) + 1 /\ t[1] = e
      /\ \A n \in DOMAIN s : n + 1 \in DOMAIN t /\ t[n + 1] = s[n]
      /\ \A n \in DOMAIN t : n # 1 => n - 1 \in DOMAIN s /\ t[n] = s[n - 1]
      /\ ToSet(t) = {e} \cup ToSet(s)
  BY <1>1, <1>2, <1>3
<1> QED
  BY <1>4 DEF t

\* What becomes of a pool's account when an object of it is taken or returned.
LEMMA OtherUntouched ==
  ASSUME NEW x, NEW T, NEW f, PoolSound(x, T, f), NEW U,
         \A o : Inside(x, o) => (o \in T <=> o \in U),
         ToSet(x.pool.free) \cap U = {}
  PROVE  PoolSound(x, U, f)
<1>1. TakenIn(x, U, f) = TakenIn(x, T, f)
  BY DEF TakenIn
<1> QED
  BY <1>1 DEF PoolSound

\* A pool with the kind of its objects.
Of(x, q, al, os) == x = [pool |-> q, align |-> al, size |-> os]
FirstFreeOf(x, h) == x.pool.free # <<>> /\ h = Head(x.pool.free)
NewAmong(P, z, b) ==
    /\ z.pool.free # <<>> /\ z.pool \in PoolRec /\ z.pool.base = b
    /\ \A x \in P : x.pool.base # b

\* An object is taken from pool x, which becomes y.
LEMMA TakeSound ==
  ASSUME NEW P, NEW pg, NEW T, NEW f, PoolsSound(P, pg, T, f),
         NEW x \in P,
         NEW y, Of(y, Taken(x.pool), x.align, x.size),
         NEW h, FirstFreeOf(x, h)
  PROVE  /\ PoolsSound((P \ {x}) \cup {y}, pg, T \cup {h}, f)
         /\ h \notin T /\ h \in Grid(y) /\ h \in Nat /\ h \in Grid(x)
         /\ SpanOf(y) = SpanOf(x) /\ Grid(y) = Grid(x)
<1> USE DEF Of, FirstFreeOf
<1>1. PoolSound(x, T, f) /\ \A z \in P : PoolSound(z, T, f)
  BY DEF PoolsSound
<1>2. /\ x.pool \in PoolRec
      /\ y.pool = [base |-> x.pool.base, size |-> x.pool.size, inuse |-> x.pool.inuse + 1,
                   free |-> Tail(x.pool.free)]
      /\ y.align = x.align /\ y.size = x.size
  BY <1>1 DEF PoolSound, PoolRec, Taken
<1> DEFINE s == x.pool.free
           n == x.pool.inuse + 1
           r == Tail(s)
<1>3. /\ y.pool.base = x.pool.base /\ y.pool.size = x.pool.size
      /\ y.pool.inuse = n /\ y.pool.free = r
  <2> HIDE DEF n, r
  <2>1. \A p : p = [base |-> x.pool.base, size |-> x.pool.size, inuse |-> n, free |-> r]
               => /\ p.base = x.pool.base /\ p.size = x.pool.size
                  /\ p.inuse = n /\ p.free = r
    OBVIOUS
  <2> QED
    BY <1>2, <2>1 DEF n, r
<1>4. Grid(y) = Grid(x) /\ SpanOf(y) = SpanOf(x) /\ \A o : Inside(y, o) <=> Inside(x, o)
  BY <1>2, <1>3 DEF Grid, SpanOf, Inside
<1>5. x.pool.free \in Seq(Nat) /\ IsInjective(x.pool.free)
  BY <1>1, <1>2 DEF PoolSound, PoolRec
<1>6. /\ h \in ToSet(x.pool.free) /\ y.pool.free \in Seq(Nat) /\ IsInjective(y.pool.free)
      /\ ToSet(y.pool.free) = ToSet(x.pool.free) \ {h}
  <2>1. s # <<>> /\ y.pool.free = r /\ h = Head(s) /\ s \in Seq(Nat) /\ IsInjective(s)
    BY <1>3, <1>5
  <2> HIDE DEF s
  <2>2. /\ Head(s) \in ToSet(s) /\ Tail(s) \in Seq(Nat) /\ IsInjective(Tail(s))
        /\ ToSet(Tail(s)) = ToSet(s) \ {Head(s)}
    BY <2>1, ListFacts
  <2>3. h \in ToSet(s) /\ ToSet(r) = ToSet(s) \ {h} /\ r \in Seq(Nat) /\ IsInjective(r)
    BY <2>1, <2>2
  <2> HIDE DEF r
  <2> QED
    BY <2>1, <2>3 DEF s
<1> HIDE DEF s, n, r
<1>7. h \in Grid(x) /\ h \notin T /\ h # f /\ f \in T /\ T \subseteq Nat
  BY <1>1, <1>6 DEF PoolSound, PoolsSound
<1>8. h \in Nat /\ Inside(x, h)
  BY <1>1, <1>7, GridFacts
<1>9. PoolSound(y, T \cup {h}, f)
  <2>1. TakenIn(y, T \cup {h}, f) = TakenIn(x, T, f) \cup {h} /\ h \notin TakenIn(x, T, f)
    BY <1>4, <1>7, <1>8 DEF TakenIn
  <2>2. IsFiniteSet(TakenIn(x, T, f)) /\ Cardinality(TakenIn(x, T, f)) \in Nat
    BY <1>1, <1>7, InsideFinite
  <2> DEFINE A == TakenIn(x, T, f)
  <2>3. Cardinality(TakenIn(y, T \cup {h}, f)) = Cardinality(A) + 1
    <3>1. IsFiniteSet(A) /\ h \notin A /\ TakenIn(y, T \cup {h}, f) = A \cup {h}
      BY <2>1, <2>2
    <3> HIDE DEF A
    <3>2. Cardinality(A \cup {h}) = Cardinality(A) + 1
      BY <3>1, FS_AddElement
    <3> QED
      BY <3>1, <3>2
  <2>4. y.pool.inuse = Cardinality(TakenIn(y, T \cup {h}, f)) /\ y.pool.inuse \in Nat
    BY <1>1, <1>3, <2>2, <2>3 DEF PoolSound, n
  <2>5. y.pool \in PoolRec
    BY <1>2, <1>3, <1>6, <2>4 DEF PoolRec
  <2>6. ToSet(y.pool.free) \subseteq Grid(y) /\ ToSet(y.pool.free) \cap (T \cup {h}) = {}
    BY <1>1, <1>4, <1>6 DEF PoolSound
  <2>7. /\ x.align \in Nat \ {0} /\ x.size \in Nat /\ x.size >= OBJ_T /\ x.pool.size >= POOL_T
    BY <1>1 DEF PoolSound
  <2>8. y = [pool |-> y.pool, align |-> y.align, size |-> y.size]
    BY <1>2
  <2> QED
    BY <1>2, <1>3, <1>6, <2>4, <2>5, <2>6, <2>7, <2>8 DEF PoolSound
<1>10. \A z \in P \ {x} : PoolSound(z, T \cup {h}, f)
  <2> SUFFICES ASSUME NEW z \in P \ {x} PROVE PoolSound(z, T \cup {h}, f)
    OBVIOUS
  <2>1. PoolSound(z, T, f) /\ SpanOf(x) \cap SpanOf(z) = {}
    BY <1>1 DEF PoolsSound
  <2>2. ~Inside(z, h)
    BY <1>1, <1>8, <2>1, InsideOne
  <2>3. h \notin ToSet(z.pool.free)
    BY <2>1, <2>2, GridFacts DEF PoolSound
  <2>4. ToSet(z.pool.free) \cap (T \cup {h}) = {}
    BY <2>1, <2>3 DEF PoolSound
  <2>5. \A o : Inside(z, o) => (o \in T <=> o \in T \cup {h})
    BY <2>2
  <2> QED
    BY <2>1, <2>4, <2>5, OtherUntouched
<1> DEFINE Q == (P \ {x}) \cup {y}
<1>11. {SpanOf(z) : z \in Q} = {SpanOf(z) : z \in P}
  BY <1>4
<1>12. \A z, w \in Q : z # w => SpanOf(z) \cap SpanOf(w) = {}
  BY <1>4 DEF PoolsSound
<1>13. \A o \in T \cup {h} : \E z \in Q : o \in Grid(z)
  BY <1>4, <1>7 DEF PoolsSound
<1>14. PoolsSound(Q, pg, T \cup {h}, f)
  <2>1. \A z \in Q : PoolSound(z, T \cup {h}, f)
    BY <1>9, <1>10
  <2>2. /\ pg \cap UNION {SpanOf(z) : z \in Q} = {}
        /\ pg \cup UNION {SpanOf(z) : z \in Q} = 1..NPages
    BY <1>11 DEF PoolsSound
  <2>3. T \cup {h} \subseteq Nat /\ f \in T \cup {h}
    BY <1>7, <1>8
  <2> HIDE DEF Q
  <2> QED
    BY <1>12, <1>13, <2>1, <2>2, <2>3 DEF PoolsSound
<1> QED
  BY <1>4, <1>7, <1>8, <1>14

\* An object of pool x is returned to it, and x becomes y.
BackIn(x, h, y) == Of(y, Returned(x.pool, h), x.align, x.size)

LEMMA ReturnSound ==
  ASSUME NEW P, NEW pg, NEW T, NEW f, PoolsSound(P, pg, T, f),
         NEW x \in P, NEW h \in T, h \in Grid(x), h # f,
         NEW y, BackIn(x, h, y)
  PROVE  /\ PoolsSound((P \ {x}) \cup {y}, pg, T \ {h}, f)
         /\ SpanOf(y) = SpanOf(x) /\ Grid(y) = Grid(x)
<1> USE DEF Of, BackIn
<1>1. PoolSound(x, T, f) /\ \A z \in P : PoolSound(z, T, f)
  BY DEF PoolsSound
<1> DEFINE s == x.pool.free
           n == x.pool.inuse - 1
           r == <<h>> \o s
<1>2. /\ x.pool \in PoolRec
      /\ y.pool = [base |-> x.pool.base, size |-> x.pool.size, inuse |-> n, free |-> r]
      /\ y.align = x.align /\ y.size = x.size
  BY <1>1 DEF PoolSound, PoolRec, Returned
<1>3. /\ y.pool.base = x.pool.base /\ y.pool.size = x.pool.size
      /\ y.pool.inuse = n /\ y.pool.free = r
  <2> HIDE DEF n, r
  <2>1. \A p : p = [base |-> x.pool.base, size |-> x.pool.size, inuse |-> n, free |-> r]
               => /\ p.base = x.pool.base /\ p.size = x.pool.size
                  /\ p.inuse = n /\ p.free = r
    OBVIOUS
  <2> QED
    BY <1>2, <2>1
<1>4. Grid(y) = Grid(x) /\ SpanOf(y) = SpanOf(x) /\ \A o : Inside(y, o) <=> Inside(x, o)
  BY <1>2, <1>3 DEF Grid, SpanOf, Inside
<1>5. /\ s \in Seq(Nat) /\ IsInjective(s) /\ ToSet(s) \subseteq Grid(x) /\ ToSet(s) \cap T = {}
      /\ f \in T /\ T \subseteq Nat
  BY <1>1, <1>2 DEF PoolSound, PoolsSound, PoolRec
<1> HIDE DEF s
<1>6. h \in Nat /\ Inside(x, h) /\ h \notin ToSet(s)
  BY <1>1, <1>5, GridFacts
<1>7. r \in Seq(Nat) /\ IsInjective(r) /\ ToSet(r) = ToSet(s) \cup {h}
  <2>1. /\ r \in Seq(Nat) /\ r[1] = h
        /\ \A k \in DOMAIN r : k # 1 => k - 1 \in DOMAIN s /\ r[k] = s[k - 1]
        /\ ToSet(r) = {h} \cup ToSet(s)
    BY <1>5, <1>6, PrefixFacts
  <2>2. DOMAIN r \subseteq Nat /\ DOMAIN s \subseteq Nat
    BY <1>5, <2>1
  <2> HIDE DEF r
  <2>3. ASSUME NEW k \in DOMAIN r, NEW l \in DOMAIN r, r[k] = r[l] PROVE k = l
    <3>1. \A m \in DOMAIN s : s[m] # h
      BY <1>6 DEF ToSet
    <3>2. CASE k = 1 \/ l = 1
      BY <2>1, <2>3, <3>1, <3>2
    <3>3. CASE k # 1 /\ l # 1
      <4>1. k - 1 \in DOMAIN s /\ l - 1 \in DOMAIN s /\ s[k - 1] = s[l - 1]
        BY <2>1, <2>3, <3>3
      <4>2. k - 1 = l - 1
        BY <1>5, <4>1 DEF IsInjective
      <4> QED
        BY <2>2, <4>2
    <3> QED
      BY <3>2, <3>3
  <2> QED
    BY <2>1, <2>3 DEF IsInjective
<1>9. PoolSound(y, T \ {h}, f)
  <2> DEFINE A == TakenIn(x, T, f)
  <2>1. TakenIn(y, T \ {h}, f) = A \ {h} /\ h \in A
    BY <1>4, <1>6 DEF TakenIn
  <2>2. IsFiniteSet(A) /\ Cardinality(A) \in Nat
    BY <1>1, <1>5, InsideFinite
  <2>3. x.pool.inuse = Cardinality(A)
    BY <1>1 DEF PoolSound
  <2>4. y.pool.inuse = Cardinality(TakenIn(y, T \ {h}, f)) /\ y.pool.inuse \in Nat
    <3> HIDE DEF A
    <3>1. IsFiniteSet(A \ {h}) /\ Cardinality(A \ {h}) = Cardinality(A) - 1
      BY <2>1, <2>2, FS_RemoveElement
    <3>2. Cardinality(A \ {h}) \in Nat
      BY <3>1, FS_CardinalityType
    <3> QED
      BY <1>3, <2>1, <2>2, <2>3, <3>1, <3>2
  <2>5. y.pool \in PoolRec
    BY <1>2, <1>3, <1>7, <2>4 DEF PoolRec
  <2>6. ToSet(y.pool.free) \subseteq Grid(y) /\ ToSet(y.pool.free) \cap (T \ {h}) = {}
    BY <1>3, <1>4, <1>5, <1>7
  <2>7. /\ x.align \in Nat \ {0} /\ x.size \in Nat /\ x.size >= OBJ_T /\ x.pool.size >= POOL_T
    BY <1>1 DEF PoolSound
  <2>8. y = [pool |-> y.pool, align |-> y.align, size |-> y.size]
    BY <1>2
  <2>9. IsInjective(y.pool.free)
    BY <1>3, <1>7
  <2> QED
    BY <1>2, <1>3, <2>4, <2>5, <2>6, <2>7, <2>8, <2>9 DEF PoolSound
<1>10. \A z \in P \ {x} : PoolSound(z, T \ {h}, f)
  <2> SUFFICES ASSUME NEW z \in P \ {x} PROVE PoolSound(z, T \ {h}, f)
    OBVIOUS
  <2>1. PoolSound(z, T, f) /\ SpanOf(x) \cap SpanOf(z) = {}
    BY <1>1 DEF PoolsSound
  <2>2. ~Inside(z, h)
    BY <1>1, <1>6, <2>1, InsideOne
  <2>4. ToSet(z.pool.free) \cap (T \ {h}) = {}
    BY <2>1 DEF PoolSound
  <2>5. \A o : Inside(z, o) => (o \in T <=> o \in T \ {h})
    BY <2>2
  <2> QED
    BY <2>1, <2>4, <2>5, OtherUntouched
<1> DEFINE Q == (P \ {x}) \cup {y}
<1>11. {SpanOf(z) : z \in Q} = {SpanOf(z) : z \in P}
  BY <1>4
<1>12. \A z, w \in Q : z # w => SpanOf(z) \cap SpanOf(w) = {}
  BY <1>4 DEF PoolsSound
<1>13. \A o \in T \ {h} : \E z \in Q : o \in Grid(z)
  BY <1>4 DEF PoolsSound
<1>14. PoolsSound(Q, pg, T \ {h}, f)
  <2>1. \A z \in Q : PoolSound(z, T \ {h}, f)
    BY <1>9, <1>10
  <2>2. /\ pg \cap UNION {SpanOf(z) : z \in Q} = {}
        /\ pg \cup UNION {SpanOf(z) : z \in Q} = 1..NPages
    BY <1>11 DEF PoolsSound
  <2>3. T \ {h} \subseteq Nat /\ f \in T \ {h}
    BY <1>5
  <2> HIDE DEF Q
  <2> QED
    BY <1>12, <1>13, <2>1, <2>2, <2>3 DEF PoolsSound
<1> QED
  BY <1>4, <1>14

LEMMA NewPoolFacts ==
  ASSUME NEW b \in Nat, NEW os \in Nat, NEW al \in Nat \ {0}, os >= OBJ_T,
         POOL_T + al + os <= PoolSize(os) + 1,
         NEW z, Of(z, NewPool(b, os, al), al, os)
  PROVE  /\ z.pool.base = b /\ z.pool.size = PoolSize(os) /\ z.pool.free # <<>>
         /\ z.align = al /\ z.size = os
         /\ z.pool \in PoolRec /\ z.pool.inuse = 0 /\ z.pool.size >= POOL_T
         /\ ToSet(z.pool.free) \subseteq Grid(z) /\ IsInjective(z.pool.free)
<1> USE DEF Of
<1> DEFINE ps == PoolSize(os)
           S == Segm(b, ps, os, al)
           D == Descending(S)
<1>1. ps \in Nat /\ ps >= POOL_T /\ os \in Nat \ {0}
  BY PoolSizeFacts DEF OBJ_T, POOL_T
<1>2. z.pool = [base |-> b, size |-> ps, inuse |-> 0, free |-> D] /\ z.align = al /\ z.size = os
  BY DEF NewPool
<1> HIDE DEF D
<1>3. z.pool.base = b /\ z.pool.size = ps /\ z.pool.inuse = 0 /\ z.pool.free = D
  BY <1>2
<1>4. Grid(z) = S
  BY <1>2, <1>3 DEF Grid
<1> HIDE DEF ps
<1>5. S \subseteq b..b + ps /\ S # {}
  <2>1. POOL_T + al + os <= ps + 1
    BY DEF ps
  <2> QED
    BY <1>1, <2>1, SegmFacts, SegmRoom
<1> HIDE DEF S
<1>6. S \subseteq Nat /\ IsFiniteSet(S)
  <2>1. IsFiniteSet(b..b + ps)
    BY <1>1, FS_Interval
  <2>2. b..b + ps \subseteq Nat
    BY <1>1
  <2> QED
    BY <1>5, <2>1, <2>2, FS_Subset
<1>7. D \in Seq(S) /\ IsInjective(D) /\ Len(D) = Cardinality(S)
  BY <1>6, DescendingFacts DEF D
<1>8. D # <<>>
  <2>1. Cardinality(S) # 0
    BY <1>5, <1>6, FS_EmptySet
  <2> QED
    BY <1>7, <2>1
<1>9. ToSet(D) \subseteq S /\ D \in Seq(Nat)
  <2>1. DOMAIN D = 1..Len(D) /\ \A n \in 1..Len(D) : D[n] \in S
    BY <1>7
  <2>2. \A n \in 1..Len(D) : D[n] \in Nat
    BY <1>6, <2>1
  <2>3. D \in Seq(Nat)
    BY <1>7, <2>2
  <2> QED
    BY <2>1, <2>3 DEF ToSet
<1>10. z.pool \in PoolRec
  BY <1>1, <1>2, <1>9 DEF PoolRec
<1> QED
  BY <1>1, <1>2, <1>3, <1>4, <1>7, <1>8, <1>9, <1>10 DEF ps

\* A new pool z on pages that were free.
LEMMA GrowSound ==
  ASSUME NEW P, NEW pg, NEW T, NEW f, PoolsSound(P, pg, T, f), pg \subseteq 1..NPages,
         NEW os \in Nat, NEW al \in Nat \ {0}, os >= OBJ_T,
         POOL_T + al + os <= PoolSize(os) + 1,
         NEW b \in Blocks(pg, PoolSize(os)),
         NEW z, Of(z, NewPool(b, os, al), al, os)
  PROVE  /\ PoolsSound(P \cup {z}, pg \ Span(b, PoolSize(os)), T, f)
         /\ NewAmong(P, z, b) /\ b \in Nat
<1> USE DEF Of
<1> DEFINE ps == PoolSize(os)
<1>1. ps \in Nat /\ b \in Nat /\ Span(b, ps) \subseteq pg
  BY PoolSizeFacts, BlocksFacts
<1>2. /\ z.pool.base = b /\ z.pool.size = ps /\ z.pool.free # <<>>
      /\ z.align = al /\ z.size = os
      /\ z.pool \in PoolRec /\ z.pool.inuse = 0 /\ z.pool.size >= POOL_T
      /\ ToSet(z.pool.free) \subseteq Grid(z) /\ IsInjective(z.pool.free)
  BY <1>1, NewPoolFacts
<1> HIDE DEF ps
<1>3. SpanOf(z) = Span(b, ps) /\ \A x \in P : SpanOf(x) \cap SpanOf(z) = {}
  BY <1>1, <1>2 DEF SpanOf, PoolsSound
\* A span has the page of its first byte.
<1>4. ps >= 1
  BY <1>1, <1>2 DEF POOL_T
<1>5. \A x \in P : x.pool.base # b
  <2> SUFFICES ASSUME NEW x \in P, x.pool.base = b PROVE FALSE
    OBVIOUS
  <2>1. x.pool.size \in Nat /\ x.pool.size >= 1
    BY DEF PoolsSound, PoolSound, PoolRec, POOL_T
  <2>2. b \div PageSize \in Span(b, ps)
    BY <1>1, <1>4, SpanFacts
  <2>3. b \div PageSize \in Span(b, x.pool.size)
    BY <1>1, <2>1, SpanFacts
  <2> QED
    BY <1>3, <2>2, <2>3 DEF SpanOf
\* Nothing that is taken lies in it.
<1>6. \A o \in T : ~Inside(z, o)
  <2> SUFFICES ASSUME NEW o \in T, Inside(z, o) PROVE FALSE
    OBVIOUS
  <2>1. PICK x \in P : o \in Grid(x)
    BY DEF PoolsSound
  <2>2. PoolSound(x, T, f)
    BY DEF PoolsSound
  <2>3. o \in Nat /\ Inside(x, o)
    BY <2>1, <2>2, GridFacts
  <2>4. x.pool.base \in Nat /\ x.pool.size \in Nat
    BY <2>2 DEF PoolSound, PoolRec
  <2>5. o \div PageSize \in SpanOf(x)
    BY <2>3, <2>4, SpanFacts DEF Inside, SpanOf
  <2>6. o \div PageSize \in SpanOf(z)
    BY <1>1, <1>2, <1>3, <2>3, SpanFacts DEF Inside
  <2> QED
    BY <1>3, <2>5, <2>6
<1>7. PoolSound(z, T, f)
  <2>1. TakenIn(z, T, f) = {}
    BY <1>6 DEF TakenIn
  <2>2. z.pool.inuse = Cardinality(TakenIn(z, T, f))
    BY <1>2, <2>1, FS_EmptySet
  <2>3. z = [pool |-> z.pool, align |-> z.align, size |-> z.size]
    BY <1>2
  <2>4. \A o \in Grid(z) : Inside(z, o)
    <3>1. Grid(z) = Segm(b, ps, os, al) /\ os \in Nat \ {0}
      BY <1>2 DEF Grid, OBJ_T
    <3>2. /\ Grid(z) \subseteq b..b + ps
          /\ \A i \in Grid(z) : b + POOL_T <= i /\ i + os <= b + ps
      BY <1>1, <3>1, SegmFacts
    <3>3. \A i \in Grid(z) : b <= i /\ i < b + ps
      BY <1>1, <3>1, <3>2
    <3> QED
      BY <1>2, <3>3 DEF Inside
  <2>5. ToSet(z.pool.free) \cap T = {}
    BY <1>2, <1>6, <2>4
  <2> QED
    BY <1>2, <2>2, <2>3, <2>5 DEF PoolSound
<1> DEFINE Q == P \cup {z}
<1>8. \A x \in Q : PoolSound(x, T, f)
  BY <1>7 DEF PoolsSound
<1>9. \A x, y \in Q : x # y => SpanOf(x) \cap SpanOf(y) = {}
  BY <1>3 DEF PoolsSound
<1> DEFINE SP == {SpanOf(x) : x \in P}
           SQ == {SpanOf(x) : x \in Q}
           B == Span(b, ps)
<1>10. SQ = SP \cup {B}
  BY <1>3
<1>11. (pg \ B) \cap UNION SQ = {} /\ (pg \ B) \cup UNION SQ = 1..NPages
  <2>1. pg \cap UNION SP = {} /\ pg \cup UNION SP = 1..NPages
    BY DEF PoolsSound
  <2> HIDE DEF SP, SQ
  <2>2. UNION SQ = (UNION SP) \cup B /\ B \subseteq pg
    BY <1>1, <1>10
  <2> DEFINE W == UNION SP
             V == UNION SQ
  <2> HIDE DEF B
  <2>3. pg \cap W = {} /\ pg \cup W = 1..NPages /\ V = W \cup B /\ B \subseteq pg
    BY <2>1, <2>2
  <2> HIDE DEF W, V
  <2>4. (pg \ B) \cap V = {} /\ (pg \ B) \cup V = 1..NPages
    BY <2>3
  <2> QED
    BY <2>4 DEF V
<1>12. \A o \in T : \E x \in Q : o \in Grid(x)
  BY DEF PoolsSound
<1>13. PoolsSound(Q, pg \ Span(b, ps), T, f)
  <2>1. T \subseteq Nat /\ f \in T
    BY DEF PoolsSound
  <2> HIDE DEF Q
  <2> QED
    BY <1>8, <1>9, <1>11, <1>12, <2>1 DEF PoolsSound
<1> QED
  BY <1>1, <1>2, <1>5, <1>13 DEF ps, NewAmong

-----------------------------------------------------------------------------
(* The lists of caches and pools.                                          *)

Entry(cs, k, n) == [pool |-> cs[k].pools[n], align |-> cs[k].align, size |-> cs[k].size]
Ats(cs) == {c.at : c \in ToSet(cs)}

LEMMA PoolsInFacts ==
  ASSUME NEW cs, cs \in Seq(CacheRec)
  PROVE  /\ \A x : x \in PoolsIn(cs) <=> \E k \in DOMAIN cs : \E n \in DOMAIN cs[k].pools : x = Entry(cs, k, n)
         /\ \A a : a \in Ats(cs) <=> \E k \in DOMAIN cs : a = cs[k].at
  BY DEF PoolsIn, Entry, ToSet, Ats

LEMMA EntryIn ==
  ASSUME NEW cs, cs \in Seq(CacheRec), NEW k \in DOMAIN cs, NEW n \in DOMAIN cs[k].pools
  PROVE  Entry(cs, k, n) \in PoolsIn(cs)
BY PoolsInFacts

LEMMA InEntry ==
  ASSUME NEW cs, cs \in Seq(CacheRec), NEW x \in PoolsIn(cs)
  PROVE  \E k \in DOMAIN cs : \E n \in DOMAIN cs[k].pools : x = Entry(cs, k, n)
BY PoolsInFacts

\* The same caches, one with another list of pools.
SameButPools(cs, ds, k, np) ==
    /\ ds \in Seq(CacheRec) /\ DOMAIN ds = DOMAIN cs /\ Len(ds) = Len(cs)
    /\ \A j \in DOMAIN cs : /\ ds[j].at = cs[j].at /\ ds[j].align = cs[j].align /\ ds[j].size = cs[j].size
                            /\ j # k => ds[j].pools = cs[j].pools
    /\ ds[k].pools = np

LEMMA ReplacePools ==
  ASSUME NEW cs, cs \in Seq(CacheRec), NEW k \in DOMAIN cs, NEW np, np \in Seq(PoolRec),
         NEW ds, ds = [cs EXCEPT ![k] = [cs[k] EXCEPT !.pools = np]]
  PROVE  SameButPools(cs, ds, k, np)
<1> DEFINE c == cs[k]
           d == [c EXCEPT !.pools = np]
<1>1. c \in CacheRec /\ DOMAIN cs = 1..Len(cs) /\ \A j \in DOMAIN cs : cs[j] \in CacheRec
  OBVIOUS
<1>2. /\ d \in CacheRec /\ d.at = c.at /\ d.align = c.align /\ d.size = c.size /\ d.pools = np
  <2> HIDE DEF c
  <2> QED
    BY <1>1 DEF CacheRec
<1>3. ds = [cs EXCEPT ![k] = d]
  OBVIOUS
<1> HIDE DEF d
<1>4. /\ ds \in Seq(CacheRec) /\ DOMAIN ds = DOMAIN cs /\ Len(ds) = Len(cs)
      /\ \A j \in DOMAIN cs : ds[j] = IF j = k THEN d ELSE cs[j]
  BY <1>1, <1>2, <1>3
<1> QED
  BY <1>2, <1>4 DEF SameButPools

LEMMA ShapeKept ==
  ASSUME NEW cs, NEW ds, NEW k, NEW np, Shape(cs), SameButPools(cs, ds, k, np), BasesApart(ds)
  PROVE  Shape(ds) /\ Ats(ds) = Ats(cs) /\ ds[Len(ds)].at = cs[Len(cs)].at
<1>1. Len(cs) \in DOMAIN cs /\ cs \in Seq(CacheRec) /\ Len(cs) \in Nat /\ Len(cs) # 0
  BY EmptySeq DEF Shape
<1>2. /\ ds \in Seq(CacheRec) /\ DOMAIN ds = DOMAIN cs /\ Len(ds) = Len(cs)
      /\ \A j \in DOMAIN cs : ds[j].at = cs[j].at /\ ds[j].align = cs[j].align /\ ds[j].size = cs[j].size
  BY DEF SameButPools
<1>3. ds # <<>>
  BY <1>1, <1>2
<1>4. Ats(ds) = Ats(cs)
  <2>1. \A a : a \in Ats(cs) <=> \E j \in DOMAIN cs : a = cs[j].at
    BY <1>1, PoolsInFacts
  <2>2. \A a : a \in Ats(ds) <=> \E j \in DOMAIN ds : a = ds[j].at
    BY <1>2, PoolsInFacts
  <2>3. \A a : a \in Ats(ds) <=> a \in Ats(cs)
    BY <1>2, <2>1, <2>2
  <2> QED
    BY <2>3
<1>5. \A j \in DOMAIN ds : Roomy(ds[j])
  BY <1>2 DEF Shape, Roomy
<1>6. CachesApart(ds)
  BY <1>2 DEF Shape, CachesApart, Serves
<1>7. Serves(ds[Len(ds)], AllocKey(SLB_T, 0)) /\ ds[Len(ds)].at = cs[Len(cs)].at
  BY <1>1, <1>2 DEF Shape, Serves
<1> QED
  BY <1>2, <1>3, <1>4, <1>5, <1>6, <1>7 DEF Shape

\* Pool n of cache k changes and stays where it is.
LEMMA ChangeOne ==
  ASSUME NEW cs, Shape(cs), NEW k \in DOMAIN cs, NEW n \in DOMAIN cs[k].pools,
         NEW q, q \in PoolRec, q.base = cs[k].pools[n].base,
         NEW ds, SameButPools(cs, ds, k, [cs[k].pools EXCEPT ![n] = q])
  PROVE  /\ Shape(ds) /\ Ats(ds) = Ats(cs) /\ ds[Len(ds)].at = cs[Len(cs)].at
         /\ DOMAIN ds = DOMAIN cs /\ Len(ds) = Len(cs) /\ Entry(cs, k, n) \in PoolsIn(cs)
         /\ PoolsIn(ds) = (PoolsIn(cs) \ {Entry(cs, k, n)})
                          \cup {[pool |-> q, align |-> cs[k].align, size |-> cs[k].size]}
<1> DEFINE op == cs[k].pools
           np == [op EXCEPT ![n] = q]
           x == Entry(cs, k, n)
           y == [pool |-> q, align |-> cs[k].align, size |-> cs[k].size]
<1>1. cs \in Seq(CacheRec) /\ cs[k] \in CacheRec /\ BasesApart(cs)
  BY DEF Shape
<1>2. op \in Seq(PoolRec)
  BY <1>1 DEF CacheRec
<1>3. /\ np \in Seq(PoolRec) /\ DOMAIN np = DOMAIN op
      /\ \A m \in DOMAIN op : np[m] = IF m = n THEN q ELSE op[m]
  <2> HIDE DEF op
  <2> QED
    BY <1>2 DEF op
<1> HIDE DEF np
<1>4. SameButPools(cs, ds, k, np)
  BY DEF np
<1>5. /\ ds \in Seq(CacheRec) /\ DOMAIN ds = DOMAIN cs /\ ds[k].pools = np /\ Len(ds) = Len(cs)
      /\ \A j \in DOMAIN cs : /\ ds[j].align = cs[j].align /\ ds[j].size = cs[j].size
                              /\ j # k => ds[j].pools = cs[j].pools
  BY <1>4 DEF SameButPools
<1>6. \A j \in DOMAIN cs : /\ DOMAIN ds[j].pools = DOMAIN cs[j].pools
                           /\ \A m \in DOMAIN cs[j].pools :
                                 ds[j].pools[m] = IF j = k /\ m = n THEN q ELSE cs[j].pools[m]
  BY <1>3, <1>5
<1>7. BasesApart(ds)
  <2>1. \A j \in DOMAIN cs : \A m \in DOMAIN cs[j].pools : ds[j].pools[m].base = cs[j].pools[m].base
    BY <1>6
  <2> QED
    BY <1>1, <1>5, <1>6, <2>1 DEF BasesApart
<1>8. Shape(ds) /\ Ats(ds) = Ats(cs) /\ ds[Len(ds)].at = cs[Len(cs)].at
  BY <1>4, <1>7, ShapeKept
<1>9. \A j \in DOMAIN cs : \A m \in DOMAIN cs[j].pools :
         Entry(ds, j, m) = IF j = k /\ m = n THEN y ELSE Entry(cs, j, m)
  BY <1>5, <1>6 DEF Entry
<1>10. \A j \in DOMAIN cs : \A m \in DOMAIN cs[j].pools : Entry(cs, j, m) = x => j = k /\ m = n
  <2> SUFFICES ASSUME NEW j \in DOMAIN cs, NEW m \in DOMAIN cs[j].pools, Entry(cs, j, m) = x
               PROVE  j = k /\ m = n
    OBVIOUS
  <2>1. Entry(cs, j, m).pool = cs[j].pools[m] /\ x.pool = cs[k].pools[n]
    BY DEF Entry
  <2>2. cs[j].pools[m].base = cs[k].pools[n].base
    BY <2>1
  <2> QED
    BY <1>1, <2>2 DEF BasesApart
<1> HIDE DEF x, y, op
<1>11. x \in PoolsIn(cs)
  BY <1>1, PoolsInFacts DEF x
<1>12. PoolsIn(ds) = (PoolsIn(cs) \ {x}) \cup {y}
  <2>1. ASSUME NEW z \in PoolsIn(ds) PROVE z \in (PoolsIn(cs) \ {x}) \cup {y}
    <3>1. PICK j \in DOMAIN ds : \E m \in DOMAIN ds[j].pools : z = Entry(ds, j, m)
      BY <1>5, <2>1, InEntry
    <3>2. PICK m \in DOMAIN ds[j].pools : z = Entry(ds, j, m)
      BY <3>1
    <3>3. j \in DOMAIN cs /\ m \in DOMAIN cs[j].pools
      BY <1>5, <1>6, <3>1, <3>2
    <3>4. CASE j = k /\ m = n
      BY <1>9, <3>2, <3>3, <3>4
    <3>5. CASE ~(j = k /\ m = n)
      <4>1. z = Entry(cs, j, m) /\ z # x
        BY <1>9, <1>10, <3>2, <3>3, <3>5
      <4> QED
        BY <1>1, <3>3, <4>1, PoolsInFacts
    <3> QED
      BY <3>4, <3>5
  <2>2. ASSUME NEW z \in PoolsIn(cs), z # x PROVE z \in PoolsIn(ds)
    <3>1. PICK j \in DOMAIN cs : \E m \in DOMAIN cs[j].pools : z = Entry(cs, j, m)
      BY <1>1, PoolsInFacts
    <3>2. PICK m \in DOMAIN cs[j].pools : z = Entry(cs, j, m)
      BY <3>1
    <3>3. ~(j = k /\ m = n)
      BY <2>2, <3>2 DEF x
    <3>4. z = Entry(ds, j, m) /\ j \in DOMAIN ds /\ m \in DOMAIN ds[j].pools
      BY <1>5, <1>6, <1>9, <3>2, <3>3
    <3> QED
      BY <1>5, <3>4, PoolsInFacts
  <2>3. y \in PoolsIn(ds)
    <3>1. y = Entry(ds, k, n) /\ k \in DOMAIN ds /\ n \in DOMAIN ds[k].pools
      BY <1>5, <1>6, <1>9
    <3>2. Entry(ds, k, n) \in PoolsIn(ds)
      BY <1>5, <3>1, PoolsInFacts
    <3> QED
      BY <3>1, <3>2
  <2> QED
    BY <2>1, <2>2, <2>3
<1> QED
  BY <1>5, <1>8, <1>11, <1>12 DEF x, y

\* A pool z, whose base is new, goes in front of those of cache k.
LEMMA LinkInFront ==
  ASSUME NEW cs, Shape(cs), NEW k \in DOMAIN cs,
         NEW q, q \in PoolRec, \A w \in PoolsIn(cs) : w.pool.base # q.base,
         NEW ds, SameButPools(cs, ds, k, Linked(q, cs[k].pools))
  PROVE  /\ Shape(ds) /\ Ats(ds) = Ats(cs) /\ ds[Len(ds)].at = cs[Len(cs)].at
         /\ DOMAIN ds = DOMAIN cs /\ Len(ds) = Len(cs)
         /\ ds[k].align = cs[k].align /\ ds[k].size = cs[k].size
         /\ 1 \in DOMAIN ds[k].pools /\ ds[k].pools[1] = q
         /\ PoolsIn(ds) = PoolsIn(cs) \cup {[pool |-> q, align |-> cs[k].align, size |-> cs[k].size]}
<1> DEFINE op == cs[k].pools
           np == Linked(q, op)
           y == [pool |-> q, align |-> cs[k].align, size |-> cs[k].size]
<1>1. cs \in Seq(CacheRec) /\ cs[k] \in CacheRec /\ BasesApart(cs)
  BY DEF Shape
<1>2. op \in Seq(PoolRec)
  BY <1>1 DEF CacheRec
<1>3. /\ np \in Seq(PoolRec) /\ 1 \in DOMAIN np /\ np[1] = q
      /\ \A m \in DOMAIN op : m + 1 \in DOMAIN np /\ np[m + 1] = op[m]
      /\ \A m \in DOMAIN np : m # 1 => m - 1 \in DOMAIN op /\ np[m] = op[m - 1]
      /\ DOMAIN np \subseteq Nat /\ DOMAIN op \subseteq Nat
  <2> HIDE DEF op
  <2>1. /\ np \in Seq(PoolRec) /\ DOMAIN np = 1..Len(op) + 1 /\ np[1] = q
        /\ \A m \in DOMAIN op : m + 1 \in DOMAIN np /\ np[m + 1] = op[m]
        /\ \A m \in DOMAIN np : m # 1 => m - 1 \in DOMAIN op /\ np[m] = op[m - 1]
    BY <1>2, PrefixFacts DEF Linked
  <2>2. Len(op) \in Nat /\ DOMAIN op = 1..Len(op)
    BY <1>2
  <2> HIDE DEF np
  <2>3. 1 \in DOMAIN np /\ DOMAIN np \subseteq Nat /\ DOMAIN op \subseteq Nat
    BY <2>1, <2>2
  <2> QED
    BY <2>1, <2>3
<1> HIDE DEF np
<1>4. SameButPools(cs, ds, k, np)
  BY DEF np
<1>5. /\ ds \in Seq(CacheRec) /\ DOMAIN ds = DOMAIN cs /\ ds[k].pools = np /\ Len(ds) = Len(cs)
      /\ \A j \in DOMAIN cs : /\ ds[j].align = cs[j].align /\ ds[j].size = cs[j].size
                              /\ j # k => ds[j].pools = cs[j].pools
  BY <1>4 DEF SameButPools
\* Every place of a pool is the new one or moved up from an old one.
<1> DEFINE Old(j, m) == IF j = k THEN m - 1 ELSE m
<1>6. \A j \in DOMAIN ds : \A m \in DOMAIN ds[j].pools :
         \/ j = k /\ m = 1 /\ ds[j].pools[m] = q
         \/ ~(j = k /\ m = 1) /\ Old(j, m) \in DOMAIN cs[j].pools
            /\ ds[j].pools[m] = cs[j].pools[Old(j, m)]
  <2> SUFFICES ASSUME NEW j \in DOMAIN ds, NEW m \in DOMAIN ds[j].pools
               PROVE  \/ j = k /\ m = 1 /\ ds[j].pools[m] = q
                      \/ ~(j = k /\ m = 1) /\ Old(j, m) \in DOMAIN cs[j].pools
                         /\ ds[j].pools[m] = cs[j].pools[Old(j, m)]
    OBVIOUS
  <2>1. CASE j # k
    BY <1>5, <2>1
  <2>2. CASE j = k
    BY <1>3, <1>5, <2>2
  <2> QED
    BY <2>1, <2>2
<1>7. \A j \in DOMAIN cs : \A m \in DOMAIN cs[j].pools : cs[j].pools[m].base # q.base
  <2> SUFFICES ASSUME NEW j \in DOMAIN cs, NEW m \in DOMAIN cs[j].pools PROVE cs[j].pools[m].base # q.base
    OBVIOUS
  <2>1. Entry(cs, j, m) \in PoolsIn(cs)
    BY <1>1, PoolsInFacts
  <2> QED
    BY <2>1 DEF Entry
<1>8. BasesApart(ds)
  <2> SUFFICES ASSUME NEW j \in DOMAIN ds, NEW l \in DOMAIN ds, NEW m \in DOMAIN ds[j].pools,
                      NEW n \in DOMAIN ds[l].pools, ds[j].pools[m].base = ds[l].pools[n].base
               PROVE  j = l /\ m = n
    BY DEF BasesApart
  <2>1. CASE (j = k /\ m = 1) /\ (l = k /\ n = 1)
    BY <2>1
  <2>2. CASE (j = k /\ m = 1) /\ ~(l = k /\ n = 1)
    <3>1. /\ ds[j].pools[m] = q /\ l \in DOMAIN cs /\ Old(l, n) \in DOMAIN cs[l].pools
          /\ ds[l].pools[n] = cs[l].pools[Old(l, n)]
      BY <1>3, <1>5, <1>6, <2>2
    <3> QED
      BY <1>7, <3>1
  <2>3. CASE ~(j = k /\ m = 1) /\ (l = k /\ n = 1)
    <3>1. /\ ds[l].pools[n] = q /\ j \in DOMAIN cs /\ Old(j, m) \in DOMAIN cs[j].pools
          /\ ds[j].pools[m] = cs[j].pools[Old(j, m)]
      BY <1>3, <1>5, <1>6, <2>3
    <3> QED
      BY <1>7, <3>1
  <2>4. CASE ~(j = k /\ m = 1) /\ ~(l = k /\ n = 1)
    <3>1. /\ Old(j, m) \in DOMAIN cs[j].pools /\ Old(l, n) \in DOMAIN cs[l].pools
          /\ cs[j].pools[Old(j, m)].base = cs[l].pools[Old(l, n)].base
      BY <1>6, <2>4
    <3>2. j = l /\ Old(j, m) = Old(l, n)
      BY <1>1, <1>5, <3>1 DEF BasesApart
    <3>3. m = n
      <4>1. CASE j # k
        BY <3>2, <4>1
      <4>2. CASE j = k
        <5>1. m \in Nat /\ n \in Nat
          BY <1>3, <1>5, <3>2, <4>2
        <5> QED
          BY <3>2, <4>2, <5>1
      <4> QED
        BY <4>1, <4>2
    <3> QED
      BY <3>2, <3>3
  <2> QED
    BY <2>1, <2>2, <2>3, <2>4
<1>9. Shape(ds) /\ Ats(ds) = Ats(cs) /\ ds[Len(ds)].at = cs[Len(cs)].at
  BY <1>4, <1>8, ShapeKept
<1>10. PoolsIn(ds) = PoolsIn(cs) \cup {y}
  <2>0. ds \in Seq(CacheRec) /\ cs \in Seq(CacheRec)
    BY <1>1, <1>5
  <2>1. ASSUME NEW z \in PoolsIn(ds) PROVE z \in PoolsIn(cs) \cup {y}
    <3>1. PICK j \in DOMAIN ds : \E m \in DOMAIN ds[j].pools : z = Entry(ds, j, m)
      BY <2>0, <2>1, InEntry
    <3>2. PICK m \in DOMAIN ds[j].pools : z = Entry(ds, j, m)
      BY <3>1
    <3>3. CASE j = k /\ m = 1
      BY <1>5, <1>6, <3>2, <3>3 DEF Entry
    <3>4. CASE ~(j = k /\ m = 1)
      <4>1. Old(j, m) \in DOMAIN cs[j].pools /\ j \in DOMAIN cs /\ z = Entry(cs, j, Old(j, m))
        BY <1>5, <1>6, <3>2, <3>4 DEF Entry
      <4> HIDE DEF Old
      <4> QED
        BY <2>0, <4>1, EntryIn
    <3> QED
      BY <3>3, <3>4
  <2>2. ASSUME NEW z \in PoolsIn(cs) PROVE z \in PoolsIn(ds)
    <3>1. PICK j \in DOMAIN cs : \E m \in DOMAIN cs[j].pools : z = Entry(cs, j, m)
      BY <2>0, <2>2, InEntry
    <3>2. PICK m \in DOMAIN cs[j].pools : z = Entry(cs, j, m)
      BY <3>1
    <3> DEFINE m2 == IF j = k THEN m + 1 ELSE m
    <3>3. m2 \in DOMAIN ds[j].pools /\ ds[j].pools[m2] = cs[j].pools[m] /\ j \in DOMAIN ds
      BY <1>3, <1>5
    <3>4. z = Entry(ds, j, m2)
      BY <1>5, <3>2, <3>3 DEF Entry
    <3> HIDE DEF m2
    <3> QED
      BY <2>0, <3>3, <3>4, EntryIn
  <2>3. y \in PoolsIn(ds)
    <3>1. y = Entry(ds, k, 1) /\ k \in DOMAIN ds /\ 1 \in DOMAIN ds[k].pools
      BY <1>3, <1>5 DEF Entry
    <3> QED
      BY <2>0, <3>1, EntryIn
  <2> QED
    BY <2>1, <2>2, <2>3
<1> QED
  BY <1>3, <1>5, <1>9, <1>10

\* A cache c with one pool q, for a key that none serves, becomes the first.
LEMMA CacheInFront ==
  ASSUME NEW cs, Shape(cs), NEW c, c \in CacheRec, NEW q, c.pools = <<q>>, q \in PoolRec,
         Roomy(c), c.at \notin Ats(cs), \A k \in DOMAIN cs : ~Serves(cs[k], c),
         \A w \in PoolsIn(cs) : w.pool.base # q.base
  PROVE  /\ Shape(<<c>> \o cs) /\ Ats(<<c>> \o cs) = {c.at} \cup Ats(cs)
         /\ (<<c>> \o cs)[Len(<<c>> \o cs)].at = cs[Len(cs)].at
         /\ PoolsIn(<<c>> \o cs) = PoolsIn(cs) \cup {[pool |-> q, align |-> c.align, size |-> c.size]}
         /\ 1 \in DOMAIN (<<c>> \o cs) /\ (<<c>> \o cs)[1] = c
<1> DEFINE ds == <<c>> \o cs
           y == [pool |-> q, align |-> c.align, size |-> c.size]
<1>1. cs \in Seq(CacheRec) /\ BasesApart(cs) /\ CachesApart(cs) /\ \A j \in DOMAIN cs : Roomy(cs[j])
  BY DEF Shape
<1>2. /\ ds \in Seq(CacheRec) /\ Len(ds) = Len(cs) + 1 /\ Len(cs) \in Nat /\ Len(cs) # 0
      /\ DOMAIN ds = 1..Len(cs) + 1 /\ DOMAIN cs = 1..Len(cs) /\ ds[1] = c
      /\ \A m \in DOMAIN cs : m + 1 \in DOMAIN ds /\ ds[m + 1] = cs[m]
      /\ \A m \in DOMAIN ds : m # 1 => m - 1 \in DOMAIN cs /\ ds[m] = cs[m - 1]
      /\ ToSet(ds) = {c} \cup ToSet(cs)
  BY <1>1, PrefixFacts, EmptySeq DEF Shape
<1> HIDE DEF ds
<1>3. 1 \in DOMAIN ds /\ DOMAIN ds \subseteq Nat /\ Len(ds) \in DOMAIN ds /\ Len(ds) # 1
  BY <1>2
<1>4. ds[Len(ds)] = cs[Len(cs)]
  BY <1>2, <1>3
<1>5. DOMAIN c.pools = {1} /\ c.pools[1] = q
  OBVIOUS
<1>6. Ats(ds) = {c.at} \cup Ats(cs)
  <2>1. Ats(ds) = {d.at : d \in {c} \cup ToSet(cs)}
    BY <1>2 DEF Ats
  <2> QED
    BY <2>1 DEF Ats
<1>7. \A j \in DOMAIN ds : Roomy(ds[j])
  BY <1>1, <1>2
<1>8. CachesApart(ds)
  <2> SUFFICES ASSUME NEW j \in DOMAIN ds, NEW l \in DOMAIN ds, ds[j].at = ds[l].at \/ Serves(ds[j], ds[l])
               PROVE  j = l
    BY DEF CachesApart
  <2>0. \A m \in DOMAIN cs : cs[m].at # c.at /\ ~Serves(cs[m], c) /\ ~Serves(c, cs[m])
    BY <1>1, PoolsInFacts DEF Serves
  <2>1. CASE j = 1 /\ l = 1
    BY <2>1
  <2>2. CASE j = 1 /\ l # 1
    BY <1>2, <2>0, <2>2
  <2>3. CASE j # 1 /\ l = 1
    BY <1>2, <2>0, <2>3
  <2>4. CASE j # 1 /\ l # 1
    <3>1. j - 1 = l - 1
      BY <1>1, <1>2, <2>4 DEF CachesApart
    <3>2. j \in Nat /\ l \in Nat
      BY <1>3
    <3> QED
      BY <3>1, <3>2
  <2> QED
    BY <2>1, <2>2, <2>3, <2>4
<1>9. \A j \in DOMAIN cs : \A m \in DOMAIN cs[j].pools : cs[j].pools[m].base # q.base
  <2> SUFFICES ASSUME NEW j \in DOMAIN cs, NEW m \in DOMAIN cs[j].pools PROVE cs[j].pools[m].base # q.base
    OBVIOUS
  <2>1. Entry(cs, j, m) \in PoolsIn(cs)
    BY <1>1, PoolsInFacts
  <2> QED
    BY <2>1 DEF Entry
<1>10. BasesApart(ds)
  <2> SUFFICES ASSUME NEW j \in DOMAIN ds, NEW l \in DOMAIN ds, NEW m \in DOMAIN ds[j].pools,
                      NEW n \in DOMAIN ds[l].pools, ds[j].pools[m].base = ds[l].pools[n].base
               PROVE  j = l /\ m = n
    BY DEF BasesApart
  <2>1. CASE j = 1 /\ l = 1
    BY <1>2, <1>5, <2>1
  <2>2. CASE j = 1 /\ l # 1
    BY <1>2, <1>5, <1>9, <2>2
  <2>3. CASE j # 1 /\ l = 1
    BY <1>2, <1>5, <1>9, <2>3
  <2>4. CASE j # 1 /\ l # 1
    <3>1. j - 1 = l - 1 /\ m = n
      BY <1>1, <1>2, <2>4 DEF BasesApart
    <3>2. j \in Nat /\ l \in Nat
      BY <1>3
    <3> QED
      BY <3>1, <3>2
  <2> QED
    BY <2>1, <2>2, <2>3, <2>4
<1>11. Shape(ds)
  BY <1>2, <1>3, <1>4, <1>7, <1>8, <1>10 DEF Shape
<1>12. PoolsIn(ds) = PoolsIn(cs) \cup {y}
  <2>0. ds \in Seq(CacheRec) /\ cs \in Seq(CacheRec)
    BY <1>1, <1>2
  <2>1. ASSUME NEW z \in PoolsIn(ds) PROVE z \in PoolsIn(cs) \cup {y}
    <3>1. PICK j \in DOMAIN ds : \E m \in DOMAIN ds[j].pools : z = Entry(ds, j, m)
      BY <2>0, <2>1, InEntry
    <3>2. PICK m \in DOMAIN ds[j].pools : z = Entry(ds, j, m)
      BY <3>1
    <3>3. CASE j = 1
      BY <1>2, <1>5, <3>2, <3>3 DEF Entry
    <3>4. CASE j # 1
      <4>1. j - 1 \in DOMAIN cs /\ m \in DOMAIN cs[j - 1].pools /\ z = Entry(cs, j - 1, m)
        BY <1>2, <3>2, <3>4 DEF Entry
      <4> QED
        BY <2>0, <4>1, EntryIn
    <3> QED
      BY <3>3, <3>4
  <2>2. ASSUME NEW z \in PoolsIn(cs) PROVE z \in PoolsIn(ds)
    <3>1. PICK j \in DOMAIN cs : \E m \in DOMAIN cs[j].pools : z = Entry(cs, j, m)
      BY <2>0, <2>2, InEntry
    <3>2. PICK m \in DOMAIN cs[j].pools : z = Entry(cs, j, m)
      BY <3>1
    <3>3. j + 1 \in DOMAIN ds /\ m \in DOMAIN ds[j + 1].pools /\ z = Entry(ds, j + 1, m)
      BY <1>2, <3>2 DEF Entry
    <3> QED
      BY <2>0, <3>3, EntryIn
  <2>3. y \in PoolsIn(ds)
    <3>1. y = Entry(ds, 1, 1) /\ 1 \in DOMAIN ds /\ 1 \in DOMAIN ds[1].pools
      BY <1>2, <1>3, <1>5 DEF Entry
    <3> QED
      BY <2>0, <3>1, EntryIn
  <2> QED
    BY <2>1, <2>2, <2>3
<1> QED
  BY <1>2, <1>3, <1>4, <1>6, <1>11, <1>12 DEF ds

-----------------------------------------------------------------------------
(* What a request gets.                                                    *)

Kept(P, Q) == \A x \in P : \E y \in Q : Grid(y) = Grid(x) /\ Serves(y, x)
SameKeys(cs, ds) ==
    /\ DOMAIN ds = DOMAIN cs
    /\ \A j \in DOMAIN cs : ds[j].align = cs[j].align /\ ds[j].size = cs[j].size

\* The result r of taking an object for k from the caches cs.
Result(cs, T, k, r) ==
    /\ Sound(r.caches, r.pages, T \cup {r.obj}) /\ r.obj \in Nat \ T
    /\ Served(PoolsIn(r.caches), r.obj, k) /\ Kept(PoolsIn(cs), PoolsIn(r.caches))

LEMMA KeptServed ==
  ASSUME NEW P, NEW Q, Kept(P, Q), NEW o, NEW k, Served(P, o, k)
  PROVE  Served(Q, o, k)
BY DEF Kept, Served, Serves

LEMMA KeptAgain ==
  ASSUME NEW P, NEW Q, NEW R, Kept(P, Q), Kept(Q, R)
  PROVE  Kept(P, R)
BY DEF Kept, Serves

LEMMA FindFacts ==
  ASSUME NEW cs, cs \in Seq(CacheRec), NEW key
  PROVE  /\ Find(cs, key) # 0 => Find(cs, key) \in DOMAIN cs /\ Serves(cs[Find(cs, key)], key)
         /\ Find(cs, key) = 0 => \A k \in DOMAIN cs : ~Serves(cs[k], key)
<1> DEFINE hits == {k \in DOMAIN cs : cs[k].align = key.align /\ cs[k].size = key.size}
<1>1. Find(cs, key) = IF hits = {} THEN 0 ELSE Min(hits)
  BY DEF Find
<1>2. hits \subseteq Nat /\ 0 \notin hits
  BY LenProperties
<1>3. \A k \in hits : k \in DOMAIN cs /\ Serves(cs[k], key)
  BY DEF Serves
<1>4. \A k \in DOMAIN cs : Serves(cs[k], key) => k \in hits
  BY DEF Serves
<1> HIDE DEF hits
<1>5. hits # {} => Min(hits) \in hits
  BY <1>2, LeastOf
<1> QED
  BY <1>1, <1>2, <1>3, <1>4, <1>5

LEMMA FreePages ==
  ASSUME NEW cs, NEW pg, NEW T, Sound(cs, pg, T)
  PROVE  pg \subseteq 1..NPages
BY DEF Sound, PoolsSound

LEMMA TookFacts ==
  ASSUME NEW cs, NEW pg, NEW T, Sound(cs, pg, T), NEW k \in DOMAIN cs,
         \E m \in DOMAIN cs[k].pools : cs[k].pools[m].free # <<>>
  PROVE  /\ Result(cs, T, cs[k], Took(cs, pg, k))
         /\ SameKeys(cs, Took(cs, pg, k).caches) /\ Ats(Took(cs, pg, k).caches) = Ats(cs)
<1> DEFINE r == Took(cs, pg, k)
           op == cs[k].pools
           full == {m \in DOMAIN op : op[m].free # <<>>}
           n == Min(full)
           q == Taken(op[n])
           ds == [cs EXCEPT ![k].pools[n] = q]
           f == cs[Len(cs)].at
<1>1. Shape(cs) /\ PoolsSound(PoolsIn(cs), pg, T, f) /\ cs \in Seq(CacheRec) /\ cs[k] \in CacheRec
  BY DEF Sound, Shape
<1>2. op \in Seq(PoolRec) /\ full \subseteq Nat /\ full # {}
  <2>1. op \in Seq(PoolRec)
    BY <1>1 DEF CacheRec
  <2>2. full # {}
    OBVIOUS
  <2> HIDE DEF op
  <2>3. DOMAIN op \subseteq Nat
    BY <2>1
  <2> QED
    BY <2>1, <2>2, <2>3
<1>3. n \in DOMAIN op /\ op[n].free # <<>>
  <2>1. n \in full
    BY <1>2, LeastOf
  <2> QED
    BY <2>1
<1>4. r = [obj |-> Head(op[n].free), pages |-> pg, caches |-> ds]
  BY DEF Took
<1>5. r.obj = Head(op[n].free) /\ r.pages = pg /\ r.caches = ds
  <2> HIDE DEF ds, n, op
  <2> QED
    BY <1>4
<1> DEFINE x == Entry(cs, k, n)
           y == [pool |-> q, align |-> cs[k].align, size |-> cs[k].size]
           h == Head(op[n].free)
<1> HIDE DEF n
<1>6. op[n] \in PoolRec /\ q.base = op[n].base
  <2>1. op[n] \in PoolRec
    BY <1>2, <1>3
  <2> HIDE DEF op
  <2> QED
    BY <2>1 DEF Taken, PoolRec
<1>7. x \in PoolsIn(cs) /\ x.pool = op[n] /\ x.align = cs[k].align /\ x.size = cs[k].size
  BY <1>1, <1>3, EntryIn DEF Entry
<1>8. /\ y = [pool |-> Taken(x.pool), align |-> x.align, size |-> x.size]
      /\ x.pool.free # <<>> /\ h = Head(x.pool.free)
  BY <1>3, <1>7
<1> DEFINE Q == (PoolsIn(cs) \ {x}) \cup {y}
<1>9. /\ PoolsSound(Q, pg, T \cup {h}, f) /\ h \notin T /\ h \in Grid(y) /\ h \in Nat
      /\ SpanOf(y) = SpanOf(x) /\ Grid(y) = Grid(x)
  <2> DEFINE P == PoolsIn(cs)
  <2>1. /\ PoolsSound(P, pg, T, f) /\ x \in P
        /\ Of(y, Taken(x.pool), x.align, x.size) /\ FirstFreeOf(x, h)
    BY <1>1, <1>7, <1>8 DEF Of, FirstFreeOf
  <2> HIDE DEF x, y, h, f, P
  <2>2. /\ PoolsSound((P \ {x}) \cup {y}, pg, T \cup {h}, f) /\ h \notin T /\ h \in Grid(y) /\ h \in Nat
        /\ SpanOf(y) = SpanOf(x) /\ Grid(y) = Grid(x)
    BY <2>1, TakeSound
  <2> QED
    BY <2>2 DEF P
<1>10. q \in PoolRec
  <2>1. y \in Q /\ y.pool = q
    OBVIOUS
  <2> HIDE DEF y, Q
  <2> QED
    BY <1>9, <2>1 DEF PoolsSound, PoolSound
<1>11. SameButPools(cs, ds, k, [op EXCEPT ![n] = q])
  <2>1. [op EXCEPT ![n] = q] \in Seq(PoolRec)
    <3> HIDE DEF op, q
    <3> QED
      BY <1>2, <1>3, <1>10
  <2>2. ds = [cs EXCEPT ![k] = [cs[k] EXCEPT !.pools = [op EXCEPT ![n] = q]]]
    OBVIOUS
  <2> QED
    BY <1>1, <2>1, <2>2, ReplacePools
<1>12. /\ Shape(ds) /\ Ats(ds) = Ats(cs) /\ ds[Len(ds)].at = f
       /\ DOMAIN ds = DOMAIN cs /\ PoolsIn(ds) = Q
  <2> HIDE DEF ds
  <2> QED
    BY <1>1, <1>3, <1>6, <1>10, <1>11, ChangeOne
<1>13. Sound(ds, pg, T \cup {h})
  <2> HIDE DEF ds, Q, h, f
  <2> QED
    BY <1>9, <1>12 DEF Sound
<1>14. Served(Q, h, cs[k])
  <2>1. Serves(y, cs[k])
    BY DEF Serves
  <2> QED
    BY <1>9, <2>1 DEF Served
<1>15. Kept(PoolsIn(cs), Q)
  <2>1. Serves(y, x)
    BY <1>7 DEF Serves
  <2> HIDE DEF x, y
  <2> QED
    BY <1>9, <2>1 DEF Kept, Serves
<1>16. SameKeys(cs, ds)
  <2> HIDE DEF ds
  <2> QED
    BY <1>11, <1>12 DEF SameKeys, SameButPools
<1> HIDE DEF r, ds, Q, h
<1>17. Result(cs, T, cs[k], r)
  <2>1. r.obj = h
    BY <1>5 DEF h
  <2> QED
    BY <1>5, <1>9, <1>12, <1>13, <1>14, <1>15, <2>1 DEF Result
<1> QED
  BY <1>5, <1>12, <1>16, <1>17 DEF r

\* The same for a cache that may grow.
LEMMA GrowFor ==
  ASSUME NEW P, NEW pg, NEW T, NEW f, PoolsSound(P, pg, T, f), pg \subseteq 1..NPages,
         NEW c, Roomy(c), NEW b \in Blocks(pg, PoolSize(c.size)),
         NEW q, q = NewPool(b, c.size, c.align),
         NEW z, Of(z, q, c.align, c.size)
  PROVE  /\ PoolsSound(P \cup {z}, pg \ Span(b, PoolSize(c.size)), T, f)
         /\ q.free # <<>> /\ q \in PoolRec /\ \A x \in P : x.pool.base # q.base
<1>1. PICK os \in Nat : os = c.size
  BY DEF Roomy
<1>2. PICK al \in Nat \ {0} : al = c.align
  BY DEF Roomy
<1>3. os >= OBJ_T /\ POOL_T + al + os <= PoolSize(os) + 1
  BY <1>1, <1>2 DEF Roomy
<1>4. b \in Blocks(pg, PoolSize(os)) /\ Of(z, NewPool(b, os, al), al, os)
  BY <1>1, <1>2
<1>5. PoolsSound(P \cup {z}, pg \ Span(b, PoolSize(os)), T, f) /\ NewAmong(P, z, b)
  BY <1>3, <1>4, GrowSound
<1>6. z.pool = q
  BY DEF Of
<1> QED
  BY <1>1, <1>5, <1>6 DEF NewAmong

\* ds is cs with a pool q for cache k, cut at b out of the pages pg.
Grown(cs, pg, k, b, q, ds) ==
    /\ b \in Blocks(pg, PoolSize(cs[k].size)) /\ q = NewPool(b, cs[k].size, cs[k].align)
    /\ SameButPools(cs, ds, k, Linked(q, cs[k].pools))

\* ... and then an object can be taken.
Enlarged(cs, pg, T, k, b, ds) ==
    /\ Sound(ds, pg \ Span(b, PoolSize(cs[k].size)), T)
    /\ SameKeys(cs, ds) /\ Ats(ds) = Ats(cs) /\ Kept(PoolsIn(cs), PoolsIn(ds))
    /\ \E m \in DOMAIN ds[k].pools : ds[k].pools[m].free # <<>>

\* A pool is added to cache k when all of its pools are empty.
LEMMA GrownFacts ==
  ASSUME NEW cs, NEW pg, NEW T, Sound(cs, pg, T), NEW k \in DOMAIN cs,
         NEW b, NEW q, NEW ds, Grown(cs, pg, k, b, q, ds)
  PROVE  Enlarged(cs, pg, T, k, b, ds)
<1> DEFINE c == cs[k]
           z == [pool |-> q, align |-> c.align, size |-> c.size]
           f == cs[Len(cs)].at
           P == PoolsIn(cs)
           pf == pg \ Span(b, PoolSize(c.size))
<1>0. /\ b \in Blocks(pg, PoolSize(cs[k].size)) /\ q = NewPool(b, cs[k].size, cs[k].align)
      /\ SameButPools(cs, ds, k, Linked(q, cs[k].pools))
  BY DEF Grown
<1>1. Shape(cs) /\ PoolsSound(P, pg, T, f) /\ Roomy(c)
  BY DEF Sound, Shape
<1>2. pg \subseteq 1..NPages
  BY FreePages
<1>3. /\ PoolsSound(P \cup {z}, pf, T, f)
      /\ q.free # <<>> /\ q \in PoolRec /\ \A x \in P : x.pool.base # q.base
  <2>1. /\ b \in Blocks(pg, PoolSize(c.size)) /\ q = NewPool(b, c.size, c.align)
        /\ Of(z, q, c.align, c.size)
    BY <1>0 DEF Of
  <2> HIDE DEF c, z, f, P
  <2> QED
    BY <1>1, <1>2, <2>1, GrowFor
<1>4. /\ Shape(ds) /\ Ats(ds) = Ats(cs) /\ ds[Len(ds)].at = f
      /\ DOMAIN ds = DOMAIN cs
      /\ 1 \in DOMAIN ds[k].pools /\ ds[k].pools[1] = q
      /\ PoolsIn(ds) = P \cup {z}
  BY <1>0, <1>1, <1>3, LinkInFront
<1> HIDE DEF z, P, f, pf
<1>5. Sound(ds, pf, T)
  BY <1>3, <1>4 DEF Sound
<1>6. SameKeys(cs, ds)
  BY <1>0, <1>4 DEF SameKeys, SameButPools
<1>7. Kept(P, PoolsIn(ds))
  BY <1>4 DEF Kept, Serves
<1> QED
  BY <1>3, <1>4, <1>5, <1>6, <1>7 DEF P, pf, Enlarged

\* The result of taking an object of cache k, whether or not it has to grow.
LEMMA TakeFacts ==
  ASSUME NEW cs, NEW pg, NEW T, Sound(cs, pg, T), NEW k \in DOMAIN cs, NEW r \in Take(cs, pg, k)
  PROVE  Result(cs, T, cs[k], r) /\ SameKeys(cs, r.caches) /\ Ats(r.caches) = Ats(cs)
<1>1. CASE \E m \in DOMAIN cs[k].pools : cs[k].pools[m].free # <<>>
  <2>1. r = Took(cs, pg, k)
    BY <1>1 DEF Take
  <2> QED
    BY <1>1, <2>1, TookFacts
<1>2. CASE ~\E m \in DOMAIN cs[k].pools : cs[k].pools[m].free # <<>>
  <2>1. PICK b \in Blocks(pg, PoolSize(cs[k].size)) :
           r = Took([cs EXCEPT ![k].pools = Linked(NewPool(b, cs[k].size, cs[k].align), @)],
                    pg \ Span(b, PoolSize(cs[k].size)), k)
    BY <1>2 DEF Take
  <2> DEFINE q == NewPool(b, cs[k].size, cs[k].align)
             np == Linked(q, cs[k].pools)
             ds == [cs EXCEPT ![k].pools = np]
             pf == pg \ Span(b, PoolSize(cs[k].size))
  <2>2. r = Took(ds, pf, k)
    BY <2>1
  <2>3. cs \in Seq(CacheRec) /\ cs[k] \in CacheRec /\ Roomy(cs[k]) /\ cs[k].pools \in Seq(PoolRec)
    <3>1. cs \in Seq(CacheRec) /\ Roomy(cs[k])
      BY DEF Sound, Shape
    <3>2. cs[k] \in CacheRec
      BY <3>1
    <3> QED
      BY <3>1, <3>2 DEF CacheRec
  <2>4. q \in PoolRec
    <3>1. pg \subseteq 1..NPages /\ PoolsSound(PoolsIn(cs), pg, T, cs[Len(cs)].at)
      BY FreePages DEF Sound
    <3> DEFINE z == [pool |-> q, align |-> cs[k].align, size |-> cs[k].size]
               c == cs[k]
               f == cs[Len(cs)].at
    <3>2. Of(z, q, c.align, c.size) /\ Roomy(c) /\ b \in Blocks(pg, PoolSize(c.size)) /\ q = NewPool(b, c.size, c.align)
      BY <2>3 DEF Of
    <3>3. PoolsSound(PoolsIn(cs), pg, T, f)
      BY <3>1
    <3> HIDE DEF z, q, c, f
    <3> QED
      BY <3>1, <3>2, <3>3, GrowFor
  <2>5. np \in Seq(PoolRec)
    <3> HIDE DEF q
    <3> QED
      BY <2>3, <2>4, PrefixFacts DEF Linked
  <2>6. SameButPools(cs, ds, k, np)
    <3>1. ds = [cs EXCEPT ![k] = [cs[k] EXCEPT !.pools = np]]
      OBVIOUS
    <3> HIDE DEF np
    <3> QED
      BY <2>3, <2>5, <3>1, ReplacePools
  <2>7. /\ Sound(ds, pf, T) /\ SameKeys(cs, ds) /\ Ats(ds) = Ats(cs) /\ Kept(PoolsIn(cs), PoolsIn(ds))
        /\ \E m \in DOMAIN ds[k].pools : ds[k].pools[m].free # <<>>
    <3>1. Grown(cs, pg, k, b, q, ds)
      BY <2>6 DEF Grown
    <3>2. Enlarged(cs, pg, T, k, b, ds)
      <4> HIDE DEF ds, q, pf, np
      <4> QED
        BY <3>1, GrownFacts
    <3> HIDE DEF ds
    <3> QED
      BY <3>2 DEF Enlarged
  <2> HIDE DEF ds, pf
  <2>8. k \in DOMAIN ds
    BY <2>7 DEF SameKeys
  <2>9. Result(ds, T, ds[k], r) /\ SameKeys(ds, r.caches) /\ Ats(r.caches) = Ats(ds)
    BY <2>2, <2>7, <2>8, TookFacts
  <2>10. SameKeys(cs, r.caches)
    BY <2>7, <2>9 DEF SameKeys
  <2>11. Result(cs, T, cs[k], r)
    <3>1. Served(PoolsIn(r.caches), r.obj, cs[k])
      <4>1. ds[k].align = cs[k].align /\ ds[k].size = cs[k].size
        BY <2>7 DEF SameKeys
      <4> QED
        BY <2>9, <4>1 DEF Result, Served, Serves
    <3>2. Kept(PoolsIn(cs), PoolsIn(r.caches))
      BY <2>7, <2>9, KeptAgain DEF Result
    <3> QED
      BY <2>9, <3>1, <3>2 DEF Result
  <2> QED
    BY <2>7, <2>9, <2>10, <2>11
<1> QED
  BY <1>1, <1>2

\* The result of a request: r.obj, and in D the descriptor that it cost.
Granted(cs, T, key, r, D) ==
    /\ D \subseteq Nat \ T /\ Ats(r.caches) = Ats(cs) \cup D
    /\ Sound(r.caches, r.pages, T \cup D \cup {r.obj}) /\ r.obj \in Nat \ (T \cup D)
    /\ Served(PoolsIn(r.caches), r.obj, key)
    /\ \A d \in D : Served(PoolsIn(r.caches), d, AllocKey(SLB_T, 0))
    /\ Kept(PoolsIn(cs), PoolsIn(r.caches))

LEMMA AllocFacts ==
  ASSUME NEW cs, NEW pg, NEW T, Sound(cs, pg, T), Ats(cs) \subseteq T,
         NEW key, Roomy(key), NEW r \in Alloc(cs, pg, key)
  PROVE  \E D : Granted(cs, T, key, r, D)
<1>1. cs \in Seq(CacheRec) /\ cs # <<>> /\ Serves(cs[Len(cs)], AllocKey(SLB_T, 0))
  BY DEF Sound, Shape
<1>2. CASE Find(cs, key) # 0
  <2> DEFINE k == Find(cs, key)
  <2>1. k \in DOMAIN cs /\ Serves(cs[k], key) /\ r \in Take(cs, pg, k)
    BY <1>1, <1>2, FindFacts DEF Alloc
  <2> HIDE DEF k
  <2>2. Result(cs, T, cs[k], r) /\ Ats(r.caches) = Ats(cs)
    BY <2>1, TakeFacts
  <2>3. Served(PoolsIn(r.caches), r.obj, key)
    BY <2>1, <2>2 DEF Result, Served, Serves
  <2>4. Granted(cs, T, key, r, {})
    <3>1. T \cup {} \cup {r.obj} = T \cup {r.obj}
      OBVIOUS
    <3> QED
      BY <2>2, <2>3, <3>1 DEF Granted, Result
  <2> QED
    BY <2>4
<1>3. CASE Find(cs, key) = 0
  <2> DEFINE j == Find(cs, AllocKey(SLB_T, 0))
  <2>1. PICK d \in Take(cs, pg, j) : \E b \in Blocks(d.pages, PoolSize(key.size)) :
           r = Took(<<[at |-> d.obj, align |-> key.align, size |-> key.size,
                       pools |-> <<NewPool(b, key.size, key.align)>>]>> \o d.caches,
                    d.pages \ Span(b, PoolSize(key.size)), 1)
    BY <1>3 DEF Alloc
  <2>2. PICK b \in Blocks(d.pages, PoolSize(key.size)) :
           r = Took(<<[at |-> d.obj, align |-> key.align, size |-> key.size,
                       pools |-> <<NewPool(b, key.size, key.align)>>]>> \o d.caches,
                    d.pages \ Span(b, PoolSize(key.size)), 1)
    BY <2>1
  <2>3. j \in DOMAIN cs /\ Serves(cs[j], AllocKey(SLB_T, 0))
    <3>1. Len(cs) \in DOMAIN cs
      BY <1>1, EmptySeq
    <3>2. j # 0
      BY <1>1, <3>1, FindFacts
    <3> QED
      BY <1>1, <3>2, FindFacts
  <2> HIDE DEF j
  <2>4. Result(cs, T, cs[j], d) /\ SameKeys(cs, d.caches) /\ Ats(d.caches) = Ats(cs)
    BY <2>3, TakeFacts
  <2> DEFINE U == T \cup {d.obj}
             q == NewPool(b, key.size, key.align)
             c == [at |-> d.obj, align |-> key.align, size |-> key.size, pools |-> <<q>>]
             ds == <<c>> \o d.caches
             pf == d.pages \ Span(b, PoolSize(key.size))
             z == [pool |-> q, align |-> key.align, size |-> key.size]
             P == PoolsIn(d.caches)
             f == d.caches[Len(d.caches)].at
  <2>5. Sound(d.caches, d.pages, U) /\ d.obj \in Nat /\ d.obj \notin T
    BY <2>4 DEF Result
  <2>6. d.pages \subseteq 1..NPages /\ PoolsSound(P, d.pages, U, f) /\ Shape(d.caches)
    BY <2>5, FreePages DEF Sound
  <2>7. /\ PoolsSound(P \cup {z}, pf, U, f)
        /\ q.free # <<>> /\ q \in PoolRec /\ \A x \in P : x.pool.base # q.base
    <3>1. Of(z, q, key.align, key.size) /\ q = NewPool(b, key.size, key.align)
      BY DEF Of
    <3> HIDE DEF z, q, P, f, U
    <3> QED
      BY <2>6, <3>1, GrowFor
  <2>8. /\ c.at = d.obj /\ c.align = key.align /\ c.size = key.size /\ c.pools = <<q>>
        /\ c \in CacheRec /\ Roomy(c)
    <3> HIDE DEF q
    <3>1. key.align \in Nat /\ key.size \in Nat
      BY DEF Roomy
    <3> QED
      BY <2>5, <2>7, <3>1 DEF CacheRec, Roomy
  <2> HIDE DEF c, z
  <2>9. c.at \notin Ats(d.caches)
    BY <2>4, <2>5, <2>8
  <2>10. \A k \in DOMAIN d.caches : ~Serves(d.caches[k], c)
    <3>1. \A k \in DOMAIN cs : ~Serves(cs[k], key)
      BY <1>1, <1>3, FindFacts
    <3> QED
      BY <2>4, <2>8, <3>1 DEF SameKeys, Serves
  <2>11. /\ Shape(ds) /\ Ats(ds) = {d.obj} \cup Ats(cs) /\ ds[Len(ds)].at = f
         /\ PoolsIn(ds) = P \cup {z} /\ 1 \in DOMAIN ds /\ ds[1] = c
    <3> DEFINE w == [pool |-> q, align |-> c.align, size |-> c.size]
               e == d.caches
    <3>1. w = z
      BY <2>8 DEF z
    <3>2. Shape(e) /\ c.at \notin Ats(e) /\ (\A k \in DOMAIN e : ~Serves(e[k], c))
          /\ \A x \in PoolsIn(e) : x.pool.base # q.base
      BY <2>6, <2>7, <2>9, <2>10
    <3> HIDE DEF q, e
    <3>3. /\ Shape(<<c>> \o e) /\ Ats(<<c>> \o e) = {c.at} \cup Ats(e)
          /\ (<<c>> \o e)[Len(<<c>> \o e)].at = e[Len(e)].at
          /\ PoolsIn(<<c>> \o e) = PoolsIn(e) \cup {w}
          /\ 1 \in DOMAIN (<<c>> \o e) /\ (<<c>> \o e)[1] = c
      BY <2>7, <2>8, <3>2, CacheInFront
    <3> HIDE DEF w
    <3> QED
      BY <2>4, <2>8, <3>1, <3>3 DEF e
  <2> HIDE DEF ds, P, f, q, pf
  <2>12. Sound(ds, pf, U)
    BY <2>7, <2>11 DEF Sound
  <2>13. \E m \in DOMAIN ds[1].pools : ds[1].pools[m].free # <<>>
    <3>1. ds[1].pools = <<q>>
      BY <2>8, <2>11
    <3>2. 1 \in DOMAIN ds[1].pools /\ ds[1].pools[1] = q
      BY <3>1
    <3> QED
      BY <2>7, <3>2
  <2>14. r = Took(ds, pf, 1)
    BY <2>2 DEF ds, pf, c, q
  <2>15. Result(ds, U, ds[1], r) /\ Ats(r.caches) = Ats(ds)
    BY <2>11, <2>12, <2>13, <2>14, TookFacts
  <2>16. Served(PoolsIn(r.caches), r.obj, key)
    BY <2>8, <2>11, <2>15 DEF Result, Served, Serves
  <2>17. Kept(P, PoolsIn(ds))
    BY <2>11 DEF Kept, Serves
  <2>18. Kept(P, PoolsIn(r.caches))
    BY <2>15, <2>17, KeptAgain DEF Result
  <2>19. Kept(PoolsIn(cs), PoolsIn(r.caches))
    BY <2>4, <2>18, KeptAgain DEF Result, P
  <2>20. Served(PoolsIn(r.caches), d.obj, AllocKey(SLB_T, 0))
    <3>1. Served(P, d.obj, AllocKey(SLB_T, 0))
      BY <2>3, <2>4 DEF Result, Served, Serves, P
    <3> QED
      BY <2>18, <3>1, KeptServed
  <2>21. Granted(cs, T, key, r, {d.obj})
    <3>1. T \cup {d.obj} \cup {r.obj} = U \cup {r.obj}
      OBVIOUS
    <3>2. Ats(r.caches) = Ats(cs) \cup {d.obj}
      BY <2>11, <2>15
    <3>3. Sound(r.caches, r.pages, T \cup {d.obj} \cup {r.obj}) /\ r.obj \in Nat \ (T \cup {d.obj})
      BY <2>15, <3>1 DEF Result
    <3> QED
      BY <2>5, <2>16, <2>19, <2>20, <3>2, <3>3 DEF Granted
  <2> QED
    BY <2>21
<1> QED
  BY <1>2, <1>3

-----------------------------------------------------------------------------
(* The first state.                                                        *)

\* slb_init cuts its pool without an alignment, and the objects are aligned
\* to four bytes all the same, because a page is.
LEMMA FirstGrid ==
  ASSUME NEW ps \in Nat
  PROVE  Segm(PageSize, ps, SLB_T, 1) = Segm(PageSize, ps, SLB_T, 4)
<1> DEFINE h == PageSize \div 4
           a == PageSize + 16
<1>1. PageSize \in Nat \ {0} /\ h \in Nat /\ PageSize = 4 * h
  BY PageSizeAssumption DEF WORD
<1>2. RoundUp(PageSize + POOL_T, 1) = a /\ RoundUp(PageSize + POOL_T, 4) = a
  <2>1. PageSize + POOL_T = a
    BY DEF POOL_T
  <2> HIDE DEF h
  <2>2. ((a + 1 - 1) \div 1) * 1 = a
    BY <1>1
  <2>3. (a + 4 - 1) \div 4 = h + 4
    BY <1>1
  <2>4. ((a + 4 - 1) \div 4) * 4 = a
    BY <1>1, <2>3
  <2> QED
    BY <2>1, <2>2, <2>4 DEF RoundUp
<1>3. SegmStep(SLB_T, 1) = 16 /\ SegmStep(SLB_T, 4) = 16 /\ SLB_T = 16
  BY DEF SegmStep, Maximum, SLB_T
<1>4. ASSUME NEW o \in a..(PageSize + ps - 16), (o - a) % 16 = 0
      PROVE  o % 1 = 0 /\ o % 4 = 0
  <2> HIDE DEF h
  <2>1. o = 4 * h + 16 + 16 * ((o - a) \div 16) /\ (o - a) \div 16 \in Int /\ o \in Nat
    BY <1>1, <1>4
  <2> QED
    BY <1>1, <2>1
<1>5. /\ Segm(PageSize, ps, SLB_T, 1) = {o \in a..(PageSize + ps - 16) : (o - a) % 16 = 0 /\ o % 1 = 0}
      /\ Segm(PageSize, ps, SLB_T, 4) = {o \in a..(PageSize + ps - 16) : (o - a) % 16 = 0 /\ o % 4 = 0}
  BY <1>2, <1>3 DEF Segm
<1> HIDE DEF a
<1> QED
  BY <1>4, <1>5

\* The first pool lies within the pages.
LEMMA FirstSpan ==
  Span(PageSize, PoolSize(SLB_T)) \subseteq 1..NPages
<1> DEFINE e == PageSize + PoolSize(SLB_T) - 1
           n == NPages * PageSize
           d == e \div PageSize
<1>1. /\ PageSize \in Nat \ {0} /\ NPages \in Nat /\ PoolSize(SLB_T) \in Nat
      /\ PoolSize(SLB_T) >= 1 /\ PoolSize(SLB_T) <= n
  BY PageSizeAssumption, NPagesAssumption, PoolSizeFacts DEF SLB_T, POOL_T
<1>2. n \in Nat
  BY <1>1
<1>3. e \in Nat /\ e < n + PageSize
  <2> HIDE DEF n
  <2> QED
    BY <1>1, <1>2
<1>4. PageSize \div PageSize = 1
  <2> DEFINE p == PageSize \div PageSize
  <2>1. p \in Int /\ PageSize % PageSize \in 0..PageSize - 1 /\ PageSize = PageSize * p + (PageSize % PageSize)
    BY <1>1
  <2>2. PageSize % PageSize = 0
    <3>1. (PageSize * 1) % PageSize = 0 /\ PageSize * 1 = PageSize
      BY <1>1, MultipleOf
    <3> QED
      BY <3>1
  <2> SUFFICES p = 1
    OBVIOUS
  <2> HIDE DEF p
  <2>3. PageSize * p = PageSize
    BY <1>1, <2>1, <2>2
  <2> QED
    BY <1>1, <2>1, <2>3
<1>5. d \in Int /\ PageSize * d <= e
  <2>1. d \in Int /\ e % PageSize \in 0..PageSize - 1 /\ e = PageSize * d + (e % PageSize)
    <3> HIDE DEF e
    <3> QED
      BY <1>1, <1>3
  <2> HIDE DEF d, e
  <2>2. PageSize * d \in Int
    BY <1>1, <2>1
  <2> QED
    BY <1>1, <2>1, <2>2
<1>6. d <= NPages
  <2> HIDE DEF d, e
  <2> SUFFICES ASSUME NPages + 1 <= d PROVE FALSE
    BY <1>1, <1>5
  <2>1. PageSize * (NPages + 1) <= PageSize * d
    BY <1>1, <1>5
  <2>2. PageSize * (NPages + 1) = n + PageSize
    BY <1>1
  <2>3. PageSize * d \in Int
    BY <1>1, <1>5
  <2> HIDE DEF n
  <2>4. e \in Nat /\ PageSize * d <= e /\ n + PageSize <= PageSize * d /\ e < n + PageSize
    BY <1>3, <1>5, <2>1, <2>2
  <2> QED
    BY <1>1, <1>2, <2>3, <2>4
<1>7. Span(PageSize, PoolSize(SLB_T)) = 1..d
  BY <1>4 DEF Span
<1> HIDE DEF d
<1> QED
  BY <1>1, <1>5, <1>6, <1>7

\* The pool of slb_init, its first object gone for the first descriptor.
FirstCut == NewPool(PageSize, SLB_T, 1)
FirstTaken == Head(FirstCut.free)

LEMMA FirstPool ==
  ASSUME NEW x, Of(x, FirstFree(FirstCut), 4, 16)
  PROVE  /\ PoolSound(x, {FirstTaken}, FirstTaken) /\ FirstTaken \in Nat /\ FirstTaken \in Grid(x)
         /\ SpanOf(x) = Span(PageSize, PoolSize(SLB_T)) /\ FirstFree(FirstCut) \in PoolRec
<1> DEFINE q == FirstCut
           a == FirstTaken
           z == [pool |-> q, align |-> 1, size |-> 16]
           y == FirstFree(q)
<1> USE DEF FirstCut, FirstTaken
<1>1. PageSize \in Nat /\ SLB_T = 16 /\ PoolSize(16) \in Nat /\ PoolSize(16) >= 42
  BY PageSizeAssumption, PoolSizeFacts DEF SLB_T, POOL_T
<1>2. Of(z, NewPool(PageSize, 16, 1), 1, 16) /\ q = NewPool(PageSize, 16, 1)
  BY <1>1 DEF Of
<1>3. 16 >= OBJ_T /\ POOL_T + 1 + 16 <= PoolSize(16) + 1
  BY <1>1 DEF OBJ_T, POOL_T
<1>4. /\ z.pool.base = PageSize /\ z.pool.size = PoolSize(16) /\ z.pool.free # <<>>
      /\ z.pool \in PoolRec /\ z.pool.inuse = 0 /\ z.pool.size >= POOL_T
      /\ ToSet(z.pool.free) \subseteq Grid(z) /\ IsInjective(z.pool.free)
  <2> HIDE DEF z
  <2> QED
    BY <1>1, <1>2, <1>3, NewPoolFacts
<1>5. /\ q.base = PageSize /\ q.size = PoolSize(16) /\ q.free # <<>>
      /\ q \in PoolRec /\ q.inuse = 0 /\ q.size >= POOL_T
      /\ ToSet(q.free) \subseteq Grid(z) /\ IsInjective(q.free)
  BY <1>4
<1>6. Grid(z) = Segm(PageSize, PoolSize(16), 16, 1)
  BY <1>5 DEF Grid
<1>7. /\ y = [base |-> q.base, size |-> q.size, inuse |-> q.inuse, free |-> Tail(q.free)]
      /\ y.base = PageSize /\ y.size = PoolSize(16) /\ y.inuse = 0 /\ y.free = Tail(q.free)
  <2> HIDE DEF q
  <2>1. \A u \in PoolRec : FirstFree(u) = [base |-> u.base, size |-> u.size, inuse |-> u.inuse, free |-> Tail(u.free)]
    <3> SUFFICES ASSUME NEW u \in PoolRec
                 PROVE  FirstFree(u) = [base |-> u.base, size |-> u.size, inuse |-> u.inuse, free |-> Tail(u.free)]
      OBVIOUS
    <3> DEFINE r == Tail(u.free)
    <3>1. FirstFree(u) = [u EXCEPT !.free = r]
      BY DEF FirstFree
    <3> HIDE DEF r
    <3>2. [u EXCEPT !.free = r] = [base |-> u.base, size |-> u.size, inuse |-> u.inuse, free |-> r]
      <4>1. u = [base |-> u.base, size |-> u.size, inuse |-> u.inuse, free |-> u.free]
        BY DEF PoolRec
      <4>2. \A b, s, e, g : [[base |-> b, size |-> s, inuse |-> e, free |-> g] EXCEPT !.free = r]
                            = [base |-> b, size |-> s, inuse |-> e, free |-> r]
        OBVIOUS
      <4> QED
        BY <4>1, <4>2
    <3> QED
      BY <3>1, <3>2 DEF r
  <2>2. y = [base |-> q.base, size |-> q.size, inuse |-> q.inuse, free |-> Tail(q.free)]
    BY <1>5, <2>1
  <2> DEFINE r == Tail(q.free)
  <2> HIDE DEF r, y
  <2>3. y.base = q.base /\ y.size = q.size /\ y.inuse = q.inuse /\ y.free = r
    BY <2>2 DEF r
  <2> QED
    BY <1>5, <2>2, <2>3 DEF r
<1>8. q.free \in Seq(Nat)
  BY <1>5 DEF PoolRec
<1>9. /\ a \in ToSet(q.free) /\ y.free \in Seq(Nat) /\ IsInjective(y.free)
      /\ ToSet(y.free) = ToSet(q.free) \ {a} /\ ToSet(q.free) \subseteq Nat
  <2> DEFINE s == q.free
  <2>1. s \in Seq(Nat) /\ IsInjective(s) /\ s # <<>> /\ a = Head(s) /\ y.free = Tail(s)
    BY <1>5, <1>7, <1>8
  <2> HIDE DEF s, y
  <2>2. /\ a \in ToSet(s) /\ y.free \in Seq(Nat) /\ IsInjective(y.free)
        /\ ToSet(y.free) = ToSet(s) \ {a} /\ ToSet(s) \subseteq Nat
    BY <2>1, ListFacts
  <2> QED
    BY <2>2 DEF s
<1> HIDE DEF y
<1>10. y \in PoolRec
  BY <1>5, <1>7, <1>9 DEF PoolRec
<1>11. x.pool = y /\ x.align = 4 /\ x.size = 16 /\ x = [pool |-> y, align |-> 4, size |-> 16]
  BY DEF Of, y
<1>12. Grid(x) = Grid(z)
  <2>1. Grid(x) = Segm(PageSize, PoolSize(16), 16, 4)
    BY <1>7, <1>11 DEF Grid
  <2>2. Segm(PageSize, PoolSize(16), 16, 1) = Segm(PageSize, PoolSize(16), 16, 4)
    BY <1>1, FirstGrid DEF SLB_T
  <2> QED
    BY <1>6, <2>1, <2>2
<1>13. SpanOf(x) = Span(PageSize, PoolSize(SLB_T))
  BY <1>1, <1>7, <1>11 DEF SpanOf
<1>14. TakenIn(x, {a}, a) = {}
  BY DEF TakenIn
<1>15. x.pool.inuse = Cardinality(TakenIn(x, {a}, a))
  BY <1>7, <1>11, <1>14, FS_EmptySet
<1> HIDE DEF z
<1>16. a \in Grid(x) /\ a \in Nat /\ ToSet(x.pool.free) \subseteq Grid(x) /\ ToSet(x.pool.free) \cap {a} = {}
  BY <1>5, <1>9, <1>11, <1>12
<1>17. PoolSound(x, {a}, a)
  <2>1. x.pool.size >= POOL_T
    BY <1>5, <1>7, <1>11
  <2>2. 4 \in Nat \ {0} /\ 16 \in Nat
    OBVIOUS
  <2> QED
    BY <1>3, <1>9, <1>10, <1>11, <1>15, <1>16, <2>1, <2>2 DEF PoolSound
<1> QED
  BY <1>10, <1>13, <1>16, <1>17 DEF y

LEMMA SlabInitIInv ==
  SlabInit => SlabIInv
<1> SUFFICES ASSUME SlabInit PROVE SlabIInv
  OBVIOUS
<1> DEFINE q == FirstCut
           a == FirstTaken
           p == FirstFree(q)
           c == [at |-> a, align |-> 4, size |-> 16, pools |-> <<p>>]
           x == [pool |-> p, align |-> 4, size |-> 16]
           S == Span(PageSize, PoolSize(SLB_T))
<1>1. /\ caches = <<c>> /\ pages = (1..NPages) \ S /\ hung = FALSE /\ held = {} /\ lost = {}
  BY DEF SlabInit, Minimum, Maximum, SLB_T, OBJ_T, FirstCut, FirstTaken
<1>2. PoolSound(x, {a}, a) /\ a \in Nat /\ a \in Grid(x) /\ SpanOf(x) = S /\ p \in PoolRec
  <2>1. Of(x, p, 4, 16)
    BY DEF Of
  <2> HIDE DEF x
  <2> QED
    BY <2>1, FirstPool
<1> HIDE DEF q, p, a, S
<1>3. AllocKey(SLB_T, 0) = [align |-> 4, size |-> 16]
  BY DEF AllocKey, Minimum, Maximum, SLB_T, OBJ_T
<1>4. c \in CacheRec /\ Serves(c, AllocKey(SLB_T, 0)) /\ Roomy(c)
  <2>1. <<p>> \in Seq(PoolRec)
    BY <1>2
  <2>2. c \in CacheRec
    BY <1>2, <2>1 DEF CacheRec
  <2>3. POOL_T + 4 + 16 <= PoolSize(16) + 1
    BY PoolSizeFacts DEF POOL_T
  <2>4. Roomy(c)
    BY <2>3 DEF Roomy, OBJ_T
  <2> QED
    BY <1>3, <2>2, <2>4 DEF Serves
<1>5. /\ caches \in Seq(CacheRec) /\ caches # <<>> /\ Len(caches) = 1 /\ DOMAIN caches = {1} /\ caches[1] = c
      /\ c.at = a /\ c.pools = <<p>> /\ DOMAIN c.pools = {1} /\ c.pools[1] = p
  <2>1. c \in CacheRec
    BY <1>4
  <2>2. c.at = a /\ c.pools = <<p>> /\ DOMAIN c.pools = {1} /\ c.pools[1] = p
    OBVIOUS
  <2> HIDE DEF c
  <2> QED
    BY <1>1, <2>1, <2>2
<1>6. Pools = {x} /\ Descriptors = {a} /\ HeldObjs = {}
  <2>1. Entry(caches, 1, 1) = x
    BY <1>5 DEF Entry
  <2> HIDE DEF c, x
  <2>2. /\ \A y : y \in PoolsIn(caches) <=> \E k \in DOMAIN caches : \E n \in DOMAIN caches[k].pools : y = Entry(caches, k, n)
        /\ \A y : y \in Ats(caches) <=> \E k \in DOMAIN caches : y = caches[k].at
    BY <1>5, PoolsInFacts
  <2>3. \A y : y \in PoolsIn(caches) <=> y = x
    BY <1>5, <2>1, <2>2
  <2>4. \A y : y \in Ats(caches) <=> y = a
    BY <1>5, <2>2
  <2> QED
    BY <1>1, <2>3, <2>4 DEF Pools, Descriptors, HeldObjs, Ats
<1>7. Shape(caches)
  <2>1. CachesApart(caches) /\ BasesApart(caches)
    <3> HIDE DEF c
    <3> QED
      BY <1>5 DEF CachesApart, BasesApart
  <2> HIDE DEF c
  <2> QED
    BY <1>4, <1>5, <2>1 DEF Shape
<1>8. PoolsSound({x}, pages, {a}, a)
  <2>1. UNION {SpanOf(y) : y \in {x}} = S
    BY <1>2
  <2>2. S \subseteq 1..NPages
    BY FirstSpan DEF S
  <2> HIDE DEF x
  <2>3. /\ pages \cap UNION {SpanOf(y) : y \in {x}} = {}
        /\ pages \cup UNION {SpanOf(y) : y \in {x}} = 1..NPages
    BY <1>1, <2>1, <2>2
  <2> QED
    BY <1>2, <2>3 DEF PoolsSound
<1> HIDE DEF c
<1>9. Sound(caches, pages, HeldObjs \cup Descriptors \cup lost)
  <2>1. HeldObjs \cup Descriptors \cup lost = {a} /\ PoolsIn(caches) = {x} /\ caches[Len(caches)].at = a
    BY <1>1, <1>5, <1>6 DEF Pools
  <2> HIDE DEF x
  <2> QED
    BY <1>7, <1>8, <2>1 DEF Sound
<1>10. Served(Pools, a, AllocKey(SLB_T, 0))
  <2>1. Serves(x, AllocKey(SLB_T, 0))
    BY <1>3 DEF Serves
  <2> HIDE DEF x
  <2> QED
    BY <1>2, <1>6, <2>1 DEF Served
<1> HIDE DEF x
<1> QED
  BY <1>1, <1>6, <1>9, <1>10, FS_EmptySet DEF SlabIInv

-----------------------------------------------------------------------------
(* The requests.                                                           *)

Asked(h) == \/ h.api = "slb" /\ <<h.len, h.align>> \in Requests
            \/ h.api = "kmalloc" /\ h.len \in Lengths /\ h.align = 0

LEMMA UpBoundFacts ==
  ASSUME NEW n \in Lengths
  PROVE  n \in Nat /\ UpBound(n) \in Nat /\ UpBound(n) >= n + 4
<1>1. n \in Nat /\ UpBound(n) \in Bounds(n)
  BY LengthsAssumption DEF UpBound
<1>2. PICK k \in 0..30 : UpBound(n) = 2^k /\ UpBound(n) >= n + WORD
  BY <1>1 DEF Bounds
<1>3. k \in Nat
  BY <1>2
<1>4. 2^k \in Nat
  BY <1>3, PowerNat
<1> QED
  BY <1>1, <1>2, <1>4 DEF WORD

\* A key, by cases on the alignment.
LEMMA KeyFacts ==
  ASSUME NEW n \in Nat, NEW al
  PROVE  /\ AllocKey(n, al).size = (IF n > 4 THEN n ELSE 4)
         /\ al # 0 => AllocKey(n, al).align = al
         /\ al = 0 => AllocKey(n, al).align = (IF n < 4 THEN n ELSE 4)
BY DEF AllocKey, Minimum, Maximum, OBJ_T

LEMMA RoomyUnaligned ==
  ASSUME NEW n \in Nat \ {0}
  PROVE  Roomy(AllocKey(n, 0))
<1> DEFINE s == AllocKey(n, 0).size
           al == AllocKey(n, 0).align
<1>1. s \in Nat /\ s >= 4 /\ al \in Nat \ {0} /\ al <= 4
  BY KeyFacts
<1> HIDE DEF s, al
<1>2. PoolSize(s) \in Nat /\ PoolSize(s) >= s + 16 + 10
  BY <1>1, PoolSizeFacts DEF POOL_T
<1>3. POOL_T + al + s <= PoolSize(s) + 1 /\ s >= OBJ_T
  BY <1>1, <1>2 DEF POOL_T, OBJ_T
<1> QED
  BY <1>1, <1>3 DEF Roomy, s, al

LEMMA RequestRoomy ==
  ASSUME NEW r \in Requests
  PROVE  Roomy(AllocKey(r[1], r[2])) /\ r[1] \in Nat \ {0} /\ r[2] \in Nat
<1>1. /\ r[1] \in Nat \ {0} /\ r[2] \in {0} \cup {2^n : n \in 0..30}
      /\ POOL_T + r[2] + Maximum(r[1], OBJ_T) <= PoolSize(Maximum(r[1], OBJ_T))
  BY RequestsAssumption
<1>2. r[2] \in Nat
  <2>1. CASE r[2] = 0
    BY <2>1
  <2>2. CASE r[2] \in {2^n : n \in 0..30}
    <3>1. PICK n \in 0..30 : r[2] = 2^n
      BY <2>2
    <3>2. n \in Nat
      OBVIOUS
    <3> QED
      BY <3>1, <3>2, PowerNat
  <2> QED
    BY <1>1, <2>1, <2>2
<1>3. CASE r[2] = 0
  BY <1>1, <1>2, <1>3, RoomyUnaligned
<1>4. CASE r[2] # 0
  <2> DEFINE s == Maximum(r[1], OBJ_T)
             al == r[2]
  <2>1. s \in Nat /\ s >= OBJ_T /\ al \in Nat \ {0} /\ PoolSize(s) \in Nat
    BY <1>1, <1>2, <1>4, PoolSizeFacts DEF Maximum, OBJ_T
  <2>2. AllocKey(r[1], r[2]) = [align |-> al, size |-> s]
    BY <1>4 DEF AllocKey
  <2>3. POOL_T + al + s <= PoolSize(s)
    BY <1>1
  <2> HIDE DEF al, s
  <2>4. POOL_T + al + s <= PoolSize(s) + 1
    BY <2>1, <2>3 DEF POOL_T
  <2> QED
    BY <1>1, <1>2, <2>1, <2>2, <2>4 DEF Roomy
<1> QED
  BY <1>1, <1>2, <1>3, <1>4

LEMMA AskedRoomy ==
  ASSUME NEW h, Asked(h)
  PROVE  Roomy(KeyOf(h))
<1>1. CASE h.api = "slb" /\ <<h.len, h.align>> \in Requests
  <2> DEFINE r == <<h.len, h.align>>
  <2>1. r \in Requests /\ r[1] = h.len /\ r[2] = h.align
    BY <1>1
  <2> HIDE DEF r
  <2>2. Roomy(AllocKey(r[1], r[2]))
    BY <2>1, RequestRoomy
  <2> QED
    BY <1>1, <2>1, <2>2 DEF KeyOf
<1>2. CASE h.api = "kmalloc" /\ h.len \in Lengths
  <2>1. UpBound(h.len) \in Nat \ {0}
    BY <1>2, UpBoundFacts
  <2>2. KeyOf(h) = AllocKey(UpBound(h.len), 0)
    BY <1>2 DEF KeyOf
  <2> QED
    BY <2>1, <2>2, RoomyUnaligned
<1> QED
  BY <1>1, <1>2 DEF Asked

\* What the callers hold.
HeldSound(P, H) ==
    /\ \A h \in H : Served(P, h.obj, KeyOf(h)) /\ Asked(h)
    /\ \A g, h \in H : g.obj = h.obj => g = h
    /\ IsFiniteSet(H)

LEMMA HoldKeeps ==
  ASSUME SlabIInv, NEW h, Asked(h), NEW r \in Alloc(caches, pages, KeyOf(h)),
         h = [obj |-> r.obj, api |-> h.api, len |-> h.len, align |-> h.align],
         Hold(r, h.api, h.len, h.align)
  PROVE  SlabIInv'
<1> DEFINE T == HeldObjs \cup Descriptors \cup lost
           key == KeyOf(h)
<1>1. /\ Sound(caches, pages, T)
      /\ \A d \in Descriptors : Served(Pools, d, AllocKey(SLB_T, 0))
      /\ HeldSound(Pools, held)
      /\ HeldObjs \cap (Descriptors \cup lost) = {} /\ Descriptors \cap lost = {}
      /\ hung \in BOOLEAN
  BY DEF SlabIInv, HeldSound, Asked
<1>2. Descriptors = Ats(caches) /\ Ats(caches) \subseteq T /\ Pools = PoolsIn(caches)
  BY DEF Descriptors, Ats, Pools
<1>3. PICK D : Granted(caches, T, key, r, D)
  <2>1. Roomy(key)
    BY AskedRoomy
  <2> HIDE DEF T, key
  <2>2. r \in Alloc(caches, pages, key)
    BY DEF key
  <2> QED
    BY <1>1, <1>2, <2>1, <2>2, AllocFacts
<1>4. /\ caches' = r.caches /\ pages' = r.pages /\ held' = held \cup {h}
      /\ hung' = hung /\ lost' = lost
  BY DEF Hold
<1>5. /\ Descriptors' = Descriptors \cup D /\ HeldObjs' = HeldObjs \cup {h.obj} /\ h.obj = r.obj
      /\ Pools' = PoolsIn(r.caches)
  <2>1. Descriptors' = Ats(r.caches)
    BY <1>4 DEF Descriptors, Ats
  <2>2. Ats(r.caches) = Ats(caches) \cup D
    BY <1>3 DEF Granted
  <2>3. Pools' = PoolsIn(r.caches)
    BY <1>4 DEF Pools
  <2>4. HeldObjs' = HeldObjs \cup {h.obj}
    BY <1>4 DEF HeldObjs
  <2> QED
    BY <1>2, <2>1, <2>2, <2>3, <2>4
<1>6. /\ D \subseteq Nat \ T /\ r.obj \in Nat \ (T \cup D)
      /\ Sound(r.caches, r.pages, T \cup D \cup {r.obj})
      /\ Served(PoolsIn(r.caches), r.obj, key)
      /\ \A d \in D : Served(PoolsIn(r.caches), d, AllocKey(SLB_T, 0))
      /\ Kept(Pools, PoolsIn(r.caches))
  BY <1>2, <1>3 DEF Granted
<1> HIDE DEF key
<1>7. (HeldObjs \cup Descriptors \cup lost)' = T \cup D \cup {r.obj}
  BY <1>4, <1>5
<1>8. Sound(caches', pages', T \cup D \cup {r.obj})
  BY <1>4, <1>6
<1>9. \A d \in Descriptors' : Served(Pools', d, AllocKey(SLB_T, 0))
  BY <1>1, <1>5, <1>6, KeptServed
<1>10. HeldSound(Pools', held')
  <2>1. \A g \in held : g.obj # r.obj
    BY <1>6 DEF HeldObjs
  <2>2. \A g \in held' : Served(Pools', g.obj, KeyOf(g)) /\ Asked(g)
    <3> SUFFICES ASSUME NEW g \in held' PROVE Served(Pools', g.obj, KeyOf(g)) /\ Asked(g)
      OBVIOUS
    <3>1. CASE g = h
      BY <1>5, <1>6, <3>1 DEF key
    <3>2. CASE g \in held
      <4>1. Served(Pools, g.obj, KeyOf(g)) /\ Asked(g)
        BY <1>1, <3>2 DEF HeldSound
      <4> QED
        BY <1>5, <1>6, <4>1, KeptServed
    <3> QED
      BY <1>4, <3>1, <3>2
  <2>3. \A g, i \in held' : g.obj = i.obj => g = i
    BY <1>1, <1>4, <1>5, <2>1 DEF HeldSound
  <2>4. IsFiniteSet(held')
    BY <1>1, <1>4, FS_AddElement DEF HeldSound
  <2> QED
    BY <2>2, <2>3, <2>4 DEF HeldSound
<1>11. HeldObjs' \cap (Descriptors' \cup lost') = {} /\ Descriptors' \cap lost' = {}
  <2>1. lost' = lost /\ r.obj \notin HeldObjs /\ r.obj \notin Descriptors /\ r.obj \notin lost /\ r.obj \notin D
    BY <1>4, <1>6
  <2>2. D \cap HeldObjs = {} /\ D \cap Descriptors = {} /\ D \cap lost = {}
    BY <1>6
  <2> HIDE DEF T
  <2> QED
    BY <1>1, <1>5, <2>1, <2>2
<1>12. Sound(caches', pages', (HeldObjs \cup Descriptors \cup lost)')
  BY <1>7, <1>8
<1> HIDE DEF T
<1> QED
  BY <1>1, <1>4, <1>9, <1>10, <1>11, <1>12 DEF SlabIInv, HeldSound, Asked

-----------------------------------------------------------------------------
(* What is given back.                                                     *)

\* The caches ds after object o has returned to its pool.
Restored(cs, pg, T, o, ds) ==
    Sound(ds, pg, T \ {o}) /\ Ats(ds) = Ats(cs) /\ Kept(PoolsIn(cs), PoolsIn(ds))

LEMMA ReturnedFacts ==
  ASSUME NEW cs, NEW pg, NEW T, Sound(cs, pg, T), NEW k \in DOMAIN cs, NEW n \in DOMAIN cs[k].pools,
         NEW o \in T, o \in Grid(Entry(cs, k, n)), o # cs[Len(cs)].at
  PROVE  Restored(cs, pg, T, o, [cs EXCEPT ![k].pools[n] = Returned(@, o)])
<1> DEFINE op == cs[k].pools
           q == Returned(op[n], o)
           ds == [cs EXCEPT ![k].pools[n] = q]
           f == cs[Len(cs)].at
           x == Entry(cs, k, n)
           y == [pool |-> q, align |-> cs[k].align, size |-> cs[k].size]
           Q == (PoolsIn(cs) \ {x}) \cup {y}
<1>1. Shape(cs) /\ PoolsSound(PoolsIn(cs), pg, T, f) /\ cs \in Seq(CacheRec) /\ cs[k] \in CacheRec
  BY DEF Sound, Shape
<1>2. op \in Seq(PoolRec) /\ n \in DOMAIN op
  BY <1>1 DEF CacheRec
<1>3. op[n] \in PoolRec /\ q.base = op[n].base
  <2>1. op[n] \in PoolRec
    BY <1>2
  <2> HIDE DEF op
  <2> QED
    BY <2>1 DEF Returned, PoolRec
<1>4. x \in PoolsIn(cs) /\ x.pool = op[n] /\ x.align = cs[k].align /\ x.size = cs[k].size
  BY <1>1, EntryIn DEF Entry
<1>5. y = [pool |-> Returned(x.pool, o), align |-> x.align, size |-> x.size]
  BY <1>4
<1>6. PoolsSound(Q, pg, T \ {o}, f) /\ Grid(y) = Grid(x)
  <2> DEFINE P == PoolsIn(cs)
  <2>1. /\ PoolsSound(P, pg, T, f) /\ x \in P /\ o \in T /\ o \in Grid(x) /\ o # f
        /\ BackIn(x, o, y)
    BY <1>1, <1>4, <1>5 DEF Of, BackIn
  <2> HIDE DEF x, y, f, P
  <2>2. PoolsSound((P \ {x}) \cup {y}, pg, T \ {o}, f) /\ Grid(y) = Grid(x)
    BY <2>1, ReturnSound
  <2> QED
    BY <2>2 DEF P
<1>7. q \in PoolRec
  <2>1. y \in Q /\ y.pool = q
    OBVIOUS
  <2> HIDE DEF y, Q
  <2> QED
    BY <1>6, <2>1 DEF PoolsSound, PoolSound
<1>8. SameButPools(cs, ds, k, [op EXCEPT ![n] = q])
  <2>1. [op EXCEPT ![n] = q] \in Seq(PoolRec)
    <3> HIDE DEF op, q
    <3> QED
      BY <1>2, <1>7
  <2>2. ds = [cs EXCEPT ![k] = [cs[k] EXCEPT !.pools = [op EXCEPT ![n] = q]]]
    OBVIOUS
  <2> QED
    BY <1>1, <2>1, <2>2, ReplacePools
<1>9. Shape(ds) /\ Ats(ds) = Ats(cs) /\ ds[Len(ds)].at = f /\ PoolsIn(ds) = Q
  <2> HIDE DEF ds
  <2> QED
    BY <1>1, <1>2, <1>3, <1>7, <1>8, ChangeOne
<1>10. Sound(ds, pg, T \ {o})
  <2> HIDE DEF ds, Q, f
  <2> QED
    BY <1>6, <1>9 DEF Sound
<1>11. Kept(PoolsIn(cs), Q)
  <2>1. Serves(y, x)
    BY <1>4 DEF Serves
  <2> HIDE DEF x, y
  <2> QED
    BY <1>6, <2>1 DEF Kept, Serves
<1>12. ds = [cs EXCEPT ![k].pools[n] = Returned(@, o)]
  OBVIOUS
<1> HIDE DEF ds, Q
<1>13. Restored(cs, pg, T, o, ds)
  BY <1>9, <1>10, <1>11 DEF Restored
<1> QED
  BY <1>12, <1>13

\* An object is looked for in the cache that it came from, or in none.
LEMMA FreeKeyFacts ==
  ASSUME NEW n \in Nat, NEW al, NEW c, Roomy(c), Serves(c, FreeKey(n, al))
  PROVE  Serves(c, AllocKey(n, al))
<1>1. FreeKey(n, al).align = (IF al = 0 /\ n <= 4 THEN n ELSE al) /\ FreeKey(n, al).size = n
  BY DEF FreeKey
<1>2. n >= 4 /\ c.size = n
  BY <1>1 DEF Roomy, Serves, OBJ_T
<1>3. c.align = (IF al = 0 /\ n <= 4 THEN n ELSE al) /\ c.align # 0
  BY <1>1 DEF Roomy, Serves
<1> QED
  BY <1>2, <1>3, KeyFacts DEF Serves

LEMMA PoolOfFacts ==
  ASSUME NEW cs, cs \in Seq(CacheRec), NEW k \in DOMAIN cs, NEW o, PoolOf(cs, k, o) # 0
  PROVE  PoolOf(cs, k, o) \in DOMAIN cs[k].pools /\ Inside(Entry(cs, k, PoolOf(cs, k, o)), o)
<1> DEFINE ps == cs[k].pools
           hits == {n \in DOMAIN ps : ps[n].base <= o /\ o < ps[n].base + ps[n].size}
<1>1. k # 0
  BY LenProperties
<1>2. PoolOf(cs, k, o) = IF hits = {} THEN 0 ELSE Min(hits)
  BY <1>1 DEF PoolOf
<1>3. cs[k] \in CacheRec
  OBVIOUS
<1>4. ps \in Seq(PoolRec)
  BY <1>3 DEF CacheRec
<1>5. hits \subseteq Nat
  <2> HIDE DEF ps
  <2> QED
    BY <1>4, LenProperties
<1>6. \A n \in hits : n \in DOMAIN ps /\ Inside(Entry(cs, k, n), o)
  BY DEF Inside, Entry
<1> HIDE DEF hits
<1>7. hits # {} => Min(hits) \in hits
  BY <1>5, LeastOf
<1> QED
  BY <1>2, <1>6, <1>7

LEMMA FreedPool ==
  ASSUME NEW cs, NEW pg, NEW T, Sound(cs, pg, T), NEW sz \in Nat, NEW al, NEW o,
         Served(PoolsIn(cs), o, AllocKey(sz, al)),
         NEW k, k = Find(cs, FreeKey(sz, al)), NEW n, n = PoolOf(cs, k, o), n # 0
  PROVE  k \in DOMAIN cs /\ n \in DOMAIN cs[k].pools /\ o \in Grid(Entry(cs, k, n))
<1>1. Shape(cs) /\ PoolsSound(PoolsIn(cs), pg, T, cs[Len(cs)].at) /\ cs \in Seq(CacheRec)
  BY DEF Sound, Shape
<1>2. k # 0
  BY DEF PoolOf
<1>3. k \in DOMAIN cs /\ Serves(cs[k], FreeKey(sz, al))
  BY <1>1, <1>2, FindFacts
<1>4. n \in DOMAIN cs[k].pools /\ Inside(Entry(cs, k, n), o)
  BY <1>1, <1>3, PoolOfFacts
<1>5. PICK x \in PoolsIn(cs) : o \in Grid(x)
  BY DEF Served
<1> DEFINE y == Entry(cs, k, n)
<1>6. y \in PoolsIn(cs)
  BY <1>1, <1>3, <1>4, EntryIn
<1> HIDE DEF y
<1>7. PoolSound(x, T, cs[Len(cs)].at) /\ PoolSound(y, T, cs[Len(cs)].at)
  BY <1>1, <1>6 DEF PoolsSound
<1>8. Inside(x, o) /\ o \in Nat
  BY <1>5, <1>7, GridFacts
<1>9. Inside(y, o)
  BY <1>4 DEF y
<1>10. x = y
  <2> SUFFICES ASSUME x # y PROVE FALSE
    OBVIOUS
  <2>1. SpanOf(x) \cap SpanOf(y) = {}
    BY <1>1, <1>6 DEF PoolsSound
  <2> QED
    BY <1>7, <1>8, <1>9, <2>1, InsideOne
<1> QED
  BY <1>3, <1>4, <1>5, <1>10 DEF y

\* The size and the alignment that a caller gives with its object.
Passed(h, sz, al) ==
    \/ h.api = "slb" /\ sz = h.len /\ al = h.align
    \/ h.api = "kmalloc" /\ sz = UpBound(h.len) /\ al = 0

LEMMA PassedFacts ==
  ASSUME NEW h, Asked(h), NEW sz, NEW al, Passed(h, sz, al)
  PROVE  sz \in Nat /\ KeyOf(h) = AllocKey(sz, al)
<1>1. CASE h.api = "slb"
  <2> DEFINE r == <<h.len, h.align>>
  <2>1. r \in Requests /\ r[1] = sz
    BY <1>1 DEF Asked, Passed
  <2> HIDE DEF r
  <2>2. sz \in Nat
    BY <2>1, RequestRoomy
  <2> QED
    BY <1>1, <2>2 DEF Passed, KeyOf
<1>2. CASE h.api # "slb"
  BY <1>2, UpBoundFacts DEF Asked, Passed, KeyOf
<1> QED
  BY <1>1, <1>2

LEMMA GiveBackKeeps ==
  ASSUME SlabIInv, NEW h \in held, NEW sz, NEW al, Passed(h, sz, al), GiveBack(h, sz, al)
  PROVE  SlabIInv'
<1> DEFINE T == HeldObjs \cup Descriptors \cup lost
           k == Find(caches, FreeKey(sz, al))
           n == PoolOf(caches, k, h.obj)
           o == h.obj
<1>1. /\ Sound(caches, pages, T)
      /\ \A d \in Descriptors : Served(Pools, d, AllocKey(SLB_T, 0))
      /\ HeldSound(Pools, held)
      /\ HeldObjs \cap (Descriptors \cup lost) = {} /\ Descriptors \cap lost = {}
      /\ hung \in BOOLEAN
  BY DEF SlabIInv, HeldSound, Asked
<1>2. Descriptors = Ats(caches) /\ Pools = PoolsIn(caches)
  BY DEF Descriptors, Ats, Pools
<1>3. /\ held' = held \ {h} /\ pages' = pages /\ hung' = hung
      /\ n # 0 => caches' = [caches EXCEPT ![k].pools[n] = Returned(@, o)] /\ lost' = lost
      /\ n = 0 => caches' = caches /\ lost' = lost \cup {o}
  BY DEF GiveBack
<1>4. o \in HeldObjs /\ HeldObjs' = HeldObjs \ {o}
  <2>1. \A g \in held : g.obj = o => g = h
    BY <1>1 DEF HeldSound
  <2> HIDE DEF o
  <2>2. \A g \in held : g.obj # o <=> g # h
    BY <2>1 DEF o
  <2> QED
    BY <1>3, <2>2 DEF HeldObjs, o
<1>5. sz \in Nat /\ Served(Pools, o, AllocKey(sz, al)) /\ \A g \in held' : Asked(g)
  <2>1. Asked(h) /\ Served(Pools, o, KeyOf(h))
    BY <1>1 DEF HeldSound
  <2>2. sz \in Nat /\ KeyOf(h) = AllocKey(sz, al)
    BY <2>1, PassedFacts
  <2>3. \A g \in held' : Asked(g)
    BY <1>1, <1>3 DEF HeldSound
  <2> HIDE DEF o
  <2> QED
    BY <2>1, <2>2, <2>3
<1>6. \A g, i \in held' : g.obj = i.obj => g = i
  BY <1>1, <1>3 DEF HeldSound
<1>7. IsFiniteSet(held')
  BY <1>1, <1>3, FS_Subset DEF HeldSound
<1>8. /\ Sound(caches', pages, (HeldObjs \cup Descriptors \cup lost)')
      /\ Descriptors' = Descriptors /\ Kept(Pools, Pools')
      /\ HeldObjs' \cap (Descriptors' \cup lost') = {} /\ Descriptors' \cap lost' = {}
  <2>1. CASE n # 0
    <3>1. k \in DOMAIN caches /\ n \in DOMAIN caches[k].pools /\ o \in Grid(Entry(caches, k, n))
      <4>1. Served(PoolsIn(caches), o, AllocKey(sz, al))
        BY <1>2, <1>5
      <4>2. k = Find(caches, FreeKey(sz, al)) /\ n = PoolOf(caches, k, o)
        OBVIOUS
      <4> HIDE DEF T, k, n, o
      <4> QED
        BY <1>1, <1>5, <2>1, <4>1, <4>2, FreedPool
    <3>2. caches[Len(caches)].at \in Descriptors
      <4>1. caches \in Seq(CacheRec) /\ caches # <<>>
        BY <1>1 DEF Sound, Shape
      <4>2. Len(caches) \in DOMAIN caches
        BY <4>1, EmptySeq
      <4> QED
        BY <1>2, <4>1, <4>2, PoolsInFacts
    <3>3. o \in T /\ o # caches[Len(caches)].at
      BY <1>1, <1>4, <3>2
    <3> HIDE DEF T, k, n, o
    <3>4. Restored(caches, pages, T, o, caches')
      BY <1>1, <1>3, <2>1, <3>1, <3>3, ReturnedFacts
    <3>5. Descriptors' = Ats(caches') /\ Pools' = PoolsIn(caches')
      BY DEF Descriptors, Ats, Pools
    <3>6. Descriptors' = Descriptors /\ Kept(Pools, Pools') /\ Sound(caches', pages, T \ {o})
      BY <1>2, <3>4, <3>5 DEF Restored
    <3>7. lost' = lost
      BY <1>3, <2>1
    <3>8. (HeldObjs \cup Descriptors \cup lost)' = T \ {o}
      BY <1>1, <1>4, <3>6, <3>7 DEF T
    <3>9. HeldObjs' \cap (Descriptors' \cup lost') = {} /\ Descriptors' \cap lost' = {}
      BY <1>1, <1>4, <3>6, <3>7
    <3> QED
      BY <3>6, <3>8, <3>9
  <2>2. CASE n = 0
    <3> HIDE DEF k, n, o
    <3>1. caches' = caches /\ lost' = lost \cup {o}
      BY <1>3, <2>2
    <3>2. Descriptors' = Descriptors /\ Pools' = Pools
      BY <3>1 DEF Descriptors, Pools
    <3>3. (HeldObjs \cup Descriptors \cup lost)' = T
      BY <1>4, <3>1, <3>2
    <3>4. HeldObjs' \cap (Descriptors' \cup lost') = {} /\ Descriptors' \cap lost' = {}
      BY <1>1, <1>4, <3>1, <3>2
    <3>5. Kept(Pools, Pools')
      BY <3>2 DEF Kept, Serves
    <3>6. Sound(caches', pages, T)
      <4> HIDE DEF T
      <4> QED
        BY <1>1, <3>1
    <3> QED
      BY <3>2, <3>3, <3>4, <3>5, <3>6
  <2> QED
    BY <2>1, <2>2
<1>9. \A d \in Descriptors' : Served(Pools', d, AllocKey(SLB_T, 0))
  BY <1>1, <1>8, KeptServed
<1>10. \A g \in held' : Served(Pools', g.obj, KeyOf(g))
  <2> SUFFICES ASSUME NEW g \in held' PROVE Served(Pools', g.obj, KeyOf(g))
    OBVIOUS
  <2>1. Served(Pools, g.obj, KeyOf(g))
    BY <1>1, <1>3 DEF HeldSound
  <2> QED
    BY <1>8, <2>1, KeptServed
<1> HIDE DEF T, k, n, o
<1> QED
  BY <1>1, <1>3, <1>5, <1>6, <1>7, <1>8, <1>9, <1>10 DEF SlabIInv, Asked

-----------------------------------------------------------------------------
(* The invariant.                                                          *)

LEMMA SlabNextIInv ==
  SlabIInv /\ [SlabNext]_slab_vars => SlabIInv'
<1> SUFFICES ASSUME SlabIInv, [SlabNext]_slab_vars PROVE SlabIInv'
  OBVIOUS
<1>1. CASE SlbAlloc
  <2>0. PICK q \in Requests : \E r \in Alloc(caches, pages, AllocKey(q[1], q[2])) : Hold(r, "slb", q[1], q[2])
    BY <1>1 DEF SlbAlloc
  <2>1. PICK r \in Alloc(caches, pages, AllocKey(q[1], q[2])) : Hold(r, "slb", q[1], q[2])
    BY <2>0
  <2> DEFINE h == [obj |-> r.obj, api |-> "slb", len |-> q[1], align |-> q[2]]
  <2>2. <<q[1], q[2]>> \in Requests
    BY RequestsAssumption
  <2>3. /\ h.api = "slb" /\ h.len = q[1] /\ h.align = q[2]
        /\ h = [obj |-> r.obj, api |-> h.api, len |-> h.len, align |-> h.align]
    OBVIOUS
  <2> HIDE DEF h
  <2>4. Asked(h) /\ KeyOf(h) = AllocKey(q[1], q[2])
    BY <2>2, <2>3 DEF Asked, KeyOf
  <2>5. Hold(r, h.api, h.len, h.align) /\ r \in Alloc(caches, pages, KeyOf(h))
    BY <2>1, <2>3, <2>4
  <2> QED
    BY <2>3, <2>4, <2>5, HoldKeeps
<1>2. CASE Kmalloc
  <2>0. PICK len \in Lengths : \E r \in Alloc(caches, pages, AllocKey(UpBound(len), 0)) : Hold(r, "kmalloc", len, 0)
    BY <1>2 DEF Kmalloc
  <2>1. PICK r \in Alloc(caches, pages, AllocKey(UpBound(len), 0)) : Hold(r, "kmalloc", len, 0)
    BY <2>0
  <2> DEFINE h == [obj |-> r.obj, api |-> "kmalloc", len |-> len, align |-> 0]
  <2>2. /\ h.api = "kmalloc" /\ h.len = len /\ h.align = 0
        /\ h = [obj |-> r.obj, api |-> h.api, len |-> h.len, align |-> h.align]
    OBVIOUS
  <2> HIDE DEF h
  <2>3. Asked(h) /\ KeyOf(h) = AllocKey(UpBound(len), 0)
    BY <2>2 DEF Asked, KeyOf
  <2>4. Hold(r, h.api, h.len, h.align) /\ r \in Alloc(caches, pages, KeyOf(h))
    BY <2>1, <2>2, <2>3
  <2> QED
    BY <2>2, <2>3, <2>4, HoldKeeps
<1>3. CASE SlabHang
  <2>1. hung' = TRUE /\ UNCHANGED <<caches, pages, held, lost>>
    BY <1>3 DEF SlabHang
  <2> QED
    BY <2>1 DEF SlabIInv, HeldObjs, Descriptors, Pools
<1>4. CASE SlbFree
  <2>1. PICK h \in held : h.api = "slb" /\ GiveBack(h, h.len, h.align)
    BY <1>4 DEF SlbFree
  <2>2. Passed(h, h.len, h.align)
    BY <2>1 DEF Passed
  <2> QED
    BY <2>1, <2>2, GiveBackKeeps
<1>5. CASE Kmfree
  <2>1. PICK h \in held : h.api = "kmalloc" /\ GiveBack(h, UpBound(h.len), 0)
    BY <1>5 DEF Kmfree
  <2>2. Passed(h, UpBound(h.len), 0)
    BY <2>1 DEF Passed
  <2> QED
    BY <2>1, <2>2, GiveBackKeeps
<1>6. CASE UNCHANGED slab_vars
  BY <1>6 DEF slab_vars, SlabIInv, HeldObjs, Descriptors, Pools
<1> QED
  BY <1>1, <1>2, <1>3, <1>4, <1>5, <1>6 DEF SlabNext

\* In every reachable state of the slab the pools, their lists and counts,
\* the free pages and what is out agree (slb.c, kmemory_manage.c).
THEOREM SlabInvariant ==
  SlabSpec => []SlabIInv
BY SlabInitIInv, SlabNextIInv, PTL DEF SlabSpec

-----------------------------------------------------------------------------
(* What the invariant says of the memory.                                  *)

\* The account of the pools, as the properties need it.
LEMMA Account ==
  ASSUME SlabIInv
  PROVE  /\ \E T, f : /\ T = HeldObjs \cup Descriptors \cup lost /\ f = caches[Len(caches)].at
                      /\ PoolsSound(Pools, pages, T, f)
         /\ Shape(caches) /\ HeldSound(Pools, held)
         /\ \A d \in Descriptors : Served(Pools, d, AllocKey(SLB_T, 0))
         /\ HeldObjs \cap (Descriptors \cup lost) = {} /\ Descriptors \cap lost = {}
         /\ Descriptors = Ats(caches)
<1>1. Sound(caches, pages, HeldObjs \cup Descriptors \cup lost) /\ Pools = PoolsIn(caches)
  BY DEF SlabIInv, Pools
<1>2. HeldSound(Pools, held)
  BY DEF SlabIInv, HeldSound, Asked
<1> QED
  BY <1>1, <1>2 DEF SlabIInv, Sound, Descriptors, Ats

\* A caller writes within its object, and a kmalloc caller a word in front.
Width(h) == h.len + (IF h.api = "slb" THEN 0 ELSE WORD)

LEMMA WidthFacts ==
  ASSUME NEW h, Asked(h), NEW x, Serves(x, KeyOf(h)), x.size \in Nat
  PROVE  /\ h.len \in Nat /\ Width(h) \in Nat /\ h.len <= Width(h) /\ Width(h) <= x.size
         /\ h.align # 0 => h.align = x.align
<1>1. CASE h.api = "slb" /\ <<h.len, h.align>> \in Requests
  <2> DEFINE r == <<h.len, h.align>>
             n == h.len
  <2>1. r \in Requests /\ r[1] = n
    BY <1>1
  <2> HIDE DEF r
  <2>2. n \in Nat
    BY <2>1, RequestRoomy
  <2>3. x.size = (IF n > 4 THEN n ELSE 4) /\ (h.align # 0 => x.align = h.align)
    BY <1>1, <2>2, KeyFacts DEF Serves, KeyOf
  <2>4. Width(h) = n + 0
    BY <1>1 DEF Width
  <2> HIDE DEF n
  <2>5. n + 0 = n /\ n <= x.size
    BY <2>2, <2>3
  <2> QED
    BY <2>2, <2>3, <2>4, <2>5 DEF n
<1>2. CASE h.api = "kmalloc" /\ h.len \in Lengths /\ h.align = 0
  <2> DEFINE n == h.len
             m == UpBound(h.len)
  <2>1. n \in Nat /\ m \in Nat /\ m >= n + 4
    BY <1>2, UpBoundFacts
  <2>2. x.size = (IF m > 4 THEN m ELSE 4)
    BY <1>2, <2>1, KeyFacts DEF Serves, KeyOf
  <2>3. Width(h) = n + 4
    BY <1>2 DEF Width, WORD
  <2> HIDE DEF n, m
  <2>4. n <= n + 4 /\ n + 4 <= x.size /\ n + 4 \in Nat
    BY <2>1, <2>2
  <2> QED
    BY <1>2, <2>1, <2>3, <2>4 DEF n
<1> QED
  BY <1>1, <1>2 DEF Asked

\* A piece of memory: from an object of x on, or the header of x.
Piece(x, e) ==
    /\ e[1] \in Nat /\ e[2] \in Nat /\ Inside(x, e[1]) /\ e[2] <= x.pool.base + x.pool.size
    /\ \/ e[1] \in Grid(x) /\ e[2] <= e[1] + x.size
       \/ e = <<x.pool.base, x.pool.base + POOL_T>>

LEMMA PiecesApart ==
  ASSUME NEW P, NEW pg, NEW T, NEW f, PoolsSound(P, pg, T, f), NEW x \in P, NEW y \in P,
         NEW d, NEW e, Piece(x, d), Piece(y, e)
  PROVE  \/ d[2] <= e[1] \/ e[2] <= d[1]
         \/ x = y /\ d[1] \in Grid(x) /\ e[1] \in Grid(x) /\ d[1] = e[1]
         \/ d = e
<1>1. PoolSound(x, T, f) /\ PoolSound(y, T, f)
  BY DEF PoolsSound
<1> DEFINE d1 == d[1]
           d2 == d[2]
           e1 == e[1]
           e2 == e[2]
           bx == x.pool.base
           by == y.pool.base
           sx == x.pool.size
           sy == y.pool.size
<1>2. bx \in Nat /\ by \in Nat /\ sx \in Nat /\ sy \in Nat
  BY <1>1 DEF PoolSound, PoolRec
<1>3. /\ d1 \in Nat /\ d2 \in Nat /\ bx <= d1 /\ d1 < bx + sx /\ d2 <= bx + sx
      /\ e1 \in Nat /\ e2 \in Nat /\ by <= e1 /\ e1 < by + sy /\ e2 <= by + sy
  BY DEF Piece, Inside
<1>4. CASE x # y
  <2> SUFFICES ASSUME (d1 <= e1 /\ e1 < d2) \/ (e1 <= d1 /\ d1 < e2) PROVE FALSE
    <3> HIDE DEF d1, d2, e1, e2
    <3>1. d2 <= e1 \/ e2 <= d1
      BY <1>3
    <3> QED
      BY <3>1 DEF d1, d2, e1, e2
  <2>1. SpanOf(x) \cap SpanOf(y) = {}
    BY <1>4 DEF PoolsSound
  <2>2. CASE d1 <= e1 /\ e1 < d2
    <3>1. bx <= e1 /\ e1 < bx + sx
      <4> HIDE DEF d1, d2, e1, e2, bx, by, sx, sy
      <4> QED
        BY <1>2, <1>3, <2>2
    <3>2. Inside(x, e1) /\ Inside(y, e1) /\ e1 \in Nat
      BY <1>3, <3>1 DEF Inside
    <3> HIDE DEF e1
    <3> QED
      BY <1>1, <2>1, <3>2, InsideOne
  <2>3. CASE e1 <= d1 /\ d1 < e2
    <3>1. by <= d1 /\ d1 < by + sy
      <4> HIDE DEF d1, d2, e1, e2, bx, by, sx, sy
      <4> QED
        BY <1>2, <1>3, <2>3
    <3>2. Inside(x, d1) /\ Inside(y, d1) /\ d1 \in Nat
      BY <1>3, <3>1 DEF Inside
    <3> HIDE DEF d1
    <3> QED
      BY <1>1, <2>1, <3>2, InsideOne
  <2> QED
    BY <2>2, <2>3
<1>5. CASE x = y
  <2> DEFINE xs == x.size
  <2>1. xs \in Nat
    BY <1>1 DEF PoolSound
  <2>2. /\ (d1 \in Grid(x) /\ d2 <= d1 + xs) \/ d = <<bx, bx + POOL_T>>
        /\ (e1 \in Grid(x) /\ e2 <= e1 + xs) \/ e = <<bx, bx + POOL_T>>
    BY <1>5 DEF Piece
  <2>3. CASE d = <<bx, bx + POOL_T>> /\ e = <<bx, bx + POOL_T>>
    BY <2>3
  <2>4. CASE d = <<bx, bx + POOL_T>> /\ e1 \in Grid(x)
    <3>1. bx + POOL_T <= e1 /\ d2 = bx + POOL_T
      BY <1>1, <2>4, GridFacts
    <3> QED
      BY <3>1
  <2>5. CASE e = <<bx, bx + POOL_T>> /\ d1 \in Grid(x)
    <3>1. bx + POOL_T <= d1 /\ e2 = bx + POOL_T
      BY <1>1, <2>5, GridFacts
    <3> QED
      BY <3>1
  <2>6. CASE d1 \in Grid(x) /\ d2 <= d1 + xs /\ e1 \in Grid(x) /\ e2 <= e1 + xs
    <3>1. /\ d1 < e1 => d1 + xs <= e1
          /\ e1 < d1 => e1 + xs <= d1
      BY <1>1, <2>6, GridFacts
    <3>2. d1 = e1 \/ d2 <= e1 \/ e2 <= d1
      <4> HIDE DEF d1, d2, e1, e2, xs
      <4> QED
        BY <1>3, <2>1, <2>6, <3>1
    <3> QED
      BY <1>5, <2>6, <3>2
  <2> QED
    BY <2>2, <2>3, <2>4, <2>5, <2>6
<1> QED
  BY <1>4, <1>5

\* Every extent is a piece of some pool, and an object has one extent.
LEMMA ExtentPieces ==
  ASSUME SlabIInv
  PROVE  /\ \A e \in Extents : \E x \in Pools : Piece(x, e)
         /\ \A d, e \in Extents : \A x \in Pools :
               d[1] \in Grid(x) /\ e[1] \in Grid(x) /\ d[1] = e[1] => d = e
<1> DEFINE L == {<<o, o + OBJ_T>> : o \in Listed}
           H == {<<h.obj, h.obj + Width(h)>> : h \in held}
           D == {<<d, d + SLB_T>> : d \in Descriptors}
           B == {<<x.pool.base, x.pool.base + POOL_T>> : x \in Pools}
<1>1. Extents = L \cup H \cup D \cup B
  <2>1. {<<h.obj, h.obj + h.len + (IF h.api = "slb" THEN 0 ELSE WORD)>> : h \in held} = H
    <3> SUFFICES ASSUME NEW h \in held
                 PROVE  h.obj + h.len + (IF h.api = "slb" THEN 0 ELSE WORD) = h.obj + Width(h)
      OBVIOUS
    <3>1. PICK x \in Pools : h.obj \in Grid(x) /\ Serves(x, KeyOf(h)) /\ Asked(h)
      BY Account DEF HeldSound, Served
    <3>2. PICK T, f : PoolSound(x, T, f)
      BY Account DEF PoolsSound
    <3>3. h.obj \in Nat /\ x.size \in Nat
      BY <3>1, <3>2, GridFacts DEF PoolSound
    <3>4. h.len \in Nat
      BY <3>1, <3>3, WidthFacts
    <3> DEFINE w == IF h.api = "slb" THEN 0 ELSE WORD
               o == h.obj
               n == h.len
    <3>5. w \in Nat /\ o \in Nat /\ n \in Nat
      BY <3>3, <3>4 DEF WORD
    <3>6. Width(h) = n + w
      BY DEF Width
    <3> HIDE DEF w, o, n
    <3>7. o + n + w = o + (n + w)
      BY <3>5
    <3> QED
      BY <3>6, <3>7 DEF w, o, n
  <2> QED
    BY <2>1 DEF Extents
<1>2. PICK T, f : /\ T = HeldObjs \cup Descriptors \cup lost
                  /\ PoolsSound(Pools, pages, T, f)
  BY Account
<1>3. \A x \in Pools : /\ PoolSound(x, T, f) /\ x.size \in Nat /\ x.pool.base \in Nat /\ x.pool.size \in Nat
                       /\ OBJ_T <= x.size /\ POOL_T <= x.pool.size /\ ToSet(x.pool.free) \subseteq Grid(x)
                       /\ ToSet(x.pool.free) \cap T = {}
  BY <1>2 DEF PoolsSound, PoolSound, PoolRec
\* An object of x with a width that fits in it.
<1>4. ASSUME NEW x \in Pools, NEW o \in Grid(x), NEW w \in Nat, w <= x.size
      PROVE  Piece(x, <<o, o + w>>)
  <2> DEFINE s == x.size
             b == x.pool.base
             z == x.pool.size
  <2>1. o \in Nat /\ Inside(x, o) /\ o + s <= b + z /\ s \in Nat /\ b \in Nat /\ z \in Nat
    BY <1>3, GridFacts
  <2>2. w <= s
    BY <1>4
  <2>3. o + w \in Nat /\ o + w <= b + z /\ o + w <= o + s
    <3> HIDE DEF s, b, z
    <3> QED
      BY <2>1, <2>2
  <2> QED
    BY <2>1, <2>3 DEF Piece
<1>5. \A e \in L : \E x \in Pools : Piece(x, e)
  <2> SUFFICES ASSUME NEW o \in Listed PROVE \E x \in Pools : Piece(x, <<o, o + OBJ_T>>)
    OBVIOUS
  <2>1. PICK x \in Pools : o \in ToSet(x.pool.free)
    BY DEF Listed
  <2>2. o \in Grid(x) /\ OBJ_T \in Nat /\ OBJ_T <= x.size
    BY <1>3, <2>1 DEF OBJ_T
  <2> QED
    BY <1>4, <2>2
<1>6. \A e \in H : \E x \in Pools : Piece(x, e)
  <2> SUFFICES ASSUME NEW h \in held PROVE \E x \in Pools : Piece(x, <<h.obj, h.obj + Width(h)>>)
    OBVIOUS
  <2>1. PICK x \in Pools : h.obj \in Grid(x) /\ Serves(x, KeyOf(h)) /\ Asked(h)
    BY Account DEF HeldSound, Served
  <2>2. Width(h) \in Nat /\ Width(h) <= x.size
    BY <1>3, <2>1, WidthFacts
  <2> QED
    BY <1>4, <2>1, <2>2
<1>7. \A e \in D : \E x \in Pools : Piece(x, e)
  <2> SUFFICES ASSUME NEW d \in Descriptors PROVE \E x \in Pools : Piece(x, <<d, d + SLB_T>>)
    OBVIOUS
  <2>1. PICK x \in Pools : d \in Grid(x) /\ Serves(x, AllocKey(SLB_T, 0))
    BY Account DEF Served
  <2>2. SLB_T \in Nat /\ SLB_T <= x.size
    BY <2>1, KeyFacts DEF Serves, SLB_T
  <2> QED
    BY <1>4, <2>1, <2>2
<1>8. \A e \in B : \E x \in Pools : Piece(x, e)
  <2> SUFFICES ASSUME NEW x \in Pools PROVE Piece(x, <<x.pool.base, x.pool.base + POOL_T>>)
    OBVIOUS
  <2> DEFINE b == x.pool.base
             z == x.pool.size
  <2>1. b \in Nat /\ z \in Nat /\ 16 <= z
    BY <1>3 DEF POOL_T
  <2>2. b + 16 \in Nat /\ b <= b /\ b < b + z /\ b + 16 <= b + z
    <3> HIDE DEF b, z
    <3> QED
      BY <2>1
  <2> QED
    BY <2>1, <2>2 DEF Piece, Inside, POOL_T
<1>9. \A e \in Extents : \E x \in Pools : Piece(x, e)
  <2> HIDE DEF L, H, D, B
  <2> QED
    BY <1>1, <1>5, <1>6, <1>7, <1>8
<1>10. ASSUME NEW x \in Pools, NEW e \in B, e[1] \in Grid(x) PROVE FALSE
  <2>1. PICK y \in Pools : e = <<y.pool.base, y.pool.base + POOL_T>>
    BY <1>10
  <2>2. e[1] = y.pool.base /\ y.pool.base \in Nat /\ POOL_T <= y.pool.size /\ y.pool.size \in Nat
    BY <1>3, <2>1
  <2>3. Inside(y, e[1])
    <3> DEFINE b == y.pool.base
               z == y.pool.size
    <3>1. b \in Nat /\ z \in Nat /\ 16 <= z /\ e[1] = b
      BY <2>2 DEF POOL_T
    <3>2. b <= b /\ b < b + z
      <4> HIDE DEF b, z
      <4> QED
        BY <3>1
    <3> QED
      BY <3>1, <3>2 DEF Inside
  <2>4. Inside(x, e[1]) /\ x.pool.base + POOL_T <= e[1] /\ e[1] \in Nat
    BY <1>3, <1>10, GridFacts
  <2>5. x = y
    <3> SUFFICES ASSUME x # y PROVE FALSE
      OBVIOUS
    <3>1. SpanOf(x) \cap SpanOf(y) = {}
      BY <1>2 DEF PoolsSound
    <3> QED
      BY <1>3, <2>3, <2>4, <3>1, InsideOne
  <2> QED
    BY <2>2, <2>4, <2>5 DEF POOL_T
<1>11. /\ \A e \in L : e[1] \in Listed /\ e = <<e[1], e[1] + OBJ_T>>
       /\ \A e \in D : e[1] \in Descriptors /\ e = <<e[1], e[1] + SLB_T>>
       /\ \A e \in H : \E h \in held : e[1] = h.obj /\ e = <<h.obj, h.obj + Width(h)>>
  OBVIOUS
<1>12. Listed \cap (HeldObjs \cup Descriptors) = {} /\ HeldObjs \cap Descriptors = {}
  <2>1. Listed \cap T = {}
    BY <1>3 DEF Listed
  <2> QED
    BY <1>2, <2>1, Account
<1>13. \A d, e \in H : d[1] = e[1] => d = e
  BY <1>11, Account DEF HeldSound
<1>14. \A e \in H : e[1] \in HeldObjs
  BY <1>11 DEF HeldObjs
<1> HIDE DEF L, H, D, B
<1>15. ASSUME NEW x \in Pools, NEW d \in Extents, NEW e \in Extents,
              d[1] \in Grid(x), e[1] \in Grid(x), d[1] = e[1]
       PROVE  d = e
  <2>1. d \notin B /\ e \notin B
    BY <1>10, <1>15
  <2>2. d \in L \cup H \cup D /\ e \in L \cup H \cup D
    BY <1>1, <2>1
  <2>3. CASE d[1] \in Listed
    BY <1>11, <1>12, <1>14, <1>15, <2>2, <2>3
  <2>4. CASE d[1] \in Descriptors
    BY <1>11, <1>12, <1>14, <1>15, <2>2, <2>4
  <2>5. CASE d[1] \in HeldObjs
    BY <1>11, <1>12, <1>13, <1>14, <1>15, <2>2, <2>5
  <2> QED
    BY <1>11, <1>14, <2>2, <2>3, <2>4, <2>5
<1> QED
  BY <1>9, <1>15

\* No two pieces of memory in use overlap, and a held object lies in one pool
\* and at its alignment (pool_segm, slb.c:137-159, up_bound).
THEOREM SlabExtentsApart ==
  SlabSpec => []ExtentsApart
<1>1. SlabIInv => ExtentsApart
  <2> SUFFICES ASSUME SlabIInv PROVE ExtentsApart
    OBVIOUS
  <2>1. PICK T, f : PoolsSound(Pools, pages, T, f)
    BY Account
  <2>2. ASSUME NEW d \in Extents, NEW e \in Extents PROVE d = e \/ d[2] <= e[1] \/ e[2] <= d[1]
    <3>1. PICK x \in Pools : Piece(x, d)
      BY ExtentPieces
    <3>2. PICK y \in Pools : Piece(y, e)
      BY ExtentPieces
    <3>3. \/ d[2] <= e[1] \/ e[2] <= d[1]
          \/ x = y /\ d[1] \in Grid(x) /\ e[1] \in Grid(x) /\ d[1] = e[1]
          \/ d = e
      BY <2>1, <3>1, <3>2, PiecesApart
    <3> QED
      BY <3>3, ExtentPieces
  <2>3. ASSUME NEW h \in held
        PROVE  /\ h.align # 0 => h.obj % h.align = 0
               /\ \E x \in Pools : /\ x.pool.base + POOL_T <= h.obj
                                   /\ h.obj + h.len <= x.pool.base + x.pool.size
    <3>1. PICK x \in Pools : h.obj \in Grid(x) /\ Serves(x, KeyOf(h)) /\ Asked(h)
      BY Account DEF HeldSound, Served
    <3> DEFINE o == h.obj
               n == h.len
               b == x.pool.base
               z == x.pool.size
               s == x.size
    <3>2. PoolSound(x, T, f)
      BY <2>1 DEF PoolsSound
    <3>3. o \in Nat /\ b + POOL_T <= o /\ o + s <= b + z /\ o % x.align = 0
      BY <3>1, <3>2, GridFacts
    <3>4. b \in Nat /\ z \in Nat /\ s \in Nat
      BY <3>2 DEF PoolSound, PoolRec
    <3>5. n \in Nat /\ n <= Width(h) /\ Width(h) <= s /\ Width(h) \in Nat /\ (h.align # 0 => h.align = x.align)
      BY <3>1, <3>4, WidthFacts
    <3>6. o + n <= b + z
      <4> HIDE DEF o, n, b, z, s
      <4> QED
        BY <3>3, <3>4, <3>5
    <3> QED
      BY <3>3, <3>5, <3>6
  <2> QED
    BY <2>2, <2>3 DEF ExtentsApart
<1> QED
  BY <1>1, SlabInvariant, PTL

\* A finite set has as many elements as its image under an injective function.
LEMMA ImageCardinality ==
  ASSUME NEW S, NEW W, IsFiniteSet(S), NEW g \in [S -> W],
         \A w \in W : \E s \in S : g[s] = w, \A s, t \in S : g[s] = g[t] => s = t
  PROVE  IsFiniteSet(W) /\ Cardinality(W) = Cardinality(S)
<1>1. g \in Surjection(S, W)
  BY DEF Surjection
<1>2. g \in Injection(S, W)
  BY DEF Injection, IsInjective
<1>3. /\ IsFiniteSet(W)
      /\ Cardinality(W) = Cardinality(S) <=> g \in Injection(S, W)
  BY <1>1, FS_Surjection
<1> QED
  BY <1>2, <1>3

\* An object is on one free list, with one caller, a descriptor or lost
\* (slb_alloc_align, slb.c:41-42, slb_init).
THEOREM SlabOneOwner ==
  SlabSpec => []OneOwner
<1>1. SlabIInv => OneOwner
  <2> SUFFICES ASSUME SlabIInv PROVE OneOwner
    OBVIOUS
  <2>1. PICK T, f : T = HeldObjs \cup Descriptors \cup lost /\ PoolsSound(Pools, pages, T, f)
    BY Account
  <2>2. \A x \in Pools : PoolSound(x, T, f)
    BY <2>1 DEF PoolsSound
  <2>3. ASSUME NEW x \in Pools, NEW y \in Pools
        PROVE  x = y \/ ToSet(x.pool.free) \cap ToSet(y.pool.free) = {}
    <3> SUFFICES ASSUME x # y, NEW o \in ToSet(x.pool.free), o \in ToSet(y.pool.free) PROVE FALSE
      OBVIOUS
    <3>1. o \in Grid(x) /\ o \in Grid(y)
      BY <2>2 DEF PoolSound
    <3>2. Inside(x, o) /\ Inside(y, o) /\ o \in Nat
      BY <2>2, <3>1, GridFacts
    <3>3. SpanOf(x) \cap SpanOf(y) = {}
      BY <2>1 DEF PoolsSound
    <3> QED
      BY <2>2, <3>2, <3>3, InsideOne
  <2>4. \A x \in Pools : IsInjective(x.pool.free)
    BY <2>2 DEF PoolSound
  <2>5. Listed \cap (HeldObjs \cup Descriptors \cup lost) = {}
    BY <2>1, <2>2 DEF PoolSound, Listed
  <2>6. Cardinality(held) = Cardinality(HeldObjs)
    <3> DEFINE g == [h \in held |-> h.obj]
    <3>1. g \in [held -> HeldObjs] /\ \A w \in HeldObjs : \E h \in held : g[h] = w
      BY DEF HeldObjs
    <3>2. IsFiniteSet(held) /\ \A h, i \in held : g[h] = g[i] => h = i
      BY Account DEF HeldSound
    <3> HIDE DEF g
    <3> QED
      BY <3>1, <3>2, ImageCardinality
  <2>7. Cardinality(Descriptors) = Len(caches)
    <3> DEFINE S == 1..Len(caches)
               g == [k \in S |-> caches[k].at]
    <3>1. caches \in Seq(CacheRec) /\ CachesApart(caches) /\ Descriptors = Ats(caches)
      BY Account DEF Shape
    <3>2. Len(caches) \in Nat /\ DOMAIN caches = S
      BY <3>1
    <3>3. \A a : a \in Descriptors <=> \E k \in DOMAIN caches : a = caches[k].at
      BY <3>1, PoolsInFacts
    <3>4. g \in [S -> Descriptors] /\ \A w \in Descriptors : \E k \in S : g[k] = w
      BY <3>2, <3>3
    <3>5. \A k, l \in S : g[k] = g[l] => k = l
      BY <3>1, <3>2 DEF CachesApart
    <3>6. IsFiniteSet(S) /\ Cardinality(S) = Len(caches)
      <4> DEFINE m == Len(caches)
      <4>1. m \in Nat
        BY <3>2
      <4> HIDE DEF m
      <4>2. IsFiniteSet(1..m) /\ Cardinality(1..m) = m
        BY <4>1, FS_Interval
      <4> QED
        BY <4>2 DEF m
    <3> HIDE DEF g, S
    <3> QED
      BY <3>4, <3>5, <3>6, ImageCardinality
  <2> QED
    BY <2>3, <2>4, <2>5, <2>6, <2>7, Account DEF OneOwner
<1> QED
  BY <1>1, SlabInvariant, PTL

\* The counts of objects and of pages are exact: no pool is given up while
\* something in it is out, no page is lost or in two pools (slb.c:36-43, 57-64,
\* 91, 101-105).
THEOREM SlabCountsExact ==
  SlabSpec => []CountsExact
<1>1. SlabIInv => CountsExact
  <2> SUFFICES ASSUME SlabIInv PROVE CountsExact
    OBVIOUS
  <2>1. PICK T, f : /\ T = HeldObjs \cup Descriptors \cup lost /\ f = caches[Len(caches)].at
                    /\ PoolsSound(Pools, pages, T, f)
    BY Account
  <2>2. \A x \in Pools : PoolSound(x, T, f)
    BY <2>1 DEF PoolsSound
  <2>3. InUseCounts
    <3> SUFFICES ASSUME NEW x \in Pools
                 PROVE  x.pool.inuse = Cardinality({o \in HeldObjs \cup Descriptors \cup lost :
                           x.pool.base <= o /\ o < x.pool.base + x.pool.size} \ {caches[Len(caches)].at})
      BY DEF InUseCounts
    <3>1. TakenIn(x, T, f) = {o \in HeldObjs \cup Descriptors \cup lost :
                           x.pool.base <= o /\ o < x.pool.base + x.pool.size} \ {caches[Len(caches)].at}
      BY <2>1 DEF TakenIn, Inside
    <3>2. x.pool.inuse = Cardinality(TakenIn(x, T, f))
      BY <2>2 DEF PoolSound
    <3> QED
      BY <3>1, <3>2
  <2>4. PagesAccounted
    <3> DEFINE U == UNION {Span(x.pool.base, x.pool.size) : x \in Pools}
    <3>1. U = UNION {SpanOf(x) : x \in Pools}
      BY DEF SpanOf
    <3>2. pages \cap U = {} /\ pages \cup U = 1..NPages
      <4> HIDE DEF U
      <4> QED
        BY <2>1, <3>1 DEF PoolsSound
    <3>3. \A x, y \in Pools : x # y => Span(x.pool.base, x.pool.size) \cap Span(y.pool.base, y.pool.size) = {}
      BY <2>1 DEF PoolsSound, SpanOf
    <3>4. \A x, y \in Pools :
             x.pool.base = y.pool.base
             \/ Span(x.pool.base, x.pool.size) \cap Span(y.pool.base, y.pool.size) = {}
      BY <3>3
    <3> QED
      BY <3>2, <3>4 DEF PagesAccounted
  <2>5. SlabTypeOK
    <3>1. caches \in Seq(CacheRec)
      BY Account DEF Shape
    <3>2. ASSUME NEW c \in ToSet(caches)
          PROVE  /\ {c.at, c.align, c.size} \subseteq Nat
                 /\ \A n \in DOMAIN c.pools :
                       /\ {c.pools[n].base, c.pools[n].size, c.pools[n].inuse} \subseteq Nat
                       /\ ToSet(c.pools[n].free) \subseteq Nat
      <4>1. c \in CacheRec
        BY <3>1 DEF ToSet
      <4>2. {c.at, c.align, c.size} \subseteq Nat /\ c.pools \in Seq(PoolRec)
        BY <4>1 DEF CacheRec
      <4> DEFINE ps == c.pools
      <4>0. ps \in Seq(PoolRec)
        BY <4>2
      <4>3. ASSUME NEW n \in DOMAIN ps
            PROVE  /\ {ps[n].base, ps[n].size, ps[n].inuse} \subseteq Nat
                   /\ ToSet(ps[n].free) \subseteq Nat
        <5>1. ps[n] \in PoolRec
          <6> HIDE DEF ps
          <6> QED
            BY <4>0, <4>3
        <5> DEFINE q == ps[n]
        <5>2. q.free \in Seq(Nat) /\ {q.base, q.size, q.inuse} \subseteq Nat
          <6> HIDE DEF q
          <6> QED
            BY <5>1 DEF PoolRec, q
        <5> DEFINE s == q.free
        <5>3. ToSet(s) \subseteq Nat
          <6> HIDE DEF s, q
          <6> QED
            BY <5>2 DEF ToSet, s
        <5> QED
          BY <5>2, <5>3
      <4> QED
        BY <4>2, <4>3
    <3>3. pages \subseteq 1..NPages /\ lost \subseteq Nat
      BY <2>1 DEF PoolsSound
    <3>4. ASSUME NEW h \in held PROVE h.obj \in Nat /\ h.api \in {"slb", "kmalloc"}
      <4>1. h.obj \in Nat
        BY <2>1 DEF HeldObjs, PoolsSound
      <4>2. Asked(h)
        BY Account DEF HeldSound
      <4> QED
        BY <4>1, <4>2 DEF Asked
    <3>5. hung \in BOOLEAN
      BY DEF SlabIInv
    <3> QED
      BY <3>2, <3>3, <3>4, <3>5 DEF SlabTypeOK
  <2> QED
    BY <2>3, <2>4, <2>5 DEF CountsExact
<1> QED
  BY <1>1, SlabInvariant, PTL
=============================================================================
