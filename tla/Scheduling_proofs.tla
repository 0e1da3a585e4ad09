-------------------------- MODULE Scheduling_proofs -------------------------
(***************************************************************************)
(* The queues of policy_rr.c, the linked lists that implement them, for    *)
(* any number of PCBs and list elements, and the process subsystem above   *)
(* them, for every MAX_PCB, every user program length and every set of     *)
(* system calls.                                                           *)
(***************************************************************************)
EXTENDS Process, PolicyRR, SequenceTheorems, FiniteSetTheorems, WellFoundedInduction, TLAPS

-----------------------------------------------------------------------------
(* What the queue operations do to the contents of a queue.                *)

LEMMA ContentsHolds ==
  ASSUME NEW q, NEW x
  PROVE  Holds(q, x) <=> x \in Contents(q)
BY DEF Holds, Contents

\* A queue that holds nothing is empty, and one that holds x alone is <<x>>.
LEMMA SmallQueues ==
  ASSUME NEW S, NEW q \in Seq(S)
  PROVE  /\ Contents(q) \subseteq S
         /\ Contents(q) = {} <=> q = <<>>
         /\ \A x \in S : NoDuplicates(q) /\ Contents(q) = {x} => q = <<x>>
<1>1. Contents(q) \subseteq S
  BY DEF Contents
<1>2. Contents(q) = {} <=> q = <<>>
  <2>1. q # <<>> => 1 \in DOMAIN q
    OBVIOUS
  <2> QED
    BY <2>1 DEF Contents
<1>3. ASSUME NEW x \in S, NoDuplicates(q), Contents(q) = {x} PROVE q = <<x>>
  <2>1. \A i \in 1..Len(q) : q[i] = x
    BY <1>3 DEF Contents
  <2>2. \A i, j \in 1..Len(q) : i = j
    BY <1>3, <2>1 DEF NoDuplicates
  <2>3. Len(q) # 0
    BY <1>2, <1>3
  <2>4. Len(q) = 1
    <3>1. Len(q) \in Nat
      OBVIOUS
    <3>2. Len(q) > 1 => 1 \in 1..Len(q) /\ 2 \in 1..Len(q)
      BY <3>1
    <3> QED
      BY <2>2, <2>3, <3>1, <3>2
  <2> QED
    BY <2>1, <2>4
<1> QED
  BY <1>1, <1>2, <1>3

LEMMA PushFacts ==
  ASSUME NEW S, NEW q \in Seq(S), NEW task \in S
  PROVE  /\ Push(q, task) \in Seq(S)
         /\ Contents(Push(q, task)) = Contents(q) \cup {task}
         /\ NoDuplicates(q) /\ task \notin Contents(q) => NoDuplicates(Push(q, task))
<1>1. /\ Push(q, task) \in Seq(S) /\ Len(Push(q, task)) = Len(q) + 1
      /\ \A i \in 1..Len(q) : Push(q, task)[i] = q[i]
      /\ Push(q, task)[Len(q) + 1] = task
  BY DEF Push
<1>2. Contents(Push(q, task)) = Contents(q) \cup {task}
  <2>1. 1..(Len(q) + 1) = (1..Len(q)) \cup {Len(q) + 1}
    OBVIOUS
  <2> QED
    BY <1>1, <2>1 DEF Contents
<1>3. ASSUME NoDuplicates(q), task \notin Contents(q) PROVE NoDuplicates(Push(q, task))
  BY <1>1, <1>3 DEF NoDuplicates, Contents
<1> QED
  BY <1>1, <1>2, <1>3

\* In a queue without duplicates the element that points at task is unique,
\* so that it is the first.
LEMMA FirstIndexFacts ==
  ASSUME NEW S, NEW q \in Seq(S), NEW task, Holds(q, task), NoDuplicates(q)
  PROVE  /\ FirstIndex(q, task) \in 1..Len(q)
         /\ \A i \in 1..Len(q) : q[i] = task <=> i = FirstIndex(q, task)
<1>1. PICK k \in DOMAIN q : q[k] = task
  BY DEF Holds
<1>2. \A i \in DOMAIN q : q[i] = task => i = k
  BY <1>1 DEF NoDuplicates
<1>3. \A j \in 1..(k - 1) : q[j] # task
  BY <1>2
<1>4. k = FirstIndex(q, task)
  BY <1>1, <1>2, <1>3 DEF FirstIndex
<1> QED
  BY <1>1, <1>2, <1>4

LEMMA PopType ==
  ASSUME NEW S, NEW q \in Seq(S), NEW task
  PROVE  Pop(q, task) \in Seq(S)
<1>1. CASE Holds(q, task)
  <2> DEFINE k == FirstIndex(q, task)
             r == [i \in 1..(Len(q) - 1) |-> IF i < k THEN q[i] ELSE q[i + 1]]
  <2>1. Len(q) - 1 \in Nat
    BY <1>1 DEF Holds
  <2>2. \A i \in 1..(Len(q) - 1) : q[i] \in S /\ q[i + 1] \in S
    OBVIOUS
  <2> HIDE DEF k
  <2>3. r \in [1..(Len(q) - 1) -> S]
    BY <2>2
  <2>4. r \in Seq(S)
    BY <2>1, <2>3, SeqDef
  <2> QED
    BY <1>1, <2>4 DEF Pop, k
<1>2. CASE ~Holds(q, task)
  BY <1>2 DEF Pop
<1> QED
  BY <1>1, <1>2

LEMMA PopFacts ==
  ASSUME NEW S, NEW q \in Seq(S), NEW task, NoDuplicates(q)
  PROVE  /\ Contents(Pop(q, task)) = Contents(q) \ {task}
         /\ NoDuplicates(Pop(q, task))
<1>1. CASE ~Holds(q, task)
  BY <1>1, ContentsHolds DEF Pop
<1>2. CASE Holds(q, task)
  <2> DEFINE k == FirstIndex(q, task)
             r == Pop(q, task)
  <2>1. /\ k \in 1..Len(q) /\ \A i \in 1..Len(q) : q[i] = task <=> i = k
    BY <1>2, FirstIndexFacts
  <2>2. Len(q) \in Nat /\ Len(q) > 0 /\ DOMAIN q = 1..Len(q)
    BY <2>1
  <2>3. r = [i \in 1..(Len(q) - 1) |-> IF i < k THEN q[i] ELSE q[i + 1]]
    BY <1>2 DEF Pop
  <2> HIDE DEF k, r
  <2>4. DOMAIN r = 1..(Len(q) - 1)
    BY <2>3
  \* The elements of r are those of q at the other indices, each at its own.
  <2> DEFINE At(i) == IF i < k THEN i ELSE i + 1
  <2>5. \A i \in 1..(Len(q) - 1) : At(i) \in 1..Len(q) /\ At(i) # k /\ r[i] = q[At(i)]
    BY <2>1, <2>2, <2>3
  <2>6. \A i, j \in 1..(Len(q) - 1) : At(i) = At(j) => i = j
    BY <2>1, <2>2
  <2>7. \A n \in 1..Len(q) : n # k => \E i \in 1..(Len(q) - 1) : At(i) = n
    <3> SUFFICES ASSUME NEW n \in 1..Len(q), n # k
                 PROVE  \E i \in 1..(Len(q) - 1) : At(i) = n
      OBVIOUS
    <3>1. CASE n < k
      <4>1. n \in 1..(Len(q) - 1) /\ At(n) = n
        BY <2>1, <2>2, <3>1
      <4> QED
        BY <4>1
    <3>2. CASE n > k
      <4>1. n - 1 \in 1..(Len(q) - 1) /\ At(n - 1) = n
        BY <2>1, <2>2, <3>2
      <4> QED
        BY <4>1
    <3> QED
      BY <2>1, <2>2, <3>1, <3>2
  <2> HIDE DEF At
  <2>8. Contents(r) = Contents(q) \ {task}
    <3>1. ASSUME NEW x \in Contents(r) PROVE x \in Contents(q) \ {task}
      BY <2>1, <2>2, <2>4, <2>5, <3>1 DEF Contents
    <3>2. ASSUME NEW x \in Contents(q), x # task PROVE x \in Contents(r)
      <4>1. PICK n \in 1..Len(q) : q[n] = x
        BY <2>2 DEF Contents
      <4>2. PICK i \in 1..(Len(q) - 1) : At(i) = n
        BY <2>1, <2>7, <3>2, <4>1
      <4> QED
        BY <2>4, <2>5, <4>1, <4>2 DEF Contents
    <3> QED
      BY <3>1, <3>2
  <2>9. NoDuplicates(r)
    BY <2>2, <2>4, <2>5, <2>6 DEF NoDuplicates
  <2> QED
    BY <2>8, <2>9 DEF r
<1> QED
  BY <1>1, <1>2

\* A transition moves task to the tail of another queue and leaves the other
\* queues alone.
LEMMA MoveFacts ==
  ASSUME NEW S, NEW qs \in [Status -> Seq(S)], NEW task \in S,
         NEW from \in Status, NEW to \in Status, from # to
  PROVE  /\ Move(qs, task, from, to) \in [Status -> Seq(S)]
         /\ \A s \in Status \ {from, to} : Move(qs, task, from, to)[s] = qs[s]
         /\ Move(qs, task, from, to)[from] = Pop(qs[from], task)
         /\ Move(qs, task, from, to)[to] = Push(qs[to], task)
<1>1. Pop(qs[from], task) \in Seq(S) /\ Push(qs[to], task) \in Seq(S)
  BY PopType, PushFacts
<1> QED
  BY <1>1 DEF Move

\* The same for what the queues hold.
LEMMA MoveContents ==
  ASSUME NEW S, NEW qs \in [Status -> Seq(S)], NEW task \in S,
         NEW from \in Status, NEW to \in Status, from # to,
         NoDuplicates(qs[from])
  PROVE  LET m == Move(qs, task, from, to)
         IN  /\ Contents(m[from]) = Contents(qs[from]) \ {task}
             /\ Contents(m[to]) = Contents(qs[to]) \cup {task}
             /\ NoDuplicates(m[from])
             /\ NoDuplicates(qs[to]) /\ task \notin Contents(qs[to]) => NoDuplicates(m[to])
<1>1. qs[from] \in Seq(S) /\ qs[to] \in Seq(S)
  OBVIOUS
<1>2. /\ Move(qs, task, from, to)[from] = Pop(qs[from], task)
      /\ Move(qs, task, from, to)[to] = Push(qs[to], task)
  BY MoveFacts
<1>3. /\ Contents(Pop(qs[from], task)) = Contents(qs[from]) \ {task}
      /\ NoDuplicates(Pop(qs[from], task))
  BY <1>1, PopFacts
<1>4. /\ Contents(Push(qs[to], task)) = Contents(qs[to]) \cup {task}
      /\ NoDuplicates(qs[to]) /\ task \notin Contents(qs[to])
            => NoDuplicates(Push(qs[to], task))
  BY <1>1, PushFacts
<1> QED
  BY <1>2, <1>3, <1>4

-----------------------------------------------------------------------------
(* The order of a queue.                                                   *)

\* x is nearer to the head of q than y.
Before(q, x, y) == \E i, j \in DOMAIN q : i < j /\ q[i] = x /\ q[j] = y

\* Pushing at the tail changes the order of no two tasks in the queue.
LEMMA PushOrder ==
  ASSUME NEW S, NEW q \in Seq(S), NEW task \in S, NEW x, NEW y, Before(q, x, y)
  PROVE  Before(Push(q, task), x, y)
<1>1. /\ Len(q) \in Nat /\ DOMAIN q = 1..Len(q)
      /\ DOMAIN Push(q, task) = 1..(Len(q) + 1)
      /\ \A i \in 1..Len(q) : Push(q, task)[i] = q[i]
  BY DEF Push
<1>2. PICK i \in 1..Len(q), j \in 1..Len(q) : i < j /\ q[i] = x /\ q[j] = y
  BY <1>1 DEF Before
<1>3. i \in 1..(Len(q) + 1) /\ j \in 1..(Len(q) + 1)
  BY <1>1
<1> QED
  BY <1>1, <1>2, <1>3 DEF Before

\* Taking a task out changes the order of no two others.
LEMMA PopOrder ==
  ASSUME NEW S, NEW q \in Seq(S), NEW task, NEW x, NEW y,
         NoDuplicates(q), Before(q, x, y), x # task, y # task
  PROVE  Before(Pop(q, task), x, y)
<1>1. CASE ~Holds(q, task)
  BY <1>1 DEF Pop
<1>2. CASE Holds(q, task)
  <2> DEFINE k == FirstIndex(q, task)
             r == Pop(q, task)
             At(n) == IF n < k THEN n ELSE n - 1
  <2>1. /\ k \in 1..Len(q) /\ \A n \in 1..Len(q) : q[n] = task <=> n = k
    BY <1>2, FirstIndexFacts
  <2>2. Len(q) \in Nat /\ DOMAIN q = 1..Len(q)
    OBVIOUS
  <2>3. r = [n \in 1..(Len(q) - 1) |-> IF n < k THEN q[n] ELSE q[n + 1]]
    BY <1>2 DEF Pop
  <2>4. PICK i \in 1..Len(q), j \in 1..Len(q) : i < j /\ q[i] = x /\ q[j] = y
    BY <2>2 DEF Before
  <2>5. i # k /\ j # k
    BY <2>1, <2>4
  <2> HIDE DEF k, r
  <2>6. \A n \in 1..Len(q) : n # k => At(n) \in 1..(Len(q) - 1) /\ r[At(n)] = q[n]
    BY <2>1, <2>2, <2>3
  <2>7. At(i) < At(j)
    BY <2>1, <2>2, <2>4, <2>5
  <2> HIDE DEF At
  <2>8. DOMAIN r = 1..(Len(q) - 1)
    BY <2>3
  <2> QED
    BY <2>4, <2>5, <2>6, <2>7, <2>8 DEF Before, r
<1> QED
  BY <1>1, <1>2

\* Nobody is before the head.
LEMMA HeadOrder ==
  ASSUME NEW S, NEW q \in Seq(S), NEW x, NEW y, NoDuplicates(q), Before(q, x, y)
  PROVE  Head(q) # y /\ q # <<>>
<1>1. Len(q) \in Nat /\ DOMAIN q = 1..Len(q)
  OBVIOUS
<1>2. PICK i \in 1..Len(q), j \in 1..Len(q) : i < j /\ q[i] = x /\ q[j] = y
  BY <1>1 DEF Before
<1>3. q # <<>> /\ Head(q) = q[1] /\ 1 \in 1..Len(q) /\ j # 1
  BY <1>1, <1>2
<1> QED
  BY <1>1, <1>2, <1>3 DEF NoDuplicates

-----------------------------------------------------------------------------
(* Following the next pointers.                                            *)

LEMMA LeastPosition ==
  ASSUME NEW T \in SUBSET Nat, T # {}
  PROVE  \E x \in T : \A y \in T : x <= y
<1> DEFINE R == {ss \in Nat \X Nat : ss[1] < ss[2]}
<1>1. R = OpToRel(<, Nat)
  BY DEF OpToRel
<1>2. IsWellFoundedOn(R, Nat)
  BY <1>1, NatLessThanWellFounded
<1> HIDE DEF R
<1>3. PICK x \in T : \A y \in T : ~(<<y, x>> \in R)
  BY <1>2, WFMin
<1>4. \A y \in T : y < x => <<y, x>> \in R
  BY DEF R
<1>5. \A y \in T : ~(y < x)
  BY <1>3, <1>4
<1>6. x \in Nat /\ \A y \in T : y \in Nat
  OBVIOUS
<1> QED
  BY <1>5, <1>6

\* v is the list that starts at e.
Linked(nxt, e, v) ==
    /\ v \in Seq(Element) /\ NoDuplicates(v)
    /\ e = IF v = <<>> THEN NULL ELSE v[1]
    /\ \A i \in 1..Len(v) : nxt[v[i]] = IF i < Len(v) THEN v[i + 1] ELSE NULL

LEMMA ShortList ==
  ASSUME NEW v \in Seq(Element), NoDuplicates(v)
  PROVE  Len(v) \in Nat /\ Cardinality(Element) \in Nat /\ Len(v) <= Cardinality(Element)
<1>1. Len(v) \in Nat /\ DOMAIN v = 1..Len(v)
  OBVIOUS
<1>2. Cardinality(Element) \in Nat
  BY EnoughElements, FS_CardinalityType
<1>3. IsFiniteSet(1..Len(v)) /\ Cardinality(1..Len(v)) = Len(v)
  BY <1>1, FS_Interval
<1>4. ASSUME Len(v) > Cardinality(Element) PROVE FALSE
  <2>1. v \in [1..Len(v) -> Element]
    OBVIOUS
  <2>2. \E x, y \in 1..Len(v) : x # y /\ v[x] = v[y]
    BY <1>3, <1>4, <2>1, EnoughElements, FS_PigeonHole
  <2> QED
    BY <1>1, <2>2 DEF NoDuplicates
<1> QED
  BY <1>1, <1>2, <1>4

LEMMA WalkLinked ==
  ASSUME NEW l, NEW e, NEW v, Linked(l.next, e, v)
  PROVE  Walk(l, e) = v
<1> DEFINE C == Cardinality(Element)
           F(g) == [n \in 0..C |-> IF n = 0 THEN e
                                   ELSE IF g[n - 1] = NULL THEN NULL ELSE l.next[g[n - 1]]]
           from == CHOOSE g : g = F(g)
           met == [n \in 0..C |-> IF n < Len(v) THEN v[n + 1] ELSE NULL]
           steps == {n \in 0..C : from[n] # NULL}
<1>1. /\ Len(v) \in Nat /\ C \in Nat /\ Len(v) <= C
      /\ \A i \in 1..Len(v) : v[i] \in Element
  BY ShortList DEF Linked
<1>2. \A x \in Element : x # NULL
  BY NullIsNobody
<1>3. met = F(met)
  <2>1. ASSUME NEW n \in 0..C PROVE met[n] = F(met)[n]
    <3>1. CASE n = 0
      BY <3>1, <1>1 DEF Linked
    <3>2. CASE n # 0
      <4>1. n - 1 \in 0..C /\ n \in Nat
        BY <3>2, <1>1
      <4>2. met[n - 1] = IF n - 1 < Len(v) THEN v[n] ELSE NULL
        BY <4>1
      <4>3. CASE n - 1 < Len(v)
        BY <1>1, <1>2, <3>2, <4>1, <4>2, <4>3 DEF Linked
      <4>4. CASE ~(n - 1 < Len(v))
        BY <1>1, <3>2, <4>1, <4>2, <4>4
      <4> QED
        BY <4>3, <4>4
    <3> QED
      BY <3>1, <3>2
  <2> QED
    BY <2>1
<1>4. from = F(from)
  BY <1>3
<1> HIDE DEF from, met
<1>5. \A n \in 0..C : from[n] = met[n]
  <2> DEFINE bad == {n \in 0..C : from[n] # met[n]}
  <2>1. SUFFICES ASSUME bad # {} PROVE FALSE
    OBVIOUS
  <2>2. PICK n \in bad : \A i \in bad : n <= i
    <3>1. bad \in SUBSET Nat
      BY <1>1
    <3> QED
      BY <2>1, <3>1, LeastPosition
  <2>3. n \in 0..C /\ n # 0
    BY <1>1, <1>3, <1>4, <2>2
  <2>4. n - 1 \in 0..C /\ n - 1 \notin bad
    BY <1>1, <2>2, <2>3
  <2>5. from[n - 1] = met[n - 1]
    BY <2>4
  <2>6. from[n] = F(from)[n] /\ met[n] = F(met)[n]
    BY <1>3, <1>4
  <2> QED
    BY <2>2, <2>3, <2>5, <2>6
<1>6. steps = 0..(Len(v) - 1)
  BY <1>1, <1>2, <1>5 DEF met
<1>7. Cardinality(steps) = Len(v)
  <2>1. 0 \in Int /\ Len(v) - 1 \in Int
    BY <1>1
  <2>2. Cardinality(0..(Len(v) - 1)) = IF 0 > Len(v) - 1 THEN 0 ELSE Len(v) - 1 - 0 + 1
    BY <2>1, FS_Interval, Zenon
  <2>3. Cardinality(0..(Len(v) - 1)) = Len(v)
    BY <1>1, <2>2
  <2> QED
    BY <1>6, <2>3, Zenon
<1>8. Walk(l, e) = [i \in 1..Cardinality(steps) |-> from[i - 1]]
  BY DEF Walk, from
<1>9. \A i \in 1..Len(v) : from[i - 1] = v[i]
  BY <1>1, <1>5 DEF met
<1>10. v = [i \in 1..Len(v) |-> v[i]]
  BY DEF Linked
<1> QED
  BY <1>7, <1>8, <1>9, <1>10

-----------------------------------------------------------------------------
(* The lists of a state, and the elements w[s] that they go through.       *)

ListState == [head : [Status -> Pointer], tail : [Status -> Pointer],
              pcb : [Element -> Pcb \cup {NULL}], next : [Element -> Pointer]]

\* Every PCB is in one element of one list at most, which also keeps the lists
\* of two queues apart.
Once(l, w) ==
    \A s, t \in Status : \A i \in 1..Len(w[s]), j \in 1..Len(w[t]) :
        l.pcb[w[s][i]] = l.pcb[w[t][j]] => s = t /\ i = j

Represents(l, w) ==
    /\ l \in ListState
    /\ w \in [Status -> Seq(Element)]
    /\ \A s \in Status :
          /\ Linked(l.next, l.head[s], w[s])
          /\ l.tail[s] = IF w[s] = <<>> THEN NULL ELSE w[s][Len(w[s])]
          /\ \A i \in 1..Len(w[s]) : l.pcb[w[s][i]] \in Pcb
    /\ Once(l, w)

\* The queues of PCBs that the lists stand for.
Names(l, w) == [s \in Status |-> [i \in 1..Len(w[s]) |-> l.pcb[w[s][i]]]]

LEMMA WalkFacts ==
  ASSUME NEW l, NEW w, Represents(l, w)
  PROVE  /\ \A s \in Status : Walk(l, l.head[s]) = w[s]
         /\ Live(l) = {x \in Element : \E s \in Status : \E i \in 1..Len(w[s]) : w[s][i] = x}
<1>1. ASSUME NEW s \in Status PROVE Walk(l, l.head[s]) = w[s]
  <2>1. Linked(l.next, l.head[s], w[s])
    BY DEF Represents
  <2> QED
    BY <2>1, WalkLinked
<1>2. Live(l) = UNION {Contents(w[s]) : s \in Status}
  BY <1>1 DEF Live
<1>3. ASSUME NEW s \in Status
      PROVE  DOMAIN w[s] = 1..Len(w[s]) /\ \A i \in 1..Len(w[s]) : w[s][i] \in Element
  <2>1. w[s] \in Seq(Element)
    BY DEF Represents
  <2> QED
    BY <2>1
<1> QED
  BY <1>1, <1>2, <1>3 DEF Contents

LEMMA NamesFacts ==
  ASSUME NEW l, NEW w, Represents(l, w)
  PROVE  /\ Names(l, w) \in [Status -> Seq(Pcb)]
         /\ \A s \in Status : /\ Len(Names(l, w)[s]) = Len(w[s])
                              /\ DOMAIN Names(l, w)[s] = 1..Len(w[s])
                              /\ \A i \in 1..Len(w[s]) : Names(l, w)[s][i] = l.pcb[w[s][i]]
                              /\ NoDuplicates(Names(l, w)[s])
         /\ \A s, t \in Status : \A x \in Contents(Names(l, w)[s]) \cap Contents(Names(l, w)[t]) : s = t
<1>1. ASSUME NEW s \in Status
      PROVE  /\ Names(l, w)[s] \in Seq(Pcb) /\ Len(Names(l, w)[s]) = Len(w[s])
             /\ DOMAIN Names(l, w)[s] = 1..Len(w[s])
             /\ \A i \in 1..Len(w[s]) : Names(l, w)[s][i] = l.pcb[w[s][i]]
  <2>1. Len(w[s]) \in Nat
    BY DEF Represents
  <2>2. Names(l, w)[s] \in [1..Len(w[s]) -> Pcb]
    BY DEF Represents, Names
  <2> QED
    BY <2>1, <2>2, SeqDef DEF Names
<1>2. \A s \in Status : NoDuplicates(Names(l, w)[s])
  BY <1>1 DEF Represents, Once, NoDuplicates
<1>3. ASSUME NEW s \in Status, NEW t \in Status,
             NEW x \in Contents(Names(l, w)[s]) \cap Contents(Names(l, w)[t])
      PROVE  s = t
  <2>1. PICK i \in 1..Len(w[s]) : l.pcb[w[s][i]] = x
    BY <1>1 DEF Contents
  <2>2. PICK j \in 1..Len(w[t]) : l.pcb[w[t][j]] = x
    BY <1>1 DEF Contents
  <2> QED
    BY <2>1, <2>2 DEF Represents, Once
<1>4. Names(l, w) \in [Status -> Seq(Pcb)]
  BY <1>1 DEF Names
<1> QED
  BY <1>1, <1>2, <1>3, <1>4

\* slb_alloc finds an element: the lists hold one for each PCB at most.
LEMMA FreeElement ==
  ASSUME NEW l, NEW w, Represents(l, w)
  PROVE  \E x \in Element : x \notin Live(l)
<1> SUFFICES ASSUME \A x \in Element : x \in Live(l) PROVE FALSE
  OBVIOUS
<1>1. \A x \in Element : \E s \in Status : \E i \in 1..Len(w[s]) : w[s][i] = x
  BY WalkFacts
<1> DEFINE f == [x \in Element |-> l.pcb[x]]
<1>2. f \in [Element -> Pcb]
  BY <1>1 DEF Represents
<1>3. Cardinality(Pcb) < Cardinality(Element)
  <2>1. Cardinality(Pcb) \in Nat /\ Cardinality(Element) \in Nat
    BY EnoughElements, FS_CardinalityType
  <2> QED
    BY <2>1, EnoughElements
<1>4. PICK x, y \in Element : x # y /\ f[x] = f[y]
  <2> HIDE DEF f
  <2> QED
    BY <1>2, <1>3, EnoughElements, FS_PigeonHole
<1>5. PICK s \in Status : \E i \in 1..Len(w[s]) : w[s][i] = x
  BY <1>1
<1>6. PICK t \in Status : \E j \in 1..Len(w[t]) : w[t][j] = y
  BY <1>1
<1> QED
  BY <1>4, <1>5, <1>6 DEF Represents, Once

\* queue_push puts the task, which no list holds, behind the others of q.
Pushed(l, w, q, task, u) ==
    /\ Represents(QueuePush(l, q, task), u)
    /\ Names(QueuePush(l, q, task), u) = [Names(l, w) EXCEPT ![q] = Push(@, task)]

LEMMA PushRepresents ==
  ASSUME NEW l, NEW w, Represents(l, w), NEW q \in Status, NEW task \in Pcb,
         \A s \in Status : task \notin Contents(Names(l, w)[s])
  PROVE  \E u : Pushed(l, w, q, task, u)
<1> DEFINE e == CHOOSE x \in Element : x \notin Live(l)
           m == QueuePush(l, q, task)
           v == w[q]
           n == Len(v)
           u == [w EXCEPT ![q] = Append(v, e)]
<1>1. e \in Element /\ \A s \in Status : \A i \in 1..Len(w[s]) : w[s][i] # e
  <2>1. e \in Element /\ e \notin Live(l)
    BY FreeElement
  <2> QED
    BY <2>1, WalkFacts
<1>2. /\ l \in ListState /\ w \in [Status -> Seq(Element)] /\ v \in Seq(Element) /\ n \in Nat
      /\ l.head[q] = (IF n = 0 THEN NULL ELSE v[1]) /\ l.tail[q] = (IF n = 0 THEN NULL ELSE v[n])
      /\ \A i \in 1..n : v[i] \in Element
  <2>1. v \in Seq(Element)
    BY DEF Represents
  <2>2. n \in Nat /\ (v = <<>> <=> n = 0) /\ \A i \in 1..n : v[i] \in Element
    BY <2>1
  <2> QED
    BY <2>1, <2>2 DEF Represents, Linked
<1>3. l.head[q] = NULL <=> n = 0
  BY <1>2, NullIsNobody
<1> DEFINE nxt == [l.next EXCEPT ![e] = NULL]
<1>4. /\ l.head \in [Status -> Pointer] /\ l.tail \in [Status -> Pointer]
      /\ l.pcb \in [Element -> Pcb \cup {NULL}] /\ l.next \in [Element -> Pointer]
  BY <1>2 DEF ListState
<1>5. /\ m \in ListState
      /\ m.head = (IF n = 0 THEN [l.head EXCEPT ![q] = e] ELSE l.head)
      /\ m.tail = [l.tail EXCEPT ![q] = e]
      /\ m.pcb = [l.pcb EXCEPT ![e] = task]
      /\ m.next = (IF n = 0 THEN nxt ELSE [nxt EXCEPT ![v[n]] = e])
  <2> DEFINE filled == [l EXCEPT !.pcb[e] = task, !.next[e] = NULL]
  <2>1. m = IF l.head[q] = NULL
            THEN [filled EXCEPT !.head[q] = e, !.tail[q] = e]
            ELSE [filled EXCEPT !.next[l.tail[q]] = e, !.tail[q] = e]
    BY DEF QueuePush
  <2> HIDE DEF m, e, n, v
  <2>2. [l.head EXCEPT ![q] = e] \in [Status -> Pointer]
        /\ [l.tail EXCEPT ![q] = e] \in [Status -> Pointer]
    BY <1>1, <1>4 DEF Pointer
  <2>3. [l.pcb EXCEPT ![e] = task] \in [Element -> Pcb \cup {NULL}]
    BY <1>1, <1>4
  <2>4. nxt \in [Element -> Pointer]
        /\ (n # 0 => [nxt EXCEPT ![v[n]] = e] \in [Element -> Pointer])
    BY <1>1, <1>2, <1>4 DEF Pointer
  <2>5. /\ filled \in ListState
        /\ filled.head = l.head /\ filled.tail = l.tail
        /\ filled.pcb = [l.pcb EXCEPT ![e] = task] /\ filled.next = nxt
    BY <1>2, <1>4, <2>3, <2>4 DEF ListState
  <2> HIDE DEF filled, nxt
  <2> QED
    BY <1>2, <1>3, <2>1, <2>2, <2>4, <2>5 DEF ListState
<1>6. /\ u \in [Status -> Seq(Element)] /\ u[q] = Append(v, e)
      /\ \A s \in Status \ {q} : u[s] = w[s]
  BY <1>1, <1>2
<1>7. /\ Len(u[q]) = n + 1 /\ u[q] # <<>> /\ u[q][n + 1] = e
      /\ \A i \in 1..n : u[q][i] = v[i]
  <2> HIDE DEF e, v, u, m
  <2>1. /\ Len(Append(v, e)) = n + 1 /\ Append(v, e)[n + 1] = e
        /\ \A i \in 1..n : Append(v, e)[i] = v[i]
    BY <1>1, <1>2
  <2>2. Append(v, e) # <<>>
    <3>1. Len(Append(v, e)) # 0 /\ Append(v, e) \in Seq(Element)
      BY <1>1, <1>2, <2>1
    <3> QED
      BY <3>1, EmptySeq
  <2> QED
    BY <1>6, <2>1, <2>2
<1> HIDE DEF e, m, u, v, n, nxt
<1>8. \A s \in Status : \A i \in 1..Len(w[s]) :
          m.pcb[w[s][i]] = l.pcb[w[s][i]] /\ w[s][i] \in Element /\ l.pcb[w[s][i]] # task
                                          /\ l.pcb[w[s][i]] \in Pcb
  <2> SUFFICES ASSUME NEW s \in Status, NEW i \in 1..Len(w[s])
               PROVE  m.pcb[w[s][i]] = l.pcb[w[s][i]] /\ w[s][i] \in Element
                      /\ l.pcb[w[s][i]] # task /\ l.pcb[w[s][i]] \in Pcb
    OBVIOUS
  <2>1. w[s] \in Seq(Element)
    BY DEF Represents
  <2>2. w[s][i] \in Element
    BY <2>1
  <2>3. l.pcb[w[s][i]] # task
    BY NamesFacts DEF Contents
  <2> QED
    BY <1>1, <1>4, <1>5, <2>2, <2>3 DEF Represents
<1>9. m.pcb[e] = task
  BY <1>1, <1>4, <1>5
<1>10. Once(m, u)
  <2> SUFFICES ASSUME NEW s \in Status, NEW t \in Status,
                      NEW i \in 1..Len(u[s]), NEW j \in 1..Len(u[t]),
                      m.pcb[u[s][i]] = m.pcb[u[t][j]]
               PROVE  s = t /\ i = j
    BY DEF Once
  \* An element of the new lists is e, or in the same place of the old ones.
  <2>1. ASSUME NEW r \in Status, NEW k \in 1..Len(u[r])
        PROVE  \/ r = q /\ k = n + 1 /\ m.pcb[u[r][k]] = task
               \/ /\ k \in 1..Len(w[r]) /\ m.pcb[u[r][k]] = l.pcb[w[r][k]]
                  /\ l.pcb[w[r][k]] # task
    <3>1. CASE r = q
      BY <1>2, <1>7, <1>8, <1>9, <2>1, <3>1 DEF v, n
    <3>2. CASE r # q
      BY <1>6, <1>8, <2>1, <3>2
    <3> QED
      BY <3>1, <3>2
  <2>2. \/ s = q /\ i = n + 1 /\ m.pcb[u[s][i]] = task
        \/ i \in 1..Len(w[s]) /\ m.pcb[u[s][i]] = l.pcb[w[s][i]] /\ l.pcb[w[s][i]] # task
    BY <2>1
  <2>3. \/ t = q /\ j = n + 1 /\ m.pcb[u[t][j]] = task
        \/ j \in 1..Len(w[t]) /\ m.pcb[u[t][j]] = l.pcb[w[t][j]] /\ l.pcb[w[t][j]] # task
    BY <2>1
  <2>4. i \in 1..Len(w[s]) /\ j \in 1..Len(w[t]) /\ l.pcb[w[s][i]] = l.pcb[w[t][j]]
            => s = t /\ i = j
    BY DEF Represents, Once
  <2> QED
    BY <2>2, <2>3, <2>4
<1>11. ASSUME NEW s \in Status
       PROVE  /\ Linked(m.next, m.head[s], u[s])
              /\ m.tail[s] = IF u[s] = <<>> THEN NULL ELSE u[s][Len(u[s])]
              /\ \A i \in 1..Len(u[s]) : m.pcb[u[s][i]] \in Pcb
  <2>1. u[s] \in Seq(Element)
    BY <1>6
  <2>2. NoDuplicates(u[s])
    BY <1>10, <2>1 DEF Once, NoDuplicates
  <2>3. CASE s # q
    <3>1. /\ u[s] = w[s] /\ m.head[s] = l.head[s] /\ m.tail[s] = l.tail[s]
      BY <1>4, <1>5, <1>6, <2>3
    <3>2. \A i \in 1..Len(w[s]) : m.next[w[s][i]] = l.next[w[s][i]]
      <4> SUFFICES ASSUME NEW i \in 1..Len(w[s]) PROVE m.next[w[s][i]] = l.next[w[s][i]]
        OBVIOUS
      <4>1. w[s][i] # e /\ w[s][i] \in Element
        BY <1>1, <1>8
      <4>2. n # 0 => w[s][i] # v[n]
        BY <1>2, <2>3 DEF Represents, Once, v, n
      <4> QED
        BY <1>4, <1>5, <4>1, <4>2 DEF nxt
    <3> QED
      BY <1>8, <3>1, <3>2, <2>1, <2>2 DEF Represents, Linked
  <2>4. CASE s = q
    <3>1. m.head[q] = u[q][1]
      BY <1>1, <1>2, <1>4, <1>5, <1>7
    <3>2. m.tail[q] = e
      BY <1>1, <1>4, <1>5
    <3>3. \A i \in 1..n : v[i] \in Element /\ v[i] # e /\ (n # 0 => (v[i] = v[n] <=> i = n))
      BY <1>1, <1>2 DEF Represents, Once, v, n
    <3>4. ASSUME NEW i \in 1..(n + 1)
          PROVE  m.next[u[q][i]] = IF i < n + 1 THEN u[q][i + 1] ELSE NULL
      <4>1. CASE i = n + 1
        <5>1. n # 0 => v[n] # e
          BY <1>2, <3>3
        <5> QED
          BY <1>1, <1>2, <1>4, <1>5, <1>7, <4>1, <5>1 DEF nxt
      <4>2. CASE i = n
        <5>1. n # 0 /\ v[n] \in Element /\ i < n + 1 /\ i + 1 = n + 1
          BY <1>2, <4>2
        <5>2. m.next[v[n]] = e
          BY <1>1, <1>4, <1>5, <5>1 DEF nxt
        <5> QED
          BY <1>7, <4>2, <5>1, <5>2
      <4>3. CASE i < n
        <5>1. i \in 1..n /\ i + 1 \in 1..n /\ n # 0 /\ i < n + 1
          BY <1>2, <4>3
        <5>2. m.next[v[i]] = l.next[v[i]]
          BY <1>1, <1>2, <1>4, <1>5, <3>3, <4>3, <5>1 DEF nxt
        <5>3. l.next[v[i]] = v[i + 1]
          BY <4>3, <5>1 DEF Represents, Linked, v, n
        <5> QED
          BY <1>7, <5>1, <5>2, <5>3
      <4> QED
        BY <1>2, <4>1, <4>2, <4>3
    <3>5. \A i \in 1..(n + 1) : m.pcb[u[q][i]] \in Pcb
      BY <1>2, <1>7, <1>8, <1>9 DEF v, n
    <3> QED
      BY <1>7, <2>1, <2>2, <2>4, <3>1, <3>2, <3>4, <3>5 DEF Linked
  <2> QED
    BY <2>3, <2>4
<1>12. Represents(m, u)
  BY <1>5, <1>6, <1>10, <1>11 DEF Represents
<1>13. Names(m, u) = [Names(l, w) EXCEPT ![q] = Push(@, task)]
  <2>1. ASSUME NEW s \in Status
        PROVE  Names(m, u)[s] = IF s = q THEN Push(Names(l, w)[q], task) ELSE Names(l, w)[s]
    <3>1. CASE s # q
      BY <1>6, <1>8, <3>1 DEF Names
    <3>2. CASE s = q
      <4>1. /\ Names(m, u)[q] \in Seq(Pcb) /\ Len(Names(m, u)[q]) = n + 1
            /\ \A i \in 1..(n + 1) : Names(m, u)[q][i] = m.pcb[u[q][i]]
        BY <1>7, <1>12, NamesFacts
      <4>2. /\ Names(l, w)[q] \in Seq(Pcb) /\ Len(Names(l, w)[q]) = n
            /\ \A i \in 1..n : Names(l, w)[q][i] = l.pcb[v[i]]
        BY NamesFacts DEF v, n
      <4>3. /\ Push(Names(l, w)[q], task) \in Seq(Pcb)
            /\ Len(Push(Names(l, w)[q], task)) = n + 1
            /\ \A i \in 1..n : Push(Names(l, w)[q], task)[i] = l.pcb[v[i]]
            /\ Push(Names(l, w)[q], task)[n + 1] = task
        BY <1>2, <4>2 DEF Push
      <4>4. \A i \in 1..(n + 1) : Names(m, u)[q][i] = Push(Names(l, w)[q], task)[i]
        <5> SUFFICES ASSUME NEW i \in 1..(n + 1)
                     PROVE  Names(m, u)[q][i] = Push(Names(l, w)[q], task)[i]
          OBVIOUS
        <5>1. CASE i = n + 1
          BY <1>7, <1>9, <4>1, <4>3, <5>1
        <5>2. CASE i # n + 1
          <6>1. i \in 1..n
            BY <1>2, <5>2
          <6>2. m.pcb[v[i]] = l.pcb[v[i]]
            BY <1>8, <6>1 DEF v, n
          <6> QED
            BY <1>7, <4>1, <4>3, <6>1, <6>2
        <5> QED
          BY <5>1, <5>2
      <4> QED
        BY <3>2, <4>1, <4>3, <4>4
    <3> QED
      BY <3>1, <3>2
  <2>2. Names(l, w) \in [Status -> Seq(Pcb)]
    BY NamesFacts
  <2> QED
    BY <2>1, <2>2 DEF Names
<1> QED
  BY <1>12, <1>13 DEF m, Pushed

\* queue_pop unlinks the element of the task, wherever in the list it is: the
\* comparisons of PCBs at the two ends find the elements that they stand for.
Popped(l, w, q, task, u) ==
    /\ Represents(QueuePop(l, q, task), u)
    /\ Names(QueuePop(l, q, task), u) = [Names(l, w) EXCEPT ![q] = Pop(@, task)]

LEMMA PopRepresents ==
  ASSUME NEW l, NEW w, Represents(l, w), NEW q \in Status, NEW task \in Pcb
  PROVE  \E u : Popped(l, w, q, task, u)
<1> DEFINE m == QueuePop(l, q, task)
           v == w[q]
           n == Len(v)
           N == Names(l, w)[q]
           hits == {i \in DOMAIN v : l.pcb[v[i]] = task}
<1>1. /\ Walk(l, l.head[q]) = v /\ v \in Seq(Element) /\ DOMAIN v = 1..n /\ n \in Nat
      /\ Names(l, w) \in [Status -> Seq(Pcb)] /\ N \in Seq(Pcb) /\ NoDuplicates(N)
      /\ DOMAIN N = 1..n /\ Len(N) = n /\ \A i \in 1..n : N[i] = l.pcb[v[i]]
  <2>1. v \in Seq(Element)
    BY DEF Represents
  <2> QED
    BY <2>1, WalkFacts, NamesFacts
<1>2. CASE hits = {}
  <2>1. m = l
    BY <1>1, <1>2 DEF QueuePop
  <2>2. ~Holds(N, task)
    BY <1>1, <1>2 DEF Holds
  <2>3. Pop(N, task) = N
    BY <2>2 DEF Pop
  <2>4. [Names(l, w) EXCEPT ![q] = Pop(@, task)] = Names(l, w)
    BY <1>1, <2>3
  <2> QED
    BY <2>1, <2>4 DEF Popped
<1>3. CASE hits # {}
  <2> DEFINE k == FirstIndex(N, task)
             last == IF k = 1 THEN NULL ELSE v[k - 1]
             At(i) == IF i < k THEN i ELSE i + 1
             r == [i \in 1..(n - 1) |-> v[At(i)]]
             u == [w EXCEPT ![q] = r]
  <2>1. Holds(N, task)
    BY <1>1, <1>3 DEF Holds
  <2>2. k \in 1..n /\ \A i \in 1..n : l.pcb[v[i]] = task <=> i = k
    <3>1. k \in 1..n /\ \A i \in 1..n : N[i] = task <=> i = k
      BY <1>1, <2>1, FirstIndexFacts
    <3> HIDE DEF k, N
    <3> QED
      BY <1>1, <3>1
  <2>3. hits = {k} /\ (CHOOSE i \in hits : \A j \in hits : i <= j) = k
    <3> HIDE DEF k, N, v, n
    <3>1. hits = {k}
      BY <1>1, <2>2
    <3> QED
      BY <1>1, <2>2, <3>1
  <2> HIDE DEF k, hits, N
  <2>4. /\ l \in ListState /\ \A i \in 1..n : v[i] \in Element /\ v[i] # NULL
        /\ l.head[q] = v[1] /\ l.tail[q] = v[n] /\ n # 0
        /\ \A i \in 1..n : l.next[v[i]] = IF i < n THEN v[i + 1] ELSE NULL
        /\ \A i, j \in 1..n : v[i] = v[j] <=> i = j
    <3>1. \A i \in 1..n : v[i] \in Element
      BY <1>1
    <3>2. n # 0 /\ v # <<>>
      BY <1>1, <2>2
    <3> QED
      BY <3>1, <3>2, NullIsNobody DEF Represents, Linked, Once
  <2>5. last \in Pointer /\ (last # NULL <=> k # 1) /\ (k # 1 => last = v[k - 1])
    BY <2>2, <2>4, <1>1 DEF Pointer
  <2>6. /\ l.head \in [Status -> Pointer] /\ l.tail \in [Status -> Pointer]
        /\ l.pcb \in [Element -> Pcb \cup {NULL}] /\ l.next \in [Element -> Pointer]
    BY <2>4 DEF ListState
  <2> DEFINE first == IF k = 1 THEN l.next[v[1]] ELSE v[1]
             final == IF k = n THEN last ELSE v[n]
             nxt == IF k = 1 THEN l.next ELSE [l.next EXCEPT ![v[k - 1]] = l.next[v[k]]]
  <2>7. NewHead(l, q, task, v[k]) = first /\ NewTail(l, q, task, last) = final
    BY <1>1, <2>2, <2>4 DEF NewHead, NewTail
  <2>8. m = [l EXCEPT !.head[q] = first, !.tail[q] = final, !.next = nxt]
    <3>1. m = [l EXCEPT !.head[q] = NewHead(l, q, task, v[k]),
                        !.tail[q] = NewTail(l, q, task, last),
                        !.next = IF last # NULL THEN [@ EXCEPT ![last] = l.next[v[k]]] ELSE @]
      <4> DEFINE k0 == CHOOSE i \in hits : \A j \in hits : i <= j
                 last0 == IF k0 = 1 THEN NULL ELSE v[k0 - 1]
      <4>1. m = IF hits = {} THEN l
                ELSE [l EXCEPT !.head[q] = NewHead(l, q, task, v[k0]),
                               !.tail[q] = NewTail(l, q, task, last0),
                               !.next = IF last0 # NULL THEN [@ EXCEPT ![last0] = l.next[v[k0]]]
                                        ELSE @]
        <5>1. Walk(l, l.head[q]) = v
          BY <1>1
        <5> HIDE DEF v
        <5> QED
          BY <5>1 DEF QueuePop, hits
      <4>2. k0 = k
        BY <2>3
      <4> HIDE DEF k0, m
      <4> QED
        BY <1>3, <4>1, <4>2
    <3> HIDE DEF m, last, v, first, final
    <3>2. (IF last # NULL THEN [l.next EXCEPT ![last] = l.next[v[k]]] ELSE l.next) = nxt
      BY <2>5
    <3> HIDE DEF nxt
    <3> QED
      BY <2>7, <3>1, <3>2
  <2>9. first \in Pointer /\ final \in Pointer /\ nxt \in [Element -> Pointer]
    <3> HIDE DEF last, v, n
    <3>1. v[1] \in Pointer /\ v[n] \in Pointer /\ l.next[v[1]] \in Pointer /\ l.next[v[k]] \in Pointer
      BY <1>1, <2>2, <2>4, <2>6 DEF Pointer
    <3> QED
      BY <2>5, <2>6, <3>1
  <2>10. /\ m \in ListState
         /\ m.head = [l.head EXCEPT ![q] = first] /\ m.tail = [l.tail EXCEPT ![q] = final]
         /\ m.pcb = l.pcb /\ m.next = nxt
    <3> HIDE DEF m, first, final, nxt
    <3>1. [l.head EXCEPT ![q] = first] \in [Status -> Pointer]
          /\ [l.tail EXCEPT ![q] = final] \in [Status -> Pointer]
      BY <2>6, <2>9
    <3> QED
      BY <2>4, <2>6, <2>8, <2>9, <3>1 DEF ListState
  <2> HIDE DEF m
  <2>11. \A i \in 1..(n - 1) : At(i) \in 1..n /\ At(i) # k
    BY <1>1, <2>2
  <2>12. \A i, j \in 1..(n - 1) : At(i) = At(j) => i = j
    BY <1>1, <2>2
  <2>13. r \in Seq(Element) /\ Len(r) = n - 1 /\ \A i \in 1..(n - 1) : r[i] = v[At(i)]
    <3> HIDE DEF At, v, n
    <3>1. r \in [1..(n - 1) -> Element]
      BY <2>4, <2>11
    <3>2. n - 1 \in Nat
      BY <1>1, <2>4
    <3> QED
      BY <3>1, <3>2, SeqDef
  <2> HIDE DEF r
  <2>14. /\ u \in [Status -> Seq(Element)] /\ u[q] = r
         /\ \A s \in Status \ {q} : u[s] = w[s]
    BY <2>13 DEF Represents
  <2> HIDE DEF u, v, n, At, last, first, final, nxt
  \* An element of the new lists was at another place of the old ones.
  <2> DEFINE Was(s, i) == IF s = q THEN At(i) ELSE i
  <2>15. ASSUME NEW s \in Status, NEW i \in 1..Len(u[s])
         PROVE  Was(s, i) \in 1..Len(w[s]) /\ u[s][i] = w[s][Was(s, i)]
    <3>1. CASE s = q
      BY <2>11, <2>13, <2>14, <3>1 DEF v, n
    <3>2. CASE s # q
      BY <2>14, <3>2
    <3> QED
      BY <3>1, <3>2
  <2>16. Once(m, u)
    <3> SUFFICES ASSUME NEW s \in Status, NEW t \in Status,
                        NEW i \in 1..Len(u[s]), NEW j \in 1..Len(u[t]),
                        m.pcb[u[s][i]] = m.pcb[u[t][j]]
                 PROVE  s = t /\ i = j
      BY DEF Once
    <3>1. /\ Was(s, i) \in 1..Len(w[s]) /\ u[s][i] = w[s][Was(s, i)]
          /\ Was(t, j) \in 1..Len(w[t]) /\ u[t][j] = w[t][Was(t, j)]
      BY <2>15
    <3>2. s = t /\ Was(s, i) = Was(t, j)
      BY <2>10, <3>1 DEF Represents, Once
    <3>3. CASE s = q
      BY <2>12, <2>13, <2>14, <3>2, <3>3
    <3>4. CASE s # q
      BY <3>2, <3>4
    <3> QED
      BY <3>2, <3>3, <3>4
  <2>17. ASSUME NEW s \in Status
         PROVE  /\ Linked(m.next, m.head[s], u[s])
                /\ m.tail[s] = IF u[s] = <<>> THEN NULL ELSE u[s][Len(u[s])]
                /\ \A i \in 1..Len(u[s]) : m.pcb[u[s][i]] \in Pcb
    <3>1. u[s] \in Seq(Element)
      BY <2>14
    <3>2. NoDuplicates(u[s])
      BY <2>16, <3>1 DEF Once, NoDuplicates
    <3>3. ASSUME NEW i \in 1..Len(u[s]) PROVE m.pcb[u[s][i]] \in Pcb
      <4>1. Was(s, i) \in 1..Len(w[s]) /\ u[s][i] = w[s][Was(s, i)]
        BY <2>15
      <4> QED
        BY <2>10, <4>1 DEF Represents
    <3>4. CASE s # q
      <4>1. u[s] = w[s] /\ m.head[s] = l.head[s] /\ m.tail[s] = l.tail[s]
        BY <2>6, <2>10, <2>14, <3>4
      <4>2. \A i \in 1..Len(w[s]) : m.next[w[s][i]] = l.next[w[s][i]]
        <5> SUFFICES ASSUME NEW i \in 1..Len(w[s]) PROVE m.next[w[s][i]] = l.next[w[s][i]]
          OBVIOUS
        <5>1. w[s][i] \in Element
          BY <3>1, <4>1
        <5>2. k # 1 => k - 1 \in 1..n
          BY <1>1, <2>2
        <5>3. k # 1 => w[s][i] # v[k - 1]
          BY <5>2, <3>4 DEF Represents, Once, v, n
        <5> QED
          BY <2>6, <2>10, <5>1, <5>3 DEF nxt
      <4> QED
        BY <3>1, <3>2, <3>3, <4>1, <4>2 DEF Represents, Linked
    <3>5. CASE s = q
      <4>1. Len(r) = n - 1 /\ n \in Nat /\ k \in 1..n /\ (r = <<>> <=> n = 1)
        <5>1. Len(r) = n - 1 /\ n \in Nat /\ k \in 1..n /\ r \in Seq(Element)
          BY <1>1, <2>2, <2>13
        <5> QED
          BY <5>1, EmptySeq
      <4>2. m.head[q] = first /\ m.tail[q] = final
        BY <2>6, <2>9, <2>10
      <4>3. first = IF r = <<>> THEN NULL ELSE r[1]
        <5>1. CASE n = 1
          BY <2>4, <4>1, <5>1 DEF first
        <5>2. CASE n # 1
          <6>1. 1 \in 1..(n - 1) /\ 1 < n /\ 1 \in 1..n
            BY <4>1, <5>2
          <6>2. r[1] = IF 1 < k THEN v[1] ELSE v[2]
            BY <2>13, <4>1, <6>1 DEF At
          <6>3. l.next[v[1]] = v[2]
            BY <2>4, <6>1
          <6> QED
            BY <4>1, <5>2, <6>2, <6>3 DEF first
        <5> QED
          BY <5>1, <5>2
      <4>4. final = IF r = <<>> THEN NULL ELSE r[n - 1]
        <5>1. CASE n = 1
          BY <4>1, <5>1 DEF final, last
        <5>2. CASE n # 1
          <6>1. n - 1 \in 1..(n - 1)
            BY <4>1, <5>2
          <6>2. r[n - 1] = IF n - 1 < k THEN v[n - 1] ELSE v[n]
            BY <2>13, <4>1, <6>1 DEF At
          <6>3. n - 1 < k <=> k = n
            BY <4>1
          <6> QED
            BY <4>1, <5>2, <6>2, <6>3 DEF final, last
        <5> QED
          BY <5>1, <5>2
      <4>5. ASSUME NEW i \in 1..(n - 1)
            PROVE  m.next[r[i]] = IF i < n - 1 THEN r[i + 1] ELSE NULL
        <5>1. r[i] = v[At(i)] /\ At(i) \in 1..n /\ v[At(i)] \in Element
              /\ l.next[v[At(i)]] = IF At(i) < n THEN v[At(i) + 1] ELSE NULL
          BY <2>4, <2>11, <2>13
        <5>2. i < n - 1 => i + 1 \in 1..(n - 1) /\ r[i + 1] = v[At(i + 1)]
          BY <2>13, <4>1
        <5>3. CASE At(i) = k - 1
          <6>1. i = k - 1 /\ k # 1 /\ At(i + 1) = k + 1 /\ (i < n - 1 <=> k < n)
            BY <4>1, <5>3 DEF At
          <6>2. m.next[v[k - 1]] = l.next[v[k]]
            BY <2>6, <2>10, <5>1, <5>3, <6>1 DEF nxt
          <6>3. l.next[v[k]] = IF k < n THEN v[k + 1] ELSE NULL
            BY <2>2, <2>4
          <6> QED
            BY <5>1, <5>2, <5>3, <6>1, <6>2, <6>3
        <5>4. CASE At(i) # k - 1
          <6>1. k # 1 => k - 1 \in 1..n /\ v[At(i)] # v[k - 1]
            BY <2>4, <4>1, <5>1, <5>4
          <6>2. m.next[v[At(i)]] = l.next[v[At(i)]]
            BY <2>6, <2>10, <5>1, <6>1 DEF nxt
          <6>3. At(i + 1) = At(i) + 1 /\ (i < n - 1 <=> At(i) < n)
            BY <4>1, <5>4 DEF At
          <6> QED
            BY <5>1, <5>2, <6>2, <6>3
        <5> QED
          BY <5>3, <5>4
      <4> QED
        BY <2>14, <3>1, <3>2, <3>3, <3>5, <4>1, <4>2, <4>3, <4>4, <4>5 DEF Linked
    <3> QED
      BY <3>4, <3>5
  <2>18. Represents(m, u)
    BY <2>10, <2>14, <2>16, <2>17 DEF Represents
  <2>19. Names(m, u) = [Names(l, w) EXCEPT ![q] = Pop(@, task)]
    <3>1. ASSUME NEW s \in Status
          PROVE  Names(m, u)[s] = IF s = q THEN Pop(N, task) ELSE Names(l, w)[s]
      <4>1. CASE s # q
        BY <2>10, <2>14, <4>1 DEF Names
      <4>2. CASE s = q
        <5>1. Pop(N, task) = [i \in 1..(n - 1) |-> IF i < k THEN N[i] ELSE N[i + 1]]
          BY <1>1, <2>1 DEF Pop, k
        <5>2. \A i \in 1..(n - 1) : (IF i < k THEN N[i] ELSE N[i + 1]) = l.pcb[v[At(i)]]
          BY <1>1, <2>11 DEF At
        <5>3. Names(m, u)[q] = [i \in 1..(n - 1) |-> l.pcb[v[At(i)]]]
          BY <2>10, <2>13, <2>14 DEF Names
        <5> QED
          BY <4>2, <5>1, <5>2, <5>3
      <4> QED
        BY <4>1, <4>2
    <3>2. Names(m, u) = [s \in Status |-> Names(m, u)[s]]
      BY DEF Names
    <3> QED
      BY <1>1, <3>1, <3>2 DEF N
  <2> QED
    BY <2>18, <2>19 DEF m, Popped
<1> QED
  BY <1>2, <1>3

-----------------------------------------------------------------------------
(* The invariant, and the steps of the policy.                             *)

RInv ==
    /\ PolicyTypeOK
    /\ \A p \in freed : task_status[p] = "ZOMBIE"
    /\ \E w : /\ Represents(Lists, w)
              /\ \A s \in Status : Contents(Names(Lists, w)[s]) = {p \in Pcb : AbstractStatus[p] = s}

LEMMA ListsTyped == PolicyTypeOK => Lists \in ListState
BY DEF PolicyTypeOK, Lists, ListState

LEMMA RepresentedQueue ==
  ASSUME NEW w, Represents(Lists, w)
  PROVE  AbstractQueue = Names(Lists, w)
<1>1. \A s \in Status : Walk(Lists, head[s]) = w[s]
  BY WalkFacts DEF Lists
<1>2. \A s \in Status : DOMAIN w[s] = 1..Len(w[s])
  <2> SUFFICES ASSUME NEW s \in Status PROVE DOMAIN w[s] = 1..Len(w[s])
    OBVIOUS
  <2>1. w[s] \in Seq(Element)
    BY DEF Represents
  <2> QED
    BY <2>1
<1> QED
  BY <1>1, <1>2 DEF AbstractQueue, Names, Lists

LEMMA RepresentedLater ==
  ASSUME NEW w, Represents(Lists', w)
  PROVE  AbstractQueue' = Names(Lists', w)
<1>1. \A s \in Status : Walk(Lists', head'[s]) = w[s]
  BY WalkFacts DEF Lists
<1>2. \A s \in Status : DOMAIN w[s] = 1..Len(w[s])
  <2> SUFFICES ASSUME NEW s \in Status PROVE DOMAIN w[s] = 1..Len(w[s])
    OBVIOUS
  <2>1. w[s] \in Seq(Element)
    BY DEF Represents
  <2> QED
    BY <2>1
<1> QED
  BY <1>1, <1>2 DEF AbstractQueue, Names, Lists

LEMMA SetListsFacts ==
  ASSUME NEW l, SetLists(l), l \in ListState
  PROVE  Lists' = l /\ head' \in [Status -> Pointer] /\ tail' \in [Status -> Pointer]
         /\ pcb' \in [Element -> Pcb \cup {NULL}] /\ next' \in [Element -> Pointer]
BY DEF SetLists, Lists, ListState

\* The operators of the abstract specification are those of QueueOps.
LEMMA SameOperators ==
  /\ Policy!Status = Status
  /\ \A v, task : Policy!Push(v, task) = Push(v, task) /\ Policy!Pop(v, task) = Pop(v, task)
  /\ \A qs, task, from, to : Policy!Move(qs, task, from, to) = Move(qs, task, from, to)
<1>1. \A v, task : Policy!Push(v, task) = Push(v, task) /\ Policy!Pop(v, task) = Pop(v, task)
  BY DEF Policy!Push, Push, Policy!Pop, Pop, Policy!Holds, Holds, Policy!FirstIndex, FirstIndex
<1>2. \A qs, task, from, to : Policy!Move(qs, task, from, to) = Move(qs, task, from, to)
  BY <1>1 DEF Policy!Move, Move
<1> QED
  BY <1>1, <1>2 DEF Policy!Status, Status

LEMMA InitR == PolicyInit => RInv /\ Policy!Init
<1> SUFFICES ASSUME PolicyInit PROVE RInv /\ Policy!Init
  OBVIOUS
<1> DEFINE w == [s \in Status |-> <<>>]
<1>1. PolicyTypeOK
  BY DEF PolicyInit, PolicyTypeOK, Pointer
<1>2. Lists \in ListState
  BY <1>1, ListsTyped
<1>3. \A s \in Status : w[s] \in Seq(Element) /\ Len(w[s]) = 0 /\ w[s] = <<>>
  OBVIOUS
<1>4. w \in [Status -> Seq(Element)]
  BY <1>3
<1> HIDE DEF w
<1>5. \A s \in Status : Linked(Lists.next, Lists.head[s], w[s])
  <2> SUFFICES ASSUME NEW s \in Status PROVE Linked(Lists.next, Lists.head[s], w[s])
    OBVIOUS
  <2>1. /\ w[s] \in Seq(Element) /\ w[s] = <<>> /\ Len(w[s]) = 0 /\ DOMAIN w[s] = {}
    BY <1>3
  <2>2. Lists.head[s] = NULL
    BY DEF PolicyInit, Lists
  <2> QED
    BY <2>1, <2>2 DEF Linked, NoDuplicates
<1>6. Represents(Lists, w)
  <2>1. \A s \in Status : Lists.tail[s] = NULL
    BY DEF PolicyInit, Lists
  <2>2. Once(Lists, w)
    BY <1>3 DEF Once
  <2> QED
    BY <1>2, <1>3, <1>4, <1>5, <2>1, <2>2 DEF Represents
<1>7. \A s \in Status : Names(Lists, w)[s] = <<>>
  <2> SUFFICES ASSUME NEW s \in Status PROVE Names(Lists, w)[s] = <<>>
    OBVIOUS
  <2>1. Names(Lists, w)[s] \in Seq(Pcb) /\ Len(Names(Lists, w)[s]) = 0
    BY <1>3, <1>6, NamesFacts
  <2> QED
    BY <2>1, EmptySeq
<1>8. AbstractStatus = [p \in Pcb |-> "NONE"]
  BY DEF AbstractStatus, PolicyInit
<1>9. AbstractQueue = [s \in Status |-> <<>>]
  BY <1>6, <1>7, RepresentedQueue DEF Names
<1>10. \A s \in Status : Contents(Names(Lists, w)[s]) = {p \in Pcb : AbstractStatus[p] = s}
  BY <1>7, <1>8 DEF Contents, Status
<1>11. \A p \in freed : task_status[p] = "ZOMBIE"
  BY DEF PolicyInit
<1> QED
  BY <1>1, <1>6, <1>8, <1>9, <1>10, <1>11, SameOperators DEF RInv, Policy!Init

\* What holds of the queues after an operation on them.
LEMMA Maintained ==
  ASSUME NEW w, Represents(Lists', w), task_status' \in [Pcb -> Status \cup {"NONE"}],
         freed' \subseteq Pcb, \A p \in freed' : task_status'[p] = "ZOMBIE",
         \A s \in Status : Contents(Names(Lists', w)[s]) = {p \in Pcb : AbstractStatus'[p] = s}
  PROVE  RInv'
<1>1. Lists' \in ListState
  BY DEF Represents
<1>2. PolicyTypeOK'
  BY <1>1 DEF PolicyTypeOK, Lists, ListState
<1> QED
  BY <1>2 DEF RInv

LEMMA TransitionStep ==
  ASSUME RInv, NEW task \in Pcb, NEW from \in Status \ {"ZOMBIE"}, NEW to \in Status, from # to,
         task_status[task] = from, PopPush(task, from, to), SetStatus(task, to), UNCHANGED freed
  PROVE  RInv' /\ Policy!Transition(task, from, to)
<1>1. PICK w : /\ Represents(Lists, w)
               /\ \A s \in Status : Contents(Names(Lists, w)[s]) = {p \in Pcb : AbstractStatus[p] = s}
  BY DEF RInv
<1> DEFINE Q == Names(Lists, w)
           popped == QueuePop(Lists, from, task)
           pushed == QueuePush(popped, to, task)
<1>2. /\ Q \in [Status -> Seq(Pcb)] /\ \A s \in Status : NoDuplicates(Q[s])
  BY <1>1, NamesFacts
<1>3. task \notin freed /\ freed \subseteq Pcb /\ task_status \in [Pcb -> Status \cup {"NONE"}]
  BY DEF RInv, PolicyTypeOK
<1>4. AbstractStatus[task] = from
  BY <1>3 DEF AbstractStatus
<1>5. \A s \in Status : task \in Contents(Q[s]) <=> s = from
  BY <1>1, <1>4
<1>6. PICK u : /\ Represents(popped, u)
               /\ Names(popped, u) = [Q EXCEPT ![from] = Pop(@, task)]
  <2>1. \E u : Popped(Lists, w, from, task, u)
    BY <1>1, PopRepresents
  <2> QED
    BY <2>1 DEF Popped
<1>7. \A s \in Status : task \notin Contents(Names(popped, u)[s])
  <2> SUFFICES ASSUME NEW s \in Status PROVE task \notin Contents(Names(popped, u)[s])
    OBVIOUS
  <2>1. Contents(Pop(Q[from], task)) = Contents(Q[from]) \ {task}
    BY <1>2, PopFacts
  <2> HIDE DEF Q, popped
  <2> QED
    BY <1>2, <1>5, <1>6, <2>1
<1>8. PICK x : /\ Represents(pushed, x)
               /\ Names(pushed, x) = [Names(popped, u) EXCEPT ![to] = Push(@, task)]
  <2>1. \E x : Pushed(popped, u, to, task, x)
    <3> HIDE DEF popped
    <3> QED
      BY <1>6, <1>7, PushRepresents
  <2> QED
    BY <2>1 DEF Pushed
<1>9. Lists' = pushed
  BY <1>8, SetListsFacts DEF PopPush, Represents
<1> HIDE DEF popped, pushed
<1>10. Names(Lists', x) = Move(Q, task, from, to)
  BY <1>6, <1>8, <1>9 DEF Move
<1>11. AbstractQueue = Q /\ AbstractQueue' = Move(Q, task, from, to)
  BY <1>1, <1>8, <1>9, <1>10, RepresentedQueue, RepresentedLater
<1>12. task_status' = [task_status EXCEPT ![task] = to] /\ freed' = freed
  BY DEF SetStatus
<1>13. AbstractStatus' = [AbstractStatus EXCEPT ![task] = to]
  BY <1>3, <1>12 DEF AbstractStatus
<1>14. Policy!Transition(task, from, to)
  BY <1>4, <1>11, <1>13, SameOperators DEF Policy!Transition
<1> HIDE DEF Q
<1>15. ASSUME NEW s \in Status
       PROVE  Contents(Names(Lists', x)[s]) = {p \in Pcb : AbstractStatus'[p] = s}
  <2>1. \A p \in Pcb : AbstractStatus'[p] = IF p = task THEN to ELSE AbstractStatus[p]
    BY <1>13 DEF AbstractStatus
  <2>2. /\ Contents(Move(Q, task, from, to)[from]) = Contents(Q[from]) \ {task}
        /\ Contents(Move(Q, task, from, to)[to]) = Contents(Q[to]) \cup {task}
    <3>1. /\ Q[from] \in Seq(Pcb) /\ NoDuplicates(Q[from]) /\ Q[to] \in Seq(Pcb)
      BY <1>2
    <3>2. /\ Move(Q, task, from, to)[from] = Pop(Q[from], task)
          /\ Move(Q, task, from, to)[to] = Push(Q[to], task)
      BY <1>2, MoveFacts
    <3>3. Contents(Pop(Q[from], task)) = Contents(Q[from]) \ {task}
      BY <3>1, PopFacts
    <3>4. Contents(Push(Q[to], task)) = Contents(Q[to]) \cup {task}
      BY <3>1, PushFacts
    <3> QED
      BY <3>2, <3>3, <3>4
  <2>3. s \notin {from, to} => Move(Q, task, from, to)[s] = Q[s]
    BY <1>2, MoveFacts
  <2>4. Contents(Q[s]) = {p \in Pcb : AbstractStatus[p] = s}
    BY <1>1 DEF Q
  <2>5. CASE s = from
    BY <1>10, <2>1, <2>2, <2>4, <2>5
  <2>6. CASE s = to
    BY <1>10, <2>1, <2>2, <2>4, <2>6
  <2>7. CASE s \notin {from, to}
    BY <1>4, <1>10, <2>1, <2>3, <2>4, <2>7
  <2> QED
    BY <2>5, <2>6, <2>7
<1>16. /\ task_status' \in [Pcb -> Status \cup {"NONE"}] /\ freed' \subseteq Pcb
       /\ \A p \in freed' : task_status'[p] = "ZOMBIE"
  BY <1>3, <1>12 DEF RInv
<1>17. Represents(Lists', x)
  BY <1>8, <1>9
<1>18. RInv'
  BY <1>15, <1>16, <1>17, Maintained
<1> QED
  BY <1>14, <1>18

LEMMA NewStep ==
  ASSUME RInv, NEW task \in Pcb, sched_new(task)
  PROVE  RInv' /\ Policy!New(task)
<1>1. PICK w : /\ Represents(Lists, w)
               /\ \A s \in Status : Contents(Names(Lists, w)[s]) = {p \in Pcb : AbstractStatus[p] = s}
  BY DEF RInv
<1> DEFINE Q == Names(Lists, w)
           pushed == QueuePush(Lists, "NEW", task)
<1>2. /\ Q \in [Status -> Seq(Pcb)] /\ "NEW" \in Status /\ "NONE" \notin Status
  BY <1>1, NamesFacts DEF Status
<1>3. /\ task_status[task] = "NONE" /\ task \notin freed /\ freed \subseteq Pcb
      /\ task_status \in [Pcb -> Status \cup {"NONE"}]
      /\ task_status' = [task_status EXCEPT ![task] = "NEW"] /\ freed' = freed
  BY DEF RInv, PolicyTypeOK, sched_new, SetStatus
<1>4. AbstractStatus[task] = "NONE"
  BY <1>3 DEF AbstractStatus
<1>5. \A s \in Status : task \notin Contents(Q[s])
  BY <1>1, <1>2, <1>4
<1>6. PICK x : /\ Represents(pushed, x)
               /\ Names(pushed, x) = [Q EXCEPT !["NEW"] = Push(@, task)]
  <2>1. "NEW" \in Status
    BY <1>2
  <2> QED
    <3>1. \E x : Pushed(Lists, w, "NEW", task, x)
      BY <1>1, <1>5, <2>1, PushRepresents
    <3> QED
      BY <3>1 DEF Pushed
<1>7. Lists' = pushed
  BY <1>6, SetListsFacts DEF sched_new, Represents
<1> HIDE DEF pushed
<1>8. AbstractQueue = Q /\ AbstractQueue' = [Q EXCEPT !["NEW"] = Push(@, task)]
  BY <1>1, <1>6, <1>7, RepresentedQueue, RepresentedLater
<1>9. AbstractStatus' = [AbstractStatus EXCEPT ![task] = "NEW"]
  BY <1>3 DEF AbstractStatus
<1>10. Policy!New(task)
  BY <1>4, <1>8, <1>9, SameOperators DEF Policy!New
<1> HIDE DEF Q
<1>11. ASSUME NEW s \in Status
       PROVE  Contents(Names(Lists', x)[s]) = {p \in Pcb : AbstractStatus'[p] = s}
  <2>1. \A p \in Pcb : AbstractStatus'[p] = IF p = task THEN "NEW" ELSE AbstractStatus[p]
    BY <1>9 DEF AbstractStatus
  <2>2. Contents(Push(Q["NEW"], task)) = Contents(Q["NEW"]) \cup {task}
    BY <1>2, PushFacts
  <2>3. Contents(Q[s]) = {p \in Pcb : AbstractStatus[p] = s}
    BY <1>1 DEF Q
  <2>4. Names(Lists', x)[s] = IF s = "NEW" THEN Push(Q["NEW"], task) ELSE Q[s]
    BY <1>2, <1>6, <1>7
  <2>5. CASE s = "NEW"
    BY <2>1, <2>2, <2>3, <2>4, <2>5
  <2>6. CASE s # "NEW"
    BY <1>2, <1>4, <2>1, <2>3, <2>4, <2>6
  <2> QED
    BY <2>5, <2>6
<1>12. /\ task_status' \in [Pcb -> Status \cup {"NONE"}] /\ freed' \subseteq Pcb
       /\ \A p \in freed' : task_status'[p] = "ZOMBIE"
  BY <1>2, <1>3 DEF RInv
<1>13. Represents(Lists', x)
  BY <1>6, <1>7
<1> QED
  BY <1>10, <1>11, <1>12, <1>13, Maintained

LEMMA FreeStep ==
  ASSUME RInv, NEW task \in Pcb, sched_free(task)
  PROVE  RInv' /\ Policy!Free(task)
<1>1. PICK w : /\ Represents(Lists, w)
               /\ \A s \in Status : Contents(Names(Lists, w)[s]) = {p \in Pcb : AbstractStatus[p] = s}
  BY DEF RInv
<1> DEFINE Q == Names(Lists, w)
           popped == QueuePop(Lists, "ZOMBIE", task)
<1>2. /\ Q \in [Status -> Seq(Pcb)] /\ "ZOMBIE" \in Status /\ "FREED" \notin Status
      /\ NoDuplicates(Q["ZOMBIE"])
  BY <1>1, NamesFacts DEF Status
<1>3. /\ task_status[task] = "ZOMBIE" /\ task \notin freed /\ freed \subseteq Pcb
      /\ task_status \in [Pcb -> Status \cup {"NONE"}]
      /\ task_status' = task_status /\ freed' = freed \cup {task}
  BY DEF RInv, PolicyTypeOK, sched_free
<1>4. AbstractStatus[task] = "ZOMBIE"
  BY <1>3 DEF AbstractStatus
<1>5. PICK x : /\ Represents(popped, x)
               /\ Names(popped, x) = [Q EXCEPT !["ZOMBIE"] = Pop(@, task)]
  <2>1. "ZOMBIE" \in Status
    BY <1>2
  <2>2. \E x : Popped(Lists, w, "ZOMBIE", task, x)
    BY <1>1, <2>1, PopRepresents
  <2> QED
    BY <2>2 DEF Popped
<1>6. Lists' = popped
  BY <1>5, SetListsFacts DEF sched_free, Represents
<1> HIDE DEF popped
<1>7. AbstractQueue = Q /\ AbstractQueue' = [Q EXCEPT !["ZOMBIE"] = Pop(@, task)]
  BY <1>1, <1>5, <1>6, RepresentedQueue, RepresentedLater
<1>8. AbstractStatus' = [AbstractStatus EXCEPT ![task] = "FREED"]
  BY <1>3 DEF AbstractStatus
<1>9. Policy!Free(task)
  BY <1>4, <1>7, <1>8, SameOperators DEF Policy!Free
<1> HIDE DEF Q
<1>10. ASSUME NEW s \in Status
       PROVE  Contents(Names(Lists', x)[s]) = {p \in Pcb : AbstractStatus'[p] = s}
  <2>1. \A p \in Pcb : AbstractStatus'[p] = IF p = task THEN "FREED" ELSE AbstractStatus[p]
    BY <1>8 DEF AbstractStatus
  <2>2. Contents(Pop(Q["ZOMBIE"], task)) = Contents(Q["ZOMBIE"]) \ {task}
    BY <1>2, PopFacts
  <2>3. Contents(Q[s]) = {p \in Pcb : AbstractStatus[p] = s}
    BY <1>1 DEF Q
  <2>4. Names(Lists', x)[s] = IF s = "ZOMBIE" THEN Pop(Q["ZOMBIE"], task) ELSE Q[s]
    BY <1>2, <1>5, <1>6
  <2>5. CASE s = "ZOMBIE"
    BY <1>2, <2>1, <2>2, <2>3, <2>4, <2>5
  <2>6. CASE s # "ZOMBIE"
    BY <1>2, <1>4, <2>1, <2>3, <2>4, <2>6
  <2> QED
    BY <2>5, <2>6
<1>11. /\ task_status' \in [Pcb -> Status \cup {"NONE"}] /\ freed' \subseteq Pcb
       /\ \A p \in freed' : task_status'[p] = "ZOMBIE"
  BY <1>3 DEF RInv
<1>12. Represents(Lists', x)
  BY <1>5, <1>6
<1> QED
  BY <1>9, <1>10, <1>11, <1>12, Maintained

LEMMA NextR ==
  ASSUME RInv, [PolicyNext]_policy_vars
  PROVE  RInv' /\ [Policy!Next]_Policy!vars
<1>1. ASSUME NEW task \in Pcb, NEW from \in Status \ {"ZOMBIE"}, NEW to \in Status, from # to,
             task_status[task] = from, PopPush(task, from, to), SetStatus(task, to), UNCHANGED freed
      PROVE  RInv' /\ Policy!Transition(task, from, to)
  BY <1>1, TransitionStep
<1>2. ASSUME NEW task \in Pcb, sched_new(task) PROVE RInv' /\ Policy!Next
  BY <1>2, NewStep DEF Policy!Next
<1>3. ASSUME NEW task \in Pcb, sched_mature(task) PROVE RInv' /\ Policy!Next
  BY <1>1, <1>3 DEF sched_mature, Status, Policy!Next, Policy!Mature
<1>4. ASSUME NEW task \in Pcb, sched_allow(task) PROVE RInv' /\ Policy!Next
  BY <1>1, <1>4 DEF sched_allow, Status, Policy!Next, Policy!Allow
<1>5. ASSUME NEW task \in Pcb, sched_block(task) PROVE RInv' /\ Policy!Next
  BY <1>1, <1>5 DEF sched_block, Status, Policy!Next, Policy!Block
<1>6. ASSUME NEW task \in Pcb, sched_preempt(task) PROVE RInv' /\ Policy!Next
  BY <1>1, <1>6 DEF sched_preempt, Status, Policy!Next, Policy!Preempt
<1>7. ASSUME NEW task \in Pcb, sched_wake(task) PROVE RInv' /\ Policy!Next
  BY <1>1, <1>7 DEF sched_wake, Status, Policy!Next, Policy!Wake
<1>8. ASSUME NEW task \in Pcb, sched_finish(task) PROVE RInv' /\ Policy!Next
  BY <1>1, <1>8 DEF sched_finish, Status, Policy!Next, Policy!Finish
<1>9. ASSUME NEW task \in Pcb, sched_kill(task) PROVE RInv' /\ Policy!Next
  <2>1. task_status[task] \in {"NEW", "READY", "RUNNING", "WAIT"}
    BY <1>9 DEF sched_kill
  <2>2. RInv' /\ Policy!Transition(task, task_status[task], "ABORT")
    BY <1>1, <1>9, <2>1 DEF sched_kill, Status
  <2> QED
    BY <2>1, <2>2 DEF Policy!Next, Policy!Kill
<1>10. ASSUME NEW task \in Pcb, sched_free(task) PROVE RInv' /\ Policy!Next
  BY <1>10, FreeStep DEF Policy!Next
<1>11. CASE UNCHANGED policy_vars
  <2>1. UNCHANGED <<head, tail, pcb, next, task_status, freed>>
    BY <1>11 DEF policy_vars
  <2>2. Lists' = Lists /\ AbstractStatus' = AbstractStatus
    BY <2>1 DEF Lists, AbstractStatus
  <2>3. AbstractQueue' = AbstractQueue
    BY <2>1, <2>2 DEF AbstractQueue
  <2>4. RInv'
    BY <2>1, <2>2 DEF RInv, PolicyTypeOK
  <2> QED
    BY <2>2, <2>3, <2>4 DEF Policy!vars
<1> QED
  BY <1>2, <1>3, <1>4, <1>5, <1>6, <1>7, <1>8, <1>9, <1>10, <1>11 DEF PolicyNext

LEMMA InvariantLists == RInv => ListsConsistent
<1> SUFFICES ASSUME RInv PROVE ListsConsistent
  OBVIOUS
<1>1. PICK w : /\ Represents(Lists, w)
               /\ \A s \in Status : Contents(Names(Lists, w)[s]) = {p \in Pcb : AbstractStatus[p] = s}
  BY DEF RInv
<1>2. \A s \in Status : Walk(Lists, head[s]) = w[s]
  BY <1>1, WalkFacts DEF Lists
<1>3. ASSUME NEW s \in Status
      PROVE  /\ NoDuplicates(w[s]) /\ DOMAIN w[s] = 1..Len(w[s])
             /\ tail[s] = IF w[s] = <<>> THEN NULL ELSE w[s][Len(w[s])]
  <2>1. w[s] \in Seq(Element) /\ NoDuplicates(w[s])
    BY <1>1 DEF Represents, Linked
  <2>2. tail[s] = Lists.tail[s]
    BY DEF Lists
  <2> QED
    BY <1>1, <2>1, <2>2 DEF Represents
<1>4. ASSUME NEW s \in Status, NEW t \in Status, s # t
      PROVE  Contents(w[s]) \cap Contents(w[t]) = {}
  <2>1. ASSUME NEW i \in 1..Len(w[s]), NEW j \in 1..Len(w[t]) PROVE w[s][i] # w[t][j]
    BY <1>1, <1>4 DEF Represents, Once
  <2> QED
    BY <1>3, <2>1 DEF Contents
<1>5. ListsWellFormed
  BY <1>2, <1>3, <1>4 DEF ListsWellFormed
<1>6. AbstractQueue = Names(Lists, w) /\ \A s \in Status : NoDuplicates(Names(Lists, w)[s])
  BY <1>1, RepresentedQueue, NamesFacts
<1>7. ListsMatchStatus
  <2>1. \A v : Policy!Contents(v) = Contents(v) /\ (Policy!NoDuplicates(v) <=> NoDuplicates(v))
    BY DEF Policy!Contents, Contents, Policy!NoDuplicates, NoDuplicates
  <2> QED
    BY <1>1, <1>6, <2>1, SameOperators DEF ListsMatchStatus, Policy!StatusMatchesQueue
<1> QED
  BY <1>5, <1>7 DEF ListsConsistent, RInv

\* After every transition the lists of policy_rr.c are lists, tail is where
\* head leads, and each holds the PCBs of its status, for any number of them.
THEOREM ListsStayConsistent == PolicySpec => []ListsConsistent
<1>1. PolicyInit => RInv
  BY InitR
<1>2. RInv /\ [PolicyNext]_policy_vars => RInv'
  BY NextR
<1> QED
  BY <1>1, <1>2, InvariantLists, PTL DEF PolicySpec

\* policy_rr.c implements the contract of policy_rr.h: seen through the lists,
\* every operation is the operation on FIFOs that it is named for.
THEOREM PolicyImplemented == PolicySpec => ImplementsPolicy
<1>1. PolicyInit => RInv /\ Policy!Init
  BY InitR
<1>2. RInv /\ [PolicyNext]_policy_vars => RInv' /\ [Policy!Next]_Policy!vars
  BY NextR
<1> QED
  BY <1>1, <1>2, PTL DEF PolicySpec, ImplementsPolicy, Policy!Spec

-----------------------------------------------------------------------------
(* The process subsystem.                                                  *)

USE MaxPcbAssumption, PcMaxAssumption, SyscallsAssumption, BoundsAssumption

LEMMA InitIInv == Init => IInv
<1> SUFFICES ASSUME Init PROVE IInv
  OBVIOUS
<1> USE DEF Init
<1>1. ZeroContext \in Context /\ cpu \in Context
  BY DEF ZeroContext, Context, Pc, ENTRY, SVC_FORK
<1>2. TypeOK
  <2>1. queue \in [Status -> Seq(Pid)]
    BY EmptySeq
  <2>2. 0 \in Pid /\ 0 \in 0..(MaxPcb + 1)
    BY DEF Pid
  <2> QED
    BY <1>1, <2>1, <2>2 DEF TypeOK
<1>3. Contents(<<>>) = {}
  BY DEF Contents
<1>4. QueuesMatchStatus
  BY <1>3 DEF QueuesMatchStatus, Matches, Status, NoDuplicates
<1>5. Booting /\ LastOneRuns /\ CpuBelongsToRunning
  BY <1>3 DEF Booting, LastOneRuns, CpuBelongsToRunning, NoRunning, Status
<1>6. PreemptedContextIntact /\ OwnTables /\ PcInProgram
  BY DEF PreemptedContextIntact, OwnTables, PcInProgram, ZeroContext, SVC_FORK
<1> QED
  BY <1>2, <1>4, <1>5, <1>6 DEF IInv

\* While something runs it is owner, and nothing waits or is a zombie.
LEMMA RunningFacts ==
  ASSUME IInv, ~NoRunning, state = "run"
  PROVE  /\ queue["RUNNING"] = <<owner>> /\ Running = owner
         /\ owner \in Pid /\ status[owner] = "RUNNING" /\ owner < cnt_pcb
         /\ page_table[owner] = owner /\ cpu = logical[owner]
         /\ queue["ZOMBIE"] = <<>> /\ queue["WAIT"] = <<>>
         /\ \A s \in Status \ {"RUNNING"} : owner \notin Contents(queue[s])
         /\ \A p \in Pid : status[p] \notin {"WAIT"} /\ (status[p] = "RUNNING" => p = owner)
<1>1. queue["RUNNING"] = <<owner>> /\ TTBR0 = page_table[owner] /\ cpu = logical[owner]
  BY DEF IInv, CpuBelongsToRunning
<1>2. Running = owner /\ owner \in Contents(queue["RUNNING"]) /\ Contents(queue["RUNNING"]) = {owner}
  BY <1>1 DEF Running, Contents
<1>3. owner \in Pid /\ status[owner] = "RUNNING" /\ owner < cnt_pcb
  BY <1>2 DEF IInv, TypeOK, QueuesMatchStatus, Matches, Status
<1>4. queue["ZOMBIE"] = <<>> /\ queue["WAIT"] = <<>>
  BY DEF IInv, LastOneRuns
<1>5. \A s \in Status \ {"RUNNING"} : owner \notin Contents(queue[s])
  BY <1>3 DEF IInv, QueuesMatchStatus, Matches
<1>6. ASSUME NEW p \in Pid PROVE status[p] # "WAIT" /\ (status[p] = "RUNNING" => p = owner)
  <2>1. status[p] = "WAIT" => p \in Contents(queue["WAIT"])
    BY DEF IInv, QueuesMatchStatus, Matches, Status
  <2>2. status[p] = "RUNNING" => p \in Contents(queue["RUNNING"])
    BY DEF IInv, QueuesMatchStatus, Matches, Status
  <2>3. p \notin Contents(queue["WAIT"])
    BY <1>4 DEF Contents
  <2> QED
    BY <1>2, <2>1, <2>2, <2>3
<1> QED
  BY <1>1, <1>2, <1>3, <1>4, <1>5, <1>6 DEF IInv, OwnTables

\* Steps that leave queues and statuses alone.
LEMMA KeepsQueues ==
  ASSUME IInv, UNCHANGED <<queue, status, cnt_pcb, page_table, owner>>,
         state \in {"run", "wait", "abort", "corrupt"}, state' # "boot",
         state' = "wait" => queue["ZOMBIE"] = <<>> /\ status[owner] \in {"RUNNING", "WAIT"}
  PROVE  /\ QueuesMatchStatus' /\ Booting' /\ LastOneRuns' /\ OwnTables'
<1>1. QueuesMatchStatus'
  BY DEF IInv, QueuesMatchStatus
<1>2. Booting'
  BY DEF Booting
<1>3. LastOneRuns'
  BY DEF IInv, LastOneRuns, NoRunning
<1>4. OwnTables'
  BY DEF IInv, OwnTables
<1> QED
  BY <1>1, <1>2, <1>3, <1>4

\* Registers that stay where the type and PcInProgram want them.
LEMMA ContextTypes ==
  ASSUME IInv
  PROVE  /\ cpu.pc \in 0..PcMax /\ cpu.r0 \in 0..ENTRY /\ cpu.mode \in {"NONE", "SYS", "USR"}
         /\ IrqContext \in Context /\ IrqReturn = cpu
         /\ \A c \in Context, r \in 0..ENTRY :
               [c EXCEPT !.r0 = r] \in Context /\ [c EXCEPT !.r0 = r].pc = c.pc
         /\ \A x \in 0..PcMax : [cpu EXCEPT !.pc = x] \in Context
         /\ \A id : AtSvc(id) => SvcContext \in Context /\ SvcContext.pc \in 0..PcMax
<1>1. cpu \in Context /\ cpu.pc <= PcMax
  BY DEF IInv, TypeOK, PcInProgram
<1>2. cpu.pc \in 0..PcMax /\ cpu.r0 \in 0..ENTRY /\ cpu.mode \in {"NONE", "SYS", "USR"}
  BY <1>1 DEF Context, Pc
<1>3. IrqContext \in Context
  BY <1>1, <1>2 DEF IrqContext, Context, Pc
<1>4. IrqReturn = cpu
  <2>1. cpu = [pc |-> cpu.pc, r0 |-> cpu.r0, mode |-> cpu.mode]
    BY <1>1 DEF Context
  <2>2. IrqContext = [pc |-> cpu.pc + 1, r0 |-> cpu.r0, mode |-> cpu.mode]
    BY <2>1 DEF IrqContext
  <2>3. IrqReturn = [pc |-> (cpu.pc + 1) - 1, r0 |-> cpu.r0, mode |-> cpu.mode]
    BY <2>2 DEF IrqReturn
  <2>4. (cpu.pc + 1) - 1 = cpu.pc
    BY <1>2
  <2> QED
    BY <2>1, <2>3, <2>4
<1>5. \A c \in Context, r \in 0..ENTRY :
          [c EXCEPT !.r0 = r] \in Context /\ [c EXCEPT !.r0 = r].pc = c.pc
  BY DEF Context
<1>6. \A x \in 0..PcMax : [cpu EXCEPT !.pc = x] \in Context
  BY <1>1 DEF Context, Pc
<1>7. ASSUME NEW id, AtSvc(id) PROVE SvcContext \in Context /\ SvcContext.pc \in 0..PcMax
  <2>1. cpu.pc < PcMax
    BY <1>7 DEF AtSvc, SVC_FORK, SVC_EXEC
  <2> QED
    BY <1>1, <1>2, <2>1 DEF SvcContext, Context, Pc
<1> QED
  BY <1>2, <1>3, <1>4, <1>5, <1>6, <1>7

\* A step in which the CPU goes on with ctx as the register file of owner.
LEMMA KeepsRegisters ==
  ASSUME IInv, NEW ctx \in Context, ctx.pc <= PcMax, Resume(ctx),
         state = "run", UNCHANGED <<queue, status, page_table, owner>>,
         TTBR0' = TTBR0 \/ TTBR0' = page_table[owner],
         saved' = saved \/ \E c \in Context : saved' = [saved EXCEPT ![owner] = c]
  PROVE  /\ cpu' \in Context /\ logical' \in [Pid -> Context] /\ saved' \in [Pid -> Context]
         /\ TTBR0' \in Pid
         /\ CpuBelongsToRunning' /\ PreemptedContextIntact' /\ PcInProgram'
<1>1. /\ owner \in Pid /\ cpu' = ctx /\ logical' = [logical EXCEPT ![owner] = ctx]
      /\ logical \in [Pid -> Context] /\ saved \in [Pid -> Context]
  BY DEF IInv, TypeOK, Resume
<1>2. saved' \in [Pid -> Context] /\ TTBR0' \in Pid
  BY <1>1 DEF IInv, TypeOK
<1>3. CpuBelongsToRunning'
  BY <1>1 DEF IInv, CpuBelongsToRunning, NoRunning
<1>4. PreemptedContextIntact'
  <2>1. \A p \in Pid : status[p] = "READY" => p # owner
    BY DEF IInv, LastOneRuns
  <2> QED
    BY <1>1, <2>1 DEF IInv, PreemptedContextIntact
<1>5. PcInProgram'
  BY <1>1 DEF IInv, PcInProgram
<1> QED
  BY <1>1, <1>2, <1>3, <1>4, <1>5

\* A step that goes on with owner in ctx and touches no queue.
LEMMA KeepsIInv ==
  ASSUME IInv, NEW ctx \in Context, ctx.pc <= PcMax, Resume(ctx),
         state = "run", state' = "run",
         UNCHANGED <<queue, status, ppid, page_table, cnt_pcb, owner>>, timer' \in BOOLEAN,
         TTBR0' = TTBR0 \/ TTBR0' = page_table[owner],
         saved' = saved \/ \E c \in Context : saved' = [saved EXCEPT ![owner] = c]
  PROVE  IInv'
<1>1. QueuesMatchStatus' /\ Booting' /\ LastOneRuns' /\ OwnTables'
  BY KeepsQueues
<1>2. /\ cpu' \in Context /\ logical' \in [Pid -> Context] /\ saved' \in [Pid -> Context]
      /\ TTBR0' \in Pid
      /\ CpuBelongsToRunning' /\ PreemptedContextIntact' /\ PcInProgram'
  BY KeepsRegisters
<1>3. TypeOK'
  BY <1>2 DEF IInv, TypeOK
<1> QED
  BY <1>1, <1>2, <1>3 DEF IInv

\* The steps of the running program itself.
LEMMA ProgramSteps ==
  ASSUME IInv, StartTimer \/ BecomeIdle \/ UserStep
  PROVE  IInv'
<1>1. /\ state = "run" /\ state' = "run"
      /\ UNCHANGED <<queue, status, ppid, page_table, cnt_pcb, owner, saved, TTBR0>>
  BY DEF StartTimer, BecomeIdle, UserStep, table
<1>2. timer' \in BOOLEAN
  BY DEF IInv, TypeOK, StartTimer, BecomeIdle, UserStep
<1>3. PICK x \in 0..PcMax : Resume([cpu EXCEPT !.pc = x])
  <2>1. SVC_EXEC \in 0..PcMax /\ IDLE \in 0..PcMax /\ UserPc \subseteq 0..PcMax
    BY DEF SVC_EXEC, IDLE, UserPc, USER_ENTRY
  <2> QED
    BY <2>1 DEF StartTimer, BecomeIdle, UserStep
<1>4. [cpu EXCEPT !.pc = x] \in Context /\ [cpu EXCEPT !.pc = x].pc <= PcMax
  <2>1. cpu \in Context
    BY DEF IInv, TypeOK
  <2> QED
    BY <2>1, ContextTypes DEF Context
<1> QED
  BY <1>1, <1>2, <1>3, <1>4, KeepsIInv

\* exec, the calls that only return a value, and interrupts but the timer's.
LEMMA HandlerSteps ==
  ASSUME IInv, Exec \/ GetPid \/ GetPpid \/ Debug \/ OtherIrq
  PROVE  IInv'
<1>1. state = "run" /\ ~NoRunning
  BY DEF Exec, GetPid, GetPpid, Debug, Simple, OtherIrq, Svc, AtSvc
<1>2. /\ Running = owner /\ owner \in Pid /\ cpu = logical[owner] /\ ppid[owner] \in Pid
  BY <1>1, RunningFacts DEF IInv, TypeOK
<1>3. CASE Exec
  <2> DEFINE image == [pc |-> USER_ENTRY, r0 |-> ENTRY, mode |-> "USR"]
  <2>1. image \in Context /\ image.pc <= PcMax
    BY DEF Context, Pc, USER_ENTRY, ENTRY
  <2>2. /\ Resume(image) /\ saved' = [saved EXCEPT ![owner] = image]
        /\ TTBR0' = page_table[owner] /\ state' = "run"
        /\ UNCHANGED <<queue, status, ppid, page_table, cnt_pcb, owner, timer>>
    BY <1>1, <1>2, <1>3 DEF Exec, SwitchMm, table
  <2>3. timer' \in BOOLEAN
    BY <2>2 DEF IInv, TypeOK
  <2> QED
    BY <1>1, <2>1, <2>2, <2>3, KeepsIInv
<1>4. ASSUME NEW id, NEW r0 \in 0..ENTRY, Simple(id, r0) PROVE IInv'
  <2> DEFINE ctx == [SvcContext EXCEPT !.r0 = r0]
  <2>1. SvcContext \in Context /\ SvcContext.pc \in 0..PcMax
    BY <1>4, ContextTypes DEF Simple, Svc
  <2>2. ctx \in Context /\ ctx.pc <= PcMax
    BY <2>1, ContextTypes
  <2>3. /\ Resume(ctx) /\ saved' = [saved EXCEPT ![owner] = SvcContext]
        /\ state' = "run"
        /\ UNCHANGED <<queue, status, ppid, page_table, cnt_pcb, owner, timer, TTBR0>>
    BY <1>1, <1>2, <1>4 DEF Simple, table
  <2>4. timer' \in BOOLEAN
    BY <2>3 DEF IInv, TypeOK
  <2> QED
    BY <1>1, <2>1, <2>2, <2>3, <2>4, KeepsIInv
<1>5. CASE GetPid \/ GetPpid \/ Debug
  <2>1. Pid \subseteq 0..ENTRY /\ cpu.r0 \in 0..ENTRY
    BY ContextTypes DEF Pid, ENTRY
  <2> QED
    BY <1>2, <1>4, <1>5, <2>1 DEF GetPid, GetPpid, Debug
<1>6. CASE OtherIrq
  <2>1. IrqContext \in Context /\ IrqReturn = cpu /\ cpu \in Context /\ cpu.pc <= PcMax
    BY ContextTypes DEF IInv, TypeOK, PcInProgram
  <2>2. /\ saved' = [saved EXCEPT ![owner] = IrqContext] /\ cpu' = cpu /\ logical' = logical
        /\ state' = "run"
        /\ UNCHANGED <<queue, status, ppid, page_table, cnt_pcb, owner, timer, TTBR0>>
    BY <1>1, <1>2, <1>6, <2>1 DEF OtherIrq, table, history
  <2>3. Resume(cpu)
    BY <1>2, <2>2 DEF Resume, IInv, TypeOK
  <2>4. timer' \in BOOLEAN
    BY <2>2 DEF IInv, TypeOK
  <2> QED
    BY <1>1, <2>1, <2>2, <2>3, <2>4, KeepsIInv
<1> QED
  BY <1>3, <1>5, <1>6

\* The call of wait, and a handler that faults.
LEMMA StuckSteps ==
  ASSUME IInv, Wait \/ HandlerFaults
  PROVE  IInv'
<1>1. /\ state = "run" /\ state' \in {"wait", "abort"}
      /\ UNCHANGED <<queue, status, ppid, page_table, cnt_pcb, owner, cpu, logical, TTBR0, timer>>
  BY DEF Wait, HandlerFaults, Svc, AtSvc, table, history
<1>2. state' = "wait" => queue["ZOMBIE"] = <<>> /\ status[owner] \in {"RUNNING", "WAIT"}
  BY <1>1, RunningFacts DEF Wait, HandlerFaults, Svc
<1>3. QueuesMatchStatus' /\ Booting' /\ LastOneRuns' /\ OwnTables'
  BY <1>1, <1>2, KeepsQueues
<1>4. saved' \in [Pid -> Context] /\ \A p \in Pid : status[p] = "READY" => saved'[p] = saved[p]
  <2>1. CASE Wait
    <3>1. SvcContext \in Context /\ Running = owner /\ status[owner] = "RUNNING" /\ owner \in Pid
      BY <2>1, ContextTypes, RunningFacts DEF Wait, Svc, AtSvc
    <3> QED
      BY <2>1, <3>1 DEF Wait, IInv, TypeOK
  <2>2. CASE HandlerFaults
    BY <2>2 DEF HandlerFaults, IInv, TypeOK
  <2> QED
    BY <2>1, <2>2
<1>5. TypeOK' /\ CpuBelongsToRunning' /\ PcInProgram'
  BY <1>1, <1>4 DEF IInv, TypeOK, CpuBelongsToRunning, PcInProgram
<1>6. PreemptedContextIntact'
  BY <1>1, <1>4 DEF IInv, PreemptedContextIntact
<1> QED
  BY <1>3, <1>5, <1>6 DEF IInv

\* The types of queue and status, as names of their own: the provers then match
\* the lemmas below by name.
Queues == [Status -> Seq(Pid)]
Statuses == [Pid -> Status \cup {"NONE"}]

\* MoveFacts and MoveContents for the queues of PCBs.
LEMMA PidMove ==
  ASSUME NEW q \in Queues, NEW p \in Pid,
         NEW from \in Status, NEW to \in Status, from # to, NoDuplicates(q[from])
  PROVE  /\ Move(q, p, from, to) \in Queues
         /\ \A s \in Status \ {from, to} : Move(q, p, from, to)[s] = q[s]
         /\ Move(q, p, from, to)[to] = Push(q[to], p)
         /\ Contents(Move(q, p, from, to)[from]) = Contents(q[from]) \ {p}
         /\ NoDuplicates(Move(q, p, from, to)[from])
         /\ Contents(Move(q, p, from, to)[to]) = Contents(q[to]) \cup {p}
         /\ NoDuplicates(q[to]) /\ p \notin Contents(q[to])
               => NoDuplicates(Move(q, p, from, to)[to])
<1>1. /\ Move(q, p, from, to) \in Queues
      /\ \A s \in Status \ {from, to} : Move(q, p, from, to)[s] = q[s]
      /\ Move(q, p, from, to)[from] = Pop(q[from], p)
      /\ Move(q, p, from, to)[to] = Push(q[to], p)
  BY MoveFacts DEF Queues
<1>2. q[from] \in Seq(Pid) /\ q[to] \in Seq(Pid)
  BY DEF Queues
<1>3. /\ Contents(Pop(q[from], p)) = Contents(q[from]) \ {p}
      /\ NoDuplicates(Pop(q[from], p))
  BY <1>2, PopFacts
<1>4. /\ Contents(Push(q[to], p)) = Contents(q[to]) \cup {p}
      /\ NoDuplicates(q[to]) /\ p \notin Contents(q[to]) => NoDuplicates(Push(q[to], p))
  BY <1>2, PushFacts
<1> QED
  BY <1>1, <1>3, <1>4

\* p is in no queue but the one that the transition starts from; the waiting
\* queue alone may hold it already.
MayMove(q, n, p, from, to) ==
  /\ from # to /\ from # "WAIT" /\ p < n
  /\ \A s \in Status \ {from} : p \in Contents(q[s]) => s = to /\ s = "WAIT"

\* Such a transition keeps queues and statuses in step.
LEMMA MoveMatches ==
  ASSUME NEW q \in Queues, NEW st \in Statuses,
         NEW n, Matches(q, st, n),
         NEW p \in Pid, NEW from \in Status, NEW to \in Status, MayMove(q, n, p, from, to)
  PROVE  /\ Matches(Move(q, p, from, to), [st EXCEPT ![p] = to], n)
         /\ Move(q, p, from, to) \in Queues
         /\ \A s \in Status \ {from, to} : Move(q, p, from, to)[s] = q[s]
         /\ Contents(Move(q, p, from, to)[from]) = Contents(q[from]) \ {p}
         /\ Contents(Move(q, p, from, to)[to]) = Contents(q[to]) \cup {p}
         /\ Move(q, p, from, to)[to] = Push(q[to], p)
<1> DEFINE r == Move(q, p, from, to)
<1>0. /\ from # to /\ from # "WAIT" /\ p < n
      /\ \A s \in Status \ {from} : p \in Contents(q[s]) => s = to /\ s = "WAIT"
  BY DEF MayMove
<1>1. NoDuplicates(q[from])
  BY <1>0 DEF Matches
<1>2. /\ r \in Queues
      /\ \A s \in Status \ {from, to} : r[s] = q[s]
      /\ r[to] = Push(q[to], p)
  BY <1>0, <1>1, PidMove
<1>3. /\ Contents(r[from]) = Contents(q[from]) \ {p}
      /\ Contents(r[to]) = Contents(q[to]) \cup {p}
  BY <1>0, <1>1, PidMove
<1>4. /\ NoDuplicates(r[from])
      /\ NoDuplicates(q[to]) /\ p \notin Contents(q[to]) => NoDuplicates(r[to])
  <2>1. NoDuplicates(r[from])
    BY <1>0, <1>1, PidMove
  <2>2. ASSUME NoDuplicates(q[to]), p \notin Contents(q[to]) PROVE NoDuplicates(r[to])
    BY <1>0, <1>1, <2>2, PidMove
  <2> QED
    BY <2>1, <2>2
<1> HIDE DEF r
<1>5. ASSUME NEW s \in Status
      PROVE  /\ \A x \in Contents(r[s]) : [st EXCEPT ![p] = to][x] = s /\ x < n
             /\ s # "ZOMBIE" => \A x \in Pid : [st EXCEPT ![p] = to][x] = s => x \in Contents(r[s])
             /\ s # "WAIT" => NoDuplicates(r[s])
  <2>1. /\ \A x \in Contents(q[s]) : st[x] = s /\ x < n
        /\ s # "ZOMBIE" => \A x \in Pid : st[x] = s => x \in Contents(q[s])
        /\ s # "WAIT" => NoDuplicates(q[s])
    BY DEF Matches
  <2>2. Contents(q[s]) \subseteq Pid
    BY SmallQueues DEF Queues
  <2>3. CASE s = from
    BY <1>0, <1>3, <1>4, <2>1, <2>2, <2>3 DEF Statuses
  <2>4. CASE s = to
    BY <1>0, <1>3, <1>4, <2>1, <2>2, <2>4 DEF Statuses
  <2>5. CASE s \notin {from, to}
    <3>1. r[s] = q[s] /\ p \notin Contents(q[s])
      BY <1>0, <1>2, <2>5
    <3> QED
      BY <2>1, <2>2, <2>5, <3>1 DEF Statuses
  <2> QED
    BY <2>3, <2>4, <2>5
<1>6. Matches(r, [st EXCEPT ![p] = to], n)
  BY <1>5 DEF Matches
<1> QED
  BY <1>2, <1>3, <1>6 DEF r

\* new_pcb queues a PCB that no queue held before.
LEMMA CreatedMatches ==
  ASSUME NEW q \in Queues, NEW st \in Statuses, NEW n \in Nat, n \in Pid, Matches(q, st, n)
  PROVE  /\ Created(q, n) \in Queues
         /\ Matches(Created(q, n), [st EXCEPT ![n] = "NEW"], n + 1)
         /\ \A s \in Status \ {"NEW"} : Created(q, n)[s] = q[s]
         /\ \A s \in Status \ {"NEW"} : n \notin Contents(Created(q, n)[s])
<1> DEFINE r == Created(q, n)
           t == [st EXCEPT ![n] = "NEW"]
<1>1. q["NEW"] \in Seq(Pid) /\ "NEW" \in Status
  BY DEF Queues, Status
<1>2. /\ Push(q["NEW"], n) \in Seq(Pid)
      /\ Contents(Push(q["NEW"], n)) = Contents(q["NEW"]) \cup {n}
      /\ NoDuplicates(q["NEW"]) /\ n \notin Contents(q["NEW"]) => NoDuplicates(Push(q["NEW"], n))
  BY <1>1, PushFacts
<1>3. /\ r \in Queues /\ r["NEW"] = Push(q["NEW"], n)
      /\ \A s \in Status \ {"NEW"} : r[s] = q[s]
  BY <1>1, <1>2 DEF Created, Queues
<1>4. ASSUME NEW s \in Status PROVE n \notin Contents(q[s])
  <2>1. ~(n < n)
    OBVIOUS
  <2>2. \A x \in Contents(q[s]) : x < n
    BY DEF Matches
  <2> QED
    BY <2>1, <2>2
<1>5. \A s \in Status : Contents(q[s]) \subseteq Pid
  BY SmallQueues DEF Queues
<1> HIDE DEF r
<1>6. ASSUME NEW s \in Status
      PROVE  /\ \A x \in Contents(r[s]) : t[x] = s /\ x < n + 1
             /\ s # "ZOMBIE" => \A x \in Pid : t[x] = s => x \in Contents(r[s])
             /\ s # "WAIT" => NoDuplicates(r[s])
  <2>1. /\ \A x \in Contents(q[s]) : st[x] = s /\ x < n /\ x \in Pid /\ x # n
        /\ s # "ZOMBIE" => \A x \in Pid : st[x] = s => x \in Contents(q[s])
        /\ s # "WAIT" => NoDuplicates(q[s])
    BY <1>4, <1>5 DEF Matches
  <2>2. /\ t[n] = "NEW" /\ n < n + 1
        /\ \A x \in Pid : x # n => t[x] = st[x]
        /\ \A x \in Pid : x < n => x < n + 1
    BY DEF Statuses, Pid
  <2> HIDE DEF t
  <2>3. CASE s = "NEW"
    <3>1. /\ Contents(r[s]) = Contents(q[s]) \cup {n} /\ NoDuplicates(r[s])
      BY <1>2, <1>3, <1>4, <2>1, <2>3
    <3> QED
      BY <2>1, <2>2, <2>3, <3>1
  <2>4. CASE s # "NEW"
    <3>1. r[s] = q[s]
      BY <1>3, <2>4
    <3> QED
      BY <2>1, <2>2, <2>4, <3>1
  <2> QED
    BY <2>3, <2>4
<1>7. Matches(r, t, n + 1)
  BY <1>6 DEF Matches
<1> QED
  BY <1>3, <1>4, <1>7 DEF r

\* An iteration of _wait's loop: there is no zombie, for none has exited.
LEMMA WaitIterateStep ==
  ASSUME IInv, WaitIterate
  PROVE  IInv'
<1>1. state = "wait" /\ queue["ZOMBIE"] = <<>> /\ owner \in Pid
  BY DEF WaitIterate, IInv, LastOneRuns, TypeOK
<1>2. ZombieChildren(owner) = {}
  BY <1>1 DEF ZombieChildren
<1>3. /\ queue' = Move(queue, owner, "RUNNING", "WAIT")
      /\ status' = [status EXCEPT ![owner] = "WAIT"]
      /\ UNCHANGED <<state, cpu, logical, ppid, page_table, cnt_pcb, saved, TTBR0, timer, owner>>
  BY <1>2 DEF WaitIterate
<1>4. /\ queue \in Queues /\ status \in Statuses
      /\ Matches(queue, status, cnt_pcb)
      /\ Contents(queue["RUNNING"]) \subseteq {owner}
      /\ status[owner] \in {"RUNNING", "WAIT"}
  BY <1>1 DEF IInv, TypeOK, QueuesMatchStatus, LastOneRuns,
     Queues, Statuses
<1>5. owner < cnt_pcb
  BY <1>1, <1>4 DEF Matches, Status
<1>6. \A s \in Status \ {"RUNNING"} : owner \in Contents(queue[s]) => s = "WAIT"
  BY <1>4 DEF Matches
<1>7. /\ Matches(queue', status', cnt_pcb)
      /\ queue' \in Queues
      /\ \A s \in Status \ {"RUNNING", "WAIT"} : queue'[s] = queue[s]
      /\ Contents(queue'["RUNNING"]) = Contents(queue["RUNNING"]) \ {owner}
  <2> DEFINE moved == Move(queue, owner, "RUNNING", "WAIT")
  <2>1. "RUNNING" \in Status /\ "WAIT" \in Status
    BY DEF Status
  <2>2. /\ Matches(moved, [status EXCEPT ![owner] = "WAIT"], cnt_pcb)
        /\ moved \in Queues
        /\ \A s \in Status \ {"RUNNING", "WAIT"} : moved[s] = queue[s]
        /\ Contents(moved["RUNNING"]) = Contents(queue["RUNNING"]) \ {owner}
    <3>1. MayMove(queue, cnt_pcb, owner, "RUNNING", "WAIT")
      BY <1>5, <1>6 DEF MayMove
    <3>2. /\ queue \in Queues /\ status \in Statuses /\ owner \in Pid
          /\ Matches(queue, status, cnt_pcb)
      BY <1>1, <1>4
    <3>3. "RUNNING" # "WAIT"
      OBVIOUS
    <3> QED
      BY <2>1, <3>1, <3>2, <3>3, MoveMatches
  <2> QED
    BY <1>3, <2>2
<1>8. queue'["RUNNING"] = <<>> /\ queue'["ZOMBIE"] = <<>>
  <2>1. Contents(queue'["RUNNING"]) = {} /\ queue'["RUNNING"] \in Seq(Pid)
    BY <1>4, <1>7 DEF Status, Queues
  <2> QED
    BY <1>1, <1>7, <2>1, SmallQueues DEF Status
<1>9. TypeOK' /\ Booting' /\ QueuesMatchStatus' /\ CpuBelongsToRunning'
  BY <1>1, <1>3, <1>4, <1>7 DEF IInv, TypeOK, Booting, QueuesMatchStatus,
     CpuBelongsToRunning, Status, Queues, Statuses
<1>10. LastOneRuns'
  BY <1>1, <1>3, <1>4, <1>7, <1>8 DEF LastOneRuns, NoRunning, Contents
<1>11. PreemptedContextIntact' /\ OwnTables' /\ PcInProgram'
  BY <1>1, <1>3, <1>4 DEF IInv, PreemptedContextIntact, OwnTables, PcInProgram
<1> QED
  BY <1>9, <1>10, <1>11 DEF IInv

LEMMA EmptyQueue == Contents(<<>>) = {}
BY DEF Contents

\* init_sched: pid 0 is made running and pid 1, its mirror, stays new.
LEMMA InitSchedStep ==
  ASSUME IInv, InitSched
  PROVE  IInv'
<1> DEFINE first == Created(queue, 0)
           ready == Move(first, 0, "NEW", "READY")
           up == Move(ready, 0, "READY", "RUNNING")
           st0 == [status EXCEPT ![0] = "NEW"]
           st1 == [st0 EXCEPT ![0] = "READY"]
           st2 == [st1 EXCEPT ![0] = "RUNNING"]
<1>1. /\ queue \in Queues /\ status \in Statuses /\ Matches(queue, status, 0)
      /\ cnt_pcb = 0 /\ owner = 0 /\ TTBR0 = 0
      /\ \A s \in Status : queue[s] = <<>>
      /\ \A p \in Pid : status[p] = "NONE"
  BY DEF IInv, TypeOK, QueuesMatchStatus, Booting, InitSched, Queues, Statuses
<1>2. /\ 0 \in Pid /\ 1 \in Pid /\ 0 \in Nat /\ 1 \in Nat /\ 0 + 1 = 1 /\ 1 + 1 = 2
  BY DEF Pid
<1>3. "NEW" \in Status /\ "READY" \in Status /\ "RUNNING" \in Status
      /\ "ZOMBIE" \in Status /\ "WAIT" \in Status
  BY DEF Status
<1>4. /\ first \in Queues /\ Matches(first, st0, 1)
      /\ \A s \in Status \ {"NEW"} : first[s] = <<>>
      /\ \A s \in Status \ {"NEW"} : 0 \notin Contents(first[s])
  BY <1>1, <1>2, CreatedMatches
<1>5. st0 \in Statuses /\ st1 \in Statuses /\ st2 \in Statuses
  BY <1>1, <1>2, <1>3 DEF Statuses
<1> HIDE DEF first, st0
<1>6. /\ ready \in Queues /\ Matches(ready, st1, 1)
      /\ \A s \in Status \ {"NEW", "READY"} : ready[s] = <<>>
      /\ Contents(ready["NEW"]) = Contents(first["NEW"]) \ {0}
  <2>1. MayMove(first, 1, 0, "NEW", "READY")
    BY <1>3, <1>4 DEF MayMove
  <2>2. /\ ready \in Queues /\ Matches(ready, st1, 1)
        /\ \A s \in Status \ {"NEW", "READY"} : ready[s] = first[s]
        /\ Contents(ready["NEW"]) = Contents(first["NEW"]) \ {0}
    <3>1. first \in Queues /\ st0 \in Statuses /\ Matches(first, st0, 1) /\ 0 \in Pid
      BY <1>2, <1>4, <1>5
    <3>2. "NEW" \in Status /\ "READY" \in Status
      BY <1>3
    <3>3. /\ Matches(Move(first, 0, "NEW", "READY"), [st0 EXCEPT ![0] = "READY"], 1)
          /\ Move(first, 0, "NEW", "READY") \in Queues
          /\ \A s \in Status \ {"NEW", "READY"} : Move(first, 0, "NEW", "READY")[s] = first[s]
          /\ Contents(Move(first, 0, "NEW", "READY")["NEW"]) = Contents(first["NEW"]) \ {0}
      BY <2>1, <3>1, <3>2, MoveMatches
    <3> QED
      BY <3>3
  <2> QED
    BY <1>4, <2>2
<1> HIDE DEF ready, st1
<1>7. /\ up \in Queues /\ Matches(up, st2, 1)
      /\ \A s \in Status \ {"NEW", "READY", "RUNNING"} : up[s] = <<>>
      /\ Contents(up["RUNNING"]) = {0}
  <2>1. MayMove(ready, 1, 0, "READY", "RUNNING")
    <3>1. \A s \in Status \ {"READY"} : 0 \notin Contents(ready[s])
      <4>1. 0 \notin Contents(ready["NEW"])
        BY <1>6
      <4>2. \A s \in Status \ {"NEW", "READY"} : 0 \notin Contents(ready[s])
        BY <1>6, EmptyQueue
      <4> QED
        BY <4>1, <4>2
    <3> QED
      BY <1>3, <3>1 DEF MayMove
  <2>2. /\ up \in Queues /\ Matches(up, st2, 1)
        /\ \A s \in Status \ {"READY", "RUNNING"} : up[s] = ready[s]
        /\ Contents(up["RUNNING"]) = Contents(ready["RUNNING"]) \cup {0}
    <3>1. ready \in Queues /\ st1 \in Statuses /\ Matches(ready, st1, 1) /\ 0 \in Pid
      BY <1>2, <1>5, <1>6
    <3>2. "READY" \in Status /\ "RUNNING" \in Status
      BY <1>3
    <3>3. /\ Matches(Move(ready, 0, "READY", "RUNNING"), [st1 EXCEPT ![0] = "RUNNING"], 1)
          /\ Move(ready, 0, "READY", "RUNNING") \in Queues
          /\ \A s \in Status \ {"READY", "RUNNING"} :
                Move(ready, 0, "READY", "RUNNING")[s] = ready[s]
          /\ Contents(Move(ready, 0, "READY", "RUNNING")["RUNNING"])
                = Contents(ready["RUNNING"]) \cup {0}
      BY <2>1, <3>1, <3>2, MoveMatches
    <3> QED
      BY <3>3
  <2>3. Contents(ready["RUNNING"]) = {}
    BY <1>3, <1>6 DEF Contents
  <2> QED
    BY <1>6, <2>2, <2>3
<1>8. up["RUNNING"] = <<0>>
  <2>1. up["RUNNING"] \in Seq(Pid) /\ NoDuplicates(up["RUNNING"])
    BY <1>3, <1>7 DEF Queues, Matches
  <2> QED
    BY <1>2, <1>7, <2>1, SmallQueues
<1> HIDE DEF up, st2
<1>9. /\ queue' = Created(up, 1) /\ status' = [st2 EXCEPT ![1] = "NEW"]
      /\ queue' \in Queues /\ Matches(queue', status', 2)
      /\ queue'["RUNNING"] = <<0>> /\ queue'["ZOMBIE"] = <<>> /\ queue'["WAIT"] = <<>>
  <2>1. queue' = Created(up, 1)
    BY DEF InitSched, up, ready, first
  <2>2. status' = [st2 EXCEPT ![1] = "NEW"]
    BY <1>1, <1>2 DEF InitSched, st2, st1, st0, Statuses
  <2>3. /\ Created(up, 1) \in Queues /\ Matches(Created(up, 1), [st2 EXCEPT ![1] = "NEW"], 2)
        /\ \A s \in Status \ {"NEW"} : Created(up, 1)[s] = up[s]
    BY <1>2, <1>5, <1>7, CreatedMatches
  <2> QED
    BY <1>3, <1>7, <1>8, <2>1, <2>2, <2>3
<1>10. /\ status' \in Statuses /\ status'[0] = "RUNNING"
       /\ \A p \in Pid : status'[p] # "READY" /\ (status'[p] = "RUNNING" => p = 0)
  BY <1>1, <1>2, <1>3 DEF InitSched, Statuses
<1>11. TypeOK'
  <2>1. queue' \in Queues /\ status' \in Statuses
    BY <1>9, <1>10
  <2>2. state' \in {"boot", "run", "wait", "abort", "corrupt"} /\ cnt_pcb' \in 0..(MaxPcb + 1)
    <3>1. state' = "run" /\ cnt_pcb' = 2
      BY DEF InitSched
    <3> QED
      BY <3>1, MaxPcbAssumption
  <2>3. ppid' \in [Pid -> Pid] /\ page_table' \in [Pid -> Pid]
    <3>1. ppid \in [Pid -> Pid] /\ page_table \in [Pid -> Pid]
      BY DEF IInv, TypeOK
    <3>2. /\ ppid' = [ppid EXCEPT ![0] = 0]
          /\ page_table' = [page_table EXCEPT ![0] = 0]
      BY DEF InitSched
    <3> QED
      BY <1>2, <3>1, <3>2
  <2>4. logical' \in [Pid -> Context]
    <3>1. logical \in [Pid -> Context] /\ cpu \in Context
      BY DEF IInv, TypeOK
    <3>2. logical' = [logical EXCEPT ![0] = cpu]
      BY DEF InitSched
    <3> QED
      BY <3>1, <3>2
  <2>5. /\ saved' \in [Pid -> Context] /\ cpu' \in Context /\ TTBR0' \in Pid
        /\ timer' \in BOOLEAN /\ owner' \in Pid
    <3>1. /\ saved \in [Pid -> Context] /\ cpu \in Context /\ TTBR0 \in Pid
          /\ timer \in BOOLEAN /\ owner \in Pid
      BY DEF IInv, TypeOK
    <3>2. UNCHANGED <<saved, cpu, TTBR0, timer, owner>>
      BY DEF InitSched
    <3> QED
      BY <3>1, <3>2
  <2> QED
    BY <2>1, <2>2, <2>3, <2>4, <2>5 DEF TypeOK, Queues, Statuses
<1>12. QueuesMatchStatus' /\ Booting'
  BY <1>9 DEF InitSched, QueuesMatchStatus, Booting
<1>13. LastOneRuns'
  <2>1. state' = "run" /\ owner' = 0
    BY <1>1 DEF InitSched
  <2>2. Contents(queue'["RUNNING"]) = {0}
    BY <1>9 DEF Contents
  <2> QED
    BY <1>9, <1>10, <2>1, <2>2 DEF LastOneRuns
<1>14. CpuBelongsToRunning' /\ PreemptedContextIntact' /\ OwnTables' /\ PcInProgram'
  <2>1. /\ logical' = [logical EXCEPT ![0] = cpu] /\ page_table' = [page_table EXCEPT ![0] = 0]
        /\ UNCHANGED <<cpu, TTBR0, owner>>
    BY DEF InitSched
  <2>2. logical \in [Pid -> Context] /\ page_table \in [Pid -> Pid]
    BY DEF IInv, TypeOK
  <2>3. CpuBelongsToRunning' /\ OwnTables'
    BY <1>1, <1>2, <1>9, <1>10, <2>1, <2>2 DEF CpuBelongsToRunning, OwnTables
  <2>4. PreemptedContextIntact' /\ PcInProgram'
    BY <1>2, <1>10, <2>1, <2>2 DEF IInv, PreemptedContextIntact, PcInProgram
  <2> QED
    BY <2>3, <2>4
<1> QED
  BY <1>11, <1>12, <1>13, <1>14 DEF IInv

\* _fork: the child is a PCB of its own, ready with a copy of the caller's
\* registers; owner keeps the CPU.
LEMMA ForkStep ==
  ASSUME IInv, Fork
  PROVE  IInv'
<1> DEFINE c == cnt_pcb
           father == [SvcContext EXCEPT !.r0 = c]
           child == [SvcContext EXCEPT !.r0 = 0]
           made == Created(queue, c)
           st0 == [status EXCEPT ![c] = "NEW"]
<1>1. /\ state = "run" /\ ~NoRunning /\ AtSvc("fork") /\ c <= ForkBound
      /\ state' \in {"run", "corrupt"} /\ cnt_pcb' = c + 1
      /\ UNCHANGED <<TTBR0, timer, owner>>
  BY DEF Fork, Svc, AtSvc
<1>2. /\ queue["RUNNING"] = <<owner>> /\ Running = owner
      /\ owner \in Pid /\ status[owner] = "RUNNING" /\ owner < c
      /\ queue["ZOMBIE"] = <<>> /\ queue["WAIT"] = <<>>
  BY <1>1, RunningFacts
<1>3. TTBR0 = page_table[owner]
  BY <1>1 DEF IInv, CpuBelongsToRunning
<1>4. c \in Nat /\ c \in Pid /\ c + 1 \in 0..(MaxPcb + 1) /\ owner # c
  <2>1. c \in Nat /\ ForkBound <= MaxPcb
    BY DEF IInv, TypeOK
  <2> QED
    BY <1>1, <1>2, <2>1 DEF Pid
<1>5. father \in Context /\ child \in Context /\ father.pc <= PcMax /\ child.pc <= PcMax
  <2>1. SvcContext \in Context /\ SvcContext.pc \in 0..PcMax
    BY <1>1, ContextTypes
  <2>2. c \in 0..ENTRY /\ 0 \in 0..ENTRY
    BY <1>4 DEF ENTRY, Pid
  <2> QED
    BY <2>1, <2>2, ContextTypes
<1>6. /\ queue \in Queues /\ status \in Statuses /\ Matches(queue, status, c)
  BY DEF IInv, TypeOK, QueuesMatchStatus, Queues, Statuses
<1>7. /\ "NEW" \in Status /\ "READY" \in Status /\ "RUNNING" \in Status
      /\ "ZOMBIE" \in Status /\ "WAIT" \in Status
  BY DEF Status
<1>8. /\ queue' = Move(made, c, "NEW", "READY")
      /\ status' = [status EXCEPT ![c] = "READY"]
      /\ page_table' = [page_table EXCEPT ![c] = c]
      /\ ppid' = [ppid EXCEPT ![c] = owner]
      /\ saved' = [saved EXCEPT ![owner] = father, ![c] = child]
      /\ cpu' = father
      /\ logical' = [logical EXCEPT ![owner] = father, ![c] = child]
  BY <1>2 DEF Fork, ChildTable
<1>9. /\ queue' \in Queues /\ Matches(queue', status', c + 1)
      /\ \A s \in Status \ {"NEW", "READY"} : queue'[s] = queue[s]
  <2>1. /\ made \in Queues /\ Matches(made, st0, c + 1)
        /\ \A s \in Status \ {"NEW"} : made[s] = queue[s]
        /\ \A s \in Status \ {"NEW"} : c \notin Contents(made[s])
    BY <1>4, <1>6, CreatedMatches
  <2>2. st0 \in Statuses /\ status' = [st0 EXCEPT ![c] = "READY"]
    BY <1>4, <1>6, <1>7, <1>8 DEF Statuses
  <2>3. c < c + 1
    BY <1>4
  <2> HIDE DEF made, st0
  <2>4. MayMove(made, c + 1, c, "NEW", "READY")
    BY <2>1, <2>3 DEF MayMove
  <2>5. /\ Move(made, c, "NEW", "READY") \in Queues
        /\ Matches(Move(made, c, "NEW", "READY"), [st0 EXCEPT ![c] = "READY"], c + 1)
        /\ \A s \in Status \ {"NEW", "READY"} : Move(made, c, "NEW", "READY")[s] = made[s]
    <3>1. made \in Queues /\ st0 \in Statuses /\ Matches(made, st0, c + 1) /\ c \in Pid
      BY <1>4, <2>1, <2>2
    <3> QED
      BY <1>7, <2>4, <3>1, MoveMatches
  <2>6. \A s \in Status \ {"NEW", "READY"} : Move(made, c, "NEW", "READY")[s] = queue[s]
    BY <2>1, <2>5
  <2> QED
    BY <1>8, <2>2, <2>5, <2>6
<1> HIDE DEF father, child
<1>10. /\ queue'["RUNNING"] = <<owner>> /\ queue'["ZOMBIE"] = <<>> /\ queue'["WAIT"] = <<>>
  BY <1>2, <1>7, <1>9
<1>11. /\ status' \in Statuses /\ status'[owner] = "RUNNING" /\ status'[c] = "READY"
       /\ \A p \in Pid \ {c} : status'[p] = status[p]
  BY <1>2, <1>4, <1>6, <1>7, <1>8 DEF Statuses
<1>12. /\ logical \in [Pid -> Context] /\ saved \in [Pid -> Context]
       /\ page_table \in [Pid -> Pid] /\ ppid \in [Pid -> Pid]
       /\ TTBR0 \in Pid /\ timer \in BOOLEAN
  BY DEF IInv, TypeOK
<1>13. TypeOK'
  <2>1. logical' \in [Pid -> Context] /\ saved' \in [Pid -> Context] /\ cpu' \in Context
    BY <1>2, <1>4, <1>5, <1>8, <1>12
  <2>2. page_table' \in [Pid -> Pid] /\ ppid' \in [Pid -> Pid]
    BY <1>2, <1>4, <1>8, <1>12
  <2> QED
    BY <1>1, <1>2, <1>4, <1>9, <1>11, <1>12, <2>1, <2>2 DEF TypeOK, Queues, Statuses
<1>14. QueuesMatchStatus' /\ Booting'
  BY <1>1, <1>9 DEF QueuesMatchStatus, Booting
<1>15. LastOneRuns'
  <2>1. Contents(queue'["RUNNING"]) = {owner}
    BY <1>10 DEF Contents
  <2> QED
    BY <1>1, <1>10, <1>11, <2>1 DEF LastOneRuns
<1>16. CpuBelongsToRunning'
  <2>1. logical'[owner] = father /\ page_table'[owner] = page_table[owner]
    BY <1>2, <1>4, <1>8, <1>12
  <2> QED
    BY <1>1, <1>3, <1>8, <1>10, <2>1 DEF CpuBelongsToRunning
<1>17. PreemptedContextIntact'
  <2>1. ASSUME NEW p \in Pid, status'[p] = "READY" PROVE saved'[p] = logical'[p]
    <3>1. p # owner
      BY <1>11, <2>1
    <3> QED
      BY <1>2, <1>4, <1>8, <1>11, <1>12, <2>1, <3>1 DEF IInv, PreemptedContextIntact
  <2> QED
    BY <2>1 DEF PreemptedContextIntact
<1>18. OwnTables'
  BY <1>4, <1>8, <1>11, <1>12 DEF IInv, OwnTables
<1>19. PcInProgram'
  BY <1>2, <1>4, <1>5, <1>8, <1>12 DEF IInv, PcInProgram
<1> QED
  BY <1>13, <1>14, <1>15, <1>16, <1>17, <1>18, <1>19 DEF IInv

\* _exit: no parent waits while a process runs, so that the running queue is
\* left empty and nobody is made ready.
LEMMA ExitStep ==
  ASSUME IInv, Exit
  PROVE  IInv'
<1> DEFINE finished == Move(queue, owner, "RUNNING", "ZOMBIE")
           marked == [status EXCEPT ![owner] = "ZOMBIE"]
           f == ppid[owner]
<1>1. /\ state = "run" /\ ~NoRunning /\ AtSvc("exit")
  BY DEF Exit, Svc, AtSvc
<1>2. /\ queue["RUNNING"] = <<owner>> /\ Running = owner
      /\ owner \in Pid /\ status[owner] = "RUNNING" /\ owner < cnt_pcb
      /\ queue["ZOMBIE"] = <<>> /\ queue["WAIT"] = <<>>
      /\ \A s \in Status \ {"RUNNING"} : owner \notin Contents(queue[s])
      /\ \A p \in Pid : status[p] # "WAIT"
  BY <1>1, RunningFacts
<1>3. /\ queue \in Queues /\ status \in Statuses /\ Matches(queue, status, cnt_pcb)
      /\ ppid \in [Pid -> Pid] /\ saved \in [Pid -> Context] /\ logical \in [Pid -> Context]
  BY DEF IInv, TypeOK, QueuesMatchStatus, Queues, Statuses
<1>4. "RUNNING" \in Status /\ "ZOMBIE" \in Status /\ "WAIT" \in Status
  BY DEF Status
<1>5. /\ queue' = finished /\ status' = marked /\ state' \in {"run", "abort"}
      /\ saved' = [saved EXCEPT ![owner] = SvcContext] /\ Resume(SvcContext)
      /\ UNCHANGED <<ppid, page_table, cnt_pcb, TTBR0, timer, owner>>
  <2>1. ~Sleeps(marked, f)
    BY <1>2, <1>3 DEF Sleeps, Statuses
  <2> HIDE DEF finished, marked
  <2>2. \/ /\ ~Queued(finished, f) /\ state' = "abort" /\ queue' = finished /\ status' = marked
        \/ /\ Queued(finished, f) /\ Sleeps(marked, f)
        \/ /\ Queued(finished, f) /\ state' = state /\ queue' = finished /\ status' = marked
    BY <1>2 DEF Exit, finished, marked
  <2>3. queue' = finished /\ status' = marked /\ state' \in {"run", "abort"}
    BY <1>1, <2>1, <2>2
  <2> QED
    BY <1>2, <2>3 DEF Exit
<1>6. /\ finished \in Queues /\ Matches(finished, marked, cnt_pcb)
      /\ \A s \in Status \ {"RUNNING", "ZOMBIE"} : finished[s] = queue[s]
      /\ Contents(finished["RUNNING"]) = Contents(queue["RUNNING"]) \ {owner}
  <2>1. MayMove(queue, cnt_pcb, owner, "RUNNING", "ZOMBIE")
    BY <1>2 DEF MayMove
  <2>2. queue \in Queues /\ status \in Statuses /\ owner \in Pid
        /\ Matches(queue, status, cnt_pcb)
    BY <1>2, <1>3
  <2> QED
    BY <1>4, <2>1, <2>2, MoveMatches
<1>7. finished["RUNNING"] = <<>> /\ Contents(finished["RUNNING"]) = {}
  <2>1. Contents(queue["RUNNING"]) = {owner}
    BY <1>2 DEF Contents
  <2>2. Contents(finished["RUNNING"]) = {} /\ finished["RUNNING"] \in Seq(Pid)
    BY <1>4, <1>6, <2>1 DEF Queues
  <2> QED
    BY <2>2, SmallQueues
<1> HIDE DEF finished
<1>8. SvcContext \in Context /\ SvcContext.pc <= PcMax
  BY <1>1, ContextTypes
<1>9. /\ marked \in Statuses /\ marked[owner] = "ZOMBIE"
      /\ \A p \in Pid \ {owner} : marked[p] = status[p]
  BY <1>2, <1>3, <1>4 DEF Statuses
<1> HIDE DEF marked
<1>10. /\ cpu' = SvcContext /\ logical' = [logical EXCEPT ![owner] = SvcContext]
  BY <1>5 DEF Resume
<1>11. TypeOK'
  BY <1>2, <1>3, <1>5, <1>6, <1>8, <1>9, <1>10 DEF IInv, TypeOK, Queues, Statuses
<1>12. QueuesMatchStatus' /\ Booting' /\ LastOneRuns' /\ CpuBelongsToRunning'
  BY <1>5, <1>6, <1>7, <1>9 DEF QueuesMatchStatus, Booting, LastOneRuns,
     CpuBelongsToRunning, NoRunning
<1>13. PreemptedContextIntact' /\ OwnTables'
  BY <1>2, <1>3, <1>5, <1>9, <1>10 DEF IInv, PreemptedContextIntact, OwnTables
<1>14. PcInProgram'
  BY <1>2, <1>3, <1>8, <1>10 DEF IInv, PcInProgram
<1> QED
  BY <1>11, <1>12, <1>13, <1>14 DEF IInv

\* The timer: the caller is queued behind the other ready processes, and the
\* first of them gets the CPU with the registers it was stopped with.
LEMMA TickStep ==
  ASSUME IInv, Tick
  PROVE  IInv'
<1> DEFINE preempted == Move(queue, owner, "RUNNING", "READY")
           new == Pick(preempted)
           st1 == [status EXCEPT ![owner] = "READY"]
           switched == Move(preempted, new, "READY", "RUNNING")
<1>1. state = "run" /\ ~NoRunning /\ state' = "run"
  BY DEF Tick
<1>2. /\ queue["RUNNING"] = <<owner>> /\ Running = owner
      /\ owner \in Pid /\ status[owner] = "RUNNING" /\ owner < cnt_pcb
      /\ page_table[owner] = owner /\ cpu = logical[owner]
      /\ queue["ZOMBIE"] = <<>> /\ queue["WAIT"] = <<>>
      /\ \A s \in Status \ {"RUNNING"} : owner \notin Contents(queue[s])
      /\ \A p \in Pid : status[p] = "RUNNING" => p = owner
  BY <1>1, RunningFacts
<1>3. /\ queue \in Queues /\ status \in Statuses /\ Matches(queue, status, cnt_pcb)
      /\ page_table \in [Pid -> Pid] /\ saved \in [Pid -> Context]
      /\ logical \in [Pid -> Context]
  BY DEF IInv, TypeOK, QueuesMatchStatus, Queues, Statuses
<1>4. /\ "READY" \in Status /\ "RUNNING" \in Status /\ "ZOMBIE" \in Status /\ "WAIT" \in Status
  BY DEF Status
<1>5. /\ preempted \in Queues /\ Matches(preempted, st1, cnt_pcb)
      /\ \A s \in Status \ {"RUNNING", "READY"} : preempted[s] = queue[s]
      /\ Contents(preempted["RUNNING"]) = Contents(queue["RUNNING"]) \ {owner}
      /\ preempted["READY"] = Push(queue["READY"], owner)
  <2>1. MayMove(queue, cnt_pcb, owner, "RUNNING", "READY")
    BY <1>2 DEF MayMove
  <2>2. queue \in Queues /\ status \in Statuses /\ owner \in Pid
        /\ Matches(queue, status, cnt_pcb)
    BY <1>2, <1>3
  <2> QED
    BY <1>4, <2>1, <2>2, MoveMatches
<1>6. Contents(preempted["RUNNING"]) = {}
  <2>1. Contents(queue["RUNNING"]) = {owner}
    BY <1>2 DEF Contents
  <2> QED
    BY <1>5, <2>1
<1> HIDE DEF preempted
<1>7. new \in Pid /\ new \in Contents(preempted["READY"])
  <2>1. queue["READY"] \in Seq(Pid) /\ preempted["READY"] \in Seq(Pid)
    BY <1>3, <1>4, <1>5 DEF Queues
  <2>2. /\ Len(preempted["READY"]) = Len(queue["READY"]) + 1
    BY <1>2, <1>5, <2>1 DEF Push
  <2>3. 1 \in DOMAIN preempted["READY"] /\ Head(preempted["READY"]) = preempted["READY"][1]
    BY <2>1, <2>2
  <2> QED
    BY <2>1, <2>3 DEF Pick, Contents
<1>8. /\ st1 \in Statuses /\ st1[owner] = "READY"
      /\ \A p \in Pid \ {owner} : st1[p] = status[p]
  BY <1>2, <1>3, <1>4 DEF Statuses
<1> HIDE DEF new, st1
<1>9. st1[new] = "READY" /\ new < cnt_pcb /\ \A s \in Status \ {"READY"} : new \notin Contents(preempted[s])
  BY <1>4, <1>5, <1>7 DEF Matches
<1>10. /\ switched \in Queues /\ Matches(switched, [st1 EXCEPT ![new] = "RUNNING"], cnt_pcb)
       /\ \A s \in Status \ {"READY", "RUNNING"} : switched[s] = preempted[s]
       /\ Contents(switched["RUNNING"]) = Contents(preempted["RUNNING"]) \cup {new}
  <2>1. MayMove(preempted, cnt_pcb, new, "READY", "RUNNING")
    BY <1>9 DEF MayMove
  <2>2. preempted \in Queues /\ st1 \in Statuses /\ new \in Pid
        /\ Matches(preempted, st1, cnt_pcb)
    BY <1>5, <1>7, <1>8
  <2> QED
    BY <1>4, <2>1, <2>2, MoveMatches
<1> HIDE DEF switched
<1>11. /\ switched["RUNNING"] = <<new>> /\ Contents(switched["RUNNING"]) = {new}
       /\ switched["ZOMBIE"] = <<>> /\ switched["WAIT"] = <<>>
  <2>1. Contents(switched["RUNNING"]) = {new}
    BY <1>6, <1>10
  <2>2. switched["RUNNING"] \in Seq(Pid) /\ NoDuplicates(switched["RUNNING"])
    BY <1>4, <1>10 DEF Queues, Matches
  <2>3. switched["RUNNING"] = <<new>>
    BY <1>7, <2>1, <2>2, SmallQueues
  <2> QED
    BY <1>2, <1>4, <1>5, <1>10, <2>1, <2>3
<1>12. /\ queue' = switched /\ status' = [status EXCEPT ![owner] = "READY", ![new] = "RUNNING"]
       /\ saved' = [saved EXCEPT ![owner] = cpu] /\ cpu' = [saved EXCEPT ![owner] = cpu][new]
       /\ TTBR0' = page_table[new] /\ owner' = new
       /\ UNCHANGED <<ppid, page_table, cnt_pcb, timer, logical>>
  BY <1>2, ContextTypes DEF Tick, SwitchTo, SwitchMm, switched, new, preempted
<1>13. /\ status' = [st1 EXCEPT ![new] = "RUNNING"] /\ status' \in Statuses
       /\ status'[new] = "RUNNING"
       /\ \A p \in Pid : status'[p] = "RUNNING" => p = new
       /\ \A p \in Pid : status'[p] = "READY" => p # new /\ (p = owner \/ status[p] = "READY")
       /\ new # owner => status[new] = "READY"
  <2>1. status' = [st1 EXCEPT ![new] = "RUNNING"]
    BY <1>12 DEF st1
  <2>2. status' \in Statuses /\ status'[new] = "RUNNING" /\ \A p \in Pid \ {new} : status'[p] = st1[p]
    BY <1>4, <1>7, <1>8, <2>1 DEF Statuses
  <2>3. new # owner => status[new] = "READY"
    BY <1>7, <1>8, <1>9
  <2>4. \A p \in Pid : status'[p] = "RUNNING" => p = new
    BY <1>2, <1>8, <2>2
  <2>5. \A p \in Pid : status'[p] = "READY" => p # new /\ (p = owner \/ status[p] = "READY")
    BY <1>8, <2>2
  <2> QED
    BY <2>1, <2>2, <2>3, <2>4, <2>5
<1>14. cpu' = logical[new]
  BY <1>2, <1>3, <1>7, <1>12, <1>13 DEF IInv, PreemptedContextIntact
<1>15. cpu \in Context
  BY DEF IInv, TypeOK
<1>16. TypeOK'
  <2>1. saved' \in [Pid -> Context] /\ cpu' \in Context /\ TTBR0' \in Pid
    BY <1>2, <1>3, <1>7, <1>12, <1>15
  <2> QED
    BY <1>1, <1>7, <1>10, <1>12, <1>13, <2>1 DEF IInv, TypeOK, Queues, Statuses
<1>17. QueuesMatchStatus' /\ Booting'
  BY <1>1, <1>10, <1>12, <1>13 DEF QueuesMatchStatus, Booting
<1>18. LastOneRuns'
  BY <1>1, <1>11, <1>12, <1>13 DEF LastOneRuns
<1>19. CpuBelongsToRunning'
  BY <1>11, <1>12, <1>14 DEF CpuBelongsToRunning
<1>20. PreemptedContextIntact'
  BY <1>2, <1>3, <1>12, <1>13 DEF IInv, PreemptedContextIntact
<1>21. OwnTables'
  BY <1>2, <1>7, <1>12, <1>13 DEF IInv, OwnTables
<1>22. PcInProgram'
  BY <1>7, <1>12, <1>14 DEF IInv, PcInProgram
<1> QED
  BY <1>16, <1>17, <1>18, <1>19, <1>20, <1>21, <1>22 DEF IInv

LEMMA NextIInv == IInv /\ [Next]_vars => IInv'
<1> SUFFICES ASSUME IInv, [Next]_vars PROVE IInv'
  OBVIOUS
<1>1. CASE InitSched
  BY <1>1, InitSchedStep
<1>2. CASE StartTimer \/ BecomeIdle \/ UserStep
  BY <1>2, ProgramSteps
<1>3. CASE Fork
  BY <1>3, ForkStep
<1>4. CASE Exec \/ GetPid \/ GetPpid \/ Debug \/ OtherIrq
  BY <1>4, HandlerSteps
<1>5. CASE Exit
  BY <1>5, ExitStep
<1>6. CASE Wait \/ HandlerFaults
  BY <1>6, StuckSteps
<1>7. CASE WaitIterate
  BY <1>7, WaitIterateStep
<1>8. CASE Tick
  BY <1>8, TickStep
<1>9. CASE UNCHANGED vars
  BY <1>9 DEF vars, IInv, TypeOK, Booting, QueuesMatchStatus, LastOneRuns, NoRunning,
     CpuBelongsToRunning, PreemptedContextIntact, OwnTables, PcInProgram
<1> QED
  BY <1>1, <1>2, <1>3, <1>4, <1>5, <1>6, <1>7, <1>8, <1>9
     DEF Next, Boot, SystemCall, Interrupt

\* The inductive invariant of the process subsystem (sched_main.c, syscall.c,
\* interrupt.c), for every MAX_PCB and every set of system calls.
THEOREM Invariance == Spec => []IInv
<1>1. Init => IInv
  BY InitIInv
<1>2. IInv /\ [Next]_vars => IInv'
  BY NextIInv
<1> QED
  BY <1>1, <1>2, PTL DEF Spec

\* Every variable keeps its type; cnt_pcb goes one past MAX_PCB at the most.
THEOREM Types == Spec => []TypeOK
<1>1. IInv => TypeOK
  BY DEF IInv
<1> QED
  BY <1>1, Invariance, PTL

\* Every PCB that new_pcb made is queued under its status, once, and in no
\* other queue (sched_main.c, policy_rr.c).
THEOREM QueuesConsistent == Spec => []QueuesMatchStatus
<1>1. IInv => QueuesMatchStatus
  BY DEF IInv
<1> QED
  BY <1>1, Invariance, PTL

\* While something runs, the CPU executes the process at the head of the
\* running queue, on its page table and with its registers (context_switch).
THEOREM CpuOwnership == Spec => []CpuBelongsToRunning
<1>1. IInv => CpuBelongsToRunning
  BY DEF IInv
<1> QED
  BY <1>1, Invariance, PTL

\* Preemption and fork lose no registers: a ready process resumes where it
\* stopped (int_ent_irq, switch_to, _fork).
THEOREM ContextPreserved == Spec => []PreemptedContextIntact
<1>1. IInv => PreemptedContextIntact
  BY DEF IInv
<1> QED
  BY <1>1, Invariance, PTL

-----------------------------------------------------------------------------
(* Round robin.                                                            *)

\* MoveFacts for the queues of PCBs.
LEMMA PidMoveFacts ==
  ASSUME NEW q \in Queues, NEW p \in Pid, NEW from \in Status, NEW to \in Status, from # to
  PROVE  /\ Move(q, p, from, to) \in Queues
         /\ \A s \in Status : s # from /\ s # to => Move(q, p, from, to)[s] = q[s]
         /\ Move(q, p, from, to)[from] = Pop(q[from], p)
         /\ Move(q, p, from, to)[to] = Push(q[to], p)
<1>1. /\ Move(q, p, from, to) \in Queues
      /\ \A s \in Status \ {from, to} : Move(q, p, from, to)[s] = q[s]
      /\ Move(q, p, from, to)[from] = Pop(q[from], p)
      /\ Move(q, p, from, to)[to] = Push(q[to], p)
  BY MoveFacts DEF Queues
<1> QED
  BY <1>1

LEMMA MoveOthers ==
  ASSUME NEW q \in Queues, NEW p \in Pid, NEW from \in Status, NEW to \in Status, from # to,
         NEW s \in Status, s # from, s # to
  PROVE  Move(q, p, from, to)[s] = q[s]
<1>1. \A x \in Status : x # from /\ x # to => Move(q, p, from, to)[x] = q[x]
  BY PidMoveFacts
<1> QED
  BY <1>1

\* The order of the ready queue and what a step may do to it.
InOrder == \A p, q \in Pid : Ahead(p, q) =>
             /\ status'[q] # "RUNNING"
             /\ status'[p] = "READY" /\ status'[q] = "READY" => Ahead(p, q)'

\* What the ready queue is like while somebody is ahead of somebody.
LEMMA ReadyFacts ==
  ASSUME IInv, NEW p \in Pid, NEW q \in Pid, Ahead(p, q)
  PROVE  /\ queue \in Queues /\ status \in Statuses
         /\ queue["READY"] \in Seq(Pid) /\ NoDuplicates(queue["READY"])
         /\ Before(queue["READY"], p, q) /\ status[q] = "READY" /\ state # "boot"
<1>1. queue \in Queues /\ status \in Statuses
  BY DEF IInv, TypeOK, Queues, Statuses
<1>2. queue["READY"] \in Seq(Pid) /\ "READY" \in Status
  BY <1>1 DEF Queues, Status
<1>3. Before(queue["READY"], p, q)
  BY DEF Ahead, Before
<1>4. Matches(queue, status, cnt_pcb)
  BY DEF IInv, QueuesMatchStatus
<1>5. q \in Contents(queue["READY"])
  BY <1>3 DEF Before, Contents
<1>6. NoDuplicates(queue["READY"]) /\ status[q] = "READY"
  BY <1>2, <1>4, <1>5 DEF Matches
<1>7. state # "boot"
  BY <1>2, <1>5, EmptyQueue DEF IInv, Booting
<1> QED
  BY <1>1, <1>2, <1>3, <1>6, <1>7

\* Steps that leave the ready queue alone, or push behind it, and that make
\* nobody running.
LEMMA PushedOrder ==
  ASSUME IInv, NEW p \in Pid, NEW q \in Pid, Ahead(p, q), status'[q] # "RUNNING",
         \/ queue'["READY"] = queue["READY"]
         \/ \E t \in Pid : queue'["READY"] = Push(queue["READY"], t)
  PROVE  Ahead(p, q)'
<1>1. Before(queue["READY"], p, q) /\ queue["READY"] \in Seq(Pid)
  BY ReadyFacts
<1>2. Before(queue'["READY"], p, q)
  BY <1>1, PushOrder
<1> QED
  BY <1>2 DEF Ahead, Before

LEMMA ForkOrder ==
  ASSUME IInv, Fork
  PROVE  InOrder
<1> SUFFICES ASSUME NEW p \in Pid, NEW q \in Pid, Ahead(p, q)
             PROVE  status'[q] # "RUNNING" /\ Ahead(p, q)'
  BY DEF InOrder
<1> DEFINE c == cnt_pcb
           made == Created(queue, c)
<1>1. /\ queue \in Queues /\ status \in Statuses /\ status[q] = "READY"
  BY ReadyFacts
<1>2. c \in Pid
  BY BoundsAssumption, MaxPcbAssumption DEF Fork, IInv, TypeOK, Pid
<1>3. status' = [status EXCEPT ![c] = "READY"] /\ queue' = Move(made, c, "NEW", "READY")
  BY DEF Fork
<1>4. status'[q] # "RUNNING"
  BY <1>1, <1>2, <1>3 DEF Statuses
<1>5. Push(queue["NEW"], c) \in Seq(Pid)
  BY <1>1, <1>2, PushFacts DEF Queues, Status
<1>6. made \in Queues /\ made["READY"] = queue["READY"]
  BY <1>1, <1>5 DEF Created, Queues, Status
<1>7. "NEW" \in Status /\ "READY" \in Status
  BY DEF Status
<1> HIDE DEF made, c
<1>8. Move(made, c, "NEW", "READY")["READY"] = Push(made["READY"], c)
  BY <1>2, <1>6, <1>7, PidMoveFacts
<1> QED
  BY <1>2, <1>3, <1>4, <1>6, <1>8, PushedOrder

LEMMA ExitOrder ==
  ASSUME IInv, Exit
  PROVE  InOrder
<1> SUFFICES ASSUME NEW p \in Pid, NEW q \in Pid, Ahead(p, q)
             PROVE  status'[q] # "RUNNING" /\ Ahead(p, q)'
  BY DEF InOrder
<1> DEFINE f == ppid[owner]
           finished == Move(queue, owner, "RUNNING", "ZOMBIE")
           marked == [status EXCEPT ![owner] = "ZOMBIE"]
<1>1. /\ queue \in Queues /\ status \in Statuses /\ status[q] = "READY"
  BY ReadyFacts
<1>2. state = "run" /\ ~NoRunning
  BY DEF Exit, Svc, AtSvc
<1>3. Running = owner /\ owner \in Pid /\ f \in Pid
  BY <1>2, RunningFacts DEF IInv, TypeOK
<1>4. /\ \A s \in {"READY", "RUNNING", "WAIT", "ZOMBIE"} : s \in Status
      /\ "READY" \in Status \ {"RUNNING", "ZOMBIE"}
  BY DEF Status
<1>5. finished \in Queues /\ finished["READY"] = queue["READY"]
  <2>1. "RUNNING" \in Status /\ "ZOMBIE" \in Status /\ "RUNNING" # "ZOMBIE"
    BY <1>4
  <2>2. finished \in Queues
    BY <1>1, <1>3, <2>1, PidMoveFacts
  <2>3. "READY" \in Status /\ "READY" # "RUNNING" /\ "READY" # "ZOMBIE"
    BY <1>4
  <2>4. finished["READY"] = queue["READY"]
    BY <1>1, <1>3, <2>1, <2>3, MoveOthers
  <2> QED
    BY <2>2, <2>4
<1>6. Move(finished, f, "WAIT", "READY")["READY"] = Push(finished["READY"], f)
  <2> HIDE DEF finished, f
  <2> QED
    BY <1>3, <1>4, <1>5, PidMoveFacts
<1>7. \/ queue' = finished /\ status' = marked
      \/ queue' = Move(finished, f, "WAIT", "READY") /\ status' = [marked EXCEPT ![f] = "READY"]
  BY <1>3 DEF Exit
<1>8. status'[q] # "RUNNING"
  BY <1>1, <1>3, <1>7 DEF Statuses
<1> HIDE DEF finished, f
<1>9. \/ queue'["READY"] = queue["READY"]
      \/ \E t \in Pid : queue'["READY"] = Push(queue["READY"], t)
  BY <1>3, <1>5, <1>6, <1>7
<1> QED
  BY <1>8, <1>9, PushedOrder

LEMMA WaitIterateOrder ==
  ASSUME IInv, WaitIterate
  PROVE  InOrder
<1> SUFFICES ASSUME NEW p \in Pid, NEW q \in Pid, Ahead(p, q)
             PROVE  status'[q] # "RUNNING" /\ Ahead(p, q)'
  BY DEF InOrder
<1>1. /\ queue \in Queues /\ status \in Statuses /\ status[q] = "READY" /\ owner \in Pid
  BY ReadyFacts DEF IInv, TypeOK
<1>2. queue["ZOMBIE"] = <<>>
  BY DEF WaitIterate, IInv, LastOneRuns
<1>3. ZombieChildren(owner) = {}
  BY <1>2 DEF ZombieChildren
<1>4. queue' = Move(queue, owner, "RUNNING", "WAIT") /\ status' = [status EXCEPT ![owner] = "WAIT"]
  BY <1>3 DEF WaitIterate
<1>5. queue'["READY"] = queue["READY"]
  <2>1. /\ "RUNNING" \in Status /\ "WAIT" \in Status /\ "RUNNING" # "WAIT"
        /\ "READY" \in Status /\ "READY" # "RUNNING" /\ "READY" # "WAIT"
    BY DEF Status
  <2>2. Move(queue, owner, "RUNNING", "WAIT")["READY"] = queue["READY"]
    BY <1>1, <2>1, MoveOthers
  <2> QED
    BY <1>4, <2>2
<1>6. status'[q] # "RUNNING"
  BY <1>1, <1>4 DEF Statuses
<1> QED
  BY <1>5, <1>6, PushedOrder

\* The timer: the running process goes behind the last ready one, and the
\* first, ahead of whom nobody is, becomes the running one.
LEMMA TickOrder ==
  ASSUME IInv, Tick
  PROVE  InOrder
<1> SUFFICES ASSUME NEW p \in Pid, NEW q \in Pid, Ahead(p, q)
             PROVE  /\ status'[q] # "RUNNING"
                    /\ status'[p] = "READY" => Ahead(p, q)'
  BY DEF InOrder
<1> DEFINE preempted == Move(queue, owner, "RUNNING", "READY")
           new == Pick(preempted)
<1>1. /\ queue \in Queues /\ status \in Statuses /\ status[q] = "READY"
      /\ queue["READY"] \in Seq(Pid) /\ NoDuplicates(queue["READY"])
      /\ Before(queue["READY"], p, q)
  BY ReadyFacts
<1>2. Running = owner /\ owner \in Pid /\ owner \notin Contents(queue["READY"])
  <2>1. state = "run" /\ ~NoRunning /\ "READY" \in Status \ {"RUNNING"}
    BY DEF Tick, Status
  <2> QED
    BY <2>1, RunningFacts
<1>3. \A s \in {"READY", "RUNNING"} : s \in Status
  BY DEF Status
<1>4. preempted \in Queues /\ preempted["READY"] = Push(queue["READY"], owner)
  BY <1>1, <1>2, <1>3, PidMoveFacts
<1>5. /\ preempted["READY"] \in Seq(Pid) /\ NoDuplicates(preempted["READY"])
      /\ Before(preempted["READY"], p, q)
  BY <1>1, <1>2, <1>4, PushFacts, PushOrder
<1>6. new # q /\ new \in Pid
  BY <1>5, HeadOrder DEF Pick
<1>7. /\ queue' = Move(preempted, new, "READY", "RUNNING")
      /\ status' = [status EXCEPT ![owner] = "READY", ![new] = "RUNNING"]
  BY <1>2 DEF Tick
<1> HIDE DEF new
<1>8. status'[q] # "RUNNING"
  BY <1>1, <1>2, <1>6, <1>7 DEF Statuses
<1>9. ASSUME status'[p] = "READY" PROVE Ahead(p, q)'
  <2>1. p # new
    BY <1>1, <1>2, <1>6, <1>7, <1>9 DEF Statuses
  <2> HIDE DEF preempted
  <2>2. Before(Pop(preempted["READY"], new), p, q)
    BY <1>5, <1>6, <2>1, PopOrder
  <2>3. queue'["READY"] = Pop(preempted["READY"], new)
    BY <1>3, <1>4, <1>6, <1>7, PidMoveFacts
  <2> QED
    BY <2>2, <2>3 DEF Ahead, Before
<1> QED
  BY <1>8, <1>9

LEMMA NextOrder == IInv /\ [Next]_vars => [InOrder]_vars
<1> SUFFICES ASSUME IInv, Next PROVE InOrder
  OBVIOUS
<1>1. CASE InitSched
  <2>1. state = "boot"
    BY <1>1 DEF InitSched
  <2> QED
    BY <2>1, ReadyFacts DEF InOrder
<1>2. CASE StartTimer \/ BecomeIdle \/ UserStep \/ Exec \/ GetPid \/ GetPpid \/ Debug \/ Wait
           \/ OtherIrq \/ HandlerFaults
  <2>1. queue' = queue /\ status' = status
    BY <1>2 DEF StartTimer, BecomeIdle, UserStep, Exec, GetPid, GetPpid, Debug, Simple, Wait,
                OtherIrq, HandlerFaults, table
  <2> SUFFICES ASSUME NEW p \in Pid, NEW q \in Pid, Ahead(p, q)
               PROVE  status'[q] # "RUNNING" /\ Ahead(p, q)'
    BY DEF InOrder
  <2>2. status'[q] # "RUNNING"
    BY <2>1, ReadyFacts
  <2> QED
    BY <2>1, <2>2, PushedOrder
<1>3. CASE Fork
  BY <1>3, ForkOrder
<1>4. CASE Exit
  BY <1>4, ExitOrder
<1>5. CASE WaitIterate
  BY <1>5, WaitIterateOrder
<1>6. CASE Tick
  BY <1>6, TickOrder
<1> QED
  BY <1>1, <1>2, <1>3, <1>4, <1>5, <1>6 DEF Next, Boot, SystemCall, Interrupt

\* Round robin: whatever system calls and interrupts happen, a ready process
\* is never overtaken, neither in the queue nor to the CPU (sched_pick,
\* sched_preempt, queue_push), for every number of processes.
THEOREM RoundRobin == Spec => FifoOrder
<1>1. IInv /\ [Next]_vars => [InOrder]_vars
  BY NextOrder
<1>2. (Spec => []IInv) => (Spec => [][InOrder]_vars)
  BY <1>1, PTL DEF Spec
<1> QED
  BY <1>2, Invariance DEF FifoOrder, InOrder
=============================================================================
