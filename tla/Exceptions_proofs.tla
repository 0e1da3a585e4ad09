-------------------------- MODULE Exceptions_proofs -------------------------
(***************************************************************************)
(* Entry, exit and context switch give every program its registers back,   *)
(* for any number of programs and interrupt lines.                         *)
(***************************************************************************)
EXTENDS Exceptions, TLAPS

Modes == {ModeOf(k) : k \in Vector}

-----------------------------------------------------------------------------
(* The inductive invariant.                                                *)

\* An address in a vector's code that was saved with its psr is that of an
\* interrupted handler: a FIQ saved it, and it is late by an instruction.
Saved(pc, psr) == pc.at.of \in Vector => pc.late >= 1 /\ psr.I /\ psr.mode # "USR"

\* Vectors run masked and privileged, and only FIQs interrupt them.
Masked ==
    /\ cpu.pc.at.of \in Vector => cpu.cpsr.I /\ cpu.cpsr.mode # "USR"
    /\ \A m \in Modes : Saved(context[m].pc, context[m].cpsr)
    /\ \A p \in Program : Saved(pcb[p].pc, pcb[p].cpsr)
    /\ \A m \in Modes \ {"FIQ"} : bank[m].lr.at.of \notin Vector
    /\ AtGroup("FIQ", 1) => Saved(bank["FIQ"].lr, bank["FIQ"].spsr)

\* What a program leaves is a program's, and complete.
Logical ==
    \A p \in Program :
        logical[p].pc.at.of \in Program /\ logical[p].pc.late = 0 /\ logical[p].cpsr = UserPsr

\* Whether interrupt and abort contexts can be stepped back.
Correctable ==
    \A k \in {"IRQ", "DABT"} :
        /\ AtGroup(k, 1) => bank[ModeOf(k)].lr.late >= 1
        /\ \A i \in 2..4 : AtGroup(k, i) =>
               context[ModeOf(k)].pc.late >= 1 /\ context[ModeOf(k)].pc.at.of \notin Vector

\* The return address of a C entry, in lr and then on the stack.
ReturnAddress ==
    \A k \in Vector : /\ AtGroup(k, 4) => cpu.lr = [of |-> k, n |-> 6]
                      /\ AtGroup(k, 5) => frame = At(k, 6)

\* Before the first program runs.
Starting ==
    ~Up => running = First /\ cpu.pc.at.of \notin Vector /\ fiqs = 0

\* Registers of the running program, of which the vector has saved all but sp
\* and lr at groups 2 to 4, and all from group 5 on.
Kept(c, k) ==
    LET own == logical[running] IN
    /\ c.r0 = own.r0 /\ c.r1 = own.r1 /\ c.rest = own.rest /\ c.hi = own.hi
    /\ c.cpsr = own.cpsr /\ c.pc = [own.pc EXCEPT !.late = Late(k)]

Progress(k) ==
    LET own == logical[running]
        b == bank[ModeOf(k)]
        c == context[ModeOf(k)]
    IN  /\ AtGroup(k, 1) =>
              /\ cpu.r0 = own.r0 /\ cpu.r1 = own.r1 /\ cpu.rest = own.rest /\ cpu.hi = own.hi
              /\ b.spsr = own.cpsr /\ b.lr = [own.pc EXCEPT !.late = Late(k)]
        /\ AtGroup(k, 1) \/ AtGroup(k, 2) \/ AtGroup(k, 3) \/ AtGroup(k, 7) =>
              cpu.sp = own.sp /\ cpu.lr = own.lr
        /\ AtGroup(k, 2) \/ AtGroup(k, 3) \/ AtGroup(k, 4) => Kept(c, k)
        /\ AtGroup(k, 4) \/ AtGroup(k, 6) => cpu.r0 = own.sp /\ cpu.r1 = own.lr
        /\ AtGroup(k, 5) \/ AtGroup(k, 6) \/ AtGroup(k, 7) => c = own

\* Until a FIQ: the registers of the running program are in the CPU, or in the
\* part of them that the vector has come to.
Running ==
    fiqs = 0 /\ Up =>
        /\ cpu.pc.at.of \notin Vector => cpu = logical[running]
        /\ cpu.pc.at.of # "FIQ"
        /\ \A k \in Vector \ {"FIQ"} : Progress(k)

SwitchedOut == fiqs = 0 => \A p \in Program \ {running} : pcb[p] = logical[p]

XInv ==
    /\ TypeOK /\ Masked /\ Logical /\ Correctable /\ ReturnAddress
    /\ Starting /\ Running /\ SwitchedOut

-----------------------------------------------------------------------------
(* Addresses and modes.                                                    *)

LEMMA ModeFacts ==
  /\ Modes = {"SVC", "IRQ", "FIQ", "UND", "ABT"}
  /\ \A k \in Vector : ModeOf(k) \in Modes /\ (ModeOf(k) = "FIQ" <=> k = "FIQ")
  /\ ModeOf("SVC") = "SVC" /\ ModeOf("IRQ") = "IRQ" /\ ModeOf("FIQ") = "FIQ"
  /\ ModeOf("DABT") = "ABT"
  /\ Modes \subseteq Mode /\ "SYS" \in Mode /\ "USR" \in Mode /\ "USR" \notin Modes
BY DEF Modes, Mode, ModeOf, Vector

\* A place in the code of a vector is nowhere else and in no program.
LEMMA PlaceFacts ==
  ASSUME NEW k, NEW i
  PROVE  /\ At(k, i).at.of = k /\ At(k, i).late = 0
         /\ \A j, l : At(k, i) = At(j, l) <=> k = j /\ i = l
         /\ k \in Vector /\ i \in 0..7 => At(k, i) \in Address
<1>1. /\ At(k, i).at.of = k /\ At(k, i).late = 0
      /\ \A j, l : At(k, i) = At(j, l) <=> k = j /\ i = l
  BY DEF At
<1>2. k \in Vector /\ i \in 0..7 => At(k, i) \in Address
  BY DEF At, Address, Val
<1> QED
  BY <1>1, <1>2

LEMMA TokenFacts ==
  /\ \A p \in Program : p \notin Vector /\ p # "KERNEL"
  /\ "KERNEL" \notin Vector
  /\ SCRATCH \in Val /\ V_SYS_STACK \in Val /\ RESULT \in Val
  /\ UserPsr \in Psr /\ UserPsr.mode = "USR" /\ ~UserPsr.I
BY ProgramAssumption, ModeFacts DEF Vector, SCRATCH, V_SYS_STACK, RESULT, Val, UserPsr, Psr

LEMMA FreshFacts ==
  ASSUME NEW p \in Program, NEW v \in 0..7
  PROVE  /\ Fresh(p, v) \in Registers
         /\ Fresh(p, v).pc.at.of = p /\ Fresh(p, v).pc.late = 0 /\ Fresh(p, v).cpsr = UserPsr
<1>1. [of |-> p, n |-> v] \in Val
  BY DEF Val
<1> QED
  BY <1>1, TokenFacts DEF Fresh, Registers, Address

\* A record of registers is its fields.
LEMMA RegisterFields ==
  ASSUME NEW c \in Registers
  PROVE  /\ c = [r0 |-> c.r0, r1 |-> c.r1, rest |-> c.rest, hi |-> c.hi, sp |-> c.sp,
                 lr |-> c.lr, pc |-> c.pc, cpsr |-> c.cpsr]
         /\ {c.r0, c.r1, c.rest, c.hi, c.sp, c.lr} \subseteq Val
         /\ c.pc \in Address /\ c.cpsr \in Psr
         /\ c.pc = [at |-> c.pc.at, late |-> c.pc.late] /\ c.pc.at \in Val /\ c.pc.late \in 0..2
         /\ c.cpsr = [mode |-> c.cpsr.mode, I |-> c.cpsr.I, F |-> c.cpsr.F]
         /\ c.cpsr.mode \in Mode /\ c.cpsr.I \in BOOLEAN /\ c.cpsr.F \in BOOLEAN
BY DEF Registers, Address, Psr

LEMMA SameFields ==
  ASSUME NEW c \in Registers, NEW d \in Registers,
         c.r0 = d.r0, c.r1 = d.r1, c.rest = d.rest, c.hi = d.hi,
         c.sp = d.sp, c.lr = d.lr, c.pc = d.pc, c.cpsr = d.cpsr
  PROVE  c = d
<1>1. c = [r0 |-> c.r0, r1 |-> c.r1, rest |-> c.rest, hi |-> c.hi, sp |-> c.sp,
           lr |-> c.lr, pc |-> c.pc, cpsr |-> c.cpsr]
  BY RegisterFields
<1>2. d = [r0 |-> d.r0, r1 |-> d.r1, rest |-> d.rest, hi |-> d.hi, sp |-> d.sp,
           lr |-> d.lr, pc |-> d.pc, cpsr |-> d.cpsr]
  BY RegisterFields
<1> QED
  BY <1>1, <1>2

LEMMA InitX == Init => XInv
<1> SUFFICES ASSUME Init PROVE XInv
  OBVIOUS
<1>1. \A p \in Program : /\ Fresh(p, 0) \in Registers /\ Fresh(p, 0).cpsr = UserPsr
                         /\ Fresh(p, 0).pc.at.of = p /\ Fresh(p, 0).pc.late = 0
  BY FreshFacts
<1>2. cpu \in Registers /\ cpu.pc = Fresh(First, 0).pc /\ cpu.cpsr.mode = "SYS"
  <2>1. [mode |-> "SYS", I |-> TRUE, F |-> TRUE] \in Psr
    BY ModeFacts DEF Psr
  <2>2. First \in Program
    BY ProgramAssumption
  <2> QED
    BY <1>1, <2>1, <2>2 DEF Init, Registers
<1>3. At("KERNEL", 0) \in Address /\ At("KERNEL", 0).at.of = "KERNEL"
  BY DEF At, Address, Val
<1>4. TypeOK
  <2>1. bank \in [Modes -> [lr : Address, spsr : Psr, hi : Val]]
    BY <1>3, TokenFacts DEF Init, Modes
  <2>2. gic \in Gic
    BY DEF Init, Gic
  <2>3. pcb \in [Program -> Registers] /\ logical \in [Program -> Registers] /\ running \in Program
    BY <1>1, ProgramAssumption DEF Init
  <2>4. context \in [Modes -> Registers]
    BY <1>1, ProgramAssumption DEF Init, Modes
  <2>5. frame \in Address /\ pending \subseteq Line /\ active \in SUBSET Line /\ fiqs \in 0..FiqBound
    BY <1>3, FaultAssumption DEF Init
  <2> QED
    BY <1>2, <2>1, <2>2, <2>3, <2>4, <2>5 DEF TypeOK, Modes
<1>5. \A k \in Vector, i \in 0..7 : ~AtGroup(k, i)
  BY <1>1, <1>2, TokenFacts, PlaceFacts, ProgramAssumption DEF AtGroup
<1>6. Masked
  BY <1>1, <1>2, <1>3, <1>5, TokenFacts, ProgramAssumption DEF Init, Masked, Saved, Modes, Vector
<1>7. Logical /\ Correctable /\ ReturnAddress
  BY <1>1, <1>5 DEF Init, Logical, Correctable, ReturnAddress, Vector
<1>8. Starting /\ Running /\ SwitchedOut
  BY <1>1, <1>2, ProgramAssumption, TokenFacts DEF Init, Starting, Running, SwitchedOut, Up
<1> QED
  BY <1>4, <1>6, <1>7, <1>8 DEF XInv

-----------------------------------------------------------------------------
(* The steps of a vector.                                                  *)

\* Where a core that stands at a group of a vector does not stand.
LEMMA Standing ==
  ASSUME NEW pc, NEW k \in Vector, NEW n \in 0..7, pc = At(k, n)
  PROVE  /\ pc \in Address /\ pc.at.of = k /\ pc.late = 0
         /\ \A j, l : pc = At(j, l) <=> j = k /\ l = n
BY PlaceFacts

LEMMA InVector ==
  ASSUME XInv, NEW k \in Vector, NEW i \in 0..7, AtGroup(k, i)
  PROVE  /\ cpu \in Registers /\ cpu.cpsr \in Psr /\ cpu.pc \in Address
         /\ {cpu.r0, cpu.r1, cpu.rest, cpu.hi, cpu.sp, cpu.lr} \subseteq Val
         /\ cpu.pc = At(k, i) /\ cpu.pc.at.of = k /\ cpu.cpsr.I /\ cpu.cpsr.mode # "USR"
         /\ \A h, l : AtGroup(h, l) <=> h = k /\ l = i
         /\ Up
<1>1. cpu \in Registers
  BY DEF XInv, TypeOK
<1>2. cpu.pc = At(k, i) /\ cpu.pc.at.of = k
  BY PlaceFacts DEF AtGroup
<1>3. cpu.cpsr.I /\ cpu.cpsr.mode # "USR"
  BY <1>2 DEF XInv, Masked
<1>4. \A h, l : AtGroup(h, l) <=> h = k /\ l = i
  BY <1>2, PlaceFacts DEF AtGroup
<1>5. Up
  BY <1>2, TokenFacts DEF XInv, Starting
<1> QED
  BY <1>1, <1>2, <1>3, <1>4, <1>5, RegisterFields

LEMMA SaveStep ==
  ASSUME XInv, NEW k \in Vector, Save(k)
  PROVE  XInv'
<1> DEFINE m == ModeOf(k)
           b == bank[m]
<1>1. /\ m \in Modes /\ b.lr \in Address /\ b.spsr \in Psr /\ b.hi \in Val
      /\ cpu \in Registers /\ context[m] \in Registers
  BY ModeFacts DEF XInv, TypeOK, Modes
<1>2. /\ cpu' \in Registers /\ cpu'.pc = At(k, 2) /\ cpu'.cpsr = cpu.cpsr
      /\ cpu'.sp = cpu.sp /\ cpu'.lr = cpu.lr
  <2>1. At(k, 2) \in Address /\ SCRATCH \in Val
    BY PlaceFacts, TokenFacts
  <2>2. cpu' = [cpu EXCEPT !.r0 = SCRATCH, !.pc = At(k, 2)]
    BY DEF Save
  <2> QED
    BY <1>1, <2>1, <2>2 DEF Registers
<1>3. /\ context'[m] \in Registers
      /\ context'[m].r0 = cpu.r0 /\ context'[m].r1 = cpu.r1 /\ context'[m].rest = cpu.rest
      /\ context'[m].hi = (IF k = "FIQ" THEN b.hi ELSE cpu.hi)
      /\ context'[m].pc = b.lr /\ context'[m].cpsr = b.spsr
  BY <1>1 DEF Save, Registers, XInv, TypeOK, Modes
<1>4. context' \in [Modes -> Registers] /\ \A n \in Modes \ {m} : context'[n] = context[n]
  BY <1>1, <1>3 DEF Save, XInv, TypeOK, Modes
<1>5. /\ \A j, l : AtGroup(j, l) <=> j = k /\ l = 1
      /\ \A j, l : AtGroup(j, l)' <=> j = k /\ l = 2
      /\ cpu.pc.at.of = k /\ cpu'.pc.at.of = k
  BY <1>2, PlaceFacts DEF Save, AtGroup
<1>6. UNCHANGED <<bank, pcb, running, frame, gic, pending, active, logical, fiqs>>
  BY DEF Save
<1>7. TypeOK'
  BY <1>2, <1>4, <1>6 DEF XInv, TypeOK, Modes
<1>8. Masked'
  <2>1. Saved(b.lr, b.spsr)
    BY <1>1, <1>5, ModeFacts DEF XInv, Masked, Saved
  <2>2. \A n \in Modes : Saved(context'[n].pc, context'[n].cpsr)
    BY <2>1, <1>3, <1>4 DEF XInv, Masked
  <2> QED
    BY <2>2, <1>2, <1>5, <1>6 DEF XInv, Masked
<1>9. Logical' /\ Starting' /\ SwitchedOut' /\ ReturnAddress'
  BY <1>2, <1>5, <1>6, TokenFacts DEF XInv, Logical, Starting, SwitchedOut, ReturnAddress, Up
<1>10. Correctable'
  BY <1>1, <1>3, <1>5, <1>6, ModeFacts DEF XInv, Correctable, Masked, Vector
<1>11. Running'
  BY <1>2, <1>3, <1>5, <1>6 DEF XInv, Running, Progress, Kept, Up
<1> QED
  BY <1>7, <1>8, <1>9, <1>10, <1>11 DEF XInv

\* A step from one group of a vector to a later one that writes to registers only.
LEMMA RegistersOnly ==
  ASSUME XInv, NEW k \in Vector, NEW i \in 0..7, NEW j \in {0, 3, 4, 7}, AtGroup(k, i),
         j \in {3, 4} => i \in 2..4,
         cpu' \in Registers, cpu'.pc = At(k, j), cpu'.cpsr.I, cpu'.cpsr.mode # "USR",
         j = 4 => cpu'.lr = [of |-> k, n |-> 6],
         fiqs = 0 /\ k # "FIQ" => Progress(k)',
         UNCHANGED <<bank, context, pcb, running, frame, gic, pending, active, logical, fiqs>>
  PROVE  XInv'
<1>1. /\ \A h, l : AtGroup(h, l) <=> h = k /\ l = i
      /\ \A h, l : AtGroup(h, l)' <=> h = k /\ l = j
      /\ cpu.pc.at.of = k /\ cpu'.pc.at.of = k
  BY PlaceFacts DEF AtGroup
<1>2. TypeOK'
  BY DEF XInv, TypeOK
<1>3. Masked'
  BY <1>1 DEF XInv, Masked
<1>4. Logical' /\ Starting' /\ SwitchedOut' /\ ReturnAddress'
  BY <1>1, TokenFacts DEF XInv, Logical, Starting, SwitchedOut, ReturnAddress, Up
<1>5. Correctable'
  BY <1>1 DEF XInv, Correctable
<1>6. Running'
  <2>1. \A h \in Vector \ {k} : Progress(h)'
    BY <1>1 DEF Progress
  <2> QED
    BY <1>1, <2>1 DEF XInv, Running, Up
<1> QED
  BY <1>2, <1>3, <1>4, <1>5, <1>6 DEF XInv

LEMMA SwitchModeStep ==
  ASSUME XInv, NEW k \in Vector, SwitchMode(k)
  PROVE  XInv'
<1>1. cpu \in Registers /\ cpu.cpsr \in Psr /\ cpu.pc = At(k, 2) /\ cpu.pc.at.of = k /\ cpu.cpsr.I
  BY InVector DEF SwitchMode
<1>2. ToMode(cpu.cpsr, "SYS") \in Psr /\ ToMode(cpu.cpsr, "SYS").I
      /\ ToMode(cpu.cpsr, "SYS").mode = "SYS"
  BY <1>1, ModeFacts DEF ToMode, Psr
<1>3. At(k, 3) \in Address
  BY PlaceFacts
<1>4. cpu' = [cpu EXCEPT !.cpsr = ToMode(@, "SYS"), !.pc = At(k, 3)]
  BY DEF SwitchMode
<1>5. cpu' \in Registers
  BY <1>1, <1>2, <1>3, <1>4 DEF Registers
<1>6. /\ cpu'.pc = At(k, 3) /\ cpu'.cpsr = ToMode(cpu.cpsr, "SYS")
      /\ cpu'.sp = cpu.sp /\ cpu'.lr = cpu.lr
  BY <1>1, <1>4 DEF Registers
<1>7. /\ \A h, l : AtGroup(h, l) <=> h = k /\ l = 2
      /\ \A h, l : AtGroup(h, l)' <=> h = k /\ l = 3
  BY <1>1, <1>6, PlaceFacts DEF AtGroup
<1>8. UNCHANGED <<bank, context, pcb, running, frame, gic, pending, active, logical, fiqs>>
  BY DEF SwitchMode
<1>9. fiqs = 0 /\ k # "FIQ" => Progress(k)'
  BY <1>1, <1>6, <1>7, <1>8, TokenFacts DEF XInv, Running, Starting, Progress, Kept
<1>10. cpu'.cpsr.I /\ cpu'.cpsr.mode # "USR"
  BY <1>2, <1>6
<1>11. AtGroup(k, 2) /\ 2 \in 0..7 /\ 2 \in 2..4
  BY <1>7
<1>12. cpu'.pc = At(k, 3) /\ 3 \in {3, 4, 7} /\ (3 = 4 => cpu'.lr = [of |-> k, n |-> 6])
  BY <1>6
<1>13. 3 \in {3, 4} => 2 \in 2..4
  OBVIOUS
<1> QED
  BY <1>5, <1>8, <1>9, <1>10, <1>11, <1>12, <1>13, RegistersOnly, Zenon

LEMMA NewStackStep ==
  ASSUME XInv, NEW k \in Vector, NewStack(k)
  PROVE  XInv'
<1>1. /\ cpu \in Registers /\ cpu.pc = At(k, 3) /\ cpu.pc.at.of = k
      /\ cpu.cpsr.I /\ cpu.cpsr.mode # "USR" /\ cpu.sp \in Val /\ cpu.lr \in Val
  BY InVector DEF NewStack
<1>2. At(k, 4) \in Address /\ V_SYS_STACK \in Val /\ [of |-> k, n |-> 6] \in Val
  BY PlaceFacts, TokenFacts DEF Val
<1>3. cpu' = [cpu EXCEPT !.r0 = cpu.sp, !.r1 = cpu.lr, !.sp = V_SYS_STACK,
                         !.lr = [of |-> k, n |-> 6], !.pc = At(k, 4)]
  BY DEF NewStack
<1>4. cpu' \in Registers
  BY <1>1, <1>2, <1>3 DEF Registers
<1>5. /\ cpu'.pc = At(k, 4) /\ cpu'.cpsr = cpu.cpsr
      /\ cpu'.r0 = cpu.sp /\ cpu'.r1 = cpu.lr /\ cpu'.lr = [of |-> k, n |-> 6]
  BY <1>1, <1>3 DEF Registers
<1>6. /\ \A h, l : AtGroup(h, l) <=> h = k /\ l = 3
      /\ \A h, l : AtGroup(h, l)' <=> h = k /\ l = 4
  BY <1>1, <1>5, PlaceFacts DEF AtGroup
<1>7. UNCHANGED <<bank, context, pcb, running, frame, gic, pending, active, logical, fiqs>>
  BY DEF NewStack
<1>8. fiqs = 0 /\ k # "FIQ" => Progress(k)'
  BY <1>1, <1>5, <1>6, <1>7, TokenFacts DEF XInv, Running, Starting, Progress, Kept
<1> QED
  BY <1>1, <1>4, <1>5, <1>6, <1>7, <1>8, RegistersOnly

LEMMA RestoreStep ==
  ASSUME XInv, NEW k \in Vector, Restore(k)
  PROVE  XInv'
<1>1. /\ cpu \in Registers /\ cpu.cpsr \in Psr /\ cpu.pc = At(k, 6) /\ cpu.pc.at.of = k
      /\ cpu.cpsr.I /\ cpu.r0 \in Val /\ cpu.r1 \in Val /\ cpu.lr \in Val
  BY InVector DEF Restore
<1>2. /\ ToMode(cpu.cpsr, ModeOf(k)) \in Psr /\ ToMode(cpu.cpsr, ModeOf(k)).I
      /\ ToMode(cpu.cpsr, ModeOf(k)).mode # "USR"
  BY <1>1, ModeFacts DEF ToMode, Psr
<1>3. At(k, 7) \in Address /\ RestoredLr(k) \in Val
  BY <1>1, PlaceFacts DEF RestoredLr
<1>4. cpu' = [cpu EXCEPT !.lr = RestoredLr(k), !.sp = cpu.r0,
                         !.cpsr = ToMode(@, ModeOf(k)), !.pc = At(k, 7)]
  BY DEF Restore
<1>5. cpu' \in Registers
  BY <1>1, <1>2, <1>3, <1>4 DEF Registers
<1>6. /\ cpu'.pc = At(k, 7) /\ cpu'.cpsr = ToMode(cpu.cpsr, ModeOf(k))
      /\ cpu'.sp = cpu.r0 /\ cpu'.lr = RestoredLr(k)
  BY <1>1, <1>4 DEF Registers
<1>7. /\ \A h, l : AtGroup(h, l) <=> h = k /\ l = 6
      /\ \A h, l : AtGroup(h, l)' <=> h = k /\ l = 7
  BY <1>1, <1>6, PlaceFacts DEF AtGroup
<1>8. UNCHANGED <<bank, context, pcb, running, frame, gic, pending, active, logical, fiqs>>
  BY DEF Restore
<1>9. fiqs = 0 /\ k # "FIQ" => Progress(k)'
  BY <1>1, <1>6, <1>7, <1>8, TokenFacts DEF XInv, Running, Starting, Progress, RestoredLr
<1> QED
  BY <1>1, <1>2, <1>5, <1>6, <1>7, <1>8, <1>9, RegistersOnly

LEMMA ReturnStep ==
  ASSUME XInv, NEW k \in Vector, Return(k)
  PROVE  XInv'
<1> DEFINE m == ModeOf(k)
           ctx == context[m]
<1>1. /\ cpu \in Registers /\ {cpu.hi, cpu.sp, cpu.lr} \subseteq Val
      /\ cpu.pc.at.of = k /\ AtGroup(k, 7) /\ Up
  BY InVector DEF Return
<1>2. m \in Modes /\ (m = "FIQ" <=> k = "FIQ") /\ "FIQ" \in Modes
  BY ModeFacts
<1>3. /\ ctx \in Registers /\ bank \in [Modes -> [lr : Address, spsr : Psr, hi : Val]]
      /\ context \in [Modes -> Registers]
  BY <1>2 DEF XInv, TypeOK, Modes
<1>4. ctx.hi \in Val /\ ctx.cpsr \in Psr /\ ctx.pc \in Address
  BY <1>3, RegisterFields
<1>5. cpu' = [ctx EXCEPT !.sp = cpu.sp, !.lr = cpu.lr,
                         !.hi = IF k = "FIQ" THEN cpu.hi ELSE @]
  BY DEF Return
<1>6. cpu' \in Registers
  BY <1>1, <1>3, <1>4, <1>5 DEF Registers
<1>7. /\ cpu'.r0 = ctx.r0 /\ cpu'.r1 = ctx.r1 /\ cpu'.rest = ctx.rest
      /\ cpu'.hi = (IF k = "FIQ" THEN cpu.hi ELSE ctx.hi)
      /\ cpu'.sp = cpu.sp /\ cpu'.lr = cpu.lr /\ cpu'.pc = ctx.pc /\ cpu'.cpsr = ctx.cpsr
  BY <1>3, <1>5 DEF Registers
<1>8. /\ bank' \in [Modes -> [lr : Address, spsr : Psr, hi : Val]]
      /\ \A n \in Modes : bank'[n].lr = bank[n].lr
  <2>1. bank' = [bank EXCEPT ![m].spsr = ctx.cpsr,
                             !["FIQ"].hi = IF k = "FIQ" THEN ctx.hi ELSE @]
    BY DEF Return
  <2> QED
    BY <1>2, <1>3, <1>4, <2>1
<1>9. UNCHANGED <<context, pcb, running, frame, gic, pending, active, logical, fiqs>>
  BY DEF Return
<1>10. Saved(ctx.pc, ctx.cpsr)
  BY <1>2 DEF XInv, Masked
<1>11. \A h \in Vector, l \in 0..7 : ~AtGroup(h, l)'
  BY <1>7, <1>10, PlaceFacts DEF AtGroup, Saved
<1>12. TypeOK'
  BY <1>6, <1>8, <1>9 DEF XInv, TypeOK, Modes
<1>13. Masked'
  <2>1. cpu'.pc.at.of \in Vector => cpu'.cpsr.I /\ cpu'.cpsr.mode # "USR"
    BY <1>7, <1>10 DEF Saved
  <2>2. ~AtGroup("FIQ", 1)'
    BY <1>11 DEF Vector
  <2> QED
    BY <2>1, <2>2, <1>8, <1>9 DEF XInv, Masked, Saved
<1>14. Logical' /\ Starting' /\ SwitchedOut'
  BY <1>1, <1>9 DEF XInv, Logical, Starting, SwitchedOut, Up
<1>15. ReturnAddress' /\ Correctable'
  BY <1>11 DEF ReturnAddress, Correctable, Vector
<1>16. Running'
  <2>1. SUFFICES ASSUME fiqs = 0 PROVE Running'
    BY <1>9 DEF Running
  <2>2. running \in Program /\ logical[running] \in Registers
    BY DEF XInv, TypeOK
  <2>3. /\ k # "FIQ" /\ ctx = logical[running]
        /\ cpu.sp = ctx.sp /\ cpu.lr = ctx.lr
    BY <1>1, <2>1 DEF XInv, Running, Progress
  <2>4. cpu' = logical[running]
    BY <1>3, <1>5, <2>3 DEF Registers
  <2>5. cpu'.pc.at.of \in Program
    BY <2>2, <2>4 DEF XInv, Logical
  <2>6. cpu'.pc.at.of # "FIQ"
    BY <2>5, TokenFacts DEF Vector
  <2>7. \A h \in Vector : Progress(h)'
    BY <1>11 DEF Progress
  <2> QED
    BY <1>9, <2>4, <2>6, <2>7 DEF Running
<1> QED
  BY <1>12, <1>13, <1>14, <1>15, <1>16 DEF XInv

-----------------------------------------------------------------------------
(* The C entries.                                                          *)

LEMMA EnteredStep ==
  ASSUME XInv, NEW k \in Vector, Entered(k), pending' \subseteq Line, active' \subseteq Line
  PROVE  XInv'
<1> DEFINE m == ModeOf(k)
           g == IF k \in Fatal THEN 0 ELSE 5
           full == [context[m] EXCEPT !.sp = cpu.r0, !.lr = cpu.r1]
           cor == Corrected(k, full)
           copied == IF k = "DABT" THEN cor ELSE full
<1>1. /\ cpu \in Registers /\ {cpu.r0, cpu.r1, cpu.lr} \subseteq Val
      /\ AtGroup(k, 4) /\ cpu.pc.at.of = k /\ Up /\ cpu.cpsr.I /\ cpu.cpsr.mode # "USR"
      /\ \A h, l : AtGroup(h, l) <=> h = k /\ l = 4
  BY InVector DEF Entered
<1>2. m \in Modes
  BY ModeFacts
<1>3. context[m] \in Registers /\ context \in [Modes -> Registers]
      /\ pcb \in [Program -> Registers] /\ running \in Program
  BY <1>2 DEF XInv, TypeOK, Modes
<1>4. full \in Registers
  BY <1>1, <1>3 DEF Registers
<1>5. /\ full.r0 = context[m].r0 /\ full.r1 = context[m].r1 /\ full.rest = context[m].rest
      /\ full.hi = context[m].hi /\ full.sp = cpu.r0 /\ full.lr = cpu.r1
      /\ full.pc = context[m].pc /\ full.cpsr = context[m].cpsr
  BY <1>3 DEF Registers
<1>6. full.pc \in Address /\ full.pc.late \in 0..2
  BY <1>4, RegisterFields
<1>7. k \in {"IRQ", "DABT"} => full.pc.late >= 1 /\ full.pc.at.of \notin Vector
  BY <1>1, <1>5 DEF XInv, Correctable
<1>8. /\ cor \in Registers
      /\ cor.r0 = full.r0 /\ cor.r1 = full.r1 /\ cor.rest = full.rest /\ cor.hi = full.hi
      /\ cor.sp = full.sp /\ cor.lr = full.lr /\ cor.cpsr = full.cpsr
      /\ cor.pc.at = full.pc.at
      /\ cor.pc = (IF k \in {"IRQ", "DABT"} THEN [full.pc EXCEPT !.late = full.pc.late - 1]
                                            ELSE full.pc)
  <2>1. CASE k \in {"IRQ", "DABT"}
    <3>1. cor = [full EXCEPT !.pc = [full.pc EXCEPT !.late = full.pc.late - 1]]
      BY <2>1, <1>4, <1>6 DEF Corrected, Registers, Address
    <3>2. full.pc.late - 1 \in 0..2
      BY <2>1, <1>6, <1>7
    <3>3. [full.pc EXCEPT !.late = full.pc.late - 1] \in Address
          /\ [full.pc EXCEPT !.late = full.pc.late - 1].at = full.pc.at
      BY <1>6, <3>2 DEF Address
    <3> HIDE DEF full, cor
    <3> QED
      BY <2>1, <1>4, <3>1, <3>3 DEF Registers
  <2>2. CASE k \notin {"IRQ", "DABT"}
    BY <2>2, <1>4 DEF Corrected
  <2> QED
    BY <2>1, <2>2
<1>9. /\ context' = [context EXCEPT ![m] = cor] /\ pcb' = [pcb EXCEPT ![running] = copied]
      /\ frame' = [at |-> cpu.lr, late |-> 0]
      /\ cpu' = [cpu EXCEPT !.r0 = SCRATCH, !.r1 = SCRATCH, !.rest = SCRATCH,
                            !.hi = SCRATCH, !.lr = SCRATCH, !.pc = At(k, g)]
      /\ UNCHANGED <<bank, running, gic, logical, fiqs>>
  BY DEF Entered
<1>10. Saved(cor.pc, cor.cpsr) /\ Saved(copied.pc, copied.cpsr) /\ copied \in Registers
  <2>1. Saved(full.pc, full.cpsr)
    BY <1>2, <1>5 DEF XInv, Masked
  <2> HIDE DEF full, cor
  <2> QED
    BY <2>1, <1>4, <1>7, <1>8 DEF Saved
<1> HIDE DEF full, cor, copied
<1>11. /\ cpu' \in Registers /\ cpu'.pc = At(k, g) /\ cpu'.cpsr = cpu.cpsr
  <2>1. At(k, g) \in Address
    BY PlaceFacts
  <2> QED
    BY <1>1, <1>9, <2>1, TokenFacts DEF Registers
<1>12. /\ \A h, l : AtGroup(h, l)' <=> h = k /\ l = g
       /\ cpu'.pc.at.of = k
  BY <1>11, PlaceFacts DEF AtGroup
<1>13. /\ context' \in [Modes -> Registers] /\ context'[m] = cor
       /\ \A n \in Modes \ {m} : context'[n] = context[n]
       /\ pcb' \in [Program -> Registers] /\ pcb'[running] = copied
       /\ \A p \in Program \ {running} : pcb'[p] = pcb[p]
  BY <1>2, <1>3, <1>8, <1>9, <1>10
<1>14. frame' \in Address
  BY <1>1, <1>9 DEF Address
<1>15. TypeOK'
  BY <1>9, <1>11, <1>13, <1>14 DEF XInv, TypeOK, Modes
<1>16. Masked'
  BY <1>1, <1>9, <1>10, <1>11, <1>12, <1>13 DEF XInv, Masked
<1>17. Logical' /\ Starting' /\ SwitchedOut'
  BY <1>1, <1>9, <1>13 DEF XInv, Logical, Starting, SwitchedOut, Up
<1>18. ReturnAddress' /\ Correctable'
  <2>1. frame' = At(k, 6)
    BY <1>1, <1>9 DEF XInv, ReturnAddress, At
  <2> QED
    BY <1>12, <2>1 DEF ReturnAddress, Correctable
<1>19. Running'
  <2>1. SUFFICES ASSUME fiqs = 0 PROVE Running'
    BY <1>9 DEF Running
  <2>2. k # "FIQ" /\ Progress(k) /\ logical[running] \in Registers
    BY <1>1, <2>1 DEF XInv, Running, TypeOK
  <2>3. g = 5 => cor = logical[running]
    <3> DEFINE own == logical[running]
    <3>1. Kept(context[m], k) /\ cpu.r0 = own.sp /\ cpu.r1 = own.lr
      BY <1>1, <2>2 DEF Progress
    <3>2. own.pc.late = 0 /\ own.pc \in Address /\ own.pc = [at |-> own.pc.at, late |-> 0]
      BY <1>3, <2>2, RegisterFields DEF XInv, Logical
    <3>3. ASSUME g = 5 PROVE cor.pc = own.pc
      <4>1. k \in {"SVC", "IRQ"}
        BY <3>3, <2>2 DEF Vector, Fatal
      <4>2. full.pc = [own.pc EXCEPT !.late = IF k = "IRQ" THEN 1 ELSE 0]
        BY <3>1, <1>5, <4>1 DEF Kept, Late
      <4>3. full.pc = [at |-> own.pc.at, late |-> IF k = "IRQ" THEN 1 ELSE 0]
        BY <3>2, <4>2
      <4>4. cor.pc = [at |-> own.pc.at, late |-> 0]
        BY <4>1, <4>3, <1>8
      <4> QED
        BY <3>2, <4>4
    <3>4. /\ cor.r0 = own.r0 /\ cor.r1 = own.r1 /\ cor.rest = own.rest /\ cor.hi = own.hi
          /\ cor.sp = own.sp /\ cor.lr = own.lr /\ cor.cpsr = own.cpsr
      BY <3>1, <1>5, <1>8 DEF Kept
    <3>5. own \in Registers
      BY <2>2
    <3> HIDE DEF own
    <3>6. g = 5 => cor = own
      BY <3>3, <3>4, <3>5, <1>8, SameFields
    <3> QED
      BY <3>6 DEF own
  <2>4. \A h \in Vector \ {"FIQ"} : Progress(h)'
    BY <1>9, <1>12, <1>13, <2>3 DEF Progress
  <2> QED
    BY <1>12, <2>2, <2>4 DEF Running
<1> QED
  BY <1>15, <1>16, <1>17, <1>18, <1>19 DEF XInv

\* The end of a handler: c is what it leaves in its context, and the registers
\* of the program to return to when no FIQ came between.
LEMMA LeaveStep ==
  ASSUME XInv, NEW k \in {"SVC", "IRQ", "FIQ"}, AtGroup(k, 5),
         NEW c \in Registers, Saved(c.pc, c.cpsr), Leave(c),
         NEW d \in Registers, d.sp = c.sp, d.lr = c.lr, Saved(d.pc, d.cpsr),
         context' = [context EXCEPT ![k] = d],
         pcb' \in [Program -> Registers], \A p \in Program : Saved(pcb'[p].pc, pcb'[p].cpsr),
         running' \in Program, logical' \in [Program -> Registers], Logical',
         fiqs = 0 /\ k # "FIQ" => d = logical'[running'] /\ SwitchedOut',
         UNCHANGED <<bank, frame, gic, fiqs>>, pending' \subseteq Line, active' \subseteq Line
  PROVE  XInv'
<1>1. /\ cpu \in Registers /\ k \in Vector /\ ModeOf(k) = k /\ k \in Modes
      /\ cpu.pc.at.of = k /\ Up /\ cpu.cpsr.I /\ cpu.cpsr.mode # "USR"
  BY InVector, ModeFacts DEF Vector
<1>2. frame = At(k, 6) /\ frame \in Address /\ context \in [Modes -> Registers]
  BY <1>1 DEF XInv, ReturnAddress, TypeOK, Modes
<1>3. cpu' = [cpu EXCEPT !.r0 = c.sp, !.r1 = c.lr, !.pc = frame]
  BY DEF Leave
<1>4. c.sp \in Val /\ c.lr \in Val
  BY RegisterFields
<1>5. /\ cpu' \in Registers /\ cpu'.r0 = d.sp /\ cpu'.r1 = d.lr
      /\ cpu'.pc = At(k, 6) /\ cpu'.cpsr = cpu.cpsr
  BY <1>1, <1>2, <1>3, <1>4 DEF Registers
<1>6. /\ \A h, l : AtGroup(h, l)' <=> h = k /\ l = 6
      /\ cpu'.pc.at.of = k
  BY <1>5, PlaceFacts DEF AtGroup
<1>7. /\ context' \in [Modes -> Registers] /\ context'[k] = d
      /\ \A n \in Modes \ {k} : context'[n] = context[n]
  BY <1>1, <1>2
<1>8. TypeOK'
  BY <1>5, <1>7 DEF XInv, TypeOK, Modes
<1>9. Masked'
  BY <1>1, <1>5, <1>6, <1>7 DEF XInv, Masked
<1>10. Starting' /\ ReturnAddress' /\ Correctable'
  BY <1>1, <1>6 DEF Starting, ReturnAddress, Correctable, Up
<1>11. Running' /\ SwitchedOut'
  <2>1. CASE fiqs # 0
    BY <2>1 DEF Running, SwitchedOut
  <2>2. CASE fiqs = 0
    <3>1. k # "FIQ"
      BY <1>1, <2>2 DEF XInv, Running
    <3>2. d = logical'[running'] /\ SwitchedOut'
      BY <2>2, <3>1
    <3>3. \A h \in Vector \ {"FIQ"} : Progress(h)'
      BY <1>1, <1>5, <1>6, <1>7, <3>2 DEF Progress
    <3> QED
      BY <1>1, <1>6, <3>1, <3>2, <3>3 DEF Running
  <2> QED
    BY <2>1, <2>2
<1> QED
  BY <1>8, <1>9, <1>10, <1>11 DEF XInv

\* The context of a handler at its dispatch.
LEMMA Dispatched ==
  ASSUME XInv, NEW k \in {"SVC", "IRQ", "FIQ"}, AtGroup(k, 5)
  PROVE  /\ context[k] \in Registers /\ Saved(context[k].pc, context[k].cpsr)
         /\ k \in Modes /\ context \in [Modes -> Registers]
         /\ running \in Program /\ pcb \in [Program -> Registers]
         /\ logical \in [Program -> Registers]
         /\ fiqs = 0 => k # "FIQ" /\ context[k] = logical[running]
<1>1. k \in Modes /\ k \in Vector /\ ModeOf(k) = k
  BY ModeFacts DEF Vector
<1>2. context[k] \in Registers /\ Saved(context[k].pc, context[k].cpsr)
  BY <1>1 DEF XInv, TypeOK, Masked, Modes
<1>3. fiqs = 0 => k # "FIQ" /\ context[k] = logical[running]
  <2>1. Up /\ cpu.pc.at.of = k
    BY <1>1, InVector
  <2>2. fiqs = 0 => k # "FIQ" /\ Progress(k)
    BY <1>1, <2>1 DEF XInv, Running
  <2> QED
    BY <1>1, <2>2 DEF Progress
<1> QED
  BY <1>1, <1>2, <1>3 DEF XInv, TypeOK, Modes

LEMMA CallStep ==
  ASSUME XInv, Call
  PROVE  XInv'
<1> DEFINE c == context["SVC"]
<1>1. AtGroup("SVC", 5)
  BY DEF Call
<1>2. /\ c \in Registers /\ Saved(c.pc, c.cpsr) /\ "SVC" \in Modes
      /\ context \in [Modes -> Registers]
      /\ running \in Program /\ logical \in [Program -> Registers]
      /\ fiqs = 0 => c = logical[running]
  BY <1>1, Dispatched
<1>3. PICK r \in {RESULT, c.r0} :
        /\ context' = [context EXCEPT !["SVC"].r0 = r]
        /\ logical' = [logical EXCEPT ![running].r0 = r]
        /\ Leave(c)
  BY DEF Call
<1>4. UNCHANGED <<bank, pcb, running, frame, gic, pending, active, fiqs>>
  BY DEF Call
<1>5. r \in Val
  BY <1>2, TokenFacts, RegisterFields
<1> DEFINE d == [c EXCEPT !.r0 = r]
           own == [logical[running] EXCEPT !.r0 = r]
<1>6. d \in Registers /\ d.sp = c.sp /\ d.lr = c.lr /\ d.pc = c.pc /\ d.cpsr = c.cpsr
  BY <1>2, <1>5 DEF Registers
<1>7. own \in Registers /\ own.pc = logical[running].pc /\ own.cpsr = logical[running].cpsr
  BY <1>2, <1>5 DEF Registers
<1>8. fiqs = 0 => d = own
  BY <1>2
<1>9. context' = [context EXCEPT !["SVC"] = d]
  BY <1>2, <1>3
<1>10. logical' = [logical EXCEPT ![running] = own]
  BY <1>2, <1>3
<1> HIDE DEF d, own
<1>11. /\ logical' \in [Program -> Registers] /\ logical'[running] = own
       /\ \A p \in Program \ {running} : logical'[p] = logical[p]
  BY <1>2, <1>7, <1>10
<1>12. Logical'
  BY <1>7, <1>11 DEF XInv, Logical
<1>13. fiqs = 0 => SwitchedOut'
  BY <1>4, <1>11 DEF XInv, SwitchedOut
<1>14. pcb' \in [Program -> Registers] /\ \A p \in Program : Saved(pcb'[p].pc, pcb'[p].cpsr)
  BY <1>4 DEF XInv, TypeOK, Masked
<1>15. pending' \subseteq Line /\ active' \subseteq Line /\ running' \in Program
  BY <1>2, <1>4 DEF XInv, TypeOK
<1>16. Saved(d.pc, d.cpsr)
  BY <1>2, <1>6
<1>17. fiqs = 0 => d = logical'[running']
  BY <1>4, <1>8, <1>11
<1> HIDE DEF c
<1> QED
  BY <1>1, <1>2, <1>3, <1>4, <1>6, <1>9, <1>11, <1>12, <1>13, <1>14, <1>15, <1>16, <1>17, LeaveStep

LEMMA ExecCallStep ==
  ASSUME XInv, ExecCall
  PROVE  XInv'
<1> DEFINE d == [Fresh(running, 0) EXCEPT !.r0 = RESULT]
<1>1. AtGroup("SVC", 5)
  BY DEF ExecCall
<1>2. /\ "SVC" \in Modes /\ context \in [Modes -> Registers]
      /\ running \in Program /\ logical \in [Program -> Registers]
      /\ pcb \in [Program -> Registers]
  BY <1>1, Dispatched
<1>3. /\ context' = [context EXCEPT !["SVC"] = d] /\ pcb' = [pcb EXCEPT ![running] = d]
      /\ logical' = [logical EXCEPT ![running] = d] /\ Leave(d)
      /\ UNCHANGED <<bank, running, frame, gic, pending, active, fiqs>>
  BY DEF ExecCall
<1>4. /\ Fresh(running, 0) \in Registers /\ Fresh(running, 0).pc.at.of = running
      /\ Fresh(running, 0).pc.late = 0 /\ Fresh(running, 0).cpsr = UserPsr
  BY <1>2, FreshFacts
<1>5. /\ d \in Registers /\ d.pc.at.of = running /\ d.pc.late = 0 /\ d.cpsr = UserPsr
  BY <1>4, TokenFacts DEF Registers
<1> HIDE DEF d
<1>6. Saved(d.pc, d.cpsr)
  BY <1>2, <1>5, TokenFacts DEF Saved
<1>7. /\ logical' \in [Program -> Registers] /\ logical'[running] = d
      /\ pcb' \in [Program -> Registers] /\ pcb'[running] = d
      /\ \A p \in Program \ {running} : logical'[p] = logical[p] /\ pcb'[p] = pcb[p]
  BY <1>2, <1>3, <1>5
<1>8. Logical'
  BY <1>2, <1>5, <1>7 DEF XInv, Logical
<1>9. fiqs = 0 => SwitchedOut'
  BY <1>3, <1>7 DEF XInv, SwitchedOut
<1>10. \A p \in Program : Saved(pcb'[p].pc, pcb'[p].cpsr)
  BY <1>6, <1>7 DEF XInv, Masked
<1>11. pending' \subseteq Line /\ active' \subseteq Line /\ running' \in Program
  BY <1>2, <1>3 DEF XInv, TypeOK
<1>12. d = logical'[running']
  BY <1>3, <1>7
<1> QED
  BY <1>1, <1>3, <1>5, <1>6, <1>7, <1>8, <1>9, <1>10, <1>11, <1>12, LeaveStep

LEMMA SchedMainStep ==
  ASSUME XInv, SchedMain
  PROVE  XInv'
<1> DEFINE c == context["IRQ"]
<1>1. AtGroup("IRQ", 5)
  BY DEF SchedMain
<1>2. /\ c \in Registers /\ Saved(c.pc, c.cpsr) /\ "IRQ" \in Modes
      /\ context \in [Modes -> Registers]
      /\ running \in Program /\ logical \in [Program -> Registers]
      /\ pcb \in [Program -> Registers]
      /\ fiqs = 0 => c = logical[running]
  BY <1>1, Dispatched
<1>3. PICK to \in Program : SwitchTo(running, to, "IRQ", pcb)
  BY DEF SchedMain
<1>4. active' = {} /\ UNCHANGED <<bank, frame, gic, pending, logical, fiqs>>
  BY DEF SchedMain, EndOfInterrupt
<1> DEFINE d == pcb'[to]
<1>5. /\ pcb' = [pcb EXCEPT ![running] = c] /\ running' = to
      /\ context' = [context EXCEPT !["IRQ"] = d]
  BY <1>3 DEF SwitchTo
<1>6. /\ pcb' \in [Program -> Registers] /\ pcb'[running] = c
      /\ \A p \in Program \ {running} : pcb'[p] = pcb[p]
  BY <1>2, <1>5
<1>7. \A p \in Program : Saved(pcb'[p].pc, pcb'[p].cpsr)
  BY <1>2, <1>6 DEF XInv, Masked
<1>8. d \in Registers /\ Saved(d.pc, d.cpsr)
  BY <1>6, <1>7
<1>9. fiqs = 0 => \A p \in Program : pcb'[p] = logical[p]
  BY <1>2, <1>6 DEF XInv, SwitchedOut
<1>10. fiqs = 0 => d = logical'[running'] /\ SwitchedOut'
  BY <1>4, <1>5, <1>9 DEF SwitchedOut
<1>11. Leave(d)
  <2>1. context'["IRQ"] = d
    BY <1>2, <1>5
  <2> QED
    BY <1>3, <2>1 DEF SwitchTo
<1>12. Logical' /\ logical' \in [Program -> Registers] /\ pending' \subseteq Line
       /\ active' \subseteq Line /\ running' \in Program
  BY <1>2, <1>4, <1>5 DEF XInv, TypeOK, Logical
<1> HIDE DEF c, d
<1> QED
  BY <1>1, <1>4, <1>5, <1>6, <1>7, <1>8, <1>10, <1>11, <1>12, LeaveStep

LEMMA PlainLeaveStep ==
  ASSUME XInv, NEW k \in {"IRQ", "FIQ"}, AtGroup(k, 5), Leave(context[k]),
         UNCHANGED <<bank, context, pcb, running, frame, gic, pending, logical, fiqs>>,
         active' \subseteq Line
  PROVE  XInv'
<1>1. /\ context[k] \in Registers /\ Saved(context[k].pc, context[k].cpsr)
      /\ k \in Modes /\ context \in [Modes -> Registers]
      /\ running \in Program /\ pcb \in [Program -> Registers]
      /\ logical \in [Program -> Registers]
      /\ fiqs = 0 => context[k] = logical[running]
  BY Dispatched
<1>2. context' = [context EXCEPT ![k] = context[k]]
  BY <1>1
<1>3. \A p \in Program : Saved(pcb'[p].pc, pcb'[p].cpsr)
  BY DEF XInv, Masked
<1>4. Logical' /\ SwitchedOut' /\ pending' \subseteq Line
  BY DEF XInv, Logical, SwitchedOut, TypeOK
<1> QED
  BY <1>1, <1>2, <1>3, <1>4, LeaveStep

-----------------------------------------------------------------------------
(* The entry of an exception, the programs and the devices.                *)

\* Only a FIQ is taken in a handler.
LEMMA EnterStep ==
  ASSUME XInv, NEW k \in Vector, Up, Enter(k),
         k # "FIQ" => cpu.pc.at.of \notin Vector,
         fiqs' \in 0..FiqBound, fiqs' = 0 => fiqs = 0 /\ k # "FIQ"
  PROVE  XInv'
<1> DEFINE m == ModeOf(k)
           from == [cpu.pc EXCEPT !.late = Late(k)]
           psr == [mode |-> m, I |-> TRUE, F |-> cpu.cpsr.F \/ k = "FIQ"]
<1>1. /\ cpu \in Registers /\ cpu.cpsr \in Psr /\ cpu.pc \in Address /\ cpu.pc.at \in Val
      /\ cpu.cpsr.F \in BOOLEAN
  BY RegisterFields DEF XInv, TypeOK
<1>2. m \in Modes /\ (m = "FIQ" <=> k = "FIQ") /\ m \in Mode /\ m # "USR" /\ "FIQ" \in Modes
  BY ModeFacts
<1>3. Late(k) \in 0..2 /\ (k # "SVC" => Late(k) >= 1)
  BY DEF Late
<1>4. from \in Address /\ from.at = cpu.pc.at /\ from.late = Late(k)
  BY <1>1, <1>3 DEF Address
<1>5. psr \in Psr /\ psr.I /\ psr.mode # "USR"
  BY <1>1, <1>2 DEF Psr
<1>6. /\ bank' = [bank EXCEPT ![m].lr = from, ![m].spsr = cpu.cpsr]
      /\ cpu' = [cpu EXCEPT !.pc = At(k, 1), !.cpsr = psr]
      /\ UNCHANGED <<context, pcb, running, frame, gic, pending, active, logical>>
  <2>1. cpu' = [cpu EXCEPT !.pc = At(k, 1), !.cpsr = psr]
    BY <1>1 DEF Enter, Registers
  <2> QED
    BY <2>1 DEF Enter
<1> HIDE DEF from, psr
<1>7. /\ cpu' \in Registers /\ cpu'.pc = At(k, 1) /\ cpu'.cpsr = psr
      /\ cpu'.r0 = cpu.r0 /\ cpu'.r1 = cpu.r1 /\ cpu'.rest = cpu.rest /\ cpu'.hi = cpu.hi
      /\ cpu'.sp = cpu.sp /\ cpu'.lr = cpu.lr
  <2>1. At(k, 1) \in Address
    BY PlaceFacts
  <2> QED
    BY <1>1, <1>5, <1>6, <2>1 DEF Registers
<1>8. /\ bank' \in [Modes -> [lr : Address, spsr : Psr, hi : Val]]
      /\ bank'[m].lr = from /\ bank'[m].spsr = cpu.cpsr
      /\ \A n \in Modes \ {m} : bank'[n] = bank[n]
  <2>1. bank \in [Modes -> [lr : Address, spsr : Psr, hi : Val]]
    BY DEF XInv, TypeOK, Modes
  <2> QED
    BY <1>1, <1>2, <1>4, <1>6, <2>1
<1>9. /\ \A h, l : AtGroup(h, l)' <=> h = k /\ l = 1
      /\ cpu'.pc.at.of = k
  BY <1>7, PlaceFacts DEF AtGroup
<1>10. TypeOK'
  BY <1>6, <1>7, <1>8 DEF XInv, TypeOK, Modes
<1>11. Masked'
  <2>1. \A n \in Modes \ {"FIQ"} : bank'[n].lr.at.of \notin Vector
    BY <1>2, <1>4, <1>8 DEF XInv, Masked
  <2>2. k = "FIQ" => Saved(bank'["FIQ"].lr, bank'["FIQ"].spsr)
    BY <1>2, <1>3, <1>4, <1>8 DEF XInv, Masked, Saved
  <2> QED
    BY <2>1, <2>2, <1>5, <1>6, <1>7, <1>9 DEF XInv, Masked
<1>12. Logical' /\ SwitchedOut' /\ Starting' /\ ReturnAddress'
  BY <1>6, <1>9 DEF XInv, Logical, SwitchedOut, Starting, ReturnAddress, Up
<1>13. Correctable'
  BY <1>3, <1>4, <1>8, <1>9 DEF Correctable
<1>14. Running'
  <2>1. SUFFICES ASSUME fiqs' = 0 PROVE Running'
    BY DEF Running
  <2>2. k # "FIQ" /\ cpu = logical[running] /\ cpu'.pc.at.of # "FIQ"
    BY <2>1, <1>9 DEF XInv, Running
  <2>3. Progress(k)'
    BY <2>2, <1>6, <1>7, <1>8, <1>9 DEF Progress, from
  <2>4. \A h \in Vector \ {k} : Progress(h)'
    BY <1>9 DEF Progress
  <2> QED
    BY <2>2, <2>3, <2>4, <1>9 DEF Running
<1> QED
  BY <1>10, <1>11, <1>12, <1>13, <1>14 DEF XInv

\* A program in user mode is not in a vector, nor is a core that takes IRQs.
LEMMA Outside ==
  ASSUME XInv, cpu.cpsr.mode = "USR" \/ ~cpu.cpsr.I
  PROVE  cpu.pc.at.of \notin Vector
BY DEF XInv, Masked

\* A step outside the vectors that ends outside them.
LEMMA OutsideStep ==
  ASSUME XInv, cpu.pc.at.of \notin Vector,
         cpu' \in Registers, cpu'.pc.at.of \notin Vector,
         gic' \in Gic, logical' \in [Program -> Registers], Logical',
         ~Up' => ~Up,
         fiqs = 0 => SwitchedOut',
         fiqs = 0 /\ Up' => cpu' = logical'[running],
         UNCHANGED <<bank, context, pcb, running, frame, pending, active, fiqs>>
  PROVE  XInv'
<1>1. \A h \in Vector : \A l : ~AtGroup(h, l)'
  BY PlaceFacts DEF AtGroup
<1>2. TypeOK'
  BY DEF XInv, TypeOK
<1>3. Masked'
  BY <1>1, ModeFacts DEF XInv, Masked, Saved, Vector
<1>4. Correctable' /\ ReturnAddress'
  BY <1>1 DEF Correctable, ReturnAddress, Vector
<1>5. Starting' /\ SwitchedOut'
  BY DEF XInv, Starting, SwitchedOut
<1>6. Running'
  <2>1. \A h \in Vector : Progress(h)'
    BY <1>1 DEF Progress
  <2> QED
    BY <2>1 DEF Running, Vector
<1> QED
  BY <1>2, <1>3, <1>4, <1>5, <1>6 DEF XInv

LEMMA ExecuteStep ==
  ASSUME XInv, Execute
  PROVE  XInv'
<1>1. Up /\ cpu.pc.at.of \notin Vector /\ running \in Program
      /\ logical \in [Program -> Registers]
  BY Outside DEF Execute, InProgram, XInv, TypeOK
<1>2. PICK v \in {0, 1} : /\ cpu' = Fresh(running, v)
                          /\ logical' = [logical EXCEPT ![running] = Fresh(running, v)]
  BY DEF Execute
<1>3. /\ cpu' \in Registers /\ cpu'.pc.at.of = running /\ cpu'.pc.late = 0
      /\ cpu'.cpsr = UserPsr
  BY <1>1, <1>2, FreshFacts
<1>4. UNCHANGED <<bank, context, pcb, running, frame, gic, pending, active, fiqs>>
  BY DEF Execute
<1>5. /\ logical' \in [Program -> Registers] /\ logical'[running] = cpu'
      /\ \A p \in Program \ {running} : logical'[p] = logical[p]
  BY <1>1, <1>2, <1>3
<1>6. Logical'
  BY <1>3, <1>5, <1>1 DEF XInv, Logical
<1>7. fiqs = 0 => SwitchedOut'
  BY <1>4, <1>5 DEF XInv, SwitchedOut
<1>8. cpu'.pc.at.of \notin Vector /\ Up' /\ gic' \in Gic
  BY <1>1, <1>3, <1>4, TokenFacts DEF Up, XInv, TypeOK
<1> QED
  BY <1>1, <1>3, <1>4, <1>5, <1>6, <1>7, <1>8, OutsideStep

LEMMA SetupStep ==
  ASSUME XInv, NEW i \in 0..7, NEW g \in Gic, Setup(i, g), Quiet,
         cpu' \in Registers,
         i < 7 => cpu'.pc = cpu.pc,
         i = 7 => cpu' = logical[First]
  PROVE  XInv'
<1>1. gic.step = i /\ gic' = [g EXCEPT !.step = i + 1]
  BY DEF Setup
<1>2. gic' \in Gic /\ gic'.step = i + 1
  BY <1>1 DEF Gic
<1>3. ~Up /\ (Up' <=> i = 7)
  BY <1>1, <1>2 DEF Up
<1>4. running = First /\ fiqs = 0
  BY <1>3 DEF XInv, Starting
<1>5. cpu.pc.at.of \notin Vector
  BY <1>3 DEF XInv, Starting
<1>7. cpu'.pc.at.of \notin Vector
  <2>1. CASE i < 7
    BY <2>1, <1>5
  <2>2. CASE i = 7
    BY <2>2, ProgramAssumption, TokenFacts DEF XInv, Logical
  <2> QED
    BY <2>1, <2>2
<1>8. UNCHANGED <<bank, context, pcb, running, frame, pending, active, logical, fiqs>>
  BY DEF Quiet
<1>9. logical' \in [Program -> Registers] /\ Logical' /\ SwitchedOut'
  BY <1>8 DEF XInv, TypeOK, Logical, SwitchedOut
<1> QED
  BY <1>2, <1>3, <1>4, <1>5, <1>7, <1>8, <1>9, OutsideStep

LEMMA InterruptInitStep ==
  ASSUME XInv, InterruptInit
  PROVE  XInv'
<1>1. gic \in Gic /\ cpu \in Registers /\ cpu.cpsr \in Psr /\ cpu.pc \in Address
  BY RegisterFields DEF XInv, TypeOK
<1>2. CASE prepare_ICDDCR
  <2>1. [gic EXCEPT !.dcr = TRUE] \in Gic
    BY <1>1 DEF Gic
  <2> QED
    BY <1>1, <1>2, <2>1, SetupStep DEF prepare_ICDDCR
<1>3. CASE prepare_ICDIPTR
  <2>1. [gic EXCEPT !.target = {l \in Line : Targeted(l)}] \in Gic
    BY <1>1 DEF Gic
  <2> QED
    BY <1>1, <1>3, <2>1, SetupStep DEF prepare_ICDIPTR
<1>4. CASE prepare_ICDIPR
  <2>1. [gic EXCEPT !.priority = 4] \in Gic
    BY <1>1 DEF Gic
  <2> QED
    BY <1>1, <1>4, <2>1, SetupStep DEF prepare_ICDIPR
<1>5. CASE prepare_ICDISER
  <2>1. [gic EXCEPT !.enabled = Line] \in Gic
    BY <1>1 DEF Gic
  <2> QED
    BY <1>1, <1>5, <2>1, SetupStep DEF prepare_ICDISER
<1>6. CASE prepare_ICCPMR
  <2>1. [gic EXCEPT !.pmr = 255] \in Gic
    BY <1>1 DEF Gic
  <2> QED
    BY <1>1, <1>6, <2>1, SetupStep DEF prepare_ICCPMR
<1>7. CASE prepare_ICCICR
  <2>1. [gic EXCEPT !.icr = TRUE] \in Gic
    BY <1>1 DEF Gic
  <2> QED
    BY <1>1, <1>7, <2>1, SetupStep DEF prepare_ICCICR
<1>8. CASE asm_sctlr
  <2> DEFINE psr == [cpu.cpsr EXCEPT !.I = FALSE, !.F = FALSE]
  <2>1. psr \in Psr /\ psr.mode = cpu.cpsr.mode
    BY <1>1 DEF Psr
  <2>2. cpu' = [cpu EXCEPT !.cpsr = psr]
    BY <1>1, <1>8 DEF asm_sctlr, Registers
  <2> HIDE DEF psr
  <2>3. cpu' \in Registers /\ cpu'.pc = cpu.pc /\ cpu'.cpsr = psr
    BY <1>1, <2>1, <2>2 DEF Registers
  <2> QED
    BY <1>1, <1>8, <2>1, <2>3, SetupStep DEF asm_sctlr
<1>9. CASE init_context_container
  <2>1. logical[First] \in Registers
    BY ProgramAssumption DEF XInv, TypeOK
  <2> QED
    BY <1>1, <1>9, <2>1, SetupStep DEF init_context_container
<1> QED
  BY <1>2, <1>3, <1>4, <1>5, <1>6, <1>7, <1>8, <1>9 DEF InterruptInit

-----------------------------------------------------------------------------
(* The invariant and what it says of the kernel.                           *)

LEMMA RaiseStep ==
  ASSUME XInv, NEW l \in Line, Raise(l)
  PROVE  XInv'
<1>1. UNCHANGED <<cpu, bank, context, pcb, running, frame, gic, active, logical, fiqs>>
      /\ pending' \subseteq Line
  BY DEF Raise, XInv, TypeOK
<1>2. TypeOK'
  BY <1>1 DEF XInv, TypeOK
<1>3. \A h, i : AtGroup(h, i)' <=> AtGroup(h, i)
  BY <1>1 DEF AtGroup
<1>4. Masked' /\ Logical' /\ Correctable' /\ ReturnAddress'
  BY <1>1, <1>3 DEF XInv, Masked, Logical, Correctable, ReturnAddress
<1>5. \A k \in Vector : Progress(k)' <=> Progress(k)
  BY <1>1, <1>3 DEF Progress, Kept
<1>6. Starting' /\ Running' /\ SwitchedOut'
  BY <1>1, <1>5 DEF XInv, Starting, Running, SwitchedOut, Up
<1> QED
  BY <1>2, <1>4, <1>6 DEF XInv

LEMMA EarlyStep ==
  ASSUME XInv, EarlyException
  PROVE  XInv'
<1> DEFINE psr == [mode |-> "ABT", I |-> TRUE, F |-> cpu.cpsr.F]
<1>1. /\ cpu \in Registers /\ cpu.cpsr \in Psr /\ cpu.cpsr.F \in BOOLEAN
      /\ gic \in Gic /\ gic.step = 7 /\ logical \in [Program -> Registers]
  BY RegisterFields DEF XInv, TypeOK, EarlyException
<1>2. psr \in Psr
  BY <1>1, ModeFacts DEF Psr, Mode, ModeOf, Vector
<1>3. cpu' = [cpu EXCEPT !.pc = NullContext, !.cpsr = psr]
  BY <1>1 DEF EarlyException, Registers
<1> HIDE DEF psr
<1>4. NullContext \in Address /\ NullContext.at.of = "KERNEL"
  BY DEF NullContext, At, Address, Val
<1>5. cpu' \in Registers /\ cpu'.pc.at.of \notin Vector
  <2>1. cpu'.pc = NullContext /\ cpu' \in Registers
    BY <1>1, <1>2, <1>3, <1>4 DEF Registers
  <2> QED
    BY <1>4, <2>1 DEF Vector
<1>6. UNCHANGED <<bank, context, pcb, running, frame, gic, pending, active, logical, fiqs>>
  BY DEF EarlyException
<1>7. ~Up /\ ~Up'
  BY <1>1, <1>6 DEF Up
<1>8. cpu.pc.at.of \notin Vector
  BY <1>7 DEF XInv, Starting
<1>9. Logical' /\ SwitchedOut' /\ gic' \in Gic /\ logical' \in [Program -> Registers]
  BY <1>1, <1>6 DEF XInv, Logical, SwitchedOut
<1> QED
  BY <1>5, <1>6, <1>7, <1>8, <1>9, OutsideStep

LEMMA SpinStep ==
  ASSUME XInv, Spin
  PROVE  XInv'
<1>1. PICK k \in {"SVC", "IRQ"} : AtGroup(k, 5) /\ cpu' = [cpu EXCEPT !.pc = At(k, 0)]
  BY DEF Spin
<1>2. k \in Vector
  BY DEF Vector
<1>3. cpu \in Registers /\ cpu.cpsr.I /\ cpu.cpsr.mode # "USR"
  BY <1>1, <1>2, InVector
<1>4. At(k, 0) \in Address
  BY <1>2, PlaceFacts
<1>5. cpu' \in Registers /\ cpu'.pc = At(k, 0) /\ cpu'.cpsr = cpu.cpsr
  BY <1>1, <1>3, <1>4 DEF Registers
<1>6. \A l : AtGroup(k, l)' <=> l = 0
  BY <1>2, <1>5, PlaceFacts DEF AtGroup
<1>7. Progress(k)'
  BY <1>6 DEF Progress
<1>8. UNCHANGED <<bank, context, pcb, running, frame, gic, pending, active, logical, fiqs>>
  BY DEF Spin
<1>9. PICK i \in 0..7, j \in {0, 3, 4, 7} : i = 5 /\ j = 0
  OBVIOUS
<1>10. /\ AtGroup(k, i) /\ cpu'.pc = At(k, j) /\ cpu'.cpsr.I /\ cpu'.cpsr.mode # "USR"
       /\ j # 3 /\ j # 4
  BY <1>1, <1>3, <1>5, <1>9
<1> QED
  BY <1>2, <1>5, <1>7, <1>8, <1>10, RegistersOnly

LEMMA HandlerStep ==
  ASSUME XInv, Handler
  PROVE  XInv'
<1>1. ASSUME NEW k \in Vector, Save(k) \/ SwitchMode(k) \/ NewStack(k) \/ Restore(k) \/ Return(k)
      PROVE  XInv'
  BY <1>1, SaveStep, SwitchModeStep, NewStackStep, RestoreStep, ReturnStep
<1>2. CASE EnterSvc \/ EnterFiq \/ \E k \in Fatal : EnterFatal(k)
  <2>1. PICK k \in Vector : Entered(k) /\ UNCHANGED <<pending, active>>
    BY <1>2 DEF EnterSvc, EnterFiq, EnterFatal, Vector, Fatal
  <2>2. pending' \subseteq Line /\ active' \subseteq Line
    BY <2>1 DEF XInv, TypeOK
  <2> QED
    BY <2>1, <2>2, EnteredStep
<1>3. CASE EnterIrq
  <2>1. "IRQ" \in Vector /\ Entered("IRQ") /\ pending' \subseteq Line /\ active' \subseteq Line
    BY <1>3 DEF EnterIrq, Vector, XInv, TypeOK
  <2> QED
    BY <2>1, EnteredStep
<1>4. CASE OtherLine
  <2>1. /\ AtGroup("IRQ", 5) /\ Leave(context["IRQ"]) /\ active' \subseteq Line
        /\ UNCHANGED <<bank, context, pcb, running, frame, gic, pending, logical, fiqs>>
    BY <1>4 DEF OtherLine, EndOfInterrupt
  <2> QED
    BY <2>1, PlainLeaveStep
<1>5. CASE LeaveFiq
  <2>1. /\ AtGroup("FIQ", 5) /\ Leave(context["FIQ"]) /\ active' \subseteq Line
        /\ UNCHANGED <<bank, context, pcb, running, frame, gic, pending, logical, fiqs>>
    BY <1>5 DEF LeaveFiq, XInv, TypeOK
  <2> QED
    BY <2>1, PlainLeaveStep
<1> QED
  BY <1>1, <1>2, <1>3, <1>4, <1>5, CallStep, ExecCallStep, SpinStep, SchedMainStep DEF Handler

LEMMA NextX == XInv /\ [Next]_vars => XInv'
<1> SUFFICES ASSUME XInv, [Next]_vars PROVE XInv'
  OBVIOUS
<1>1. fiqs \in 0..FiqBound /\ FiqBound \in Nat
  BY FaultAssumption DEF XInv, TypeOK
<1>2. CASE SupervisorCall
  <2>1. Up /\ cpu.pc.at.of \notin Vector /\ Enter("SVC") /\ fiqs' = fiqs /\ "SVC" \in Vector
    BY <1>2, Outside DEF SupervisorCall, InProgram, Vector
  <2> QED
    BY <1>1, <2>1, EnterStep
<1>3. CASE TakeIrq
  <2>1. Up /\ cpu.pc.at.of \notin Vector /\ Enter("IRQ") /\ fiqs' = fiqs /\ "IRQ" \in Vector
    BY <1>3, Outside DEF TakeIrq, Vector
  <2> QED
    BY <1>1, <2>1, EnterStep
<1>4. CASE TakeFiq
  <2>1. Up /\ Enter("FIQ") /\ "FIQ" \in Vector /\ fiqs' \in 0..FiqBound /\ fiqs' # 0
    BY <1>1, <1>4 DEF TakeFiq, Vector
  <2> QED
    BY <2>1, EnterStep
<1>5. CASE Fault
  <2>1. PICK k \in Fatal : Enter(k)
    BY <1>5 DEF Fault
  <2>2. Up /\ cpu.pc.at.of \notin Vector /\ fiqs' = fiqs /\ k \in Vector /\ k # "FIQ"
    BY <1>5, Outside DEF Fault, InProgram, Vector, Fatal
  <2> QED
    BY <1>1, <2>1, <2>2, EnterStep
<1>6. CASE UNCHANGED vars
  <2>1. UNCHANGED <<cpu, bank, context, pcb, running, frame, gic, pending, active, logical, fiqs>>
    BY <1>6 DEF vars
  <2> QED
    BY <2>1 DEF XInv, TypeOK, Masked, Saved, Logical, Correctable, ReturnAddress, Starting,
                Running, Progress, Kept, SwitchedOut, AtGroup, Up
<1> QED
  BY <1>2, <1>3, <1>4, <1>5, <1>6, InterruptInitStep, ExecuteStep, RaiseStep,
     EarlyStep, HandlerStep DEF Next

\* The invariant of the exception code: where the registers of the running
\* program are at every group of every vector, and what a FIQ may interrupt.
THEOREM ExceptionInvariance == Spec => []XInv
BY InitX, NextX, PTL DEF Spec

LEMMA InvariantIntact == XInv => ContextsIntact
<1> SUFFICES ASSUME XInv PROVE ContextsIntact
  OBVIOUS
<1>1. RegistersIntact
  BY Outside DEF RegistersIntact, InProgram, XInv, Running
<1>2. SwitchedOutIntact
  BY DEF SwitchedOutIntact, XInv, SwitchedOut
<1>3. StackUndisturbed
  BY DEF StackUndisturbed, XInv, ReturnAddress, Vector
<1> QED
  BY <1>1, <1>2, <1>3 DEF ContextsIntact, XInv

\* Entry, context switch and exit (interrupt_vector.S, sched_main, _exec) give
\* every program its registers back and keep the word on the system stack, for
\* any programs, lines and FIQs.
THEOREM ContextsPreserved == Spec => []ContextsIntact
BY ExceptionInvariance, InvariantIntact, PTL
=============================================================================
