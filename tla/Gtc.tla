-------------------------------- MODULE Gtc ---------------------------------
(***************************************************************************)
(* The global timer of the Cortex-A9 and the delays that spin on it        *)
(* (drivers/clock/gtc-a9mpcore.c).  The counter is read in two halves, of  *)
(* Radix values each (2^32 in the chip), while it runs.                    *)
(***************************************************************************)
EXTENDS Naturals

CONSTANTS Radix,       \* the values of a half of the counter
          GTC_TPS,     \* ticks of a second
          GTC_TPUS,    \* ticks of a microsecond
          CounterBound \* bound: the counter stops there

ASSUME GtcAssumption == {Radix, GTC_TPS, GTC_TPUS, CounterBound} \subseteq Nat \ {0}

VARIABLES
    counter,    \* the counter itself
    delay       \* the running sleep or usleep

gtc_vars == <<counter, delay>>

\* pc: the next read; target: the time waited for, NONE until it is computed.
NONE == CounterBound + 1
Delay == [pc : {"idle", "hi", "lo", "again"}, hi : 0..CounterBound \div Radix, lo : 0..Radix - 1,
          ticks : Nat, target : 0..NONE,
          from : 0..CounterBound]    \* the counter at the call, for properties

GtcTypeOK == counter \in 0..CounterBound /\ delay \in Delay

GtcInit ==
    /\ counter = 0
    /\ delay = [pc |-> "idle", hi |-> 0, lo |-> 0, ticks |-> 0, target |-> NONE, from |-> 0]

Waiting == delay.pc # "idle"

\* The counter runs; only its ticks during a delay are observed.
Tick ==
    /\ Waiting /\ counter < CounterBound
    /\ delay.target = NONE => counter + delay.ticks < CounterBound
    /\ counter' = counter + 1
    /\ UNCHANGED delay

\* sleep and usleep begin; the counter has run on since the last delay.
StartDelay(ticks) ==
    /\ ~Waiting
    /\ \E now \in 0..CounterBound - ticks :
         /\ counter' = now
         /\ delay' = [delay EXCEPT !.pc = "hi", !.ticks = ticks, !.target = NONE,
                                   !.from = now]

sleep(sec) == StartDelay(GTC_TPS * sec)
usleep(usec) == StartDelay(GTC_TPUS * usec)

ReadHi ==
    /\ delay.pc = "hi"
    /\ delay' = [delay EXCEPT !.hi = counter \div Radix, !.pc = "lo"]
    /\ UNCHANGED counter

ReadLo ==
    /\ delay.pc = "lo"
    /\ delay' = [delay EXCEPT !.lo = counter % Radix, !.pc = "again"]
    /\ UNCHANGED counter

\* Mutant of Consistent: the second read of the upper half is ignored.
AlwaysConsistent == TRUE

\* hi = tmp: no carry since the first read.
Consistent == delay.hi = counter \div Radix

\* gtc_get_time returns, to be added to the ticks or to be compared.
ReadAgain ==
    /\ delay.pc = "again"
    /\ LET time == delay.hi * Radix + delay.lo IN
       delay' = CASE ~Consistent -> [delay EXCEPT !.pc = "hi"]
                  [] Consistent /\ delay.target = NONE ->
                       [delay EXCEPT !.pc = "hi", !.target = time + delay.ticks]
                  [] Consistent /\ delay.target # NONE ->
                       [delay EXCEPT !.pc = IF time < delay.target THEN "hi" ELSE "idle"]
    /\ UNCHANGED counter

GtcNext == Tick \/ ReadHi \/ ReadLo \/ ReadAgain

\* Any sequence of delays, for the proofs.
GtcCall == \E n \in Nat : sleep(n) \/ usleep(n)
GtcSpec == GtcInit /\ [][GtcNext \/ GtcCall]_gtc_vars

\* The counter runs and so does the core.
GtcFair == WF_gtc_vars(Tick) /\ WF_gtc_vars(ReadHi \/ ReadLo \/ ReadAgain)

-----------------------------------------------------------------------------
\* sleep and usleep wait for at least the time asked for, wherever in the
\* three reads the counter carries from one half to the other.
SleptLongEnough == [][Waiting /\ delay'.pc = "idle" => counter >= delay.from + delay.ticks]_gtc_vars
=============================================================================
