-------------------------------- MODULE Delay --------------------------------
(***************************************************************************)
(* The delays of Driver/System/delay.c.  They watch SysTick, a counter     *)
(* that runs from LOAD down to 0 and starts again, between any two reads   *)
(* of it as far as one likes: the caller may be pre-empted.                *)
(*                                                                         *)
(* Numbers have the width of the code's u32: they wrap at W.               *)
(***************************************************************************)
EXTENDS Integers

CONSTANTS
  W,           \* 2^32
  fac_us,      \* cycles per microsecond: 168
  fac_ms,      \* milliseconds per tick of the kernel: 1
  UsPerMs,     \* 1000
  Args,        \* the arguments of each function, by name
  Horizon      \* elapsed stops here

Functions == {"delay_us", "delay_ms", "delay_xms"}

ASSUME WidthAssumption == W \in Nat \ {0} /\ Horizon \in Nat
ASSUME FactorAssumption ==
  /\ fac_us \in Nat \ {0} /\ fac_ms \in Nat \ {0} /\ UsPerMs \in Nat \ {0}
  /\ fac_us * (UsPerMs * fac_ms) < W
ASSUME ArgsAssumption == Args \in [Functions -> SUBSET (0..(W - 1))]

VARIABLES
  running,   \* whether the scheduler has been started
  VAL,       \* SysTick->VAL
  pc,        \* where the caller is
  fn, arg,   \* the call: function and argument
  sleep,     \* ticks until vTaskDelay returns
  i,         \* the loop counter of delay_xms
  nus,       \* the argument of the current delay_us
  ticks, told, tcnt,   \* its variables
  elapsed    \* cycles since the call began, up to Horizon

vars == <<running, VAL, pc, fn, arg, sleep, i, nus, ticks, told, tcnt, elapsed>>

count == <<ticks, told, tcnt>>

-----------------------------------------------------------------------------
(* delay_init sets LOAD to the cycles of a tick, a period one cycle too    *)
(* long; the kernel sets it again, one lower, when it starts.              *)
Reload == fac_us * (UsPerMs * fac_ms)
LOAD   == IF running THEN Reload - 1 ELSE Reload
Period == LOAD + 1

(* What delay_us(n), delay_ms(n) and delay_xms(n) do first. *)
Call(f, n) ==
  /\ pc = "idle"
  /\ fn' = f /\ arg' = n
  /\ elapsed' = 0
  /\ \/ /\ f = "delay_us"
        /\ pc' = "enter" /\ nus' = n
        /\ UNCHANGED <<sleep, i>>
     \/ /\ f = "delay_ms" /\ running /\ n >= fac_ms
        /\ pc' = "sleep" /\ sleep' = n \div fac_ms
        /\ UNCHANGED <<nus, i>>
     \/ /\ f = "delay_ms" /\ ~(running /\ n >= fac_ms)
        /\ pc' = "enter"
        /\ nus' = ((IF running THEN n % fac_ms ELSE n) * UsPerMs) % W
        /\ UNCHANGED <<sleep, i>>
     \/ /\ f = "delay_xms"
        /\ pc' = "loop" /\ i' = 0
        /\ UNCHANGED <<sleep, nus>>
  /\ UNCHANGED <<running, VAL, count>>

(* vTaskDelay returns; what is left of the milliseconds is counted. *)
Awake ==
  /\ pc = "sleep" /\ sleep = 0
  /\ pc' = "enter" /\ nus' = ((arg % fac_ms) * UsPerMs) % W
  /\ UNCHANGED <<running, VAL, fn, arg, sleep, i, count, elapsed>>

(* Mutant of Loop: the number of rounds is not looked at. *)
LoopForever ==
  /\ pc = "loop"
  /\ pc' = "enter" /\ nus' = UsPerMs /\ i' = i + 1
  /\ UNCHANGED <<running, VAL, fn, arg, sleep, count, elapsed>>

(* One round of the loop of delay_xms, or its end. *)
Loop ==
  /\ pc = "loop"
  /\ IF i < arg THEN pc' = "enter" /\ nus' = UsPerMs /\ i' = i + 1
                ELSE pc' = "idle" /\ i' = 0 /\ UNCHANGED nus
  /\ UNCHANGED <<running, VAL, fn, arg, sleep, count, elapsed>>

(* The first lines of delay_us. *)
Enter ==
  /\ pc = "enter"
  /\ ticks' = (nus * fac_us) % W
  /\ told' = VAL /\ tcnt' = 0
  /\ pc' = "count"
  /\ UNCHANGED <<running, VAL, fn, arg, sleep, i, nus, elapsed>>

(* Cycles from the last value read to tnow. *)
Passed(tnow) == IF tnow < told THEN told - tnow ELSE LOAD - tnow + told

(* delay_us returns: to the loop of delay_xms or to the caller. *)
Return ==
  /\ pc' = IF fn = "delay_xms" THEN "loop" ELSE "idle"
  /\ nus' = 0 /\ ticks' = 0 /\ told' = 0 /\ tcnt' = 0

(* Adding up what has passed since the last read ends the delay when it is *)
(* enough.                                                                 *)
Add(sum) == IF sum < ticks THEN tcnt' = sum /\ told' = VAL /\ UNCHANGED <<pc, nus, ticks>>
                           ELSE Return

(* Mutant of Count: the last value read is not remembered. *)
CountKeepsTold ==
  /\ pc = "count" /\ VAL # told
  /\ IF tcnt + Passed(VAL) < ticks THEN tcnt' = tcnt + Passed(VAL) /\ UNCHANGED <<pc, nus, ticks, told>>
                                   ELSE Return
  /\ UNCHANGED <<running, VAL, fn, arg, sleep, i, elapsed>>

(* Mutant of Count: the delay waits for the exact count. *)
CountExactly ==
  /\ pc = "count" /\ VAL # told
  /\ LET sum == (tcnt + Passed(VAL)) % W
     IN  IF sum # ticks THEN tcnt' = sum /\ told' = VAL /\ UNCHANGED <<pc, nus, ticks>>
                        ELSE Return
  /\ UNCHANGED <<running, VAL, fn, arg, sleep, i, elapsed>>

(* A round of the loop of delay_us that reads another value than the last; *)
(* one that reads the same value changes nothing.                          *)
Count ==
  /\ pc = "count" /\ VAL # told
  /\ Add((tcnt + Passed(VAL)) % W)
  /\ UNCHANGED <<running, VAL, fn, arg, sleep, i, elapsed>>

(* A cycle of SysTick.  On reaching 0 it raises the tick interrupt, which  *)
(* a sleeping caller counts.                                               *)
Cycle ==
  /\ VAL' = IF VAL = 0 THEN LOAD ELSE VAL - 1
  /\ elapsed' = IF pc # "idle" /\ elapsed < Horizon THEN elapsed + 1 ELSE elapsed
  /\ sleep' = IF VAL' = 0 /\ sleep > 0 THEN sleep - 1 ELSE sleep
  /\ UNCHANGED <<running, pc, fn, arg, i, nus, count>>

Init ==
  /\ running \in BOOLEAN
  /\ VAL \in 0..LOAD
  /\ pc = "idle" /\ fn \in Functions /\ arg = 0
  /\ sleep = 0 /\ i = 0 /\ nus = 0
  /\ ticks = 0 /\ told = 0 /\ tcnt = 0
  /\ elapsed = 0

Caller == Awake \/ Loop \/ Enter

Next ==
  \/ \E f \in Functions : \E n \in Args[f] : Call(f, n)
  \/ Caller \/ Count \/ Cycle

(* The counter runs, and a caller that is ready runs.  It reads another    *)
(* value again and again, since a round of the loop is much shorter than   *)
(* a period: reads exactly a period apart do not go on for ever.           *)
Fairness == WF_vars(Cycle) /\ WF_vars(Caller) /\ SF_vars(Count)

Spec == Init /\ [][Next]_vars /\ Fairness

-----------------------------------------------------------------------------
(* Every variable has its type. *)
TypeOK ==
  /\ running \in BOOLEAN
  /\ VAL \in 0..LOAD
  /\ pc \in {"idle", "sleep", "loop", "enter", "count"}
  /\ fn \in Functions /\ arg \in 0..(W - 1)
  /\ sleep \in 0..(W - 1) /\ i \in 0..(W - 1)
  /\ nus \in 0..(W - 1) /\ ticks \in 0..(W - 1) /\ tcnt \in 0..(W - 1)
  /\ told \in 0..LOAD
  /\ elapsed \in 0..Horizon

(* What a caller of f(n) asks for, in cycles: n microseconds or            *)
(* milliseconds; the first tick of a sleep may come at once.               *)
Asked(f, n) ==
  CASE f = "delay_us"  -> n * fac_us
    [] f = "delay_xms" -> n * (UsPerMs * fac_us)
    [] f = "delay_ms" /\ ~running -> (n * UsPerMs) * fac_us
    [] f = "delay_ms" /\ running  -> (n \div fac_ms - 1) * Period + ((n % fac_ms) * UsPerMs) * fac_us

(* A delay never ends before its time, however often the counter starts    *)
(* again and however long the caller is held (delay.c:46).                 *)
NeverEarly == pc = "idle" => elapsed >= Asked(fn, arg)

(* A delay ends, unless its count comes within a period of the width: then *)
(* the sum can jump over it (delay.c:61).                                  *)
Ends == pc # "idle" ~> (pc = "idle" \/ (pc = "count" /\ ticks + LOAD >= W))

=============================================================================
