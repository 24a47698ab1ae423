----------------------------- MODULE DelayProofs -----------------------------
(***************************************************************************)
(* Type correctness of the delays, and that none ends before its time, for *)
(* every width, factor and period.                                         *)
(***************************************************************************)
EXTENDS Delay, TLAPS

(* The products that the code forms fit the width. *)
InRange ==
  /\ \A n \in Args["delay_us"] : n * fac_us < W
  /\ \A n \in Args["delay_ms"] : \A m \in {n, n % fac_ms} : m * UsPerMs < W /\ (m * UsPerMs) * fac_us < W
  /\ UsPerMs * fac_us < W

(* elapsed goes far enough to tell. *)
Tells ==
  /\ \A n \in Args["delay_us"]  : n * fac_us <= Horizon
  /\ \A n \in Args["delay_xms"] : n * (UsPerMs * fac_us) <= Horizon
  /\ \A n \in Args["delay_ms"]  :
       /\ (n * UsPerMs) * fac_us <= Horizon
       /\ (n \div fac_ms - 1) * Reload + ((n % fac_ms) * UsPerMs) * fac_us <= Horizon

(* Of the call in progress, the argument of the current delay_us and the   *)
(* cycles that its finished parts have taken at least.                     *)
Part ==
  CASE fn = "delay_us"  -> arg
    [] fn = "delay_xms" -> UsPerMs
    [] fn = "delay_ms" /\ ~running -> arg * UsPerMs
    [] fn = "delay_ms" /\ running  -> (arg % fac_ms) * UsPerMs

Sure ==
  CASE fn = "delay_us"  -> 0
    [] fn = "delay_xms" -> (IF pc = "loop" THEN i ELSE i - 1) * (UsPerMs * fac_us)
    [] fn = "delay_ms" /\ ~running -> 0
    [] fn = "delay_ms" /\ running  -> (arg \div fac_ms - 1) * Period

(* Of a sleep: each tick but the first is a period after the one before.   *)
Slept == (arg \div fac_ms - sleep - 1) * Period + (IF VAL = 0 THEN 0 ELSE Period - VAL)

(* The cycles since told was read, when the counter wrapped as seldom as   *)
(* it can have.                                                            *)
Since == IF VAL <= told THEN told - VAL ELSE told - VAL + Period

Places ==
  /\ pc = "loop"  => fn = "delay_xms"
  /\ pc = "sleep" => fn = "delay_ms" /\ running
  /\ arg \in Args[fn] \/ (pc = "idle" /\ arg = 0)
  /\ pc # "sleep" => sleep = 0
  /\ fn = "delay_xms" /\ pc = "loop" => i <= arg
  /\ fn = "delay_xms" /\ pc \in {"enter", "count"} => i \in 1..arg

(* What the current delay_us counts to. *)
Target ==
  /\ pc \in {"enter", "count"} => nus = Part
  /\ pc = "count" => ticks = nus * fac_us

Bound ==
  \/ elapsed = Horizon
  \/ /\ pc \in {"loop", "enter"} => elapsed >= Sure
     /\ pc = "sleep" => elapsed >= Slept
     /\ pc = "count" => elapsed >= Sure + tcnt + Since
     /\ pc = "idle"  => elapsed >= Asked(fn, arg)

-----------------------------------------------------------------------------
USE WidthAssumption, FactorAssumption, ArgsAssumption

(* A product of positive numbers is positive. *)
LEMMA Product ==
  \A a, b \in Nat \ {0} : a * b \in Nat \ {0}
  OBVIOUS

(* The counter has a first value at least as large as its last. *)
LEMMA LoadType == running \in BOOLEAN => Reload \in Nat \ {0} /\ LOAD \in Nat /\ Period \in Nat \ {0}
<1>1. UsPerMs * fac_ms \in Nat \ {0}
  BY Product
<1>2. Reload \in Nat \ {0}
  BY <1>1, Product DEF Reload
<1> QED
  BY <1>2 DEF LOAD, Period

(* A remainder is smaller than the divisor. *)
LEMMA Remainder == \A a, b \in Nat : b # 0 => a % b \in 0..(b - 1)
  OBVIOUS

LEMMA Quotient == \A a, b \in Nat : b # 0 => a \div b \in 0..a
  OBVIOUS

LEMMA ProductNat == \A a, b \in Nat : a * b \in Nat
  OBVIOUS

(* A product is no smaller than its factors. *)
LEMMA Grow == \A a, b \in Nat \ {0} : a <= a * b /\ b <= a * b
<1> SUFFICES ASSUME NEW a \in Nat \ {0}, NEW b \in Nat \ {0} PROVE a <= a * b /\ b <= a * b
  OBVIOUS
<1>1. a * b = a + a * (b - 1) /\ a * b = b + (a - 1) * b
  OBVIOUS
<1>2. a * (b - 1) \in Nat /\ (a - 1) * b \in Nat
  BY ProductNat
<1> QED
  BY <1>1, <1>2

LEMMA Shorter == UsPerMs < W
<1>1. UsPerMs <= UsPerMs * fac_ms /\ UsPerMs * fac_ms \in Nat \ {0}
  BY Grow, Product
<1>2. UsPerMs * fac_ms <= fac_us * (UsPerMs * fac_ms)
  BY <1>1, Grow
<1> QED
  BY <1>1, <1>2, ProductNat

(* Types are kept by every step. *)
LEMMA TypeStep ==
  ASSUME TypeOK, Places, [Next]_vars
  PROVE  TypeOK'
<1> USE DEF TypeOK
<1>0. LOAD \in Nat
  BY LoadType
<1>1. ASSUME NEW f \in Functions, NEW n \in Args[f], Call(f, n) PROVE TypeOK'
  <2>1. n \in 0..(W - 1) /\ LOAD' = LOAD
    BY <1>1 DEF Call, LOAD
  <2>2. n \div fac_ms \in 0..(W - 1)
    BY <2>1, Quotient
  <2>3. ((IF running THEN n % fac_ms ELSE n) * UsPerMs) % W \in 0..(W - 1)
    BY <2>1, Remainder, ProductNat
  <2> QED
    BY <1>1, <2>1, <2>2, <2>3 DEF Call, count
<1>2. ASSUME Awake PROVE TypeOK'
  <2>1. ((arg % fac_ms) * UsPerMs) % W \in 0..(W - 1) /\ LOAD' = LOAD
    BY <1>2, Remainder, ProductNat DEF Awake, LOAD
  <2> QED
    BY <1>2, <2>1 DEF Awake, count
<1>3. ASSUME Loop PROVE TypeOK'
  <2>1. UsPerMs \in 0..(W - 1) /\ LOAD' = LOAD
    BY <1>3, Shorter DEF Loop, LOAD
  <2>2. i' \in 0..(W - 1)
    BY <1>3 DEF Loop, Places
  <2> QED
    BY <1>3, <2>1, <2>2 DEF Loop, count
<1>4. ASSUME Enter PROVE TypeOK'
  <2>1. (nus * fac_us) % W \in 0..(W - 1) /\ LOAD' = LOAD
    BY <1>4, Remainder, ProductNat DEF Enter, LOAD
  <2> QED
    BY <1>4, <2>1 DEF Enter
<1>5. ASSUME Count PROVE TypeOK'
  <2>1. Passed(VAL) \in Nat
    BY <1>0, <1>5 DEF Count, Passed
  <2>2. (tcnt + Passed(VAL)) % W \in 0..(W - 1)
    <3>1. tcnt + Passed(VAL) \in Nat
      BY <2>1
    <3> HIDE DEF TypeOK
    <3> QED
      BY <3>1, Remainder
  <2>3. /\ LOAD' = LOAD
        /\ tcnt' \in {0, (tcnt + Passed(VAL)) % W} /\ told' \in {0, VAL}
        /\ ticks' \in {0, ticks} /\ nus' \in {0, nus} /\ pc' \in {pc, "loop", "idle"}
    BY <1>5 DEF Count, Add, Return, LOAD
  <2> QED
    BY <1>0, <1>5, <2>2, <2>3 DEF Count
<1>6. ASSUME Cycle PROVE TypeOK'
  BY <1>0, <1>6 DEF Cycle, count, LOAD
<1>7. ASSUME UNCHANGED vars PROVE TypeOK'
  BY <1>7 DEF vars, count, LOAD
<1> QED
  BY <1>1, <1>2, <1>3, <1>4, <1>5, <1>6, <1>7 DEF Next, Caller

(* The counter of rounds and the counter of ticks are used only where they *)
(* are valid.                                                              *)
LEMMA PlacesStep ==
  ASSUME TypeOK, Places, [Next]_vars
  PROVE  Places'
<1> USE DEF Places
<1>1. ASSUME NEW f \in Functions, NEW n \in Args[f], Call(f, n) PROVE Places'
  BY <1>1 DEF Call, TypeOK, Functions
<1>2. ASSUME Awake PROVE Places'
  BY <1>2 DEF Awake, TypeOK
<1>3. ASSUME Loop PROVE Places'
  BY <1>3 DEF Loop, TypeOK
<1>4. ASSUME Enter PROVE Places'
  BY <1>4 DEF Enter, TypeOK
<1>5. ASSUME Count PROVE Places'
  BY <1>5 DEF Count, Add, Return, TypeOK
<1>6. ASSUME Cycle PROVE Places'
  BY <1>6 DEF Cycle, TypeOK
<1>7. ASSUME UNCHANGED vars PROVE Places'
  BY <1>7 DEF vars
<1> QED
  BY <1>1, <1>2, <1>3, <1>4, <1>5, <1>6, <1>7 DEF Next, Caller

LEMMA Start == Init => TypeOK /\ Places
  BY LoadType DEF Init, TypeOK, Places, Functions

(* Every variable of the delays keeps its type, for every width, factor    *)
(* and argument.                                                           *)
THEOREM TypeCorrect == Spec => []TypeOK
<1>1. TypeOK /\ Places /\ [Next]_vars => (TypeOK /\ Places)'
  BY TypeStep, PlacesStep
<1> QED
  BY Start, <1>1, PTL DEF Spec

-----------------------------------------------------------------------------
LEMMA ModSmall == \A a, b \in Nat : a < b => a % b = a
  OBVIOUS

(* The current delay_us counts to the cycles it was asked for. *)
LEMMA TargetStep ==
  ASSUME InRange, TypeOK, Places, Target, [Next]_vars
  PROVE  Target'
<1>1. ASSUME NEW f \in Functions, NEW n \in Args[f], Call(f, n) PROVE Target'
  <2>0. n \in Nat /\ n % fac_ms \in Nat
    BY Remainder
  <2>1. CASE f = "delay_ms"
    <3>1. \A m \in {n, n % fac_ms} : (m * UsPerMs) % W = m * UsPerMs
      BY <2>0, <2>1, ModSmall, ProductNat DEF InRange
    <3>2. (IF running THEN n % fac_ms ELSE n) \in {n, n % fac_ms}
      OBVIOUS
    <3>3. pc' = "enter" => nus' = (IF running THEN n % fac_ms ELSE n) * UsPerMs
      BY <1>1, <2>1, <3>1, <3>2 DEF Call
    <3>4. pc' # "count" /\ fn' = f /\ arg' = n /\ running' = running
      BY <1>1 DEF Call
    <3> QED
      BY <2>1, <3>3, <3>4 DEF Target, Part, TypeOK
  <2>2. CASE f # "delay_ms"
    BY <1>1, <2>2 DEF Call, Target, Part
  <2> QED
    BY <2>1, <2>2
<1>2. ASSUME Awake PROVE Target'
  <2>0. arg \in Args["delay_ms"] /\ arg \in Nat /\ arg % fac_ms \in Nat
    BY <1>2, Remainder DEF Awake, Places, TypeOK
  <2>1. ((arg % fac_ms) * UsPerMs) % W = (arg % fac_ms) * UsPerMs
    BY <2>0, ModSmall, ProductNat DEF InRange
  <2> QED
    BY <1>2, <2>1 DEF Awake, Places, Target, Part
<1>3. ASSUME Loop PROVE Target'
  BY <1>3 DEF Loop, Places, Target, Part
<1>4. ASSUME Enter PROVE Target'
  <2>1. nus = Part /\ arg \in Args[fn] /\ arg \in Nat /\ arg % fac_ms \in Nat
    BY <1>4, Remainder DEF Enter, Target, Places, TypeOK
  <2>2. nus * fac_us < W
    <3>1. CASE fn = "delay_us"
      BY <2>1, <3>1 DEF Part, InRange
    <3>2. CASE fn = "delay_xms"
      BY <2>1, <3>2 DEF Part, InRange
    <3>3. CASE fn = "delay_ms"
      BY <2>1, <3>3 DEF Part, InRange, TypeOK
    <3> QED
      BY <3>1, <3>2, <3>3 DEF TypeOK, Functions
  <2>3. (nus * fac_us) % W = nus * fac_us
    BY <2>2, ModSmall, ProductNat DEF TypeOK
  <2>4. Part' = Part
    BY <1>4 DEF Enter, Part
  <2> QED
    BY <1>4, <2>1, <2>3, <2>4 DEF Enter, Target
<1>5. ASSUME Count PROVE Target'
  BY <1>5 DEF Count, Add, Return, Target, Part
<1>6. ASSUME Cycle PROVE Target'
  BY <1>6 DEF Cycle, Target, Part, count
<1>7. ASSUME UNCHANGED vars PROVE Target'
  BY <1>7 DEF vars, Target, Part, count
<1> QED
  BY <1>1, <1>2, <1>3, <1>4, <1>5, <1>6, <1>7 DEF Next, Caller

(* A round more. *)
LEMMA OneMore == \A a, b \in Int : a * b = (a - 1) * b + b /\ 0 * b = 0 /\ (-1) * b = -b
  OBVIOUS

LEMMA ProductInt == \A a, b \in Int : a * b \in Int
  OBVIOUS

(* A remainder is no larger than what it is of. *)
LEMMA Wrapped == \A a \in Nat : a % W \in Nat /\ a % W <= a
  OBVIOUS

(* Of a sleep, one cycle makes the time it has surely taken no more than   *)
(* one cycle longer: a tick comes at the end of a period.                  *)
LEMMA SleptStep ==
  ASSUME TypeOK, Period' = Period,
         VAL' = IF VAL = 0 THEN LOAD ELSE VAL - 1,
         sleep' = IF VAL' = 0 /\ sleep > 0 THEN sleep - 1 ELSE sleep,
         arg' = arg
  PROVE  Slept' <= Slept + 1 /\ Slept \in Int /\ Slept' \in Int
<1> DEFINE taken == arg \div fac_ms - sleep - 1
<1>1. Period \in Nat \ {0} /\ LOAD \in Nat /\ Period = LOAD + 1 /\ taken \in Int
  BY LoadType, Quotient DEF TypeOK, Period
<1>2. taken * Period \in Int /\ (taken + 1) * Period = taken * Period + Period
  BY <1>1, ProductInt
<1>3. Slept = taken * Period + (IF VAL = 0 THEN 0 ELSE Period - VAL)
  BY DEF Slept
<1>4. taken' \in {taken, taken + 1} /\ (taken' = taken + 1 => VAL' = 0) 
  BY Quotient DEF TypeOK
<1>5. Slept' = taken' * Period + (IF VAL' = 0 THEN 0 ELSE Period - VAL')
  BY DEF Slept
<1>6. VAL \in Nat /\ VAL <= LOAD
  BY <1>1 DEF TypeOK
<1> HIDE DEF taken
<1>7. CASE taken' = taken
  BY <1>1, <1>2, <1>3, <1>5, <1>6, <1>7
<1>8. CASE taken' = taken + 1
  BY <1>1, <1>2, <1>3, <1>4, <1>5, <1>6, <1>8
<1> QED
  BY <1>4, <1>7, <1>8

LEMMA SureType ==
  ASSUME TypeOK
  PROVE  Sure \in Int
<1>1. Period \in Nat /\ arg \div fac_ms \in Nat /\ UsPerMs * fac_us \in Nat
  BY LoadType, Quotient, ProductNat DEF TypeOK
<1>2. (arg \div fac_ms - 1) * Period \in Int
  BY <1>1, ProductInt
<1>3. (IF pc = "loop" THEN i ELSE i - 1) * (UsPerMs * fac_us) \in Int
  BY <1>1, ProductInt DEF TypeOK
<1> QED
  BY <1>2, <1>3 DEF Sure, TypeOK, Functions

(* Reads of the counter never count more cycles than have passed. *)
LEMMA BoundStep ==
  ASSUME InRange, TypeOK, Places, Target, Bound, [Next]_vars
  PROVE  Bound'
<1>0. LOAD \in Nat /\ Period \in Nat \ {0} /\ Period = LOAD + 1 /\ LOAD' = LOAD /\ Period' = Period
  <2>1. running' = running
    BY DEF Next, Caller, Call, Awake, Loop, Enter, Count, Cycle, vars
  <2> QED
    BY <2>1, LoadType DEF TypeOK, LOAD, Period
<1>1. ASSUME NEW f \in Functions, NEW n \in Args[f], Call(f, n) PROVE Bound'
  <2>0. n \in Nat /\ n \div fac_ms \in Nat /\ elapsed' = 0 /\ fn' = f /\ arg' = n /\ running' = running
    BY <1>1, Quotient DEF Call
  <2>1. CASE f = "delay_us"
    BY <1>1, <2>0, <2>1 DEF Call, Bound, Sure
  <2>2. CASE f = "delay_xms"
    <3>1. 0 * (UsPerMs * fac_us) = 0
      BY ProductNat, OneMore
    <3>2. pc' = "loop" /\ i' = 0
      BY <1>1, <2>2 DEF Call
    <3> QED
      BY <2>0, <2>2, <3>1, <3>2 DEF Bound, Sure
  <2>3. CASE f = "delay_ms" /\ running /\ n >= fac_ms
    <3>1. pc' = "sleep" /\ sleep' = n \div fac_ms /\ VAL' = VAL
      BY <1>1, <2>3 DEF Call
    <3>2. n \div fac_ms - n \div fac_ms - 1 = -1
      BY <2>0
    <3>3. (n \div fac_ms - n \div fac_ms - 1) * Period = -Period
      BY <1>0, <3>2, OneMore
    <3>4. Slept' <= 0
      BY <1>0, <2>0, <3>1, <3>3 DEF Slept, TypeOK
    <3> QED
      BY <2>0, <3>1, <3>4 DEF Bound
  <2>4. CASE f = "delay_ms" /\ ~(running /\ n >= fac_ms)
    <3>1. pc' = "enter"
      BY <1>1, <2>4 DEF Call
    <3>2. CASE ~running
      BY <2>0, <2>4, <3>1, <3>2 DEF Bound, Sure
    <3>3. CASE running
      <4>1. n \div fac_ms = 0
        BY <2>0, <2>4, <3>3
      <4>2. (n \div fac_ms - 1) * Period = -Period
        BY <1>0, <4>1, OneMore
      <4> QED
        BY <1>0, <2>0, <2>4, <3>1, <3>3, <4>2 DEF Bound, Sure
    <3> QED
      BY <3>2, <3>3
  <2> QED
    BY <2>1, <2>2, <2>3, <2>4 DEF Functions
<1>2. ASSUME Awake PROVE Bound'
  <2>1. /\ pc = "sleep" /\ sleep = 0 /\ pc' = "enter" /\ fn = "delay_ms" /\ running
        /\ UNCHANGED <<running, VAL, fn, arg, elapsed>>
    BY <1>2 DEF Awake, Places
  <2>2. arg \div fac_ms \in Nat
    BY Quotient DEF TypeOK
  <2>3. (arg \div fac_ms - 0 - 1) * Period = (arg \div fac_ms - 1) * Period
    BY <2>2
  <2>4. (arg \div fac_ms - 1) * Period \in Int
    BY <1>0, <2>2, ProductInt
  <2>5. elapsed # Horizon => elapsed >= (arg \div fac_ms - 1) * Period
    BY <1>0, <2>1, <2>3, <2>4 DEF Bound, Slept, TypeOK
  <2> QED
    BY <1>0, <2>1, <2>5 DEF Bound, Sure
<1>3. ASSUME Loop PROVE Bound'
  <2>1. pc = "loop" /\ fn = "delay_xms" /\ i <= arg /\ UNCHANGED <<fn, arg, elapsed, running>>
    BY <1>3 DEF Loop, Places
  <2>2. CASE i < arg
    <3>1. pc' = "enter" /\ i' - 1 = i
      BY <1>3, <2>2 DEF Loop, TypeOK
    <3> QED
      BY <2>1, <3>1 DEF Bound, Sure
  <2>3. CASE ~(i < arg)
    <3>1. pc' = "idle" /\ i = arg
      BY <1>3, <2>1, <2>3 DEF Loop, TypeOK
    <3> QED
      BY <2>1, <3>1 DEF Bound, Sure, Asked
  <2> QED
    BY <2>2, <2>3
<1>4. ASSUME Enter PROVE Bound'
  <2>1. /\ pc = "enter" /\ pc' = "count" /\ tcnt' = 0 /\ told' = VAL /\ VAL' = VAL
        /\ UNCHANGED <<fn, arg, i, elapsed, running>>
    BY <1>4 DEF Enter
  <2>2. Sure' = Sure /\ Since' = 0
    BY <1>0, <2>1 DEF Sure, Since, TypeOK
  <2>3. Sure \in Int
    BY SureType
  <2> QED
    BY <2>1, <2>2, <2>3 DEF Bound
<1>5. ASSUME Count PROVE Bound'
  <2> DEFINE sum == (tcnt + Passed(VAL)) % W
  <2>1. /\ pc = "count" /\ VAL # told /\ Add(sum)
        /\ UNCHANGED <<running, VAL, fn, arg, i, elapsed>>
    BY <1>5 DEF Count
  <2>2. Passed(VAL) \in Nat /\ Passed(VAL) <= Since
    BY <1>0, <2>1 DEF Passed, Since, TypeOK
  <2>3. sum \in Nat /\ sum <= tcnt + Passed(VAL)
    <3>1. tcnt + Passed(VAL) \in Nat
      BY <2>2 DEF TypeOK
    <3> QED
      BY <3>1, Wrapped
  <2>4. Sure \in Int /\ Since \in Int /\ tcnt \in Nat
    BY <1>0, SureType DEF Since, TypeOK
  <2>5. elapsed = Horizon \/ elapsed >= Sure + sum
    BY <2>1, <2>2, <2>3, <2>4 DEF Bound, TypeOK
  <2> HIDE DEF sum
  <2>6. CASE sum < ticks
    <3>1. pc' = "count" /\ tcnt' = sum /\ told' = VAL
      BY <2>1, <2>6 DEF Add
    <3>2. Since' = 0
      BY <1>0, <2>1, <3>1 DEF Since, TypeOK
    <3>3. Sure' = Sure
      BY <1>0, <2>1, <3>1 DEF Sure
    <3> QED
      BY <2>1, <2>3, <2>4, <2>5, <3>1, <3>2, <3>3 DEF Bound
  <2>7. CASE ~(sum < ticks)
    <3>1. Return /\ ticks \in Nat /\ ticks = Part * fac_us
      BY <2>1, <2>7 DEF Add, Target, TypeOK
    <3>2. elapsed = Horizon \/ elapsed >= Sure + ticks
      BY <2>3, <2>4, <2>5, <2>7, <3>1 DEF TypeOK
    <3>3. CASE fn = "delay_xms"
      <4>1. i * (UsPerMs * fac_us) = (i - 1) * (UsPerMs * fac_us) + UsPerMs * fac_us
        BY ProductNat, OneMore DEF TypeOK
      <4>2. Sure + ticks = i * (UsPerMs * fac_us)
        BY <2>1, <3>1, <3>3, <4>1 DEF Sure, Part
      <4>3. pc' = "loop" /\ Sure' = i * (UsPerMs * fac_us)
        BY <2>1, <3>1, <3>3 DEF Return, Sure
      <4> QED
        BY <2>1, <3>2, <4>2, <4>3 DEF Bound
    <3>4. CASE fn # "delay_xms"
      <4>1. pc' = "idle"
        BY <3>1, <3>4 DEF Return
      <4>2. Asked(fn, arg)' = Asked(fn, arg)
        BY <1>0, <2>1 DEF Asked
      <4>3. Asked(fn, arg) = Sure + ticks
        BY <2>1, <3>1, <3>4 DEF Asked, Sure, Part, TypeOK, Functions
      <4> QED
        BY <2>1, <3>2, <4>1, <4>2, <4>3 DEF Bound
    <3> QED
      BY <3>3, <3>4
  <2> QED
    BY <2>6, <2>7
<1>6. ASSUME Cycle PROVE Bound'
  <2>1. /\ VAL' = IF VAL = 0 THEN LOAD ELSE VAL - 1
        /\ sleep' = IF VAL' = 0 /\ sleep > 0 THEN sleep - 1 ELSE sleep
        /\ UNCHANGED <<running, pc, fn, arg, i, tcnt, told>>
    BY <1>6 DEF Cycle, count
  <2>2. Sure' = Sure /\ Asked(fn, arg)' = Asked(fn, arg)
    BY <1>0, <2>1 DEF Sure, Asked
  <2>3. CASE elapsed = Horizon \/ pc = "idle"
    <3>1. elapsed' = elapsed
      BY <1>6, <2>3 DEF Cycle, TypeOK
    <3> QED
      BY <2>1, <2>2, <2>3, <3>1 DEF Bound
  <2>4. CASE elapsed # Horizon /\ pc # "idle"
    <3>1. elapsed' = elapsed + 1
      BY <1>6, <2>4 DEF Cycle, TypeOK
    <3>2. CASE pc \in {"loop", "enter"}
      BY <2>1, <2>2, <2>4, <3>1, <3>2, SureType DEF Bound, TypeOK
    <3>3. CASE pc = "count"
      <4>1. Since' <= Since + 1 /\ Since \in Int /\ Since' \in Int
        BY <1>0, <2>1 DEF Since, TypeOK
      <4> QED
        BY <2>1, <2>2, <2>4, <3>1, <3>3, <4>1, SureType DEF Bound, TypeOK
    <3>4. CASE pc = "sleep"
      <4>1. Slept' <= Slept + 1 /\ Slept \in Int /\ Slept' \in Int
        BY <1>0, <2>1, SleptStep
      <4> QED
        BY <2>1, <2>4, <3>1, <3>4, <4>1 DEF Bound, TypeOK
    <3> QED
      BY <2>4, <3>2, <3>3, <3>4 DEF TypeOK
  <2> QED
    BY <2>3, <2>4
<1>7. ASSUME UNCHANGED vars PROVE Bound'
  BY <1>0, <1>7 DEF vars, count, Bound, Sure, Slept, Since, Asked
<1> QED
  BY <1>1, <1>2, <1>3, <1>4, <1>5, <1>6, <1>7 DEF Next, Caller

LEMMA AskedType ==
  ASSUME TypeOK
  PROVE  Asked(fn, arg) \in Int
<1>1. /\ arg * fac_us \in Int /\ arg * UsPerMs \in Nat /\ UsPerMs * fac_us \in Nat
      /\ arg \div fac_ms \in Nat /\ Period \in Nat
  BY LoadType, Quotient, ProductNat DEF TypeOK
<1>3. arg % fac_ms \in Nat
  BY Remainder DEF TypeOK
<1>4. ((arg % fac_ms) * UsPerMs) * fac_us \in Nat
  BY <1>3, ProductNat
<1>2. /\ arg * (UsPerMs * fac_us) \in Int /\ (arg * UsPerMs) * fac_us \in Int
      /\ (arg \div fac_ms - 1) * Period \in Int
  BY <1>1, ProductInt, ProductNat DEF TypeOK
<1> QED
  BY <1>1, <1>2, <1>4 DEF Asked, TypeOK, Functions

(* Whoever asks for nothing may have it at once. *)
LEMMA NothingAsked ==
  ASSUME TypeOK
  PROVE  Asked(fn, 0) <= 0
<1>1. /\ 0 * fac_us = 0 /\ 0 * UsPerMs = 0 /\ 0 * (UsPerMs * fac_us) = 0
      /\ 0 \div fac_ms = 0 /\ 0 % fac_ms = 0 /\ Period \in Nat
  BY LoadType, Quotient, Remainder, ProductNat DEF TypeOK
<1>2. (0 - 1) * Period = -Period
  BY <1>1, OneMore
<1> QED
  BY <1>1, <1>2 DEF Asked, TypeOK, Functions

(* A delay never ends before its time (NeverEarly), when the products the  *)
(* code forms fit its width: for every width, factor, period and argument, *)
(* and however long the caller is held between two reads.                  *)
THEOREM DelaysNeverEarly ==
  ASSUME InRange, Tells
  PROVE  Spec => []NeverEarly
<1> DEFINE Inv == TypeOK /\ Places /\ Target /\ Bound
<1>1. Init => Inv
  <2> SUFFICES ASSUME Init PROVE Inv
    OBVIOUS
  <2>1. TypeOK /\ Places /\ Target
    BY Start DEF Init, Target
  <2>2. pc = "idle" /\ arg = 0 /\ elapsed = 0 /\ Asked(fn, 0) <= 0
    BY <2>1, NothingAsked DEF Init
  <2> QED
    BY <2>1, <2>2 DEF Bound
<1>2. Inv /\ [Next]_vars => Inv'
  BY TypeStep, PlacesStep, TargetStep, BoundStep
<1>3. Inv => NeverEarly
  <2> SUFFICES ASSUME Inv, pc = "idle" PROVE elapsed >= Asked(fn, arg)
    BY DEF NeverEarly
  <2>1. CASE elapsed = Horizon /\ arg \in Args[fn]
    <3>1. Asked(fn, arg) <= Horizon
      <4>1. running => Period = Reload
        BY LoadType DEF Period, LOAD, TypeOK
      <4> QED
        BY <2>1, <4>1 DEF Asked, Tells, TypeOK, Functions
    <3> QED
      BY <2>1, <3>1, AskedType DEF TypeOK
  <2>2. CASE arg = 0
    BY <2>2, NothingAsked, AskedType DEF TypeOK
  <2> QED
    BY <2>1, <2>2 DEF Bound, Places
<1> QED
  BY <1>1, <1>2, <1>3, PTL DEF Spec

=============================================================================
