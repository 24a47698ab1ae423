---------------------------- MODULE TasksProofs -----------------------------
(***************************************************************************)
(* The kernel, for any number of tasks with any priorities and delays and  *)
(* any width of the tick count: outside vTaskDelay the highest ready task  *)
(* runs, and every task wakes with the tick it asked for.  The tasks of    *)
(* the firmware are such tasks.  A CAN call returns 1 exactly when its     *)
(* frame has failed.                                                       *)
(***************************************************************************)
EXTENDS Tasks, TLAPS, WellFoundedInduction, NaturalsInduction

USE TaskAssumption, TickAssumption

(* A task is in one list at most. *)
OneList ==
  /\ ready \cap Asleep = {}
  /\ pxDelayedTaskList \cap pxOverflowDelayedTaskList = {}

(* The wake times lie ahead of the count, in this round or the next, and   *)
(* are the Delay[t]-th tick of the sleep when the pended ticks are made up *)
(* for.                                                                    *)
AheadNow(t) ==
  /\ xTickCount < wake[t] /\ xNextTaskUnblockTime <= wake[t]
  /\ wake[t] + elapsed[t] = xTickCount + xPendedTicks + Delay[t]
AheadLater(t) == wake[t] + TICK_MOD + elapsed[t] = xTickCount + xPendedTicks + Delay[t]
Ahead ==
  /\ \A t \in pxDelayedTaskList : AheadNow(t)
  /\ \A t \in pxOverflowDelayedTaskList : AheadLater(t)

(* Only the running task is inside vTaskDelay, and no switch is pending    *)
(* then; the scheduler is suspended in the first part of it only.          *)
Inside == {"suspended", "added", "resume"}
Control ==
  /\ \A t \in Task : pc[t] \in Inside => pxCurrentTCB = t /\ ~pendSV
  /\ uxSchedulerSuspended = 0 \/ \E t \in Task : pc[t] \in {"suspended", "added"}
  /\ xPendedTicks = 0 \/ \E t \in Task : pc[t] \in Inside
  /\ \A t \in Task : pc[t] \in {"suspended", "added"} => uxSchedulerSuspended = 1
  /\ \A t \in Task : pc[t] = "suspended" => t \in ready /\ elapsed[t] = xPendedTicks
  /\ pxCurrentTCB = Start /\ ~pendSV => Asleep = {}

KInv == KernelTypeOK /\ OneList /\ Ahead /\ Control /\ HighestRuns

-----------------------------------------------------------------------------
(* Every non-empty set of naturals has a least element. *)
LEMMA LeastNat ==
  ASSUME NEW S \in SUBSET Nat, S # {}
  PROVE  Min(S) \in S /\ \A x \in S : Min(S) <= x
<1> DEFINE Less == {ss \in Nat \X Nat : ss[1] < ss[2]}
<1>1. IsWellFoundedOn(Less, Nat)
  BY NatLessThanWellFounded DEF OpToRel
<1>2. \E x \in S : \A y \in S : ~(<<y, x>> \in Less)
  <2> HIDE DEF Less
  <2> QED BY <1>1, WFMin, Zenon
<1>3. PICK x \in S : \A y \in S : ~(<<y, x>> \in Less)
  BY <1>2
<1>4. ASSUME NEW y \in S PROVE x <= y
  <2>1. ~(<<y, x>> \in Less)
    BY <1>3
  <2>2. <<y, x>>[1] = y /\ <<y, x>>[2] = x /\ <<y, x>> \in Nat \X Nat
    OBVIOUS
  <2> QED
    BY <2>1, <2>2
<1> QED
  BY <1>4 DEF Min

(* The head of a delayed list is no later than any of its tasks. *)
LEMMA HeadIsFirst ==
  ASSUME wake \in [Task -> Ticks], NEW S \in SUBSET Task
  PROVE  HeadTime(S) \in Ticks /\ \A t \in S : HeadTime(S) <= wake[t]
<1> DEFINE T == {wake[t] : t \in S} \cup {portMAX_DELAY}
<1>1. portMAX_DELAY \in Ticks
  BY DEF portMAX_DELAY, Ticks
<1>2. T \subseteq Ticks /\ Ticks \subseteq Nat
  BY <1>1 DEF Ticks, portMAX_DELAY
<1>3. T \in SUBSET Nat /\ T # {}
  BY <1>2
<1> HIDE DEF T
<1>4. Min(T) \in T /\ \A x \in T : Min(T) <= x
  BY <1>3, LeastNat
<1>5. \A t \in S : wake[t] \in T
  BY DEF T
<1>6. HeadTime(S) = Min(T)
  BY DEF HeadTime, T
<1> QED
  BY <1>2, <1>4, <1>5, <1>6

(* The smaller of two ticks. *)
LEMMA Smaller ==
  ASSUME NEW a \in Ticks, NEW b \in Ticks
  PROVE  Min({a, b}) \in Ticks /\ Min({a, b}) <= a /\ Min({a, b}) <= b
<1>1. {a, b} \in SUBSET Nat /\ {a, b} # {}
  BY DEF Ticks, portMAX_DELAY
<1>2. Min({a, b}) \in {a, b} /\ \A x \in {a, b} : Min({a, b}) <= x
  BY <1>1, LeastNat
<1> QED
  BY <1>2

(* The next tick, at the end of a round and before it. *)
LEMMA TickIs ==
  ASSUME xTickCount \in Ticks
  PROVE  /\ Tick \in Ticks
         /\ xTickCount = portMAX_DELAY => Tick = 0
         /\ xTickCount # portMAX_DELAY => Tick = xTickCount + 1
BY DEF Tick, Ticks, portMAX_DELAY

(* A wake time that wraps, and one that does not. *)
LEMMA WakeIs ==
  ASSUME xTickCount \in Ticks, NEW t \in Task
  PROVE  LET time == (xTickCount + Delay[t]) % TICK_MOD
         IN  /\ time \in Ticks
             /\ time < xTickCount => time + TICK_MOD = xTickCount + Delay[t]
             /\ ~(time < xTickCount) => xTickCount < time /\ time = xTickCount + Delay[t]
<1>1. Delay[t] \in 1..(TICK_MOD - 1)
  OBVIOUS
<1> QED
  BY <1>1 DEF Ticks, portMAX_DELAY

-----------------------------------------------------------------------------
(* A tick wakes exactly the tasks whose time it is and leaves the others   *)
(* ahead of it, whether or not the count wraps.                            *)
LEMMA TickStep ==
  ASSUME KernelTypeOK, OneList, Ahead, xTaskIncrementTick
  PROVE  /\ xTickCount' \in Ticks /\ xNextTaskUnblockTime' \in Ticks
         /\ ready' \subseteq Task /\ Asleep' \subseteq Task /\ OneList'
         /\ \A t \in pxDelayedTaskList' :
              /\ xTickCount' < wake[t] /\ xNextTaskUnblockTime' <= wake[t]
              /\ wake[t] + elapsed[t] + 1 = xTickCount' + xPendedTicks + Delay[t]
         /\ \A t \in pxOverflowDelayedTaskList' :
              wake[t] + TICK_MOD + elapsed[t] + 1 = xTickCount' + xPendedTicks + Delay[t]
         /\ Asleep' \subseteq Asleep
         /\ ready' = ready \cup Due
         /\ \A t \in Due : t \in Task /\ elapsed[t] + 1 - xPendedTicks = Delay[t]
<1>1. /\ xTickCount \in Ticks /\ xNextTaskUnblockTime \in Ticks /\ wake \in [Task -> Ticks]
      /\ elapsed \in [Task -> Nat] /\ xPendedTicks \in Nat /\ ready \subseteq Task
      /\ pxDelayedTaskList \subseteq Task /\ pxOverflowDelayedTaskList \subseteq Task
  BY DEF KernelTypeOK, Asleep
<1>2. /\ Tick \in Ticks
      /\ xTickCount = portMAX_DELAY => Tick = 0
      /\ xTickCount # portMAX_DELAY => Tick = xTickCount + 1
  BY <1>1, TickIs
<1>3. /\ xTickCount' = Tick /\ ready' = ready \cup Due
      /\ pxDelayedTaskList' = Delayed \ Due /\ pxOverflowDelayedTaskList' = Overflow
      /\ xNextTaskUnblockTime' = IF Tick < NextTime THEN NextTime ELSE HeadTime(Delayed \ Due)
  BY DEF xTaskIncrementTick
<1>4. \A t \in Task : wake[t] \in Nat /\ wake[t] <= portMAX_DELAY /\ elapsed[t] \in Nat /\ Delay[t] \in Nat
  BY <1>1 DEF Ticks, portMAX_DELAY
<1>5. portMAX_DELAY = TICK_MOD - 1 /\ xTickCount \in Nat /\ Tick \in Nat
  BY <1>1, <1>2 DEF Ticks, portMAX_DELAY
(* At the end of a round every task of the old list has woken. *)
<1>6. Tick = 0 => xTickCount = portMAX_DELAY /\ pxDelayedTaskList = {}
  <2> SUFFICES ASSUME Tick = 0
               PROVE  xTickCount = portMAX_DELAY /\ pxDelayedTaskList = {}
    OBVIOUS
  <2>1. xTickCount = portMAX_DELAY
    BY <1>2, <1>5
  <2>2. \A t \in pxDelayedTaskList : xTickCount < wake[t]
    BY DEF Ahead, AheadNow
  <2> QED
    BY <1>1, <1>4, <1>5, <2>1, <2>2
<1>7. /\ Delayed \subseteq Asleep /\ Overflow \subseteq Asleep /\ Delayed \cap Overflow = {}
      /\ Delayed \in SUBSET Task /\ Overflow \subseteq Task
  BY <1>1 DEF Delayed, Overflow, Asleep, OneList
<1>8. Due \subseteq Delayed
  BY DEF Due
(* What Ahead says of the lists of the new round. *)
<1>9. ASSUME NEW t \in Delayed
      PROVE  /\ Tick <= wake[t]
             /\ wake[t] + elapsed[t] + 1 = Tick + xPendedTicks + Delay[t]
  <2>1. CASE Tick = 0
    <3>1. t \in pxOverflowDelayedTaskList
      BY <2>1, <1>9 DEF Delayed
    <3>2. wake[t] + TICK_MOD + elapsed[t] = xTickCount + xPendedTicks + Delay[t]
      BY <3>1 DEF Ahead, AheadLater
    <3> QED
      BY <1>1, <1>4, <1>5, <1>6, <1>7, <1>9, <2>1, <3>2
  <2>2. CASE Tick # 0
    <3>1. t \in pxDelayedTaskList
      BY <2>2, <1>9 DEF Delayed
    <3>2. xTickCount < wake[t] /\ wake[t] + elapsed[t] = xTickCount + xPendedTicks + Delay[t]
      BY <3>1 DEF Ahead, AheadNow
    <3>3. Tick = xTickCount + 1
      BY <1>2, <2>2
    <3> QED
      BY <1>1, <1>4, <1>5, <1>7, <1>9, <3>2, <3>3
  <2> QED
    BY <2>1, <2>2
<1>10. ASSUME NEW t \in Overflow
       PROVE  wake[t] + TICK_MOD + elapsed[t] + 1 = Tick + xPendedTicks + Delay[t]
  <2>1. Tick # 0 /\ t \in pxOverflowDelayedTaskList
    BY <1>6, <1>10 DEF Overflow
  <2>2. wake[t] + TICK_MOD + elapsed[t] = xTickCount + xPendedTicks + Delay[t]
    BY <2>1 DEF Ahead, AheadLater
  <2>3. Tick = xTickCount + 1
    BY <1>2, <2>1
  <2> QED
    BY <1>1, <1>4, <1>5, <1>7, <1>10, <2>2, <2>3
<1>11. NextTime \in Ticks /\ \A t \in Delayed : NextTime <= wake[t]
  <2>1. CASE Tick = 0
    BY <1>1, <1>7, <2>1, HeadIsFirst DEF NextTime
  <2>2. CASE Tick # 0
    BY <1>1, <2>2 DEF NextTime, Delayed, Ahead, AheadNow
  <2> QED
    BY <2>1, <2>2
<1>12. Delayed \ Due \in SUBSET Task
  BY <1>7
<1>13. HeadTime(Delayed \ Due) \in Ticks /\ \A t \in Delayed \ Due : HeadTime(Delayed \ Due) <= wake[t]
  BY <1>1, <1>12, HeadIsFirst
<1>14. ASSUME NEW t \in Delayed \ Due
       PROVE  Tick < wake[t] /\ xNextTaskUnblockTime' <= wake[t]
  <2>1. t \in Task /\ wake[t] \in Nat /\ NextTime <= wake[t] /\ NextTime \in Nat
    BY <1>4, <1>7, <1>11, <1>14 DEF Ticks, portMAX_DELAY
  <2>2. CASE Tick < NextTime
    BY <1>3, <1>5, <2>1, <2>2
  <2>3. CASE ~(Tick < NextTime)
    <3>1. ~(wake[t] <= Tick)
      BY <1>14, <2>3 DEF Due
    <3> QED
      BY <1>3, <1>5, <1>13, <1>14, <2>1, <2>3, <3>1
  <2> QED
    BY <2>2, <2>3
<1>15. ASSUME NEW t \in Due
       PROVE  t \in Task /\ elapsed[t] + 1 - xPendedTicks = Delay[t]
  <2>1. t \in Delayed /\ t \in Task /\ wake[t] <= Tick
    BY <1>7, <1>8, <1>15 DEF Due
  <2>2. Tick <= wake[t] /\ wake[t] + elapsed[t] + 1 = Tick + xPendedTicks + Delay[t]
    BY <1>9, <2>1
  <2> QED
    BY <1>1, <1>4, <1>5, <2>1, <2>2
<1>16. xTickCount' \in Ticks /\ xNextTaskUnblockTime' \in Ticks
  BY <1>2, <1>3, <1>11, <1>13
<1>17. ready' \subseteq Task /\ Asleep' \subseteq Asleep /\ Asleep' \subseteq Task
  BY <1>1, <1>3, <1>7, <1>8 DEF Asleep
<1>18. OneList'
  BY <1>3, <1>7, <1>8 DEF OneList, Asleep
<1>19. \A t \in pxDelayedTaskList' :
         /\ xTickCount' < wake[t] /\ xNextTaskUnblockTime' <= wake[t]
         /\ wake[t] + elapsed[t] + 1 = xTickCount' + xPendedTicks + Delay[t]
  BY <1>3, <1>9, <1>14
<1>20. \A t \in pxOverflowDelayedTaskList' :
         wake[t] + TICK_MOD + elapsed[t] + 1 = xTickCount' + xPendedTicks + Delay[t]
  BY <1>3, <1>10
<1> QED
  BY <1>3, <1>15, <1>16, <1>17, <1>18, <1>19, <1>20

-----------------------------------------------------------------------------
(* The task that calls vTaskDelay is ready.                                *)
LEMMA CallerIsReady ==
  ASSUME KernelTypeOK, HighestRuns, NEW t \in Task, Running(t), pc[t] = "body"
  PROVE  t \in ready
<1>1. pxCurrentTCB = t /\ ~pendSV /\ t # Start /\ t # Idle
  BY DEF Running
<1>2. t \in Highest
  BY <1>1 DEF HighestRuns
<1> QED
  BY <1>1, <1>2 DEF Highest

(* No task is inside vTaskDelay when a switch is made. *)
LEMMA SwitchOutside ==
  ASSUME KernelTypeOK, Control, pendSV
  PROVE  uxSchedulerSuspended = 0 /\ \A t \in Task : pc[t] \notin Inside
BY DEF Control, Inside

(* Every step keeps the types. *)
LEMMA TypeStep == ASSUME KInv, [KernelNext]_kernelVars PROVE KernelTypeOK'
<1> USE DEF KInv
<1>0. KernelTypeOK /\ OneList /\ Ahead /\ Control /\ HighestRuns
  OBVIOUS
<1>1. CASE start_task
  BY <1>0, <1>1 DEF start_task, KernelTypeOK, lists, Asleep
<1>2. ASSUME NEW t \in Task, vTaskSuspendAll(t) PROVE KernelTypeOK'
  <2>1. uxSchedulerSuspended = 0
    <3>1. pc[t] = "body" /\ pxCurrentTCB = t
      BY <1>2 DEF vTaskSuspendAll, Running
    <3> QED
      BY <1>0, <3>1 DEF Control, Inside
  <2>2. uxSchedulerSuspended' = 1
    BY <1>2, <2>1 DEF vTaskSuspendAll
  <2> QED
    BY <1>0, <1>2, <2>2 DEF vTaskSuspendAll, KernelTypeOK, lists, Asleep
<1>3. ASSUME NEW t \in Task, prvAddCurrentTaskToDelayedList(t) PROVE KernelTypeOK'
  <2> DEFINE time == (xTickCount + Delay[t]) % TICK_MOD
  <2>1. time \in Ticks
    BY <1>0, WakeIs DEF KernelTypeOK
  <2>2. Min({time, xNextTaskUnblockTime}) \in Ticks
    BY <1>0, <2>1, Smaller DEF KernelTypeOK
  <2>3. /\ wake' = [wake EXCEPT ![t] = time] /\ ready' = ready \ {t}
        /\ Asleep' = Asleep \cup {t}
        /\ xNextTaskUnblockTime' \in {xNextTaskUnblockTime, Min({time, xNextTaskUnblockTime})}
        /\ pc' = [pc EXCEPT ![t] = "added"]
        /\ UNCHANGED <<xTickCount, pxCurrentTCB, uxSchedulerSuspended, xPendedTicks,
                       xYieldPending, pendSV, elapsed, busy>>
    BY <1>3 DEF prvAddCurrentTaskToDelayedList, Asleep
  <2> HIDE DEF time
  <2> QED
    BY <1>0, <2>1, <2>2, <2>3 DEF KernelTypeOK
<1>4. ASSUME NEW t \in Task, EnterResume(t) PROVE KernelTypeOK'
  <2>1. uxSchedulerSuspended = 1
    BY <1>0, <1>4 DEF EnterResume, Control
  <2>2. uxSchedulerSuspended' = 0
    BY <1>4, <2>1 DEF EnterResume
  <2> QED
    BY <1>0, <1>4, <2>2 DEF EnterResume, KernelTypeOK, lists, Asleep
<1>5. ASSUME NEW t \in Task, UnwindTick(t) PROVE KernelTypeOK'
  <2>1. xTaskIncrementTick
    BY <1>5 DEF UnwindTick
  <2>2. /\ xTickCount' \in Ticks /\ xNextTaskUnblockTime' \in Ticks
        /\ ready' \subseteq Task /\ Asleep' \subseteq Task
    BY <1>0, <2>1, TickStep
  <2>3. /\ xYieldPending' = SwitchRequired /\ xPendedTicks > 0 /\ xPendedTicks' = xPendedTicks - 1
        /\ UNCHANGED <<wake, pxCurrentTCB, uxSchedulerSuspended, pendSV, pc, elapsed, busy>>
    BY <1>5 DEF UnwindTick
  <2>4. xYieldPending' \in BOOLEAN
    BY <1>0, <2>3 DEF SwitchRequired, KernelTypeOK
  <2>5. xPendedTicks' \in Nat
    BY <1>0, <2>3 DEF KernelTypeOK
  <2> QED
    BY <1>0, <2>2, <2>3, <2>4, <2>5 DEF KernelTypeOK
<1>6. ASSUME NEW t \in Task, LeaveResume(t) PROVE KernelTypeOK'
  BY <1>0, <1>6 DEF LeaveResume, KernelTypeOK, lists, Asleep
<1>7. ASSUME NEW t \in Task, portYIELD(t) PROVE KernelTypeOK'
  BY <1>0, <1>7 DEF portYIELD, KernelTypeOK, lists, Asleep
<1>8. CASE vTaskSwitchContext
  <2>1. pxCurrentTCB' \in Task \cup {Idle, Start}
    BY <1>0, <1>8 DEF vTaskSwitchContext, Highest, KernelTypeOK
  <2>2. xYieldPending' \in BOOLEAN /\ pendSV' \in BOOLEAN /\ busy' \in Nat
    BY <1>0, <1>8 DEF vTaskSwitchContext, KernelTypeOK
  <2>3. UNCHANGED <<xTickCount, ready, lists, wake, uxSchedulerSuspended, xPendedTicks, pc, elapsed>>
    BY <1>8 DEF vTaskSwitchContext
  <2> QED
    BY <1>0, <2>1, <2>2, <2>3 DEF KernelTypeOK, lists, Asleep
<1>9. CASE xPortSysTickHandler
  <2>1. /\ busy' \in Nat /\ elapsed' \in [Task -> Nat] /\ xPendedTicks' \in Nat
        /\ UNCHANGED <<wake, pxCurrentTCB, uxSchedulerSuspended, xYieldPending, pc>>
    BY <1>0, <1>9 DEF xPortSysTickHandler, KernelTypeOK
  <2>2. pendSV' \in BOOLEAN
    BY <1>0, <1>9 DEF xPortSysTickHandler, KernelTypeOK, SwitchRequired
  <2>3. /\ xTickCount' \in Ticks /\ xNextTaskUnblockTime' \in Ticks
        /\ ready' \subseteq Task /\ Asleep' \subseteq Task
    <3>1. CASE uxSchedulerSuspended # 0
      BY <1>0, <1>9, <3>1 DEF xPortSysTickHandler, KernelTypeOK, lists, Asleep
    <3>2. CASE uxSchedulerSuspended = 0
      <4>1. xTaskIncrementTick
        BY <1>9, <3>2 DEF xPortSysTickHandler
      <4> QED
        BY <1>0, <4>1, TickStep
    <3> QED
      BY <3>1, <3>2
  <2> QED
    BY <1>0, <2>1, <2>2, <2>3 DEF KernelTypeOK
<1>10. CASE UNCHANGED kernelVars
  BY <1>0, <1>10 DEF kernelVars, lists, KernelTypeOK, Asleep
<1> QED
  BY <1>1, <1>2, <1>3, <1>4, <1>5, <1>6, <1>7, <1>8, <1>9, <1>10 DEF KernelNext, vTaskDelay

(* Every step keeps a task in one list and the wake times ahead of the     *)
(* count.                                                                  *)
LEMMA AheadStep == ASSUME KInv, [KernelNext]_kernelVars PROVE OneList' /\ Ahead'
<1>0. KernelTypeOK /\ OneList /\ Ahead /\ Control /\ HighestRuns
  BY DEF KInv
<1>a. /\ xTickCount \in Nat /\ xPendedTicks \in Nat /\ wake \in [Task -> Ticks] /\ elapsed \in [Task -> Nat]
      /\ pxDelayedTaskList \subseteq Task /\ pxOverflowDelayedTaskList \subseteq Task
  BY <1>0 DEF KernelTypeOK, Ticks, portMAX_DELAY, Asleep
<1>b. \A t \in Task : wake[t] \in Nat /\ elapsed[t] \in Nat /\ Delay[t] \in Nat
  BY <1>a DEF Ticks, portMAX_DELAY
(* Steps that leave the lists, the count and the pended ticks alone. *)
<1>c. ASSUME UNCHANGED <<xTickCount, ready, lists, wake, xPendedTicks>>,
             \A t \in Asleep : elapsed'[t] = elapsed[t]
      PROVE  OneList' /\ Ahead'
  BY <1>0, <1>c DEF OneList, Ahead, AheadNow, AheadLater, lists, Asleep
<1>1. CASE start_task
  <2>1. Asleep = {}
    BY <1>0, <1>1 DEF start_task, Running, Control
  <2> QED
    BY <1>1, <2>1 DEF start_task, OneList, Ahead, Asleep, lists
<1>2. ASSUME NEW t \in Task, vTaskSuspendAll(t) PROVE OneList' /\ Ahead'
  <2>1. t \in ready
    BY <1>0, <1>2, CallerIsReady DEF vTaskSuspendAll
  <2>2. t \notin Asleep
    BY <1>0, <2>1 DEF OneList
  <2>3. \A u \in Asleep : elapsed'[u] = elapsed[u]
    BY <1>0, <1>2, <2>2 DEF vTaskSuspendAll, KernelTypeOK
  <2> QED
    BY <1>2, <2>3, <1>c DEF vTaskSuspendAll
<1>3. ASSUME NEW t \in Task, prvAddCurrentTaskToDelayedList(t) PROVE OneList' /\ Ahead'
  <2> DEFINE time == (xTickCount + Delay[t]) % TICK_MOD
  <2>1. /\ time \in Ticks
        /\ time < xTickCount => time + TICK_MOD = xTickCount + Delay[t]
        /\ ~(time < xTickCount) => xTickCount < time /\ time = xTickCount + Delay[t]
    BY <1>0, WakeIs DEF KernelTypeOK
  <2>2. /\ Min({time, xNextTaskUnblockTime}) \in Ticks
        /\ Min({time, xNextTaskUnblockTime}) <= time
        /\ Min({time, xNextTaskUnblockTime}) <= xNextTaskUnblockTime
    BY <1>0, <2>1, Smaller DEF KernelTypeOK
  <2>3. /\ wake' = [wake EXCEPT ![t] = time] /\ ready' = ready \ {t} /\ pc[t] = "suspended"
        /\ UNCHANGED <<xTickCount, xPendedTicks, elapsed>>
        /\ IF time < xTickCount
           THEN /\ pxOverflowDelayedTaskList' = pxOverflowDelayedTaskList \cup {t}
                /\ UNCHANGED <<pxDelayedTaskList, xNextTaskUnblockTime>>
           ELSE /\ pxDelayedTaskList' = pxDelayedTaskList \cup {t}
                /\ xNextTaskUnblockTime' = Min({time, xNextTaskUnblockTime})
                /\ UNCHANGED pxOverflowDelayedTaskList
    BY <1>3 DEF prvAddCurrentTaskToDelayedList
  <2>4. t \in ready /\ elapsed[t] = xPendedTicks
    BY <1>0, <2>3 DEF Control
  <2>5. t \notin pxDelayedTaskList /\ t \notin pxOverflowDelayedTaskList
    BY <1>0, <2>4 DEF OneList, Asleep
  <2>6. wake'[t] = time /\ \A u \in Task \ {t} : wake'[u] = wake[u]
    BY <1>a, <2>3
  <2>7. time \in Nat /\ xNextTaskUnblockTime \in Nat /\ Min({time, xNextTaskUnblockTime}) \in Nat
    BY <1>0, <2>1, <2>2 DEF KernelTypeOK, Ticks, portMAX_DELAY
  <2>8. OneList'
    BY <1>0, <2>3, <2>5 DEF OneList, Asleep
  <2> HIDE DEF time
  <2>9. CASE time < xTickCount
    <3>1. AheadLater(t)'
      BY <1>a, <1>b, <2>1, <2>3, <2>4, <2>6, <2>7, <2>9 DEF AheadLater
    <3>2. \A u \in pxDelayedTaskList : AheadNow(u)'
      BY <1>0, <1>a, <2>3, <2>5, <2>6, <2>9 DEF Ahead, AheadNow
    <3>3. \A u \in pxOverflowDelayedTaskList : AheadLater(u)'
      BY <1>0, <1>a, <2>3, <2>5, <2>6, <2>9 DEF Ahead, AheadLater
    <3> QED
      BY <2>3, <2>8, <2>9, <3>1, <3>2, <3>3 DEF Ahead
  <2>10. CASE ~(time < xTickCount)
    <3>1. AheadNow(t)'
      BY <1>a, <1>b, <2>1, <2>2, <2>3, <2>4, <2>6, <2>7, <2>10 DEF AheadNow
    <3>2. ASSUME NEW u \in pxDelayedTaskList PROVE AheadNow(u)'
      <4>1. u \in Task \ {t} /\ AheadNow(u)
        BY <1>0, <1>a, <2>5 DEF Ahead
      <4>2. wake'[u] = wake[u] /\ wake[u] \in Nat
        BY <1>b, <2>6, <4>1
      <4>3. xNextTaskUnblockTime' <= wake[u]
        BY <2>2, <2>3, <2>7, <2>10, <4>1, <4>2 DEF AheadNow
      <4> QED
        BY <2>3, <4>1, <4>2, <4>3 DEF AheadNow
    <3>3. \A u \in pxOverflowDelayedTaskList : AheadLater(u)'
      BY <1>0, <1>a, <2>3, <2>5, <2>6, <2>10 DEF Ahead, AheadLater
    <3> QED
      BY <2>3, <2>8, <2>10, <3>1, <3>2, <3>3 DEF Ahead
  <2> QED
    BY <2>9, <2>10
<1>4. ASSUME NEW t \in Task, EnterResume(t) PROVE OneList' /\ Ahead'
  BY <1>4, <1>c DEF EnterResume
<1>5. ASSUME NEW t \in Task, UnwindTick(t) PROVE OneList' /\ Ahead'
  <2>1. xTaskIncrementTick /\ xPendedTicks > 0 /\ xPendedTicks' = xPendedTicks - 1 /\ UNCHANGED <<wake, elapsed>>
    BY <1>5 DEF UnwindTick
  <2>2. /\ OneList' /\ xTickCount' \in Ticks /\ Asleep' \subseteq Task
        /\ \A u \in pxDelayedTaskList' :
             /\ xTickCount' < wake[u] /\ xNextTaskUnblockTime' <= wake[u]
             /\ wake[u] + elapsed[u] + 1 = xTickCount' + xPendedTicks + Delay[u]
        /\ \A u \in pxOverflowDelayedTaskList' :
             wake[u] + TICK_MOD + elapsed[u] + 1 = xTickCount' + xPendedTicks + Delay[u]
    BY <1>0, <2>1, TickStep
  <2>3. xTickCount' \in Nat /\ pxDelayedTaskList' \subseteq Task /\ pxOverflowDelayedTaskList' \subseteq Task
    BY <2>2 DEF Ticks, portMAX_DELAY, Asleep
  <2>4. \A u \in pxDelayedTaskList' : AheadNow(u)'
    BY <1>a, <1>b, <2>1, <2>2, <2>3 DEF AheadNow
  <2>5. \A u \in pxOverflowDelayedTaskList' : AheadLater(u)'
    BY <1>a, <1>b, <2>1, <2>2, <2>3 DEF AheadLater
  <2> QED
    BY <2>2, <2>4, <2>5 DEF Ahead
<1>6. ASSUME NEW t \in Task, LeaveResume(t) PROVE OneList' /\ Ahead'
  BY <1>6, <1>c DEF LeaveResume
<1>7. ASSUME NEW t \in Task, portYIELD(t) PROVE OneList' /\ Ahead'
  BY <1>7, <1>c DEF portYIELD
<1>8. CASE vTaskSwitchContext
  BY <1>8, <1>c DEF vTaskSwitchContext
<1>9. CASE xPortSysTickHandler
  <2>1. \A t \in Asleep : elapsed'[t] = elapsed[t] + 1
    BY <1>0, <1>9 DEF xPortSysTickHandler, KernelTypeOK
  <2>2. wake' = wake
    BY <1>9 DEF xPortSysTickHandler
  <2>3. CASE uxSchedulerSuspended # 0
    <3>1. xPendedTicks' = xPendedTicks + 1 /\ UNCHANGED <<xTickCount, ready, lists>>
      BY <1>9, <2>3 DEF xPortSysTickHandler
    <3>2. OneList'
      BY <1>0, <3>1 DEF OneList, lists, Asleep
    <3>3. \A t \in pxDelayedTaskList : AheadNow(t)'
      BY <1>0, <1>a, <1>b, <2>1, <2>2, <3>1 DEF Ahead, AheadNow, Asleep, lists
    <3>4. \A t \in pxOverflowDelayedTaskList : AheadLater(t)'
      BY <1>0, <1>a, <1>b, <2>1, <2>2, <3>1 DEF Ahead, AheadLater, Asleep, lists
    <3> QED
      BY <3>1, <3>2, <3>3, <3>4 DEF Ahead, lists
  <2>4. CASE uxSchedulerSuspended = 0
    <3>1. xTaskIncrementTick /\ xPendedTicks' = xPendedTicks
      BY <1>9, <2>4 DEF xPortSysTickHandler
    <3>2. /\ OneList' /\ xTickCount' \in Ticks /\ Asleep' \subseteq Asleep
          /\ \A u \in pxDelayedTaskList' :
               /\ xTickCount' < wake[u] /\ xNextTaskUnblockTime' <= wake[u]
               /\ wake[u] + elapsed[u] + 1 = xTickCount' + xPendedTicks + Delay[u]
          /\ \A u \in pxOverflowDelayedTaskList' :
               wake[u] + TICK_MOD + elapsed[u] + 1 = xTickCount' + xPendedTicks + Delay[u]
      BY <1>0, <3>1, TickStep
    <3>3. /\ xTickCount' \in Nat
          /\ pxDelayedTaskList' \subseteq Asleep /\ pxOverflowDelayedTaskList' \subseteq Asleep
          /\ Asleep \subseteq Task
      BY <1>a, <3>2 DEF Ticks, portMAX_DELAY, Asleep
    <3>4. \A u \in pxDelayedTaskList' : AheadNow(u)'
      BY <1>a, <1>b, <2>1, <2>2, <3>1, <3>2, <3>3 DEF AheadNow
    <3>5. \A u \in pxOverflowDelayedTaskList' : AheadLater(u)'
      BY <1>a, <1>b, <2>1, <2>2, <3>1, <3>2, <3>3 DEF AheadLater
    <3> QED
      BY <3>2, <3>4, <3>5 DEF Ahead
  <2> QED
    BY <2>3, <2>4
<1>10. CASE UNCHANGED kernelVars
  BY <1>10, <1>c DEF kernelVars
<1> QED
  BY <1>1, <1>2, <1>3, <1>4, <1>5, <1>6, <1>7, <1>8, <1>9, <1>10 DEF KernelNext, vTaskDelay

(* Every step keeps the other tasks out of a task's vTaskDelay.            *)
LEMMA ControlStep == ASSUME KInv, [KernelNext]_kernelVars PROVE Control'
<1>0. KernelTypeOK /\ OneList /\ Ahead /\ Control /\ HighestRuns
  BY DEF KInv
<1>a. Inside = {"suspended", "added", "resume"}
  BY DEF Inside
<1>b. pc \in [Task -> {"body", "suspended", "added", "resume", "yield"}] /\ xPendedTicks \in Nat
  BY <1>0 DEF KernelTypeOK
<1>1. CASE start_task
  <2>1. \A t \in Task : pc[t] \notin Inside
    BY <1>0, <1>1 DEF start_task, Running, Control
  <2> QED
    BY <1>0, <1>1, <2>1 DEF start_task, Control, lists, Asleep, Inside
<1>2. ASSUME NEW t \in Task, vTaskSuspendAll(t) PROVE Control'
  <2>1. t \in ready /\ pc[t] = "body" /\ pxCurrentTCB = t /\ ~pendSV
    BY <1>0, <1>2, CallerIsReady DEF vTaskSuspendAll, Running
  <2>2. \A u \in Task : pc[u] \notin Inside
    BY <1>0, <1>a, <2>1 DEF Control
  <2>3. uxSchedulerSuspended = 0 /\ xPendedTicks = 0
    BY <1>0, <1>a, <2>2 DEF Control
  <2>4. /\ uxSchedulerSuspended' = 1 /\ elapsed'[t] = 0 /\ pc'[t] = "suspended"
        /\ \A u \in Task \ {t} : pc'[u] = pc[u]
        /\ UNCHANGED <<ready, pxCurrentTCB, pendSV, xPendedTicks, pxDelayedTaskList, pxOverflowDelayedTaskList>>
    BY <1>0, <1>2, <2>3 DEF vTaskSuspendAll, KernelTypeOK, lists
  <2> QED
    BY <2>1, <2>2, <2>3, <2>4 DEF Control, Inside, Asleep
<1>3. ASSUME NEW t \in Task, prvAddCurrentTaskToDelayedList(t) PROVE Control'
  <2>1. pc[t] = "suspended" /\ pxCurrentTCB = t /\ ~pendSV
    BY <1>3 DEF prvAddCurrentTaskToDelayedList, Running
  <2>2. \A u \in Task \ {t} : pc[u] \notin Inside
    BY <1>0, <1>a, <2>1 DEF Control
  <2>3. /\ pc'[t] = "added" /\ \A u \in Task \ {t} : pc'[u] = pc[u]
        /\ UNCHANGED <<pxCurrentTCB, pendSV, xPendedTicks, uxSchedulerSuspended, elapsed>>
    BY <1>b, <1>3 DEF prvAddCurrentTaskToDelayedList
  <2>4. t # Start
    OBVIOUS
  <2> QED
    BY <1>0, <2>1, <2>2, <2>3, <2>4 DEF Control, Inside
<1>4. ASSUME NEW t \in Task, EnterResume(t) PROVE Control'
  <2>1. pc[t] = "added" /\ pxCurrentTCB = t /\ ~pendSV
    BY <1>4 DEF EnterResume, Running
  <2>2. \A u \in Task \ {t} : pc[u] \notin Inside
    BY <1>0, <1>a, <2>1 DEF Control
  <2>3. uxSchedulerSuspended = 1
    BY <1>0, <2>1 DEF Control
  <2>4. /\ pc'[t] = "resume" /\ \A u \in Task \ {t} : pc'[u] = pc[u]
        /\ uxSchedulerSuspended' = 0
        /\ UNCHANGED <<pxCurrentTCB, pendSV, xPendedTicks, elapsed>>
    BY <1>b, <1>4, <2>3 DEF EnterResume
  <2>5. t # Start
    OBVIOUS
  <2> QED
    BY <1>0, <2>1, <2>2, <2>4, <2>5 DEF Control, Inside
<1>5. ASSUME NEW t \in Task, UnwindTick(t) PROVE Control'
  <2>1. pc[t] = "resume" /\ pxCurrentTCB = t /\ ~pendSV
    BY <1>5 DEF UnwindTick, Running
  <2>2. \A u \in Task \ {t} : pc[u] \notin Inside
    BY <1>0, <1>a, <2>1 DEF Control
  <2>3. UNCHANGED <<pc, pxCurrentTCB, pendSV, uxSchedulerSuspended>>
    BY <1>5 DEF UnwindTick
  <2>4. t # Start
    OBVIOUS
  <2> QED
    BY <1>0, <2>1, <2>2, <2>3, <2>4 DEF Control, Inside
<1>6. ASSUME NEW t \in Task, LeaveResume(t) PROVE Control'
  <2>1. pc[t] = "resume" /\ pxCurrentTCB = t /\ ~pendSV /\ xPendedTicks = 0
    BY <1>6 DEF LeaveResume, Running
  <2>2. \A u \in Task \ {t} : pc[u] \notin Inside
    BY <1>0, <1>a, <2>1 DEF Control
  <2>3. uxSchedulerSuspended = 0
    BY <1>0, <1>a, <2>1, <2>2 DEF Control
  <2>4. /\ pc'[t] \in {"body", "yield"} /\ \A u \in Task \ {t} : pc'[u] = pc[u]
        /\ UNCHANGED <<pxCurrentTCB, xPendedTicks, uxSchedulerSuspended>>
    BY <1>b, <1>6 DEF LeaveResume
  <2>5. t # Start
    OBVIOUS
  <2> QED
    BY <2>1, <2>2, <2>3, <2>4, <2>5 DEF Control, Inside
<1>7. ASSUME NEW t \in Task, portYIELD(t) PROVE Control'
  <2>1. pc[t] = "yield" /\ pxCurrentTCB = t /\ ~pendSV
    BY <1>7 DEF portYIELD, Running
  <2>2. \A u \in Task : pc[u] \notin Inside
    BY <1>0, <1>a, <2>1 DEF Control
  <2>3. uxSchedulerSuspended = 0 /\ xPendedTicks = 0
    BY <1>0, <1>a, <2>2 DEF Control
  <2>4. /\ pc'[t] = "body" /\ \A u \in Task \ {t} : pc'[u] = pc[u]
        /\ UNCHANGED <<pxCurrentTCB, xPendedTicks, uxSchedulerSuspended>>
    BY <1>b, <1>7 DEF portYIELD
  <2>5. t # Start
    OBVIOUS
  <2> QED
    BY <2>1, <2>2, <2>3, <2>4, <2>5 DEF Control, Inside
<1>8. CASE vTaskSwitchContext
  <2>1. pendSV
    BY <1>8 DEF vTaskSwitchContext
  <2>2. uxSchedulerSuspended = 0 /\ \A u \in Task : pc[u] \notin Inside
    BY <1>0, <2>1, SwitchOutside
  <2>3. xPendedTicks = 0
    BY <1>0, <2>2 DEF Control
  <2>4. pxCurrentTCB' \in Highest /\ UNCHANGED <<xPendedTicks, uxSchedulerSuspended, pc>>
    BY <1>8, <2>2 DEF vTaskSwitchContext
  <2>5. pxCurrentTCB' # Start
    BY <1>0, <2>4 DEF Highest, KernelTypeOK
  <2> QED
    BY <2>2, <2>3, <2>4, <2>5 DEF Control, Inside
<1>9. CASE xPortSysTickHandler
  <2>1. UNCHANGED <<pxCurrentTCB, uxSchedulerSuspended, pc>> /\ ~Masked
    BY <1>9 DEF xPortSysTickHandler
  <2>2. CASE uxSchedulerSuspended # 0
    <3>1. /\ xPendedTicks' = xPendedTicks + 1
          /\ UNCHANGED <<ready, pendSV, pxDelayedTaskList, pxOverflowDelayedTaskList>>
      BY <1>9, <2>2 DEF xPortSysTickHandler, lists
    <3>2. \E t \in Task : pc[t] \in {"suspended", "added"}
      BY <1>0, <2>2 DEF Control
    <3>3. \A t \in Task : pc[t] = "suspended" => elapsed'[t] = elapsed[t] + 1
      BY <1>0, <1>9 DEF xPortSysTickHandler, KernelTypeOK
    <3> QED
      BY <1>0, <2>1, <3>1, <3>2, <3>3 DEF Control, Inside, Asleep
  <2>3. CASE uxSchedulerSuspended = 0
    <3>1. xTaskIncrementTick /\ xPendedTicks' = xPendedTicks /\ pendSV' = (pendSV \/ SwitchRequired)
      BY <1>9, <2>3 DEF xPortSysTickHandler
    <3>2. Asleep' \subseteq Asleep
      BY <1>0, <3>1, TickStep
    <3>3. \A t \in Task : pc[t] \notin Inside
      BY <1>0, <1>a, <2>1, <2>3 DEF Control, Masked
    <3> QED
      BY <1>0, <2>1, <2>3, <3>1, <3>2, <3>3 DEF Control, Inside
  <2> QED
    BY <2>2, <2>3
<1>10. CASE UNCHANGED kernelVars
  BY <1>0, <1>10 DEF kernelVars, lists, Control, Asleep
<1> QED
  BY <1>1, <1>2, <1>3, <1>4, <1>5, <1>6, <1>7, <1>8, <1>9, <1>10 DEF KernelNext, vTaskDelay

(* Every step keeps the processor with the highest ready task, or pends a  *)
(* switch.                                                                 *)
LEMMA HighestStep == ASSUME KInv, [KernelNext]_kernelVars PROVE HighestRuns'
<1>0. KernelTypeOK /\ OneList /\ Ahead /\ Control /\ HighestRuns
  BY DEF KInv
<1>b. pc \in [Task -> {"body", "suspended", "added", "resume", "yield"}] /\ ready \subseteq Task
  BY <1>0 DEF KernelTypeOK
<1>1. CASE start_task
  BY <1>1 DEF start_task, HighestRuns
<1>2. ASSUME NEW t \in Task, vTaskSuspendAll(t) \/ prvAddCurrentTaskToDelayedList(t) \/ EnterResume(t)
      PROVE  HighestRuns'
  <2>1. pxCurrentTCB' = t /\ pc'[t] # "body"
    BY <1>b, <1>2 DEF vTaskSuspendAll, prvAddCurrentTaskToDelayedList, EnterResume, Running
  <2> QED
    BY <2>1 DEF HighestRuns
<1>3. ASSUME NEW t \in Task, UnwindTick(t) PROVE HighestRuns'
  <2>1. pxCurrentTCB' = t /\ pc'[t] # "body"
    BY <1>b, <1>3 DEF UnwindTick, Running
  <2> QED
    BY <2>1 DEF HighestRuns
<1>4. ASSUME NEW t \in Task, LeaveResume(t) PROVE HighestRuns'
  <2>1. pxCurrentTCB' = t /\ (pc'[t] # "body" \/ pendSV')
    BY <1>b, <1>4 DEF LeaveResume, Running
  <2> QED
    BY <2>1 DEF HighestRuns
<1>5. ASSUME NEW t \in Task, portYIELD(t) PROVE HighestRuns'
  BY <1>5 DEF portYIELD, HighestRuns
<1>6. CASE vTaskSwitchContext
  <2>1. uxSchedulerSuspended = 0
    BY <1>0, <1>6, SwitchOutside DEF vTaskSwitchContext
  <2>2. pxCurrentTCB' \in Highest /\ ready' = ready
    BY <1>6, <2>1 DEF vTaskSwitchContext
  <2>3. pxCurrentTCB' # Start
    BY <1>b, <2>2 DEF Highest
  <2> QED
    BY <2>2, <2>3 DEF HighestRuns, Highest
<1>7. CASE xPortSysTickHandler
  <2>1. UNCHANGED <<pxCurrentTCB, uxSchedulerSuspended, pc>>
    BY <1>7 DEF xPortSysTickHandler
  <2>2. CASE uxSchedulerSuspended # 0
    <3>1. PICK t \in Task : pc[t] \in {"suspended", "added"}
      BY <1>0, <2>2 DEF Control
    <3>2. pxCurrentTCB = t
      BY <1>0, <3>1 DEF Control, Inside
    <3> QED
      BY <2>1, <3>1, <3>2 DEF HighestRuns
  <2>3. CASE uxSchedulerSuspended = 0
    <3>1. xTaskIncrementTick /\ pendSV' = (pendSV \/ SwitchRequired)
      BY <1>7, <2>3 DEF xPortSysTickHandler
    <3>2. ready' = ready \cup Due /\ \A t \in Due : t \in Task
      BY <1>0, <3>1, TickStep
    <3> SUFFICES ASSUME ~pendSV', pxCurrentTCB' \in Task => pc'[pxCurrentTCB'] = "body"
                 PROVE  IF pxCurrentTCB' = Start THEN ready' = {} ELSE pxCurrentTCB' \in Highest'
      BY DEF HighestRuns
    <3>3. ~pendSV /\ \A t \in Due : ~(Prio(t) > Prio(pxCurrentTCB))
      BY <3>1 DEF SwitchRequired
    <3>4. IF pxCurrentTCB = Start THEN ready = {} ELSE pxCurrentTCB \in Highest
      BY <1>0, <2>1, <3>3 DEF HighestRuns
    <3>5. \A t \in Task : Priority[t] \in Nat /\ Priority[t] > 0 /\ Prio(t) = Priority[t]
      BY DEF Prio
    <3>6. CASE pxCurrentTCB \in Task
      <4>1. pxCurrentTCB \in ready /\ \A u \in ready : Priority[u] <= Priority[pxCurrentTCB]
        BY <3>4, <3>6 DEF Highest
      <4>2. \A t \in Due : Priority[t] <= Priority[pxCurrentTCB]
        BY <3>2, <3>3, <3>5, <3>6
      <4>3. pxCurrentTCB \in {t \in ready' : \A u \in ready' : Priority[u] <= Priority[t]}
        BY <3>2, <4>1, <4>2
      <4> QED
        BY <2>1, <3>2, <3>6, <4>1, <4>3 DEF Highest
    <3>7. CASE pxCurrentTCB \notin Task
      <4>1. Prio(pxCurrentTCB) = 0
        BY <3>7 DEF Prio
      <4>2. Due = {}
        BY <3>2, <3>3, <3>5, <4>1
      <4> QED
        BY <2>1, <3>2, <3>4, <4>2 DEF Highest
    <3> QED
      BY <3>6, <3>7
  <2> QED
    BY <1>0, <2>2, <2>3 DEF KernelTypeOK
<1>8. CASE UNCHANGED kernelVars
  BY <1>0, <1>8 DEF kernelVars, HighestRuns, Highest
<1> QED
  BY <1>1, <1>2, <1>3, <1>4, <1>5, <1>6, <1>7, <1>8 DEF KernelNext, vTaskDelay

(* The scheduler starts with nobody asleep. *)
LEMMA KernelStarts == KernelInit => KInv
<1> SUFFICES ASSUME KernelInit PROVE KInv
  OBVIOUS
<1>a. 0 \in Ticks /\ portMAX_DELAY \in Ticks
  BY DEF Ticks, portMAX_DELAY
<1>1. KernelTypeOK
  BY <1>a DEF KernelInit, KernelTypeOK, Asleep
<1>2. OneList /\ Ahead
  BY DEF KernelInit, OneList, Ahead, Asleep
<1>3. Control
  BY DEF KernelInit, Control, Inside, Asleep
<1>4. HighestRuns
  BY DEF KernelInit, HighestRuns
<1> QED
  BY <1>1, <1>2, <1>3, <1>4 DEF KInv

LEMMA KernelInvariance == KernelSpec => []KInv
<1>1. KernelInit => KInv
  BY KernelStarts
<1>2. KInv /\ [KernelNext]_kernelVars => KInv'
  BY TypeStep, AheadStep, ControlStep, HighestStep DEF KInv
<1> QED
  BY <1>1, <1>2, PTL DEF KernelSpec

(* A task wakes in a tick only, and then with the one it asked for.        *)
LEMMA WakeStep ==
  ASSUME KInv, [KernelNext]_kernelVars, NEW t \in Asleep, t \in ready'
  PROVE  elapsed'[t] - xPendedTicks' = Delay[t]
<1>0. KernelTypeOK /\ OneList /\ Ahead /\ Control
  BY DEF KInv
<1>a. t \in Task /\ t \notin ready /\ elapsed \in [Task -> Nat] /\ xPendedTicks \in Nat
  BY <1>0 DEF OneList, KernelTypeOK
<1>1. CASE start_task
  BY <1>0, <1>1 DEF start_task, Running, Control
<1>2. CASE \E u \in Task : UnwindTick(u)
  <2>1. xTaskIncrementTick /\ xPendedTicks' = xPendedTicks - 1 /\ elapsed' = elapsed
    BY <1>2 DEF UnwindTick
  <2>2. elapsed[t] + 1 - xPendedTicks = Delay[t]
    BY <1>0, <1>a, <2>1, TickStep
  <2> QED
    BY <1>a, <2>1, <2>2
<1>3. CASE xPortSysTickHandler
  <2>1. uxSchedulerSuspended = 0
    BY <1>3, <1>a DEF xPortSysTickHandler
  <2>2. xTaskIncrementTick /\ xPendedTicks' = xPendedTicks
    BY <1>3, <2>1 DEF xPortSysTickHandler
  <2>3. elapsed[t] + 1 - xPendedTicks = Delay[t]
    BY <1>0, <1>a, <2>2, TickStep
  <2>4. elapsed'[t] = elapsed[t] + 1
    BY <1>3, <1>a DEF xPortSysTickHandler
  <2> QED
    BY <1>a, <2>2, <2>3, <2>4
<1>4. CASE ready' \subseteq ready
  BY <1>4, <1>a
<1> QED
  BY <1>1, <1>2, <1>3, <1>4
  DEF KernelNext, vTaskDelay, vTaskSuspendAll, prvAddCurrentTaskToDelayedList, EnterResume,
      LeaveResume, portYIELD, vTaskSwitchContext, kernelVars

-----------------------------------------------------------------------------
(* Every variable of the kernel keeps its type. *)
THEOREM KernelTypeCorrect == KernelSpec => []KernelTypeOK
BY KernelInvariance, PTL DEF KInv

(* Outside vTaskDelay the processor is with the highest ready task, or a   *)
(* switch to it is pending (xTaskIncrementTick, vTaskSwitchContext).       *)
THEOREM ProcessorWithHighest == KernelSpec => []HighestRuns
BY KernelInvariance, PTL DEF KInv

(* Every task wakes with the tick it asked for, also when the count wraps  *)
(* and when ticks were pended (prvAddCurrentTaskToDelayedList).            *)
THEOREM TasksWakeOnTime == KernelSpec => WakesOnTime
<1>1. KInv /\ [KernelNext]_kernelVars
        => [\A t \in Asleep : t \in ready' => elapsed'[t] - xPendedTicks' = Delay[t]]_kernelVars
  BY WakeStep
<1> QED
  BY <1>1, KernelInvariance, PTL DEF KernelSpec, WakesOnTime

(* No task is left in the delayed list when the lists are exchanged, as    *)
(* taskSWITCH_DELAYED_LISTS asserts.                                       *)
THEOREM EmptyWhenSwitched == KernelSpec => []SwitchedEmpty
<1>1. ASSUME KInv PROVE SwitchedEmpty
  <2> SUFFICES ASSUME xTickCount = portMAX_DELAY, NEW t \in pxDelayedTaskList PROVE FALSE
    BY DEF SwitchedEmpty
  <2>1. xTickCount < wake[t]
    BY <1>1 DEF KInv, Ahead, AheadNow
  <2>2. wake[t] \in 0..portMAX_DELAY
    BY <1>1 DEF KInv, KernelTypeOK, Asleep, Ticks
  <2> QED
    BY <2>1, <2>2 DEF portMAX_DELAY
<1> QED
  BY <1>1, KernelInvariance, PTL

(* The firmware's tasks are tasks of this kernel, so that what is proved   *)
(* of it holds for them (main.c:71-99).                                    *)
THEOREM TasksUseKernel == Spec => KernelSpec
<1>1. Init => KernelInit
  BY DEF Init
<1>2. [Next]_vars => [KernelNext]_kernelVars
  <2> SUFFICES ASSUME [Next]_vars PROVE [KernelNext]_kernelVars
    OBVIOUS
  <2>1. CASE OnlyKernel(start_task) \/ OnlyKernel(vTaskSwitchContext) \/ OnlyKernel(xPortSysTickHandler)
    BY <2>1 DEF OnlyKernel, KernelNext
  <2>2. ASSUME NEW t \in Task, Sleep(t) \/ OnlyKernel(vTaskDelay(t)) PROVE KernelNext
    BY <2>2 DEF Sleep, OnlyKernel, KernelNext
  <2>3. ASSUME NEW t \in Task, Work(t) PROVE UNCHANGED kernelVars
    BY <2>3 DEF Work, LED1_TOGGLE, WriteByte, ByteSent, StartFrame, PollFrame, EndFrame
  <2>4. CASE (\E c \in Controller : Bus(c) /\ UNCHANGED <<kernelVars, taskVars>>) \/ Usart2
    BY <2>4 DEF Usart2
  <2>5. CASE UNCHANGED vars
    BY <2>5 DEF vars
  <2> QED
    BY <2>1, <2>2, <2>3, <2>4, <2>5 DEF Next
<1> QED
  BY <1>1, <1>2, PTL DEF Spec, KernelSpec

(* So the firmware's tasks run by priority and wake on time. *)
THEOREM TasksOnTime == Spec => []HighestRuns /\ WakesOnTime
BY TasksUseKernel, ProcessorWithHighest, TasksWakeOnTime, PTL

-----------------------------------------------------------------------------
(* The mailbox of the call that has not returned tells what has become of  *)
(* its frame.                                                              *)
CanInv ==
  /\ mailbox \in [Controller -> [Mailboxes -> {"empty", "pending", "ok", "failed"}]]
  /\ can \in Controller
  /\ sending => \/ mbox = NoMailBox /\ fate = "dropped"
                \/ /\ mbox \in Mailboxes
                   /\ \/ fate = "waiting" /\ mailbox[can][mbox] = "pending"
                      \/ fate \in {"ok", "failed"} /\ mailbox[can][mbox] = fate

CanStep ==
  \/ \E c \in Controller : CAN_Transmit(c) \/ Bus(c)
  \/ ReturnZero \/ KeepPolling \/ ReturnOne

LEMMA TasksUseCan == ASSUME [Next]_vars PROVE [CanStep]_canVars
<1>1. ASSUME NEW t \in Task, Work(t) PROVE [CanStep]_canVars
  <2>1. CASE StartFrame
    <3>1. (IF can = CAN1 THEN CAN2 ELSE CAN1) \in Controller
      BY TasksAssumption
    <3> QED
      BY <2>1, <3>1 DEF StartFrame, CanStep
  <2> QED
    BY <1>1, <2>1 DEF Work, LED1_TOGGLE, WriteByte, ByteSent, PollFrame, EndFrame, CanStep
<1>2. ASSUME NEW t \in Task, Sleep(t) PROVE UNCHANGED canVars
  BY <1>2 DEF Sleep
<1> QED
  BY <1>1, <1>2 DEF Next, OnlyKernel, Usart2, CanStep, vars

LEMMA CanKept == ASSUME CanInv, [CanStep]_canVars PROVE CanInv'
<1>0. NoMailBox \notin Mailboxes
  BY CanAssumption DEF NoMailBox, Mailboxes
<1>1. ASSUME NEW c \in Controller, CAN_Transmit(c) PROVE CanInv'
  <2>1. CASE Empty(c) = {}
    BY <1>1, <2>1 DEF CAN_Transmit, CanInv
  <2>2. CASE Empty(c) # {}
    <3>1. Empty(c) \in SUBSET Nat
      BY DEF Empty, Mailboxes
    <3>2. Min(Empty(c)) \in Empty(c)
      BY <2>2, <3>1, LeastNat
    <3>3. mbox' \in Mailboxes /\ can' = c /\ fate' = "waiting"
          /\ mailbox' = [mailbox EXCEPT ![c][mbox'] = "pending"]
      BY <1>1, <2>2, <3>2 DEF CAN_Transmit, Empty
    <3> QED
      BY <3>3 DEF CanInv
  <2> QED
    BY <2>1, <2>2
<1>2. ASSUME NEW c \in Controller, Bus(c) PROVE CanInv'
  <2>1. PICK outcome \in {"ok", "failed"}, k \in Mailboxes \ Empty(c) :
          /\ mailbox' = [mailbox EXCEPT ![c][k] = outcome]
          /\ fate' = IF sending /\ c = can /\ k = mbox THEN outcome ELSE fate
          /\ UNCHANGED <<can, sending, mbox, i, result>>
    BY <1>2 DEF Bus
  <2>2. mailbox[c][k] = "pending"
    BY DEF Empty
  <2>3. mailbox' \in [Controller -> [Mailboxes -> {"empty", "pending", "ok", "failed"}]] /\ can' \in Controller
    BY <2>1 DEF CanInv
  <2>4. CASE sending /\ c = can /\ k = mbox
    BY <1>0, <2>1, <2>3, <2>4 DEF CanInv
  <2>5. CASE ~(sending /\ c = can /\ k = mbox)
    <3>1. sending /\ mbox \in Mailboxes => mailbox'[can][mbox] = mailbox[can][mbox]
      BY <2>1, <2>5 DEF CanInv
    <3> QED
      BY <1>0, <2>1, <2>3, <2>5, <3>1 DEF CanInv
  <2> QED
    BY <2>4, <2>5
<1>3. CASE ReturnZero \/ ReturnOne
  BY <1>3 DEF ReturnZero, ReturnOne, Return, CanInv
<1>4. CASE KeepPolling
  BY <1>4 DEF KeepPolling, CanInv
<1>5. CASE UNCHANGED canVars
  BY <1>5 DEF canVars, CanInv
<1> QED
  BY <1>1, <1>2, <1>3, <1>4, <1>5 DEF CanStep

LEMMA VerdictStep ==
  ASSUME CanInv, [CanStep]_canVars, sending, ~sending'
  PROVE  result' = 1 <=> fate = "failed"
<1>0. NoMailBox \notin Mailboxes
  BY CanAssumption DEF NoMailBox, Mailboxes
<1>1. ReturnZero \/ ReturnOne
  BY DEF CanStep, CAN_Transmit, Bus, KeepPolling, canVars
<1>2. CAN_TransmitStatus(can, mbox) = "Failed" <=> fate = "failed"
  BY <1>0 DEF CAN_TransmitStatus, CanInv
<1> QED
  BY <1>1, <1>2 DEF ReturnZero, ReturnOne, Return

(* A call that sends a CAN frame tells of a frame that was sent or has     *)
(* failed which it was, for any number of mailboxes and polls              *)
(* (can_1_send_data).                                                      *)
THEOREM VerdictOnOwnFrame == Spec => Verdict
<1>1. Init => CanInv
  BY DEF Init, CanInit, CanInv
<1>2. CanInv /\ [Next]_vars => CanInv'
  BY TasksUseCan, CanKept
<1>3. CanInv /\ [Next]_vars => [sending /\ ~sending' /\ fate \in {"ok", "failed"} =>
                                   (result' = 1 <=> fate = "failed")]_canVars
  BY TasksUseCan, VerdictStep
<1> QED
  BY <1>1, <1>2, <1>3, PTL DEF Spec, Verdict

-----------------------------------------------------------------------------
LEMMA CanTypeKept == ASSUME CanTypeOK, [CanStep]_canVars PROVE CanTypeOK'
<1>0. NoMailBox \in 0..MAILBOXES /\ Mailboxes \subseteq 0..MAILBOXES /\ 0 \in 0..(POLLS - 1)
  BY CanAssumption DEF NoMailBox, Mailboxes
<1>1. ASSUME NEW c \in Controller, CAN_Transmit(c) PROVE CanTypeOK'
  <2>1. CASE Empty(c) = {}
    BY <1>0, <1>1, <2>1 DEF CAN_Transmit, CanTypeOK
  <2>2. CASE Empty(c) # {}
    <3>1. Empty(c) \in SUBSET Nat /\ Empty(c) \subseteq Mailboxes
      BY DEF Empty, Mailboxes
    <3>2. Min(Empty(c)) \in Mailboxes
      BY <2>2, <3>1, LeastNat
    <3>3. mailbox' = [mailbox EXCEPT ![c][Min(Empty(c))] = "pending"]
      BY <1>1, <2>2 DEF CAN_Transmit
    <3>4. [mailbox[c] EXCEPT ![Min(Empty(c))] = "pending"]
            \in [Mailboxes -> {"empty", "pending", "ok", "failed"}]
      BY <3>2 DEF CanTypeOK
    <3>5. mailbox' \in [Controller -> [Mailboxes -> {"empty", "pending", "ok", "failed"}]]
      BY <3>3, <3>4 DEF CanTypeOK
    <3>6. mbox' \in 0..MAILBOXES
      BY <1>0, <1>1, <2>2, <3>2 DEF CAN_Transmit
    <3>7. /\ can' = c /\ sending' = TRUE /\ i' = 0 /\ result' = result
          /\ fate' = "waiting"
      BY <1>1, <2>2 DEF CAN_Transmit
    <3> QED
      BY <1>0, <3>5, <3>6, <3>7 DEF CanTypeOK
  <2> QED
    BY <2>1, <2>2
<1>2. ASSUME NEW c \in Controller, Bus(c) PROVE CanTypeOK'
  BY <1>2 DEF Bus, CanTypeOK
<1>3. CASE ReturnZero \/ ReturnOne
  BY <1>0, <1>3 DEF ReturnZero, ReturnOne, Return, CanTypeOK
<1>4. CASE KeepPolling
  BY <1>4, CanAssumption DEF KeepPolling, CanTypeOK
<1>5. CASE UNCHANGED canVars
  BY <1>5 DEF canVars, CanTypeOK
<1> QED
  BY <1>1, <1>2, <1>3, <1>4, <1>5 DEF CanStep

(* What the tasks keep for themselves. *)
WorkTypeOK == done \subseteq Task /\ tc \in BOOLEAN /\ writing \in BOOLEAN

LEMMA WorkTypeKept == ASSUME WorkTypeOK, [Next]_vars PROVE WorkTypeOK'
<1>1. ASSUME NEW t \in Task, Work(t) PROVE WorkTypeOK'
  BY <1>1, TasksAssumption
  DEF Work, LED1_TOGGLE, WriteByte, ByteSent, StartFrame, PollFrame, EndFrame, WorkTypeOK, taskVars
<1>2. ASSUME NEW t \in Task, Sleep(t) PROVE WorkTypeOK'
  BY <1>2 DEF Sleep, WorkTypeOK
<1>3. CASE UNCHANGED taskVars
  BY <1>3 DEF taskVars, WorkTypeOK
<1>4. CASE Usart2
  BY <1>4 DEF Usart2, WorkTypeOK
<1> QED
  BY <1>1, <1>2, <1>3, <1>4 DEF Next, OnlyKernel, vars

(* Every variable of the tasks, the kernel and the CAN part keeps its type *)
(* in every behaviour of the firmware (main.c:71-99).                      *)
THEOREM TasksTypeCorrect == Spec => []TypeOK
<1>1. Spec => []KernelTypeOK
  BY TasksUseKernel, KernelTypeCorrect, PTL
<1>2. Init => CanTypeOK /\ WorkTypeOK
  <2>1. NoMailBox \in 0..MAILBOXES /\ 0 \in 0..(POLLS - 1)
    BY CanAssumption DEF NoMailBox
  <2>2. CanInit => mailbox \in [Controller -> [Mailboxes -> {"empty", "pending", "ok", "failed"}]]
    BY DEF CanInit
  <2>3. CanInit => CanTypeOK
    BY <2>1, <2>2 DEF CanInit, CanTypeOK
  <2> QED
    BY <2>3 DEF Init, WorkTypeOK
<1>3. CanTypeOK /\ WorkTypeOK /\ [Next]_vars => CanTypeOK' /\ WorkTypeOK'
  BY TasksUseCan, CanTypeKept, WorkTypeKept
<1>4. KernelTypeOK /\ CanTypeOK /\ WorkTypeOK => TypeOK
  BY DEF TypeOK, WorkTypeOK
<1> QED
  BY <1>1, <1>2, <1>3, <1>4, PTL DEF Spec

=============================================================================
