------------------------------- MODULE Kernel -------------------------------
(***************************************************************************)
(* The part of FreeRTOS (Source/tasks.c) that the firmware uses: periodic  *)
(* tasks of different priorities that sleep with vTaskDelay, the tick      *)
(* interrupt, and the context switch.  The tick count wraps, and ticks     *)
(* that come while a task has suspended the scheduler are made up later.   *)
(*                                                                         *)
(* What a task does between two calls of vTaskDelay is not said here.      *)
(***************************************************************************)
EXTENDS Integers, FiniteSetsExt

CONSTANTS
  Task,       \* the tasks that start_task creates
  Priority,   \* their priorities, all different
  Delay,      \* the argument of each task's vTaskDelay
  TICK_MOD,   \* 2^32, the range of TickType_t
  MaxBusy,    \* bound on the ticks before the processor is idle again
  Idle, Start \* the idle task and start_task

ASSUME TaskAssumption ==
  /\ IsFiniteSet(Task) /\ Idle \notin Task /\ Start \notin Task /\ Idle # Start
  /\ Priority \in [Task -> Nat \ {0}]
  /\ \A t, u \in Task : t # u => Priority[t] # Priority[u]
ASSUME TickAssumption ==
  /\ TICK_MOD \in Nat \ {0} /\ MaxBusy \in Nat
  /\ Delay \in [Task -> 1..(TICK_MOD - 1)]

VARIABLES
  xTickCount,
  ready,                       \* pxReadyTasksLists
  pxDelayedTaskList,           \* tasks that wake before the count wraps
  pxOverflowDelayedTaskList,   \* tasks that wake after it
  wake,                        \* the tick at which each sleeping task wakes
  xNextTaskUnblockTime,
  pxCurrentTCB,
  uxSchedulerSuspended,
  xPendedTicks,
  xYieldPending,
  pendSV,                      \* a context switch is pending
  pc,                          \* where each task is in vTaskDelay
  elapsed,                     \* tick interrupts since each task's call of it
  busy                         \* ticks during tasks since the idle task was chosen

lists == <<pxDelayedTaskList, pxOverflowDelayedTaskList, xNextTaskUnblockTime>>
kernelVars == <<xTickCount, ready, lists, wake, pxCurrentTCB, uxSchedulerSuspended,
                xPendedTicks, xYieldPending, pendSV, pc, elapsed, busy>>

portMAX_DELAY == TICK_MOD - 1
Ticks == 0..portMAX_DELAY

-----------------------------------------------------------------------------
(* The running task goes on when no context switch is pending.             *)
Running(t) == pxCurrentTCB = t /\ ~pendSV

(* The critical section of xTaskResumeAll masks the kernel's interrupts.   *)
Masked == \E t \in Task : pxCurrentTCB = t /\ pc[t] = "resume"

(* The wake time at the head of a delayed list (prvResetNextTaskUnblock-   *)
(* Time).                                                                  *)
HeadTime(list) == Min({wake[t] : t \in list} \cup {portMAX_DELAY})

Asleep == pxDelayedTaskList \cup pxOverflowDelayedTaskList

Tick == (xTickCount + 1) % TICK_MOD

(* The lists after taskSWITCH_DELAYED_LISTS, when the count wraps.         *)
Delayed  == IF Tick = 0 THEN pxOverflowDelayedTaskList ELSE pxDelayedTaskList
Overflow == IF Tick = 0 THEN pxDelayedTaskList ELSE pxOverflowDelayedTaskList
NextTime == IF Tick = 0 THEN HeadTime(Delayed) ELSE xNextTaskUnblockTime

(* The tasks that the tick wakes: the head of the list as long as its time *)
(* has come.                                                               *)
Due == IF Tick < NextTime THEN {} ELSE {t \in Delayed : wake[t] <= Tick}

Prio(t) == IF t \in Task THEN Priority[t] ELSE 0

(* Mutant of SwitchRequired: a woken task waits for the running one. *)
SwitchNever == xYieldPending

(* What xTaskIncrementTick returns. *)
SwitchRequired == xYieldPending \/ \E t \in Due : Prio(t) > Prio(pxCurrentTCB)

(* xTaskIncrementTick while the scheduler is not suspended. *)
xTaskIncrementTick ==
  /\ xTickCount' = Tick
  /\ ready' = ready \cup Due
  /\ pxDelayedTaskList' = Delayed \ Due
  /\ pxOverflowDelayedTaskList' = Overflow
  /\ xNextTaskUnblockTime' = IF Tick < NextTime THEN NextTime ELSE HeadTime(Delayed \ Due)

-----------------------------------------------------------------------------
(* start_task creates the tasks and deletes itself in a critical section;  *)
(* each call asks for a context switch.                                    *)
start_task ==
  /\ Running(Start)
  /\ ready' = Task /\ pendSV' = TRUE
  /\ UNCHANGED <<xTickCount, lists, wake, pxCurrentTCB, uxSchedulerSuspended,
                 xPendedTicks, xYieldPending, pc, elapsed, busy>>

(* vTaskDelay: the scheduler is suspended. *)
vTaskSuspendAll(t) ==
  /\ Running(t) /\ pc[t] = "body"
  /\ uxSchedulerSuspended' = uxSchedulerSuspended + 1
  /\ pc' = [pc EXCEPT ![t] = "suspended"]
  /\ elapsed' = [elapsed EXCEPT ![t] = 0]
  /\ UNCHANGED <<xTickCount, ready, lists, wake, pxCurrentTCB, xPendedTicks,
                 xYieldPending, pendSV, busy>>

(* Mutant of prvAddCurrentTaskToDelayedList: a wrapped wake time goes into    *)
(* the list for the current round.                                         *)
AddWrapped(t) ==
  /\ Running(t) /\ pc[t] = "suspended"
  /\ ready' = ready \ {t}
  /\ LET time == (xTickCount + Delay[t]) % TICK_MOD
     IN  /\ wake' = [wake EXCEPT ![t] = time]
         /\ pxDelayedTaskList' = pxDelayedTaskList \cup {t}
         /\ xNextTaskUnblockTime' = Min({time, xNextTaskUnblockTime})
         /\ UNCHANGED pxOverflowDelayedTaskList
  /\ pc' = [pc EXCEPT ![t] = "added"]
  /\ UNCHANGED <<xTickCount, pxCurrentTCB, uxSchedulerSuspended, xPendedTicks,
                 xYieldPending, pendSV, elapsed, busy>>

(* The task leaves the ready list for one of the delayed lists. *)
prvAddCurrentTaskToDelayedList(t) ==
  /\ Running(t) /\ pc[t] = "suspended"
  /\ ready' = ready \ {t}
  /\ LET time == (xTickCount + Delay[t]) % TICK_MOD
     IN  /\ wake' = [wake EXCEPT ![t] = time]
         /\ IF time < xTickCount
            THEN /\ pxOverflowDelayedTaskList' = pxOverflowDelayedTaskList \cup {t}
                 /\ UNCHANGED <<pxDelayedTaskList, xNextTaskUnblockTime>>
            ELSE /\ pxDelayedTaskList' = pxDelayedTaskList \cup {t}
                 /\ xNextTaskUnblockTime' = Min({time, xNextTaskUnblockTime})
                 /\ UNCHANGED pxOverflowDelayedTaskList
  /\ pc' = [pc EXCEPT ![t] = "added"]
  /\ UNCHANGED <<xTickCount, pxCurrentTCB, uxSchedulerSuspended, xPendedTicks,
                 xYieldPending, pendSV, elapsed, busy>>

(* Mutant of EnterResume: the suspension is not taken back. *)
ResumeNothing(t) ==
  /\ Running(t) /\ pc[t] = "added"
  /\ pc' = [pc EXCEPT ![t] = "resume"]
  /\ UNCHANGED <<xTickCount, ready, lists, wake, pxCurrentTCB, uxSchedulerSuspended,
                 xPendedTicks, xYieldPending, pendSV, elapsed, busy>>

(* xTaskResumeAll enters its critical section ... *)
EnterResume(t) ==
  /\ Running(t) /\ pc[t] = "added"
  /\ uxSchedulerSuspended' = uxSchedulerSuspended - 1
  /\ pc' = [pc EXCEPT ![t] = "resume"]
  /\ UNCHANGED <<xTickCount, ready, lists, wake, pxCurrentTCB, xPendedTicks,
                 xYieldPending, pendSV, elapsed, busy>>

(* ... makes up for the ticks that came meanwhile, one by one ...          *)
UnwindTick(t) ==
  /\ Running(t) /\ pc[t] = "resume" /\ xPendedTicks > 0
  /\ xTaskIncrementTick
  /\ xYieldPending' = SwitchRequired
  /\ xPendedTicks' = xPendedTicks - 1
  /\ UNCHANGED <<wake, pxCurrentTCB, uxSchedulerSuspended, pendSV, pc, elapsed, busy>>

(* ... and yields if one of them asks for it; otherwise vTaskDelay does.   *)
LeaveResume(t) ==
  /\ Running(t) /\ pc[t] = "resume" /\ xPendedTicks = 0
  /\ pendSV' = xYieldPending
  /\ pc' = [pc EXCEPT ![t] = IF xYieldPending THEN "body" ELSE "yield"]
  /\ UNCHANGED <<xTickCount, ready, lists, wake, pxCurrentTCB, uxSchedulerSuspended,
                 xPendedTicks, xYieldPending, elapsed, busy>>

portYIELD(t) ==
  /\ Running(t) /\ pc[t] = "yield"
  /\ pendSV' = TRUE
  /\ pc' = [pc EXCEPT ![t] = "body"]
  /\ UNCHANGED <<xTickCount, ready, lists, wake, pxCurrentTCB, uxSchedulerSuspended,
                 xPendedTicks, xYieldPending, elapsed, busy>>

(* The ready tasks of the highest priority, or the idle task. *)
Highest ==
  IF ready = {} THEN {Idle} ELSE {t \in ready : \A u \in ready : Priority[u] <= Priority[t]}

(* PendSV: vTaskSwitchContext. *)
vTaskSwitchContext ==
  /\ pendSV /\ ~Masked
  /\ pendSV' = FALSE
  /\ xYieldPending' = (uxSchedulerSuspended # 0)
  /\ IF uxSchedulerSuspended # 0 THEN UNCHANGED pxCurrentTCB ELSE pxCurrentTCB' \in Highest
  /\ busy' = IF pxCurrentTCB' = Idle THEN 0 ELSE busy
  /\ UNCHANGED <<xTickCount, ready, lists, wake, uxSchedulerSuspended, xPendedTicks,
                 pc, elapsed>>

(* The tick interrupt. *)
xPortSysTickHandler ==
  /\ ~Masked /\ (pxCurrentTCB \in Task => busy < MaxBusy)
  /\ busy' = IF pxCurrentTCB \in Task THEN busy + 1 ELSE busy
  /\ elapsed' = [t \in Task |-> IF t \in Asleep \/ pc[t] = "suspended" THEN elapsed[t] + 1 ELSE elapsed[t]]
  /\ IF uxSchedulerSuspended # 0
     THEN /\ xPendedTicks' = xPendedTicks + 1
          /\ UNCHANGED <<xTickCount, ready, lists, pendSV>>
     ELSE /\ xTaskIncrementTick
          /\ pendSV' = (pendSV \/ SwitchRequired)
          /\ UNCHANGED xPendedTicks
  /\ UNCHANGED <<wake, pxCurrentTCB, uxSchedulerSuspended, xYieldPending, pc>>

(* The scheduler has been started; the timer task, of the highest          *)
(* priority, waits for a command that never comes.                         *)
KernelInit ==
  /\ xTickCount = 0
  /\ ready = {} /\ pxDelayedTaskList = {} /\ pxOverflowDelayedTaskList = {}
  /\ wake = [t \in Task |-> 0] /\ xNextTaskUnblockTime = portMAX_DELAY
  /\ pxCurrentTCB = Start /\ uxSchedulerSuspended = 0
  /\ xPendedTicks = 0 /\ xYieldPending = FALSE /\ pendSV = FALSE
  /\ pc = [t \in Task |-> "body"]
  /\ elapsed = [t \in Task |-> 0] /\ busy = 0

(* The rest of vTaskDelay once it is begun. *)
vTaskDelay(t) ==
  \/ prvAddCurrentTaskToDelayedList(t)
  \/ EnterResume(t)
  \/ UnwindTick(t)
  \/ LeaveResume(t)
  \/ portYIELD(t)

KernelNext ==
  \/ start_task
  \/ \E t \in Task : vTaskSuspendAll(t) \/ vTaskDelay(t)
  \/ vTaskSwitchContext
  \/ xPortSysTickHandler

(* The kernel, whatever its tasks do between two calls. *)
KernelSpec == KernelInit /\ [][KernelNext]_kernelVars

-----------------------------------------------------------------------------
(* Every variable of the kernel has its type. *)
KernelTypeOK ==
  /\ xTickCount \in Ticks /\ xNextTaskUnblockTime \in Ticks /\ wake \in [Task -> Ticks]
  /\ ready \subseteq Task /\ Asleep \subseteq Task
  /\ pxCurrentTCB \in Task \cup {Idle, Start}
  /\ uxSchedulerSuspended \in {0, 1} /\ xPendedTicks \in Nat
  /\ xYieldPending \in BOOLEAN /\ pendSV \in BOOLEAN
  /\ pc \in [Task -> {"body", "suspended", "added", "resume", "yield"}]
  /\ elapsed \in [Task -> Nat] /\ busy \in Nat

(* Outside vTaskDelay and of a pending switch, the task of the highest     *)
(* priority among the ready ones runs (tasks.c:2817).                      *)
HighestRuns ==
  ~pendSV /\ (pxCurrentTCB \in Task => pc[pxCurrentTCB] = "body")
    => IF pxCurrentTCB = Start THEN ready = {} ELSE pxCurrentTCB \in Highest

(* The assertion of taskSWITCH_DELAYED_LISTS (tasks.c:206): no task is     *)
(* left in the delayed list when the next tick wraps the count.            *)
SwitchedEmpty == xTickCount = portMAX_DELAY => pxDelayedTaskList = {}

(* A task wakes with exactly the tick it asked for: the Delay[t]-th since  *)
(* its call of vTaskDelay, those still to be made up for not counted,      *)
(* also when the count wraps (tasks.c:2741, 5344).                         *)
WakesOnTime ==
  [][\A t \in Asleep : t \in ready' => elapsed'[t] - xPendedTicks' = Delay[t]]_kernelVars

=============================================================================
