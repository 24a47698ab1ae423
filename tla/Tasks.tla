------------------------------- MODULE Tasks -------------------------------
(***************************************************************************)
(* The three tasks of User/main.c on the kernel: task1 toggles the LED,    *)
(* task2 sends a byte on RS485 and waits until it is out, task3 sends a    *)
(* frame on CAN1 and on CAN2 in turn; each then sleeps.                    *)
(***************************************************************************)
EXTENDS Kernel, Can

CONSTANTS task1, task2, task3, CAN1, CAN2

ASSUME TasksAssumption ==
  /\ Task = {task1, task2, task3} /\ task1 # task2 /\ task2 # task3 /\ task1 # task3
  /\ Controller = {CAN1, CAN2} /\ CAN1 # CAN2

VARIABLES
  done,      \* the tasks that have done their work and call vTaskDelay next
  tc,        \* TC of USART2
  writing    \* task2 has written its byte and waits for TC

taskVars == <<done, tc, writing>>
vars == <<kernelVars, canVars, taskVars>>

-----------------------------------------------------------------------------
(* What the running task does between two calls of vTaskDelay.             *)
InBody(t) == Running(t) /\ pc[t] = "body" /\ t \notin done

LED1_TOGGLE ==
  /\ InBody(task1)
  /\ done' = done \cup {task1}
  /\ UNCHANGED <<kernelVars, canVars, tc, writing>>

(* rs485_send_byte: the write clears TC, which the wait has read before. *)
WriteByte ==
  /\ InBody(task2) /\ ~writing
  /\ writing' = TRUE /\ tc' = FALSE
  /\ UNCHANGED <<kernelVars, canVars, done>>

ByteSent ==
  /\ InBody(task2) /\ writing /\ tc
  /\ writing' = FALSE /\ done' = done \cup {task2}
  /\ UNCHANGED <<kernelVars, canVars, tc>>

(* USART2 has sent the byte. *)
Usart2 ==
  /\ ~tc /\ tc' = TRUE
  /\ UNCHANGED <<kernelVars, canVars, done, writing>>

(* task3 calls the controllers in turn. *)
StartFrame ==
  /\ InBody(task3)
  /\ CAN_Transmit(IF can = CAN1 THEN CAN2 ELSE CAN1)
  /\ UNCHANGED <<kernelVars, taskVars>>

PollFrame ==
  /\ InBody(task3)
  /\ KeepPolling
  /\ UNCHANGED <<kernelVars, taskVars>>

EndFrame ==
  /\ InBody(task3)
  /\ ReturnZero \/ ReturnOne
  /\ done' = done \cup {task3}
  /\ UNCHANGED <<kernelVars, tc, writing>>

(* The task calls vTaskDelay. *)
Sleep(t) ==
  /\ t \in done /\ vTaskSuspendAll(t)
  /\ done' = done \ {t}
  /\ UNCHANGED <<canVars, tc, writing>>

Work(t) ==
  \/ t = task1 /\ LED1_TOGGLE
  \/ t = task2 /\ (WriteByte \/ ByteSent)
  \/ t = task3 /\ (StartFrame \/ PollFrame \/ EndFrame)

OnlyKernel(A) == A /\ UNCHANGED <<canVars, taskVars>>

-----------------------------------------------------------------------------
(* main has configured the drivers, sent the first byte on RS485 and       *)
(* started the scheduler.                                                  *)
Init ==
  /\ KernelInit /\ CanInit /\ can = CAN2
  /\ done = {} /\ tc \in BOOLEAN /\ writing = FALSE

Next ==
  \/ OnlyKernel(start_task)
  \/ OnlyKernel(vTaskSwitchContext)
  \/ OnlyKernel(xPortSysTickHandler)
  \/ \E t \in Task : Work(t) \/ Sleep(t) \/ OnlyKernel(vTaskDelay(t))
  \/ \E c \in Controller : Bus(c) /\ UNCHANGED <<kernelVars, taskVars>>
  \/ Usart2

(* The processor goes on with what runs, takes its interrupts, and USART2  *)
(* sends what it is given.  The CAN bus owes nothing.                      *)
Fairness ==
  /\ WF_vars(OnlyKernel(start_task))
  /\ WF_vars(OnlyKernel(vTaskSwitchContext)) /\ WF_vars(OnlyKernel(xPortSysTickHandler))
  /\ \A t \in Task : WF_vars(Work(t) \/ Sleep(t) \/ OnlyKernel(vTaskDelay(t)))
  /\ WF_vars(Usart2)

Spec == Init /\ [][Next]_vars /\ Fairness

-----------------------------------------------------------------------------
(* Every variable has its type, those of the kernel and of CAN included. *)
TypeOK ==
  /\ KernelTypeOK /\ CanTypeOK
  /\ done \subseteq Task /\ tc \in BOOLEAN /\ writing \in BOOLEAN

(* Every task does its work again and again: nobody is left sleeping,      *)
(* starved or stuck in the wait for a CAN frame, however the bus behaves   *)
(* (main.c:71, 80, 90).                                                    *)
EveryTaskRuns == \A t \in Task : []<>(pxCurrentTCB = t /\ t \in done)

=============================================================================
