SPECIFICATION Spec
CONSTANTS
  task1 = task1
  task2 = task2
  task3 = task3
  CAN1 = CAN1
  CAN2 = CAN2
  Idle = Idle
  Start = Start
  Task = {task1, task2, task3}
  Controller = {CAN1, CAN2}
  Priority <- Priorities
  Delay <- Delays
  TICK_MOD = 4
  MaxBusy = 2
  MAILBOXES = 1
  POLLS = 2
PROPERTIES DroppedFails
