-------------------------------- MODULE Can --------------------------------
(***************************************************************************)
(* Sending on the CAN controllers: can_1_send_data and can_2_send_data of  *)
(* Peripherals/can.c on CAN_Transmit and CAN_TransmitStatus of the ST      *)
(* driver.  A controller sends a frame once (CAN_NART) and of several      *)
(* frames with the same identifier that of the lowest mailbox first.  The  *)
(* bus may also do nothing for as long as it likes.                        *)
(***************************************************************************)
EXTENDS Integers, FiniteSetsExt

CONSTANTS
  Controller,   \* CAN1 and CAN2
  MAILBOXES,    \* transmit mailboxes of each, 3 in hardware
  POLLS         \* 0xFFF, the bound of the wait

ASSUME CanAssumption == MAILBOXES \in Nat \ {0} /\ POLLS \in Nat \ {0}

VARIABLES
  mailbox,   \* [Controller -> [Mailboxes -> state of the mailbox]]
  can,       \* the controller of the latest call
  sending,   \* it has not returned
  mbox, i,   \* its locals
  result,    \* what the latest call to return has returned
  fate       \* what has become of its frame so far

canVars == <<mailbox, can, sending, mbox, i, result, fate>>

Mailboxes == 0..(MAILBOXES - 1)

(* CAN_TxStatus_NoMailBox is no number of a mailbox. *)
NoMailBox == MAILBOXES

-----------------------------------------------------------------------------
(* A mailbox is empty (TME) unless its frame is pending. *)
Empty(c) == {k \in Mailboxes : mailbox[c][k] # "pending"}

(* Mutant of CAN_TransmitStatus: TXOK is not read, so a mailbox whose      *)
(* request is completed (RQCP) counts as sent.                             *)
StatusWithoutTXOK(c, k) ==
  IF k \notin Mailboxes \/ mailbox[c][k] = "pending" THEN "Pending" ELSE "Ok"

(* CAN_TransmitStatus(c, k).  A k that is no mailbox gives the state 0,    *)
(* which the second switch takes for a pending frame.                      *)
CAN_TransmitStatus(c, k) ==
  CASE k \notin Mailboxes \/ mailbox[c][k] = "pending" -> "Pending"
    [] k \in Mailboxes /\ mailbox[c][k] = "ok" -> "Ok"
    [] OTHER -> "Failed"

-----------------------------------------------------------------------------
(* The call hands its frame to the first empty mailbox. *)
CAN_Transmit(c) ==
  /\ ~sending
  /\ sending' = TRUE /\ can' = c /\ i' = 0
  /\ IF Empty(c) = {}
     THEN mbox' = NoMailBox /\ fate' = "dropped" /\ UNCHANGED mailbox
     ELSE /\ mbox' = Min(Empty(c)) /\ fate' = "waiting"
          /\ mailbox' = [mailbox EXCEPT ![c][mbox'] = "pending"]
  /\ UNCHANGED result

(* The call returns; its locals are gone. *)
Return(r) ==
  /\ sending' = FALSE /\ result' = r
  /\ mbox' = NoMailBox /\ i' = 0 /\ fate' = "none"

(* The status is no failure: the call returns 0. *)
ReturnZero ==
  /\ sending /\ CAN_TransmitStatus(can, mbox) # "Failed"
  /\ Return(0)
  /\ UNCHANGED <<mailbox, can>>

(* Mutant of KeepPolling: the number of polls is not bounded. *)
PollForEver ==
  /\ sending /\ CAN_TransmitStatus(can, mbox) = "Failed"
  /\ UNCHANGED canVars

(* The status is a failure: the call looks again ... *)
KeepPolling ==
  /\ sending /\ CAN_TransmitStatus(can, mbox) = "Failed"
  /\ i + 1 < POLLS /\ i' = i + 1
  /\ UNCHANGED <<mailbox, can, sending, mbox, result, fate>>

(* ... and returns 1 in the end.                           *)
ReturnOne ==
  /\ sending /\ CAN_TransmitStatus(can, mbox) = "Failed"
  /\ i + 1 >= POLLS
  /\ Return(1)
  /\ UNCHANGED <<mailbox, can>>

(* The bus: the pending frame of the lowest mailbox is sent or fails. *)
Bus(c) ==
  \E outcome \in {"ok", "failed"}, k \in Mailboxes \ Empty(c) :
    /\ \A l \in Mailboxes \ Empty(c) : k <= l
    /\ mailbox' = [mailbox EXCEPT ![c][k] = outcome]
    /\ fate' = IF sending /\ c = can /\ k = mbox THEN outcome ELSE fate
    /\ UNCHANGED <<can, sending, mbox, i, result>>

(* After can_1_driver_config and can_2_driver_config. *)
CanInit ==
  /\ mailbox = [c \in Controller |-> [k \in Mailboxes |-> "empty"]]
  /\ can \in Controller /\ sending = FALSE /\ mbox = NoMailBox
  /\ i = 0 /\ result = 0 /\ fate = "none"

-----------------------------------------------------------------------------
(* Every variable of the CAN part has its type. *)
CanTypeOK ==
  /\ mailbox \in [Controller -> [Mailboxes -> {"empty", "pending", "ok", "failed"}]]
  /\ can \in Controller /\ sending \in BOOLEAN /\ mbox \in 0..MAILBOXES
  /\ i \in 0..(POLLS - 1) /\ result \in {0, 1}
  /\ fate \in {"none", "waiting", "dropped", "ok", "failed"}

(* Of a frame the bus is done with a call says what has become of it: it   *)
(* returns 1 when its own frame has failed and 0 when it was sent,         *)
(* whatever the other mailboxes hold (can.c:49, 85).                       *)
Verdict ==
  [][sending /\ ~sending' /\ fate \in {"ok", "failed"} =>
       (result' = 1 <=> fate = "failed")]_canVars

(* A call that found no mailbox free fails.  CAN_TransmitStatus is to      *)
(* return "CAN_TxStatus_Failed in an other case" than a transmitted        *)
(* message, and sets that state for a number that is no mailbox            *)
(* (stm32f4xx_can.c:782, 804), but its second switch takes it for Pending. *)
DroppedFails ==
  [][sending /\ ~sending' /\ fate = "dropped" => result' = 1]_canVars

=============================================================================
