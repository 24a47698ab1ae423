----------------------------- MODULE MCModbusRTU -----------------------------
(***************************************************************************)
(* Small instances of ModbusRTU for TLC.  The buffer holds 5 bytes where   *)
(* the code has 256: one more than the shortest frame, so that there are   *)
(* frames below the minimum, shorter than the buffer, as long as the       *)
(* buffer, and longer.                                                     *)
(***************************************************************************)
EXTENDS ModbusRTU

Frame(len, addr, good, echo) == [len |-> len, addr |-> addr, good |-> good, echo |-> echo]

(* "write": a request whose response repeats it; "read": one that is as    *)
(* long as the buffer; "noise": too short for a frame; "long": too long    *)
(* for the buffer; "damaged": CRC wrong.                                   *)
Catalogue ==
  [write   |-> Frame(4, "own", TRUE, TRUE),
   read    |-> Frame(5, "own", TRUE, FALSE),
   cast    |-> Frame(4, "broadcast", TRUE, FALSE),
   foreign |-> Frame(4, "other", TRUE, FALSE),
   damaged |-> Frame(4, "own", FALSE, FALSE),
   long    |-> Frame(6, "own", TRUE, FALSE),
   noise   |-> Frame(2, "own", TRUE, FALSE)]

MCTraffic == [r \in Requests |-> Catalogue[r]]

=============================================================================
