------------------------------ MODULE MCDelay ------------------------------
(* A millisecond of two microseconds for TLC. *)
EXTENDS Delay

(* Nothing, parts of a period, several periods and, for delay_us, the last *)
(* arguments whose cycles fit the width.                                   *)
MCArgs == [delay_us |-> {0, 1, 2, 5, 7}, delay_ms |-> {0, 1, 3}, delay_xms |-> {0, 1, 4}]

=============================================================================
