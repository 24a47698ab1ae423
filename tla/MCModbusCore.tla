---------------------------- MODULE MCModbusCore ----------------------------
(* ModbusCore with a table of three entries, the first of them built in.   *)
(* There are enough codes and handlers to fill it and to be refused.       *)
EXTENDS ModbusCore

CONSTANT h1

MCBuiltinCode    == [i \in {0} |-> 1]
MCBuiltinHandler == [i \in {0} |-> h1]
=============================================================================
