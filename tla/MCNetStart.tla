----------------------------- MODULE MCNetStart -----------------------------
(* A bank of six blocks of two bytes for TLC; each part takes one block.   *)
EXTENDS NetStart

(* Nothing, less than a block, whole blocks, a block and a bit, the whole  *)
(* bank and more than it.                                                  *)
MCSizes == {0, 1, 2, 3, 6, 2 * TableSize, 2 * TableSize + 1}

=============================================================================
