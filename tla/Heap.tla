-------------------------------- MODULE Heap --------------------------------
(***************************************************************************)
(* What the memory manager promises its callers: an allocation is a run of *)
(* blocks that overlaps no other allocation, it stays until it is freed,   *)
(* and freeing it frees nothing else.                                      *)
(***************************************************************************)
EXTENDS Integers

CONSTANT TableSize   \* number of blocks of the bank

VARIABLE live        \* the allocations callers hold, as <<first block, length>>

Run == (0..(TableSize - 1)) \X (1..TableSize)

Apart(a, b) == a[1] + a[2] <= b[1] \/ b[1] + b[2] <= a[1]

Fresh(a) == a[1] + a[2] <= TableSize /\ \A b \in live : Apart(a, b)

Init == live = {}

Allocate(a) == Fresh(a) /\ live' = live \cup {a}

Release(a) == live' = live \ {a}

(* The new allocation is made before the old one is given back. *)
Move(a, b) == Fresh(b) /\ live' = (live \cup {b}) \ {a}

Next ==
  \/ \E a \in Run : Allocate(a)
  \/ \E a \in live : Release(a) \/ \E b \in Run : Move(a, b)

Spec == Init /\ [][Next]_live

=============================================================================
