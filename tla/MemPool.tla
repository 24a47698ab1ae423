------------------------------- MODULE MemPool -------------------------------
(***************************************************************************)
(* One bank of the memory manager of Driver/System/malloc.c: a table with  *)
(* one entry per block, 0 for a free block and otherwise the length of the *)
(* run the block belongs to.  The functions of the three banks differ only *)
(* in the constants below.                                                 *)
(*                                                                         *)
(* live is what callers hold; they free only what they hold.               *)
(***************************************************************************)
EXTENDS Integers

CONSTANTS
  TableSize,   \* memtblsize[memx]: 480, 16 and 960 in the code
  BlockSize,   \* memblksize[memx]: 64
  Sizes        \* the sizes callers ask for, in bytes

ASSUME TableAssumption == TableSize \in Nat \ {0} /\ BlockSize \in Nat \ {0}
ASSUME SizesAssumption == Sizes \subseteq Nat

VARIABLES
  memrdy,   \* g_mem_dev.memrdy[memx]
  memmap,   \* g_mem_dev.memmap[memx]
  live      \* the allocations callers hold, as <<first block, length>>

vars == <<memrdy, memmap, live>>

Block == 0..(TableSize - 1)
Run   == Block \X (1..TableSize)

Blocks(o, n) == {b \in Block : o <= b /\ b < o + n}

-----------------------------------------------------------------------------
(* my_mem_init clears the table; the first call of any other function does *)
(* so when it finds the bank not ready.                                    *)
Cleared == [b \in Block |-> 0]
Table   == IF memrdy THEN memmap ELSE Cleared

(* Blocks needed for size bytes. *)
Nmemb(size) == size \div BlockSize + (IF size % BlockSize # 0 THEN 1 ELSE 0)

(* Mutant of Mark: the last block of the run is missed. *)
MarkShort(table, o, n, mark) ==
  [b \in Block |-> IF b \in Blocks(o, n - 1) THEN mark ELSE table[b]]

(* The loops that fill a run with its length, or clear it. *)
Mark(table, o, n, mark) == [b \in Block |-> IF b \in Blocks(o, n) THEN mark ELSE table[b]]

(* Mutant of FreeAt: only the first block of the run is looked at. *)
FreeAtFirst(table, o, n) == o + n <= TableSize /\ table[o] = 0

(* Mutant of FreeAt: a run may leave the table. *)
FreeAtEnd(table, o, n) == \A b \in Blocks(o, n) : table[b] = 0

FreeAt(table, o, n) == o + n <= TableSize /\ \A b \in Blocks(o, n) : table[b] = 0

(* Mutant of Turn: the count is not reset by a used block. *)
TurnNoReset(table, n, o, below) ==
  [cmemb \in Nat |->
     LET row == IF table[o] = 0 THEN cmemb + 1 ELSE cmemb
     IN  IF row = n THEN o ELSE below[row]]

(* One turn of the search loop of my_mem_malloc: the free blocks in a row  *)
(* (cmemb) are counted up to n.  below is what the turns below find.       *)
Turn(table, n, o, below) ==
  [cmemb \in Nat |->
     LET row == IF table[o] = 0 THEN cmemb + 1 ELSE 0
     IN  IF row = n THEN o ELSE below[row]]

(* The loop, from the last block down.  -1: none. *)
Search(table, n) ==
  LET loop[o \in -1..(TableSize - 1)] ==
        IF o = -1 THEN [cmemb \in Nat |-> -1] ELSE Turn(table, n, o, loop[o - 1])
  IN  loop[TableSize - 1][0]

(* What it finds, SearchFindsHighest: the highest run of n free blocks. *)
FoundAt(table, o, n) ==
  /\ FreeAt(table, o, n)
  /\ \A p \in Block : FreeAt(table, p, n) => p <= o

Refused(size) == size = 0 \/ \A o \in Block : ~FreeAt(Table, o, Nmemb(size))

my_mem_malloc(size) ==
  \/ /\ Refused(size)
     /\ memrdy' = TRUE /\ memmap' = Table
     /\ UNCHANGED live
  \/ /\ size # 0
     /\ \E o \in Block :
          /\ FoundAt(Table, o, Nmemb(size))
          /\ memmap' = Mark(Table, o, Nmemb(size), Nmemb(size))
          /\ live' = live \cup {<<o, Nmemb(size)>>}
     /\ memrdy' = TRUE

(* my_mem_free of a pointer that is held: how many blocks it clears is     *)
(* read from the table.                                                    *)
my_mem_free(a) ==
  /\ memrdy
  /\ memmap' = Mark(memmap, a[1], memmap[a[1]], 0)
  /\ live' = live \ {a}
  /\ UNCHANGED memrdy

(* my_mem_free of an address outside the bank (offset >= memsize): only    *)
(* the initialisation happens.                                             *)
my_mem_free_foreign ==
  /\ memrdy' = TRUE /\ memmap' = Table
  /\ UNCHANGED live

(* myrealloc allocates, copies, and then frees the old run; when the       *)
(* allocation is refused it keeps the old one.                             *)
myrealloc(a, size) ==
  \/ /\ Refused(size)
     /\ memrdy' = TRUE /\ memmap' = Table
     /\ UNCHANGED live
  \/ /\ size # 0
     /\ \E o \in Block :
          LET n      == Nmemb(size)
              marked == Mark(Table, o, n, n)
          IN  /\ FoundAt(Table, o, n)
              /\ memmap' = Mark(marked, a[1], marked[a[1]], 0)
              /\ live' = (live \cup {<<o, n>>}) \ {a}
     /\ memrdy' = TRUE

-----------------------------------------------------------------------------
(* The tables of banks 2 and 3 lie at fixed addresses outside the          *)
(* initialised data: before my_mem_init they hold anything.                *)
Init ==
  /\ memrdy = FALSE
  /\ memmap \in [Block -> 0..TableSize]
  /\ live = {}

Next ==
  \/ \E size \in Sizes : my_mem_malloc(size) \/ \E a \in live : myrealloc(a, size)
  \/ \E a \in live : my_mem_free(a)
  \/ my_mem_free_foreign

Spec == Init /\ [][Next]_vars

-----------------------------------------------------------------------------
(* Every variable has its type. *)
TypeOK ==
  /\ memrdy \in BOOLEAN
  /\ memmap \in [Block -> 0..TableSize]
  /\ live \subseteq Run

(* Two allocations never share a block, and none leaves the bank. *)
Apart(a, b) == a[1] + a[2] <= b[1] \/ b[1] + b[2] <= a[1]
NoOverlap ==
  /\ \A a \in live : a[1] + a[2] <= TableSize
  /\ \A a, b \in live : a # b => Apart(a, b)

(* The table says of every block exactly what callers hold: each block of  *)
(* an allocation carries its length (my_mem_free relies on it, malloc.c:   *)
(* 176), and no block is marked that nobody holds (no leak).               *)
TableMatches ==
  /\ live # {} => memrdy
  /\ \A a \in live : \A b \in Blocks(a[1], a[2]) : memmap[b] = a[2]
  /\ memrdy => \A b \in Block : memmap[b] # 0 => \E a \in live : b \in Blocks(a[1], a[2])

(* The loop of my_mem_malloc (malloc.c:132) finds a run exactly when there *)
(* is one, and then the highest.                                           *)
SearchFindsHighest ==
  \A n \in 1..(TableSize + 1) :
    IF \E o \in Block : FreeAt(Table, o, n)
    THEN FoundAt(Table, Search(Table, n), n)
    ELSE Search(Table, n) = -1

(* The bank implements the abstract heap: live is the heap's own variable. *)
H == INSTANCE Heap WITH TableSize <- TableSize, live <- live
RefinesHeap == H!Spec

=============================================================================
