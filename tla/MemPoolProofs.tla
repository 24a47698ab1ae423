--------------------------- MODULE MemPoolProofs ---------------------------
(***************************************************************************)
(* The memory manager, for every table size, block size and set of sizes:  *)
(* allocations never overlap, the table describes them exactly, and the    *)
(* bank implements the abstract heap.                                      *)
(***************************************************************************)
EXTENDS MemPool, TLAPS, WellFoundedInduction, NaturalsInduction

(* The inductive invariant.  NoOverlap alone is not inductive, because     *)
(* my_mem_malloc looks at the table and not at what callers hold.          *)
IInv == TypeOK /\ NoOverlap /\ TableMatches

(* A table that describes a set of allocations: IInv of a ready bank, as a *)
(* predicate on values, so that it can be applied between the allocation   *)
(* and the release of myrealloc.                                           *)
Describes(table, held) ==
  /\ table \in [Block -> 0..TableSize]
  /\ held \subseteq Run
  /\ \A a \in held : a[1] + a[2] <= TableSize
  /\ \A a, b \in held : a # b => Apart(a, b)
  /\ \A a \in held : \A b \in Blocks(a[1], a[2]) : table[b] = a[2]
  /\ \A b \in Block : table[b] # 0 => \E a \in held : b \in Blocks(a[1], a[2])

-----------------------------------------------------------------------------
(* A request of at least one byte needs at least one block. *)
LEMMA NmembPositive ==
  ASSUME NEW size \in Nat, size # 0
  PROVE  Nmemb(size) \in Nat \ {0}
<1>1. size \div BlockSize \in Nat /\ size % BlockSize \in 0..(BlockSize - 1)
  BY TableAssumption
<1>2. size = BlockSize * (size \div BlockSize) + (size % BlockSize)
  BY TableAssumption
<1>3. CASE size % BlockSize # 0
  BY <1>1, <1>3 DEF Nmemb
<1>4. CASE size % BlockSize = 0
  <2>1. size \div BlockSize # 0
    BY <1>1, <1>2, <1>4, TableAssumption
  <2> QED
    BY <1>1, <1>4, <2>1 DEF Nmemb
<1> QED
  BY <1>3, <1>4

(* An allocation is a first block and a length. *)
LEMMA RunParts ==
  ASSUME NEW a \in Run
  PROVE  a[1] \in Block /\ a[2] \in 1..TableSize /\ a[1] \in Nat /\ a[2] \in Nat
BY TableAssumption DEF Run, Block

(* Apart runs share no block. *)
LEMMA ApartBlocks ==
  ASSUME NEW a \in Run, NEW c \in Run, Apart(a, c) \/ Apart(c, a),
         NEW b \in Blocks(c[1], c[2])
  PROVE  b \notin Blocks(a[1], a[2])
BY RunParts, TableAssumption DEF Apart, Blocks, Block

(* Where the table is free nobody holds a block: a run found in the table  *)
(* overlaps no allocation.                                                 *)
LEMMA FreeRunIsFresh ==
  ASSUME NEW table, NEW held, Describes(table, held),
         NEW o \in Block, NEW n \in Nat \ {0}, FreeAt(table, o, n)
  PROVE  /\ <<o, n>> \in Run
         /\ o + n <= TableSize
         /\ \A a \in held : Apart(<<o, n>>, a)
<1>1. o + n <= TableSize /\ \A b \in Blocks(o, n) : table[b] = 0
  BY DEF FreeAt
<1>2. <<o, n>> \in Run
  BY <1>1, TableAssumption DEF Run, Block
<1>3. ASSUME NEW a \in held PROVE Apart(<<o, n>>, a)
  <2>1. /\ a[1] \in Block /\ a[2] \in 1..TableSize /\ a[1] + a[2] <= TableSize
        /\ \A b \in Blocks(a[1], a[2]) : table[b] = a[2]
    BY RunParts DEF Describes
  <2>2. \A b \in Block : ~(b \in Blocks(o, n) /\ b \in Blocks(a[1], a[2]))
    BY <1>1, <2>1, TableAssumption
  <2>3. CASE o <= a[1]
    <3>1. ~(a[1] < o + n)
      BY <2>1, <2>2, <2>3, TableAssumption DEF Block, Blocks
    <3> QED
      BY <3>1, <2>1, TableAssumption DEF Apart, Block
  <2>4. CASE ~(o <= a[1])
    <3>1. ~(o < a[1] + a[2])
      BY <2>1, <2>2, <2>4, TableAssumption DEF Block, Blocks
    <3> QED
      BY <3>1, <2>1, TableAssumption DEF Apart, Block
  <2> QED
    BY <2>3, <2>4
<1> QED
  BY <1>1, <1>2, <1>3

(* Marking a run found in the table describes one allocation more. *)
LEMMA MarkDescribes ==
  ASSUME NEW table, NEW held, Describes(table, held),
         NEW o \in Block, NEW n \in Nat \ {0}, FreeAt(table, o, n)
  PROVE  Describes(Mark(table, o, n, n), held \cup {<<o, n>>})
<1> DEFINE new == Mark(table, o, n, n)
           all == held \cup {<<o, n>>}
<1>1. /\ <<o, n>> \in Run /\ o + n <= TableSize
      /\ \A a \in held : Apart(<<o, n>>, a) /\ Apart(a, <<o, n>>)
  BY FreeRunIsFresh DEF Apart
<1>2. new \in [Block -> 0..TableSize]
  BY <1>1, TableAssumption DEF Describes, Mark, Run
<1>3. /\ all \subseteq Run
      /\ \A a \in all : a[1] + a[2] <= TableSize
      /\ \A a, b \in all : a # b => Apart(a, b)
  BY <1>1 DEF Describes
<1>4. ASSUME NEW a \in all, NEW b \in Blocks(a[1], a[2]) PROVE new[b] = a[2]
  <2>1. b \in Block
    BY DEF Blocks
  <2>2. CASE a = <<o, n>>
    BY <2>1, <2>2 DEF Mark
  <2>3. CASE a \in held
    <3>1. b \notin Blocks(<<o, n>>[1], <<o, n>>[2])
      BY <1>1, <1>3, <2>3, ApartBlocks
    <3>2. b \notin Blocks(o, n)
      BY <3>1
    <3>3. table[b] = a[2]
      BY <2>3 DEF Describes
    <3> QED
      BY <2>1, <3>2, <3>3 DEF Mark
  <2> QED
    BY <2>2, <2>3
<1>5. ASSUME NEW b \in Block, new[b] # 0
      PROVE  \E a \in all : b \in Blocks(a[1], a[2])
  <2>1. CASE b \in Blocks(o, n)
    <3>1. <<o, n>> \in all /\ <<o, n>>[1] = o /\ <<o, n>>[2] = n
      OBVIOUS
    <3> QED
      BY <2>1, <3>1
  <2>2. CASE b \notin Blocks(o, n)
    BY <1>5, <2>2 DEF Mark, Describes
  <2> QED
    BY <2>1, <2>2
<1> QED
  BY <1>2, <1>3, <1>4, <1>5 DEF Describes

(* The table holds the length of every allocation at its first block, and  *)
(* clearing that many blocks describes one allocation less.                *)
LEMMA ClearDescribes ==
  ASSUME NEW table, NEW held, Describes(table, held), NEW a \in held
  PROVE  Describes(Mark(table, a[1], table[a[1]], 0), held \ {a})
<1> DEFINE new  == Mark(table, a[1], table[a[1]], 0)
           rest == held \ {a}
<1>1. a \in Run /\ a[1] \in Block /\ a[2] \in 1..TableSize
  BY RunParts DEF Describes
<1>2. table[a[1]] = a[2]
  <2>1. a[1] \in Blocks(a[1], a[2])
    BY <1>1, TableAssumption DEF Blocks, Block
  <2> QED
    BY <2>1 DEF Describes
<1>3. new \in [Block -> 0..TableSize]
  BY <1>1, TableAssumption DEF Describes, Mark
<1>4. /\ rest \subseteq Run
      /\ \A c \in rest : c[1] + c[2] <= TableSize
      /\ \A c, b \in rest : c # b => Apart(c, b)
  BY DEF Describes
<1>5. ASSUME NEW c \in rest, NEW b \in Blocks(c[1], c[2]) PROVE new[b] = c[2]
  <2>1. b \in Block /\ table[b] = c[2]
    BY DEF Describes, Blocks
  <2>2. b \notin Blocks(a[1], a[2])
    <3>1. Apart(a, c) /\ c \in Run
      BY DEF Describes
    <3> QED
      BY <1>1, <3>1, ApartBlocks
  <2> QED
    BY <1>2, <2>1, <2>2 DEF Mark
<1>6. ASSUME NEW b \in Block, new[b] # 0
      PROVE  \E c \in rest : b \in Blocks(c[1], c[2])
  <2>1. b \notin Blocks(a[1], a[2]) /\ table[b] # 0
    BY <1>2, <1>6 DEF Mark
  <2>2. PICK c \in held : b \in Blocks(c[1], c[2])
    BY <2>1 DEF Describes
  <2> QED
    BY <2>1, <2>2
<1> QED
  BY <1>3, <1>4, <1>5, <1>6 DEF Describes

(* The table that a call works on, cleared first when it has to be,        *)
(* describes what callers hold.                                            *)
LEMMA TableDescribes ==
  ASSUME IInv
  PROVE  Describes(Table, live)
<1>1. CASE memrdy
  BY <1>1 DEF IInv, TypeOK, NoOverlap, TableMatches, Table, Describes
<1>2. CASE ~memrdy
  <2>1. live = {}
    BY <1>2 DEF IInv, TableMatches
  <2>2. Table \in [Block -> 0..TableSize] /\ \A b \in Block : Table[b] = 0
    BY <1>2, TableAssumption DEF Table, Cleared
  <2> QED
    BY <2>1, <2>2 DEF Describes
<1> QED
  BY <1>1, <1>2

(* A ready bank whose table describes the allocations satisfies IInv. *)
LEMMA DescribedIsOk ==
  ASSUME memrdy' = TRUE, Describes(memmap', live')
  PROVE  IInv'
BY DEF IInv, TypeOK, NoOverlap, TableMatches, Describes

-----------------------------------------------------------------------------
(* Each function of the memory manager keeps the invariant, is a step of   *)
(* the abstract heap or none, and leaves the bank ready.                   *)

(* Nothing but the initialisation happens. *)
LEMMA ClearSafe ==
  ASSUME IInv, memrdy' = TRUE, memmap' = Table, UNCHANGED live
  PROVE  IInv'
BY TableDescribes, DescribedIsOk

(* An allocation is nobody's when it is made. *)
LEMMA MallocSafe ==
  ASSUME IInv, NEW size \in Nat, my_mem_malloc(size)
  PROVE  /\ IInv' /\ [H!Next]_live /\ memrdy' = TRUE
         /\ \/ live' = live
            \/ \E o \in Block : /\ live' = live \cup {<<o, Nmemb(size)>>}
                               /\ <<o, Nmemb(size)>> \notin live
<1>1. CASE Refused(size) /\ memrdy' = TRUE /\ memmap' = Table /\ UNCHANGED live
  BY <1>1, ClearSafe
<1>2. ASSUME NEW o \in Block, size # 0, FoundAt(Table, o, Nmemb(size)), memrdy' = TRUE,
             memmap' = Mark(Table, o, Nmemb(size), Nmemb(size)),
             live' = live \cup {<<o, Nmemb(size)>>}
      PROVE  IInv' /\ [H!Next]_live /\ <<o, Nmemb(size)>> \notin live
  <2>1. Nmemb(size) \in Nat \ {0} /\ FreeAt(Table, o, Nmemb(size)) /\ Describes(Table, live)
    BY <1>2, NmembPositive, TableDescribes DEF FoundAt
  <2>2. Describes(memmap', live')
    BY <1>2, <2>1, MarkDescribes
  <2>3. <<o, Nmemb(size)>> \in H!Run /\ H!Fresh(<<o, Nmemb(size)>>)
    BY <2>1, FreeRunIsFresh DEF H!Run, Run, Block, H!Fresh, H!Apart, Apart
  <2>4. H!Allocate(<<o, Nmemb(size)>>)
    BY <1>2, <2>3 DEF H!Allocate
  <2>5. <<o, Nmemb(size)>> \notin live
    <3>1. ~Apart(<<o, Nmemb(size)>>, <<o, Nmemb(size)>>)
      BY <2>1, TableAssumption DEF Apart, Block
    <3> QED
      BY <2>1, <3>1, FreeRunIsFresh
  <2> QED
    BY <1>2, <2>2, <2>3, <2>4, <2>5, DescribedIsOk DEF H!Next
<1> QED
  BY <1>1, <1>2 DEF my_mem_malloc

LEMMA ReallocSafe ==
  ASSUME IInv, NEW a \in live, NEW size \in Nat, myrealloc(a, size)
  PROVE  IInv' /\ [H!Next]_live /\ memrdy' = TRUE /\ live \ {a} \subseteq live'
<1>1. CASE Refused(size) /\ memrdy' = TRUE /\ memmap' = Table /\ UNCHANGED live
  BY <1>1, ClearSafe
<1>2. ASSUME NEW o \in Block, size # 0, FoundAt(Table, o, Nmemb(size)), memrdy' = TRUE,
             memmap' = Mark(Mark(Table, o, Nmemb(size), Nmemb(size)), a[1],
                            Mark(Table, o, Nmemb(size), Nmemb(size))[a[1]], 0),
             live' = (live \cup {<<o, Nmemb(size)>>}) \ {a}
      PROVE  IInv' /\ [H!Next]_live
  <2> DEFINE b == <<o, Nmemb(size)>>
  <2>1. Nmemb(size) \in Nat \ {0} /\ FreeAt(Table, o, Nmemb(size)) /\ Describes(Table, live)
    BY <1>2, NmembPositive, TableDescribes DEF FoundAt
  <2>2. Describes(Mark(Table, o, Nmemb(size), Nmemb(size)), live \cup {b})
    BY <1>2, <2>1, MarkDescribes
  <2>3. a \in live \cup {b}
    OBVIOUS
  <2>4. Describes(memmap', live')
    BY <1>2, <2>2, <2>3, ClearDescribes
  <2>5. b \in H!Run /\ H!Fresh(b)
    BY <2>1, FreeRunIsFresh DEF H!Run, Run, Block, H!Fresh, H!Apart, Apart
  <2>6. H!Move(a, b)
    BY <1>2, <2>5 DEF H!Move
  <2>7. H!Next
    BY <2>5, <2>6 DEF H!Next
  <2> QED
    BY <1>2, <2>4, <2>7, DescribedIsOk
<1> QED
  BY <1>1, <1>2 DEF myrealloc

(* A release clears the run and nothing else. *)
LEMMA FreeSafe ==
  ASSUME IInv, NEW a \in live, UNCHANGED memrdy,
         memmap' = Mark(memmap, a[1], memmap[a[1]], 0), live' = live \ {a}
  PROVE  IInv' /\ [H!Next]_live
<1>1. memrdy = TRUE /\ memrdy' = TRUE /\ Table = memmap
  BY DEF Table, IInv, TypeOK, TableMatches
<1>2. Describes(memmap', live')
  BY <1>1, TableDescribes, ClearDescribes
<1>3. H!Release(a)
  BY DEF H!Release
<1> QED
  BY <1>1, <1>2, <1>3, DescribedIsOk DEF H!Next

(* So every step of the memory manager does. *)
LEMMA StepSafe ==
  ASSUME IInv, [Next]_vars
  PROVE  IInv' /\ [H!Next]_live
<1>1. ASSUME NEW size \in Sizes, my_mem_malloc(size) PROVE IInv' /\ [H!Next]_live
  BY <1>1, MallocSafe, SizesAssumption
<1>2. ASSUME NEW a \in live, NEW size \in Sizes, myrealloc(a, size)
      PROVE  IInv' /\ [H!Next]_live
  BY <1>2, ReallocSafe, SizesAssumption
<1>3. ASSUME NEW a \in live, my_mem_free(a) PROVE IInv' /\ [H!Next]_live
  BY <1>3, FreeSafe DEF my_mem_free
<1>4. CASE my_mem_free_foreign
  BY <1>4, ClearSafe DEF my_mem_free_foreign
<1>5. CASE UNCHANGED vars
  BY <1>5 DEF vars, IInv, TypeOK, NoOverlap, TableMatches
<1> QED
  BY <1>1, <1>2, <1>3, <1>4, <1>5 DEF Next

LEMMA InitSafe == Init => IInv /\ H!Init
BY TableAssumption DEF Init, IInv, TypeOK, NoOverlap, TableMatches, H!Init

(* The inductive invariant holds in every reachable state. *)
LEMMA Invariance == Spec => []IInv
<1>1. Init => IInv
  BY InitSafe
<1>2. IInv /\ [Next]_vars => IInv'
  BY StepSafe
<1> QED
  BY <1>1, <1>2, PTL DEF Spec

(* Every variable of the memory manager keeps its type. *)
THEOREM TypeCorrect == Spec => []TypeOK
BY Invariance, PTL DEF IInv

(* my_mem_malloc never hands out a block twice, and no allocation leaves   *)
(* the bank, whatever is allocated, moved and freed in whatever order.     *)
THEOREM AllocationsDisjoint == Spec => []NoOverlap
BY Invariance, PTL DEF IInv

(* The table entries my_mem_free relies on are right, and nothing leaks. *)
THEOREM TableExact == Spec => []TableMatches
BY Invariance, PTL DEF IInv

(* The bank implements the abstract heap. *)
THEOREM ImplementsHeap == Spec => RefinesHeap
<1>1. Init => H!Init
  BY InitSafe
<1>2. IInv /\ [Next]_vars => [H!Next]_live
  BY StepSafe
<1> QED
  BY <1>1, <1>2, Invariance, PTL DEF Spec, H!Spec, RefinesHeap

-----------------------------------------------------------------------------
(* The search loop.  Search is a recursive function: it exists, because    *)
(* each turn needs only the turns below it, and the counterexample with    *)
(* the fewest turns would be one turn away from a smaller one.             *)

LEMMA LeastNat ==
  ASSUME NEW S \in SUBSET Nat, S # {}
  PROVE  \E x \in S : \A y \in S : x <= y
<1> DEFINE Less == {ss \in Nat \X Nat : ss[1] < ss[2]}
<1>1. IsWellFoundedOn(Less, Nat)
  BY NatLessThanWellFounded DEF OpToRel
<1>2. \E x \in S : \A y \in S : ~(<<y, x>> \in Less)
  <2> HIDE DEF Less
  <2> QED BY <1>1, WFMin, Zenon
<1>3. PICK x \in S : \A y \in S : ~(<<y, x>> \in Less)
  BY <1>2
<1>4. ASSUME NEW y \in S PROVE x <= y
  <2>1. ~(<<y, x>> \in Less)
    BY <1>3
  <2>2. <<y, x>>[1] = y /\ <<y, x>>[2] = x /\ <<y, x>> \in Nat \X Nat
    OBVIOUS
  <2> QED
    BY <2>1, <2>2
<1> QED
  BY <1>4

(* The turns at the blocks below block m. *)
Below(f, table, n, o) ==
  IF o = -1 THEN [cmemb \in Nat |-> -1] ELSE Turn(table, n, o, f[o - 1])

IsLoop(f, table, n, m) == f = [o \in -1..(m - 1) |-> Below(f, table, n, o)]

LEMMA LoopExtends ==
  ASSUME NEW table, NEW n, NEW m \in Nat, NEW f, IsLoop(f, table, n, m)
  PROVE  \E g : IsLoop(g, table, n, m + 1)
<1> DEFINE g == [o \in -1..m |-> IF o = m THEN Turn(table, n, m, f[m - 1]) ELSE f[o]]
<1>1. \A o \in -1..(m - 1) : f[o] = Below(f, table, n, o)
  BY DEF IsLoop
<1>2. \A o \in -1..(m - 1) : g[o] = f[o]
  OBVIOUS
<1>3. ASSUME NEW o \in -1..(m - 1) PROVE g[o] = Below(g, table, n, o)
  <2>1. CASE o = -1
    BY <1>1, <1>2, <2>1 DEF Below
  <2>2. CASE o # -1
    <3>1. o - 1 \in -1..(m - 1)
      BY <2>2
    <3>2. g[o - 1] = f[o - 1]
      BY <1>2, <3>1
    <3> HIDE DEF g
    <3> QED
      BY <1>1, <1>2, <2>2, <3>2 DEF Below
  <2> QED
    BY <2>1, <2>2
<1>4. g[m] = Below(g, table, n, m)
  <2>1. g[m] = Turn(table, n, m, f[m - 1]) /\ m # -1
    OBVIOUS
  <2>2. g[m - 1] = f[m - 1]
    BY <1>2
  <2> HIDE DEF g
  <2> QED
    BY <2>1, <2>2 DEF Below
<1>5. \A o \in -1..((m + 1) - 1) : g[o] = Below(g, table, n, o)
  <2>1. \A o \in -1..((m + 1) - 1) : o \in -1..(m - 1) \/ o = m
    OBVIOUS
  <2> HIDE DEF g
  <2> QED
    BY <1>3, <1>4, <2>1
<1>6. g = [o \in -1..((m + 1) - 1) |-> g[o]]
  OBVIOUS
<1> QED
  <2> HIDE DEF g
  <2>1. g = [o \in -1..((m + 1) - 1) |-> Below(g, table, n, o)]
    BY <1>5, <1>6
  <2> QED
    BY <2>1 DEF IsLoop

LEMMA LoopExists ==
  ASSUME NEW table, NEW n, NEW m \in Nat
  PROVE  \E f : IsLoop(f, table, n, m)
<1> DEFINE Bad == {k \in Nat : ~ \E f : IsLoop(f, table, n, k)}
<1>1. SUFFICES ASSUME Bad # {} PROVE FALSE
  OBVIOUS
<1>2. PICK k \in Bad : \A y \in Bad : k <= y
  BY <1>1, LeastNat
<1>3. k # 0
  <2> DEFINE f == [o \in -1..(0 - 1) |-> [cmemb \in Nat |-> -1]]
  <2>1. \A h : \A o \in -1..(0 - 1) : Below(h, table, n, o) = [cmemb \in Nat |-> -1]
    BY DEF Below
  <2>2. f = [o \in -1..(0 - 1) |-> Below(f, table, n, o)]
    BY <2>1
  <2>3. IsLoop(f, table, n, 0)
    BY <2>2 DEF IsLoop
  <2> QED
    BY <2>3
<1>4. k - 1 \in Nat /\ k - 1 \notin Bad
  BY <1>2, <1>3
<1>5. PICK f : IsLoop(f, table, n, k - 1)
  BY <1>4
<1>6. \E g : IsLoop(g, table, n, (k - 1) + 1)
  BY <1>4, <1>5, LoopExtends
<1> QED
  BY <1>2, <1>6

(* What one turn finds, from the turns below it. *)
LEMMA SearchUnfolds ==
  ASSUME NEW table, NEW n
  PROVE  \E f : IsLoop(f, table, n, TableSize) /\ Search(table, n) = f[TableSize - 1][0]
<1> DEFINE loop == CHOOSE f : f = [o \in -1..(TableSize - 1) |->
                        IF o = -1 THEN [cmemb \in Nat |-> -1] ELSE Turn(table, n, o, f[o - 1])]
<1>1. Search(table, n) = loop[TableSize - 1][0]
  BY DEF Search
<1>2. loop = CHOOSE f : IsLoop(f, table, n, TableSize)
  BY DEF IsLoop, Below
<1>3. \E f : IsLoop(f, table, n, TableSize)
  BY LoopExists, TableAssumption
<1>4. IsLoop(loop, table, n, TableSize)
  <2> HIDE DEF loop
  <2> QED
    BY <1>2, <1>3, Zenon
<1> QED
  <2> HIDE DEF loop
  <2> QED
    BY <1>1, <1>4

(* Before the turn of block o: the c blocks above it are a row of free     *)
(* blocks, the whole of one, shorter than n; and no run of n free blocks   *)
(* begins above o.                                                         *)
Counting(table, n, o, c) ==
  /\ c < n /\ o + c < TableSize
  /\ \A b \in Block : o < b /\ b <= o + c => table[b] = 0
  /\ o + c + 1 = TableSize \/ table[o + c + 1] # 0
  /\ \A p \in Block : FreeAt(table, p, n) => p <= o

Finds(table, n, found) ==
  IF \E o \in Block : FreeAt(table, o, n) THEN FoundAt(table, found, n) ELSE found = -1

Row(table, o, c) == IF table[o] = 0 THEN c + 1 ELSE 0

(* A turn that ends the search has found the run, and one that does not    *)
(* leaves the counter right for the next.                                  *)
LEMMA TurnCounts ==
  ASSUME NEW table, NEW n \in Nat \ {0}, NEW o \in Block, NEW c \in Nat,
         Counting(table, n, o, c)
  PROVE  /\ Row(table, o, c) \in Nat
         /\ Row(table, o, c) = n => Finds(table, n, o)
         /\ Row(table, o, c) # n => Counting(table, n, o - 1, Row(table, o, c))
<1>1. /\ o \in Int /\ 0 <= o /\ o < TableSize /\ c < n /\ o + c < TableSize /\ TableSize \in Nat
      /\ \A b \in Block : o < b /\ b <= o + c => table[b] = 0
      /\ o + c + 1 = TableSize \/ table[o + c + 1] # 0
      /\ \A p \in Block : FreeAt(table, p, n) => p <= o
  BY TableAssumption DEF Counting, Block
<1>2. CASE table[o] = 0
  <2>1. Row(table, o, c) = c + 1
    BY <1>2 DEF Row
  <2>2. \A b \in Block : o <= b /\ b <= o + c => table[b] = 0
    BY <1>1, <1>2 DEF Block
  <2>3. CASE c + 1 = n
    <3>1. FreeAt(table, o, n)
      BY <1>1, <2>2, <2>3 DEF FreeAt, Blocks, Block
    <3> QED
      BY <1>1, <2>1, <2>3, <3>1 DEF Finds, FoundAt
  <2>4. CASE c + 1 # n
    <3>1. ~FreeAt(table, o, n)
      <4>1. CASE o + c + 1 = TableSize
        BY <1>1, <2>4, <4>1 DEF FreeAt
      <4>2. CASE o + c + 1 # TableSize
        <5>1. o + c + 1 \in Block /\ o + c + 1 \in Blocks(o, n)
          BY <1>1, <2>4, <4>2 DEF Block, Blocks
        <5> QED
          BY <1>1, <4>2, <5>1 DEF FreeAt
      <4> QED
        BY <4>1, <4>2
    <3>2. \A p \in Block : FreeAt(table, p, n) => p <= o - 1
      BY <1>1, <3>1 DEF Block
    <3>3. (o - 1) + (c + 1) = o + c /\ (o - 1) + (c + 1) + 1 = o + c + 1
      BY <1>1
    <3>4. \A b \in Block : o - 1 < b => o <= b
      BY <1>1 DEF Block
    <3> QED
      BY <1>1, <2>1, <2>2, <2>4, <3>2, <3>3, <3>4 DEF Counting
  <2> QED
    BY <2>1, <2>3, <2>4
<1>3. CASE table[o] # 0
  <2>1. Row(table, o, c) = 0
    BY <1>3 DEF Row
  <2>2. ~FreeAt(table, o, n)
    BY <1>1, <1>3 DEF FreeAt, Blocks
  <2>3. \A p \in Block : FreeAt(table, p, n) => p <= o - 1
    BY <1>1, <2>2 DEF Block
  <2>4. (o - 1) + 0 = o - 1 /\ (o - 1) + 0 + 1 = o
    BY <1>1
  <2>5. \A b \in Block : ~(o - 1 < b /\ b <= o - 1)
    BY <1>1 DEF Block
  <2> QED
    BY <1>1, <1>3, <2>1, <2>3, <2>4, <2>5 DEF Counting
<1> QED
  BY <1>2, <1>3

(* By induction on the blocks that are left. *)
LEMMA LoopFinds ==
  ASSUME NEW table, NEW n \in Nat \ {0}, NEW f, IsLoop(f, table, n, TableSize)
  PROVE  \A k \in 0..TableSize : \A c \in Nat :
           Counting(table, n, k - 1, c) => Finds(table, n, f[k - 1][c])
<1> DEFINE Bad == {k \in 0..TableSize :
                     \E c \in Nat : Counting(table, n, k - 1, c) /\ ~Finds(table, n, f[k - 1][c])}
<1>1. SUFFICES ASSUME Bad # {} PROVE FALSE
  OBVIOUS
<1>2. Bad \in SUBSET Nat
  BY TableAssumption
<1>3. PICK k \in Bad : \A y \in Bad : k <= y
  BY <1>1, <1>2, LeastNat
<1>4. PICK c \in Nat : Counting(table, n, k - 1, c) /\ ~Finds(table, n, f[k - 1][c])
  BY <1>3
<1>5. k \in 0..TableSize /\ k - 1 \in -1..(TableSize - 1)
  BY <1>3, TableAssumption
<1>6. f[k - 1] = Below(f, table, n, k - 1)
  BY <1>5 DEF IsLoop
<1>7. CASE k = 0
  <2>1. f[k - 1][c] = -1
    BY <1>6, <1>7 DEF Below
  <2>2. ~ \E o \in Block : FreeAt(table, o, n)
    BY <1>4, <1>7, TableAssumption DEF Counting, Block
  <2> QED
    BY <1>4, <2>1, <2>2 DEF Finds
<1>8. CASE k # 0
  <2> DEFINE o   == k - 1
             row == Row(table, o, c)
  <2>1. o \in Block /\ o # -1
    BY <1>5, <1>8, TableAssumption DEF Block
  <2>2. /\ row \in Nat
        /\ row = n => Finds(table, n, o)
        /\ row # n => Counting(table, n, o - 1, row)
    BY <1>4, <2>1, TurnCounts
  <2>3. f[o][c] = IF row = n THEN o ELSE f[o - 1][row]
    <3>1. f[o] = Turn(table, n, o, f[o - 1])
      BY <1>6, <2>1 DEF Below
    <3> QED
      BY <3>1 DEF Turn, Row
  <2>4. row # n
    BY <1>4, <2>2, <2>3
  <2>5. k - 1 \in 0..TableSize /\ k - 1 \notin Bad
    BY <1>3, <1>5, <1>8, TableAssumption
  <2>6. \A d \in Nat : Counting(table, n, o - 1, d) => Finds(table, n, f[o - 1][d])
    BY <2>5
  <2>7. Finds(table, n, f[o - 1][row])
    <3> HIDE DEF row, o
    <3> QED
      BY <2>2, <2>4, <2>6
  <2> QED
    BY <1>4, <2>3, <2>4, <2>7
<1> QED
  BY <1>7, <1>8

(* The search finds a run of n free blocks exactly when the table has one, *)
(* and then the highest.                                                   *)
LEMMA SearchFinds ==
  ASSUME NEW table, NEW n \in Nat \ {0}
  PROVE  Finds(table, n, Search(table, n))
<1>1. PICK f : IsLoop(f, table, n, TableSize) /\ Search(table, n) = f[TableSize - 1][0]
  BY SearchUnfolds
<1>2. Counting(table, n, TableSize - 1, 0)
  BY TableAssumption DEF Counting, Block
<1> QED
  BY <1>1, <1>2, LoopFinds, TableAssumption

(* The search of my_mem_malloc is right for every table, so in particular  *)
(* for those the bank comes to.                                            *)
LEMMA SearchRight == SearchFindsHighest
BY SearchFinds, TableAssumption DEF SearchFindsHighest, Finds

(* my_mem_malloc refuses a request only when no run is free, and takes the *)
(* highest: its loop (malloc.c:132) computes what FoundAt says.            *)
THEOREM SearchCorrect == Spec => []SearchFindsHighest
BY SearchRight, PTL

=============================================================================
