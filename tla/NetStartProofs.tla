--------------------------- MODULE NetStartProofs ---------------------------
(***************************************************************************)
(* The start of the network on a bank of any size, beside an application   *)
(* that uses the bank in any way: the bank stays consistent, and a start   *)
(* that fails leaves it as it was.                                         *)
(***************************************************************************)
EXTENDS NetStart, MemPoolProofs, FiniteSetTheorems

(* The allocation a pointer that is set was given. *)
Piece(p)  == <<ptr[p], Nmemb(SizeOf(p))>>
Pieces(S) == {Piece(p) : p \in {q \in S : ptr[q] # NULL}}

(* The pointers of S that are still set point to blocks that are free. *)
Gone(S) == \A p \in S : ptr[p] # NULL => memmap[ptr[p]] = 0

NetTypes ==
  /\ pc \in {"app", "call", "malloc", "check", "free", "link", "up"}
  /\ part \in Part /\ ptr \in [Part -> Block \cup {NULL}] /\ others \subseteq Run

(* The four pieces are different, and were nobody's. *)
PiecesNew ==
  /\ \A p \in Part : ptr[p] # NULL => Piece(p) \notin others
  /\ \A p, q \in Part : p # q /\ ptr[p] # NULL => Piece(p) # Piece(q)

(* What callers hold at each point of lwip_comm_init: what the application *)
(* had, and the pieces allocated and not yet released.  my_eth_mem_free    *)
(* releases them on its first pass; on a later one, whose pointers are     *)
(* still set, there is nothing left to release.                            *)
Held ==
  /\ pc = "app"    => \A p \in Part : ptr[p] = NULL
  /\ pc = "call"   => live = others /\ Gone(Part)
  /\ pc = "malloc" => live = others \cup Pieces(Part) /\ \A p \in Part : p >= part => ptr[p] = NULL
  /\ pc = "check"  => live = others \cup Pieces(Part) /\ part = 1
  /\ pc = "free"   => \/ live = others /\ Gone(Part)
                      \/ /\ live = others \cup Pieces({p \in Part : p >= part})
                         /\ Gone({p \in Part : p < part})
  /\ pc = "link"   => live = others \cup Pieces(Part)
  /\ pc = "up"     => Pieces(Part) \subseteq live
  /\ pc \in {"link", "up"} => \A p \in Part : ptr[p] # NULL

NetInv == IInv /\ NetTypes /\ PiecesNew /\ Held

-----------------------------------------------------------------------------
(* A part needs at least one block. *)
LEMMA PartSizes ==
  ASSUME NEW p \in Part
  PROVE  SizeOf(p) \in Nat /\ Nmemb(SizeOf(p)) \in Nat \ {0}
<1>1. SizeOf(p) \in Nat /\ SizeOf(p) # 0
  BY PartAssumption DEF SizeOf
<1> QED
  BY <1>1, NmembPositive

(* When all pointers are set, the four pieces are what Mine says. *)
LEMMA MineIsPieces ==
  ASSUME pc \in {"link", "up"}, \A p \in Part : ptr[p] # NULL
  PROVE  Mine = Pieces(Part)
BY DEF Mine, Pieces, Piece

LEMMA NetInitSafe == NetInit => NetInv /\ H!Init
<1> SUFFICES ASSUME NetInit PROVE NetInv /\ H!Init
  OBVIOUS
<1>1. IInv /\ H!Init
  BY InitSafe DEF NetInit
<1>2. NetTypes /\ PiecesNew /\ Held
  BY DEF NetInit, NetTypes, PiecesNew, Held, Part
<1> QED
  BY <1>1, <1>2 DEF NetInv

(* What the application does leaves the pieces of the interface alone. *)
LEMMA AppSafe ==
  ASSUME NetInv, App
  PROVE  NetInv' /\ [H!Next]_live
<1>1. IInv /\ NetTypes /\ PiecesNew /\ Held /\ pc \in {"app", "up"}
  BY DEF NetInv, App
<1>2. pc' = pc /\ part' = part /\ ptr' = ptr /\ others' = others
  BY DEF App, netVars
<1>3. IInv' /\ [H!Next]_live /\ Mine \subseteq live'
  <2>1. Mine \subseteq live
    BY <1>1, MineIsPieces DEF Held, Mine
  <2>2. ASSUME NEW size \in Sizes, my_mem_malloc(size)
        PROVE  IInv' /\ [H!Next]_live /\ Mine \subseteq live'
    <3>1. IInv' /\ [H!Next]_live /\ live \subseteq live'
      BY <1>1, <2>2, MallocSafe, SizesAssumption
    <3> QED
      BY <2>1, <3>1
  <2>3. ASSUME NEW size \in Sizes, NEW a \in live \ Mine, myrealloc(a, size)
        PROVE  IInv' /\ [H!Next]_live /\ Mine \subseteq live'
    <3>1. IInv' /\ [H!Next]_live /\ live \ {a} \subseteq live'
      BY <1>1, <2>3, ReallocSafe, SizesAssumption
    <3> QED
      BY <2>1, <3>1
  <2>4. ASSUME NEW a \in live \ Mine, my_mem_free(a)
        PROVE  IInv' /\ [H!Next]_live /\ Mine \subseteq live'
    <3>1. IInv' /\ [H!Next]_live /\ live' = live \ {a}
      BY <1>1, <2>4, FreeSafe DEF my_mem_free
    <3> QED
      BY <2>1, <3>1
  <2>5. CASE my_mem_free_foreign
    BY <1>1, <2>1, <2>5, ClearSafe DEF my_mem_free_foreign
  <2> QED
    BY <2>2, <2>3, <2>4, <2>5 DEF App
<1>4. NetTypes' /\ PiecesNew'
  BY <1>1, <1>2 DEF NetTypes, PiecesNew, Piece
<1>5. Held'
  <2>1. CASE pc = "app"
    BY <1>1, <1>2, <2>1 DEF Held
  <2>2. CASE pc = "up"
    <3>1. \A p \in Part : ptr[p] # NULL
      BY <1>1, <2>2 DEF Held
    <3>2. Pieces(Part)' = Pieces(Part)
      BY <1>2 DEF Pieces, Piece
    <3>3. Pieces(Part) \subseteq live'
      BY <1>3, <2>2, <3>1, MineIsPieces
    <3> QED
      BY <1>2, <2>2, <3>1, <3>2, <3>3 DEF Held
  <2> QED
    BY <1>1, <2>1, <2>2
<1> QED
  BY <1>3, <1>4, <1>5 DEF NetInv

(* The steps of lwip_comm_init that leave the bank alone. *)
LEMMA QuietSafe ==
  ASSUME NetInv, BeginLoop \/ my_eth_mem_malloc \/ Check \/ LinkUp
  PROVE  NetInv' /\ [H!Next]_live
<1>1. IInv /\ NetTypes /\ PiecesNew /\ Held
  BY DEF NetInv
<1>2. memrdy' = memrdy /\ memmap' = memmap /\ live' = live /\ ptr' = ptr
  BY DEF BeginLoop, my_eth_mem_malloc, Check, LinkUp, vars
<1>3. IInv'
  BY <1>1, <1>2 DEF IInv, TypeOK, NoOverlap, TableMatches
<1>4. Pieces(Part)' = Pieces(Part) /\ (Gone(Part)' <=> Gone(Part))
  BY <1>2 DEF Pieces, Piece, Gone
<1>5. CASE BeginLoop
  <2>1. \A p \in Part : ptr[p] = NULL
    BY <1>1, <1>5 DEF BeginLoop, Held
  <2>2. NetTypes' /\ PiecesNew'
    BY <1>1, <1>2, <1>5, <2>1 DEF BeginLoop, NetTypes, PiecesNew, IInv, TypeOK
  <2>3. Held'
    BY <1>2, <1>5, <2>1 DEF BeginLoop, Held, Gone
  <2> QED
    BY <1>2, <1>3, <2>2, <2>3 DEF NetInv
<1>6. CASE my_eth_mem_malloc \/ Check \/ LinkUp
  <2>1. others' = others /\ part' \in Part
    BY <1>1, <1>6 DEF my_eth_mem_malloc, Check, LinkUp, NetTypes, Part
  <2>2. NetTypes' /\ PiecesNew'
    BY <1>1, <1>2, <1>6, <2>1 DEF my_eth_mem_malloc, Check, LinkUp, NetTypes, PiecesNew, Piece
  <2>3. ASSUME my_eth_mem_malloc PROVE Held'
    <3>1. CASE \A p \in Part : ptr[p] = NULL
      <4>1. Pieces(Part) = {}
        BY <3>1 DEF Pieces
      <4>2. pc' = "malloc" /\ live = others
        BY <1>1, <2>3, <3>1 DEF my_eth_mem_malloc, Held
      <4> QED
        BY <1>2, <1>4, <2>1, <3>1, <4>1, <4>2 DEF Held
    <3>2. CASE ~ \A p \in Part : ptr[p] = NULL
      BY <1>1, <1>2, <1>4, <2>1, <2>3, <3>2 DEF my_eth_mem_malloc, Held
    <3> QED
      BY <3>1, <3>2
  <2>4. ASSUME Check PROVE Held'
    <3>1. live = others \cup Pieces(Part) /\ part = 1 /\ part' = 1
      BY <1>1, <2>4 DEF Check, Held
    <3>2. CASE \E p \in Part : ptr[p] = NULL
      <4>1. {p \in Part : p >= part'} = Part /\ {p \in Part : p < part'} = {}
        BY <3>1 DEF Part
      <4>2. pc' = "free"
        BY <2>4, <3>2 DEF Check
      <4>3. live' = others' \cup Pieces({p \in Part : p >= part})'
        BY <1>2, <1>4, <2>1, <3>1, <4>1 DEF Pieces, Piece
      <4>4. Gone({p \in Part : p < part})'
        BY <4>1 DEF Gone
      <4> QED
        BY <4>2, <4>3, <4>4 DEF Held
    <3>3. CASE ~ \E p \in Part : ptr[p] = NULL
      BY <1>2, <1>4, <2>1, <2>4, <3>1, <3>3 DEF Check, Held
    <3> QED
      BY <3>2, <3>3
  <2>5. ASSUME LinkUp PROVE Held'
    BY <1>1, <1>2, <1>4, <2>1, <2>5 DEF LinkUp, Held
  <2> QED
    BY <1>2, <1>3, <1>6, <2>2, <2>3, <2>4, <2>5 DEF NetInv
<1> QED
  BY <1>5, <1>6

(* my_malloc gives a part a piece of its own, or nothing. *)
LEMMA MallocPiece ==
  ASSUME NetInv, my_malloc
  PROVE  /\ IInv' /\ [H!Next]_live
         /\ \/ live' = live /\ ptr' = ptr
            \/ \E o \in Block : /\ ptr' = [ptr EXCEPT ![part] = o] /\ o # NULL
                               /\ live' = live \cup {<<o, Nmemb(SizeOf(part))>>}
                               /\ <<o, Nmemb(SizeOf(part))>> \notin live
<1> DEFINE got == IF live' = live THEN NULL ELSE (CHOOSE a \in live' \ live : TRUE)[1]
<1>1. /\ IInv /\ NetTypes /\ Held /\ my_mem_malloc(SizeOf(part)) /\ SizeOf(part) \in Nat
      /\ ptr[part] = NULL
      /\ ptr' = [ptr EXCEPT ![part] = got]
  BY PartSizes DEF NetInv, NetTypes, my_malloc, Held, Part
<1>2. /\ IInv' /\ [H!Next]_live
      /\ \/ live' = live
         \/ \E o \in Block : /\ live' = live \cup {<<o, Nmemb(SizeOf(part))>>}
                            /\ <<o, Nmemb(SizeOf(part))>> \notin live
  BY <1>1, MallocSafe
<1>3. CASE live' = live
  <2>1. got = NULL
    BY <1>3
  <2> HIDE DEF got
  <2>2. ptr' = ptr
    BY <1>1, <2>1 DEF NetTypes
  <2> QED
    BY <1>2, <1>3, <2>2
<1>4. ASSUME NEW o \in Block, live' = live \cup {<<o, Nmemb(SizeOf(part))>>},
             <<o, Nmemb(SizeOf(part))>> \notin live
      PROVE  ptr' = [ptr EXCEPT ![part] = o] /\ o # NULL
  <2>1. live' # live /\ live' \ live = {<<o, Nmemb(SizeOf(part))>>}
    BY <1>4
  <2>2. (CHOOSE a \in live' \ live : TRUE) = <<o, Nmemb(SizeOf(part))>>
    BY <2>1
  <2>3. o # NULL
    BY TableAssumption DEF Block, NULL
  <2>4. got = o
    BY <2>1, <2>2
  <2> HIDE DEF got
  <2> QED
    BY <1>1, <2>3, <2>4
<1> QED
  BY <1>2, <1>3, <1>4

LEMMA MallocStepSafe ==
  ASSUME NetInv, my_malloc
  PROVE  NetInv' /\ [H!Next]_live
<1>1. IInv /\ NetTypes /\ PiecesNew /\ Held /\ pc = "malloc" /\ others' = others
  BY DEF NetInv, my_malloc
<1>2. IInv' /\ [H!Next]_live
  BY MallocPiece
<1>3. /\ live = others \cup Pieces(Part) /\ part \in Part
      /\ \A p \in Part : p >= part => ptr[p] = NULL
  BY <1>1 DEF Held, NetTypes
<1>4. \/ part = 4 /\ pc' = "check" /\ part' = 1
      \/ part # 4 /\ pc' = "malloc" /\ part' = part + 1
  BY <1>1 DEF my_malloc
<1>5. part' \in Part /\ \A p \in Part : pc' = "malloc" /\ p >= part' => p >= part /\ p # part
  BY <1>3, <1>4 DEF Part
<1>6. CASE live' = live /\ ptr' = ptr
  <2>1. Pieces(Part)' = Pieces(Part)
    BY <1>6 DEF Pieces, Piece
  <2>2. NetTypes' /\ PiecesNew'
    BY <1>1, <1>4, <1>5, <1>6 DEF NetTypes, PiecesNew, Piece
  <2>3. Held'
    BY <1>1, <1>3, <1>4, <1>5, <1>6, <2>1 DEF Held
  <2> QED
    BY <1>2, <2>2, <2>3 DEF NetInv
<1>7. ASSUME NEW k \in Part, k = part, NEW o \in Block, ptr' = [ptr EXCEPT ![part] = o], o # NULL,
             live' = live \cup {<<o, Nmemb(SizeOf(part))>>},
             <<o, Nmemb(SizeOf(part))>> \notin live
      PROVE  NetInv'
  <2> DEFINE new == <<o, Nmemb(SizeOf(k))>>
  <2>1. ptr'[k] = o /\ \A p \in Part : p # k => ptr'[p] = ptr[p]
    BY <1>1, <1>7 DEF NetTypes
  <2>2. ptr' \in [Part -> Block \cup {NULL}]
    BY <1>1, <1>3, <1>7 DEF NetTypes
  <2>3. Piece(k)' = new /\ \A p \in Part : p # k => Piece(p)' = Piece(p)
    BY <2>1 DEF Piece
  <2>4. ptr[k] = NULL
    BY <1>3, <1>7 DEF Part
  <2>5. Pieces(Part)' = Pieces(Part) \cup {new}
    BY <1>3, <1>7, <2>1, <2>3, <2>4 DEF Pieces
  <2>6. NetTypes'
    BY <1>1, <1>4, <1>5, <2>2 DEF NetTypes
  <2>7. PiecesNew'
    <3>1. ASSUME NEW p \in Part, ptr'[p] # NULL PROVE Piece(p)' \notin others'
      <4>1. CASE p = k
        BY <1>1, <1>3, <1>7, <2>3, <4>1
      <4>2. CASE p # k
        BY <1>1, <2>1, <2>3, <3>1, <4>2 DEF PiecesNew
      <4> QED
        BY <4>1, <4>2
    <3>2. ASSUME NEW p \in Part, NEW q \in Part, p # q, ptr'[p] # NULL
          PROVE  Piece(p)' # Piece(q)'
      <4>1. CASE p # k /\ q # k
        BY <1>1, <2>1, <2>3, <3>2, <4>1 DEF PiecesNew
      <4>2. CASE q = k
        <5>1. Piece(p) \in live /\ Piece(p)' = Piece(p)
          BY <1>3, <2>1, <2>3, <3>2, <4>2 DEF Pieces
        <5> QED
          BY <1>7, <2>3, <4>2, <5>1
      <4>3. CASE p = k
        <5>1. CASE ptr[q] # NULL
          <6>1. Piece(q) \in live /\ Piece(q)' = Piece(q)
            BY <1>3, <2>3, <3>2, <4>3, <5>1 DEF Pieces
          <6> QED
            BY <1>7, <2>3, <4>3, <6>1
        <5>2. CASE ptr[q] = NULL
          <6>1. Piece(q)'[1] = NULL
            BY <2>1, <3>2, <4>3, <5>2 DEF Piece
          <6>2. Piece(p)'[1] = o
            BY <2>3, <4>3
          <6> QED
            BY <1>7, <6>1, <6>2
        <5> QED
          BY <5>1, <5>2
      <4> QED
        BY <4>1, <4>2, <4>3
    <3> QED
      BY <3>1, <3>2 DEF PiecesNew
  <2>8. Held'
    <3>1. live' = others' \cup Pieces(Part)'
      BY <1>1, <1>3, <1>7, <2>5
    <3>2. \A p \in Part : pc' = "malloc" /\ p >= part' => ptr'[p] = NULL
      BY <1>3, <1>5, <1>7, <2>1
    <3> QED
      BY <1>4, <3>1, <3>2 DEF Held
  <2> QED
    BY <1>2, <2>6, <2>7, <2>8 DEF NetInv
<1> QED
  BY <1>2, <1>3, <1>6, <1>7, MallocPiece

(* my_free releases the piece of a pointer that is set, unless an earlier  *)
(* pass has: then the table says 0, and no block is cleared.               *)
LEMMA FreeStepSafe ==
  ASSUME NetInv, my_free
  PROVE  NetInv' /\ [H!Next]_live
<1>1. /\ IInv /\ NetTypes /\ PiecesNew /\ Held /\ pc = "free"
      /\ memrdy' = memrdy /\ ptr' = ptr /\ others' = others
  BY DEF NetInv, my_free
<1>2. \/ part = 4 /\ pc' = "call" /\ part' = 1
      \/ part # 4 /\ pc' = "free" /\ part' = part + 1
  BY <1>1 DEF my_free
<1>3. NetTypes' /\ PiecesNew'
  <2>1. part' \in Part
    BY <1>1, <1>2 DEF NetTypes, Part
  <2> QED
    BY <1>1, <1>2, <2>1 DEF NetTypes, PiecesNew, Piece
<1>4. \A a \in live : memmap[a[1]] # 0
  <2>1. \A a \in live : a[1] \in Blocks(a[1], a[2]) /\ a[2] # 0
    BY <1>1, RunParts, TableAssumption DEF IInv, TypeOK, Blocks
  <2> QED
    BY <1>1, <2>1 DEF IInv, TableMatches
<1>5. PICK k \in Part : k = part
  BY <1>1 DEF NetTypes
<1> DEFINE Rest == {p \in Part : p > k}
           Done == {p \in Part : p <= k}
<1>6. /\ Rest \subseteq Part /\ Done \subseteq Part
      /\ {p \in Part : p >= part} = Rest \cup {k} /\ Done = {p \in Part : p < part} \cup {k}
      /\ part = 4 => Rest = {} /\ Done = Part
      /\ part # 4 => {p \in Part : p >= part'} = Rest /\ {p \in Part : p < part'} = Done
  BY <1>2, <1>5 DEF Part
<1>7. /\ \/ live = others /\ Gone(Part)
         \/ live = others \cup Pieces(Rest \cup {k}) /\ Gone(Done \ {k})
      /\ \A S \in SUBSET Part : Pieces(S)' = Pieces(S)
  <2>1. \A S \in SUBSET Part : Pieces(S)' = Pieces(S)
    BY <1>1 DEF Pieces, Piece
  <2>2. Done \ {k} = {p \in Part : p < part}
    BY <1>5 DEF Part
  <2>3. Pieces({p \in Part : p >= part}) = Pieces(Rest \cup {k})
    BY <1>6
  <2>4. Gone({p \in Part : p < part}) => Gone(Done \ {k})
    BY <2>2 DEF Gone
  <2> QED
    BY <1>1, <2>1, <2>3, <2>4 DEF Held
<1>8. ASSUME \/ live' = others /\ Gone(Part)'
             \/ live' = others \cup Pieces(Rest) /\ Gone(Done)'
      PROVE  Held'
  <2>1. CASE part = 4
    <3>1. Pieces(Rest) = {}
      BY <1>6, <2>1 DEF Pieces
    <3> QED
      BY <1>1, <1>2, <1>6, <1>8, <2>1, <3>1 DEF Held, Gone
  <2>2. CASE part # 4
    <3>1. {p \in Part : p >= part'} = Rest /\ {p \in Part : p < part'} = Done
      BY <1>6, <2>2
    <3>2. Pieces({p \in Part : p >= part})' = Pieces(Rest)
      BY <1>1, <3>1 DEF Pieces, Piece
    <3>3. Gone(Done)' => Gone({p \in Part : p < part})'
      BY <3>1 DEF Gone
    <3> QED
      BY <1>1, <1>2, <1>8, <2>2, <3>2, <3>3 DEF Held
  <2> QED
    BY <2>1, <2>2
<1>9. CASE memmap' = memmap /\ live' = live /\ (ptr[k] # NULL => memmap[ptr[k]] = 0)
  <2>1. IInv' /\ [H!Next]_live
    BY <1>1, <1>9 DEF IInv, TypeOK, NoOverlap, TableMatches
  <2>2. Gone(Part)' <=> Gone(Part)
    BY <1>1, <1>9 DEF Gone
  <2>3. ASSUME live # others \/ ~Gone(Part)
        PROVE  live = others \cup Pieces(Rest) /\ Gone(Done)'
    <3>1. live = others \cup Pieces(Rest \cup {k}) /\ Gone(Done \ {k})
      BY <1>7, <2>3
    <3>2. ptr[k] = NULL
      <4>1. ptr[k] # NULL => Piece(k) \in live
        BY <3>1 DEF Pieces
      <4> QED
        BY <1>4, <1>9, <4>1 DEF Piece
    <3>3. Pieces(Rest \cup {k}) = Pieces(Rest)
      BY <3>2 DEF Pieces
    <3> QED
      BY <1>1, <1>9, <3>1, <3>2, <3>3 DEF Gone
  <2>4. Held'
    BY <1>1, <1>7, <1>8, <1>9, <2>2, <2>3
  <2> QED
    BY <1>3, <2>1, <2>4 DEF NetInv
<1>10. CASE /\ ptr[k] # NULL /\ memmap[ptr[k]] # 0
            /\ memmap' = Mark(memmap, ptr[k], memmap[ptr[k]], 0)
            /\ live' = {a \in live : a[1] # ptr[k]}
  <2>1. live = others \cup Pieces(Rest \cup {k}) /\ Gone(Done \ {k})
    BY <1>7, <1>10 DEF Gone
  <2>2. Piece(k) \in live /\ Piece(k)[1] = ptr[k] /\ ptr[k] \in Block
    BY <1>1, <1>10, <2>1 DEF Pieces, Piece, NetTypes
  <2>3. \A a \in live : a[1] = ptr[k] => a = Piece(k)
    <3>1. ASSUME NEW a \in live, a[1] = ptr[k], a # Piece(k) PROVE FALSE
      <4>1. a \in Run /\ Piece(k) \in Run /\ Apart(a, Piece(k))
        BY <1>1, <2>2, <3>1 DEF IInv, TypeOK, NoOverlap
      <4> QED
        BY <2>2, <3>1, <4>1, RunParts, TableAssumption DEF Apart
    <3> QED
      BY <3>1
  <2>4. live' = live \ {Piece(k)}
    BY <1>10, <2>2, <2>3
  <2>5. IInv' /\ [H!Next]_live
    BY <1>1, <1>10, <2>2, <2>4, FreeSafe
  <2>6. live' = others \cup Pieces(Rest)
    <3>1. Piece(k) \notin others /\ Piece(k) \notin Pieces(Rest)
      BY <1>1, <1>5, <1>10 DEF PiecesNew, Pieces, Part
    <3>2. Pieces(Rest \cup {k}) = Pieces(Rest) \cup {Piece(k)}
      BY <1>6, <1>10 DEF Pieces
    <3> QED
      BY <2>1, <2>4, <3>1, <3>2
  <2>7. Gone(Done)'
    <3>1. ASSUME NEW p \in Done, ptr[p] # NULL PROVE memmap'[ptr[p]] = 0
      <4>1. ptr[p] \in Block
        BY <1>1, <1>6, <3>1 DEF NetTypes
      <4>2. CASE p = k
        <5>1. memmap[ptr[k]] \in 1..TableSize
          BY <1>1, <1>10, <2>2, TableAssumption DEF IInv, TypeOK
        <5>2. ptr[k] \in Blocks(ptr[k], memmap[ptr[k]])
          BY <2>2, <5>1, TableAssumption DEF Blocks, Block
        <5> QED
          BY <1>10, <2>2, <4>2, <5>2 DEF Mark
      <4>3. CASE p # k
        BY <1>10, <2>1, <3>1, <4>1, <4>3 DEF Gone, Mark
      <4> QED
        BY <4>2, <4>3
    <3> QED
      BY <1>1, <3>1 DEF Gone
  <2>8. Held'
    BY <1>1, <1>8, <2>6, <2>7
  <2> QED
    BY <1>3, <2>5, <2>8 DEF NetInv
<1>11. CASE ptr[k] # NULL /\ memmap[ptr[k]] = 0
  <2>1. ptr[k] \in Block /\ memmap \in [Block -> 0..TableSize]
    BY <1>1, <1>11 DEF NetTypes, IInv, TypeOK
  <2>2. Blocks(ptr[k], 0) = {}
    BY <2>1, TableAssumption DEF Blocks, Block
  <2>3. Mark(memmap, ptr[k], memmap[ptr[k]], 0) = memmap
    BY <1>11, <2>1, <2>2 DEF Mark
  <2>4. {a \in live : a[1] # ptr[k]} = live
    BY <1>4, <1>11
  <2> QED
    BY <1>5, <1>9, <1>11, <2>3, <2>4 DEF my_free
<1> QED
  BY <1>5, <1>9, <1>10, <1>11 DEF my_free

-----------------------------------------------------------------------------
LEMMA NetStepSafe ==
  ASSUME NetInv, [NetNext]_allVars
  PROVE  NetInv' /\ [H!Next]_live
<1>1. CASE UNCHANGED allVars
  BY <1>1 DEF allVars, vars, netVars, NetInv, IInv, TypeOK, NoOverlap, TableMatches, NetTypes,
     PiecesNew, Held, Pieces, Piece, Gone
<1> QED
  BY <1>1, AppSafe, QuietSafe, MallocStepSafe, FreeStepSafe DEF NetNext, Attempt

LEMMA NetInvariance == NetSpec => []NetInv
<1>1. NetInit => NetInv
  BY NetInitSafe
<1>2. NetInv /\ [NetNext]_allVars => NetInv'
  BY NetStepSafe
<1> QED
  BY <1>1, <1>2, PTL DEF NetSpec

(* Every variable of lwip_comm_init and of the bank keeps its type. *)
THEOREM NetTypeCorrect == NetSpec => []NetTypeOK
<1>1. NetInv => NetTypeOK
  BY DEF NetInv, IInv, NetTypes, NetTypeOK
<1> QED
  BY <1>1, NetInvariance, PTL

(* my_mem_malloc and my_mem_free keep allocations apart and the table      *)
(* exact, also for a caller that frees what it has freed before, as        *)
(* my_eth_mem_free does at each retry of main.                             *)
THEOREM NetAllocationsDisjoint == NetSpec => []NoOverlap
<1>1. NetInv => NoOverlap
  BY DEF NetInv, IInv
<1> QED
  BY <1>1, NetInvariance, PTL

(* The block table says of every block what the parts and the application  *)
(* hold, after each step of a start that fails half way.                   *)
THEOREM NetTableExact == NetSpec => []TableMatches
<1>1. NetInv => TableMatches
  BY DEF NetInv, IInv
<1> QED
  BY <1>1, NetInvariance, PTL

(* lwip_comm_init and the application, taking turns, implement the heap. *)
THEOREM NetImplementsHeap == NetSpec => RefinesHeap
<1>1. NetInit => H!Init
  BY NetInitSafe
<1>2. NetInv /\ [NetNext]_allVars => [H!Next]_live
  BY NetStepSafe
<1> QED
  BY <1>1, <1>2, NetInvariance, PTL DEF NetSpec, H!Spec, RefinesHeap

(* Four different pieces. *)
LEMMA FourPieces ==
  ASSUME NetInv, pc \in {"link", "up"}
  PROVE  Mine = Pieces(Part) /\ Cardinality(Mine) = 4
<1>1. \A p \in Part : ptr[p] # NULL
  BY DEF NetInv, Held
<1>2. \A p, q \in Part : p # q => Piece(p) # Piece(q)
  BY <1>1 DEF NetInv, PiecesNew
<1>3. Mine = Pieces(Part)
  BY <1>1, MineIsPieces
<1>4. Mine = {Piece(1)} \cup {Piece(2)} \cup {Piece(3)} \cup {Piece(4)}
  BY <1>1, <1>3 DEF Pieces, Part
<1>5. IsFiniteSet({Piece(1)}) /\ Cardinality({Piece(1)}) = 1
  BY FS_Singleton
<1>6. Piece(2) \notin {Piece(1)}
  BY <1>2 DEF Part
<1>7. /\ IsFiniteSet({Piece(1)} \cup {Piece(2)})
      /\ Cardinality({Piece(1)} \cup {Piece(2)}) = 2
  BY <1>5, <1>6, FS_AddElement
<1>8. Piece(3) \notin {Piece(1)} \cup {Piece(2)}
  BY <1>2 DEF Part
<1>9. /\ IsFiniteSet({Piece(1)} \cup {Piece(2)} \cup {Piece(3)})
      /\ Cardinality({Piece(1)} \cup {Piece(2)} \cup {Piece(3)}) = 3
  BY <1>7, <1>8, FS_AddElement
<1>10. Piece(4) \notin {Piece(1)} \cup {Piece(2)} \cup {Piece(3)}
  BY <1>2 DEF Part
<1> QED
  BY <1>3, <1>4, <1>9, <1>10, FS_AddElement

(* A start that goes on holds its four parts, and a start that failed,     *)
(* however often main called lwip_comm_init, has left the bank as it was.  *)
THEOREM StartAllOrNothing == NetSpec => []AllOrNothing
<1>1. NetInv => AllOrNothing
  <2> SUFFICES ASSUME NetInv PROVE AllOrNothing
    OBVIOUS
  <2>1. CASE pc \in {"link", "up"}
    <3>1. Mine = Pieces(Part) /\ Cardinality(Mine) = 4
      BY <2>1, FourPieces
    <3>2. Mine \subseteq live
      BY <2>1, <3>1 DEF NetInv, Held
    <3>3. Pieces(Part) \cap others = {}
      BY DEF NetInv, PiecesNew, Pieces
    <3>4. pc = "link" => others = live \ Mine
      BY <3>1, <3>3 DEF NetInv, Held
    <3> QED
      BY <2>1, <3>1, <3>2, <3>4 DEF AllOrNothing
  <2>2. CASE pc \notin {"link", "up"}
    BY <2>2 DEF NetInv, Held, AllOrNothing
  <2> QED
    BY <2>1, <2>2
<1> QED
  BY <1>1, NetInvariance, PTL

(* Wherever lwip_comm_init and the application have brought the bank, the  *)
(* loop of my_mem_malloc finds the highest free run there is.              *)
THEOREM NetSearchCorrect == NetSpec => []SearchFindsHighest
BY SearchRight, PTL

=============================================================================
