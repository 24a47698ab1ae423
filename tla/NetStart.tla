------------------------------ MODULE NetStart ------------------------------
(***************************************************************************)
(* The start of the network interface, lwip_comm_init of Driver/Lwip/app/  *)
(* lwip_comm.c as main.c calls it: again and again until it returns 0.  It *)
(* takes four pieces of memory from the memory manager (my_eth_mem_malloc  *)
(* of Peripherals/eth.c), then waits for the link.  Before and after it    *)
(* the application uses the same bank; while it runs nobody else does.     *)
(***************************************************************************)
EXTENDS MemPool, FiniteSets

CONSTANTS
  DescSize,   \* bytes of a ring of descriptors
  BufSize     \* bytes of the buffers of a ring

ASSUME PartAssumption == DescSize \in Nat \ {0} /\ BufSize \in Nat \ {0}

NULL == -1

(* pg_dma_rx_dscr_tab, pg_dma_tx_dscr_tab, pg_rx_buff and pg_tx_buff, in   *)
(* the order of their allocation and release.                              *)
Part == 1..4
SizeOf(p) == IF p <= 2 THEN DescSize ELSE BufSize

VARIABLES
  pc,      \* where lwip_comm_init is; "app" before the first call
  part,    \* the part to allocate or release next
  ptr,     \* [Part -> first block of the part or NULL]
  others   \* what the application held when the loop of main began

netVars == <<pc, part, ptr, others>>
allVars == <<vars, netVars>>

-----------------------------------------------------------------------------
(* The application calls the memory manager for itself. *)
Mine == IF pc \in {"link", "up"} THEN {<<ptr[p], Nmemb(SizeOf(p))>> : p \in Part} ELSE {}

App ==
  /\ pc \in {"app", "up"}
  /\ \/ \E size \in Sizes : my_mem_malloc(size) \/ \E a \in live \ Mine : myrealloc(a, size)
     \/ \E a \in live \ Mine : my_mem_free(a)
     \/ my_mem_free_foreign
  /\ UNCHANGED netVars

(* main reaches its loop. *)
BeginLoop ==
  /\ pc = "app"
  /\ pc' = "call" /\ others' = live
  /\ UNCHANGED <<vars, part, ptr>>

(* my_eth_mem_malloc allocates only when no pointer is set; a call after a *)
(* failure, whose pointers are still set, only releases.                   *)
my_eth_mem_malloc ==
  /\ pc = "call"
  /\ part' = 1
  /\ pc' = IF \A p \in Part : ptr[p] = NULL THEN "malloc" ELSE "free"
  /\ UNCHANGED <<vars, ptr, others>>

my_malloc ==
  /\ pc = "malloc"
  /\ my_mem_malloc(SizeOf(part))
  /\ ptr' = [ptr EXCEPT ![part] =
               IF live' = live THEN NULL ELSE (CHOOSE a \in live' \ live : TRUE)[1]]
  /\ IF part = 4 THEN pc' = "check" /\ part' = 1 ELSE part' = part + 1 /\ UNCHANGED pc
  /\ UNCHANGED others

(* Mutant of Check: the last pointer is not looked at. *)
CheckThree ==
  /\ pc = "check"
  /\ pc' = IF \E p \in 1..3 : ptr[p] = NULL THEN "free" ELSE "link"
  /\ UNCHANGED <<vars, part, ptr, others>>

(* Mutant of Check: a part at the start of the bank is taken for a failure. *)
CheckOffset ==
  /\ pc = "check"
  /\ pc' = IF \E p \in Part : ptr[p] <= 0 THEN "free" ELSE "link"
  /\ UNCHANGED <<vars, part, ptr, others>>

Check ==
  /\ pc = "check"
  /\ pc' = IF \E p \in Part : ptr[p] = NULL THEN "free" ELSE "link"
  /\ UNCHANGED <<vars, part, ptr, others>>

(* One my_free of my_eth_mem_free.  NULL is skipped; the pointers stay.    *)
(* What is cleared is what the table says, nothing if it is free already.  *)
(* lwip_comm_init then returns 1 and main calls it again.                  *)
my_free ==
  /\ pc = "free"
  /\ IF ptr[part] = NULL
     THEN UNCHANGED <<memmap, live>>
     ELSE /\ memmap' = Mark(memmap, ptr[part], memmap[ptr[part]], 0)
          /\ live' = {a \in live : a[1] # ptr[part]}
  /\ IF part = 4 THEN pc' = "call" /\ part' = 1 ELSE part' = part + 1 /\ UNCHANGED pc
  /\ UNCHANGED <<memrdy, ptr, others>>

(* dp83848c_config finds a link, and lwip_comm_init adds the interface and *)
(* returns 0.  The loop that waits for the link has no bound.              *)
LinkUp ==
  /\ pc = "link"
  /\ pc' = "up"
  /\ UNCHANGED <<vars, part, ptr, others>>

Attempt == my_eth_mem_malloc \/ my_malloc \/ Check \/ my_free

NetInit ==
  /\ Init
  /\ pc = "app" /\ part = 1
  /\ ptr = [p \in Part |-> NULL] /\ others = {}

NetNext == App \/ BeginLoop \/ Attempt \/ LinkUp

(* main goes on with its loop, and a link that can come comes. *)
NetSpec == NetInit /\ [][NetNext]_allVars /\ WF_allVars(Attempt) /\ WF_allVars(LinkUp)

-----------------------------------------------------------------------------
(* Every variable has its type, those of the bank included. *)
NetTypeOK ==
  /\ TypeOK
  /\ pc \in {"app", "call", "malloc", "check", "free", "link", "up"}
  /\ part \in Part /\ ptr \in [Part -> Block \cup {NULL}] /\ others \subseteq Run

(* A start that goes on holds its four parts, apart from each other and    *)
(* from what the application has; a start that failed, once or many times, *)
(* has left the bank as it was (eth.c:31-42).                              *)
AllOrNothing ==
  /\ pc \in {"link", "up"} => Mine \subseteq live /\ Cardinality(Mine) = 4
  /\ pc = "link" => others = live \ Mine
  /\ pc = "call" => live = others

(* The first call comes up when the bank has room for the four parts in a  *)
(* row, however the rest of it is used; main does not call for ever (main. *)
(* c:135).                                                                 *)
Needed == 2 * Nmemb(DescSize) + 2 * Nmemb(BufSize)

StartsWithRoom ==
  pc = "call" /\ (\A p \in Part : ptr[p] = NULL) /\ (\E o \in Block : FreeAt(Table, o, Needed))
    ~> pc = "up"

=============================================================================
