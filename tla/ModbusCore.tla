------------------------------ MODULE ModbusCore ------------------------------
(***************************************************************************)
(* The application interface of the protocol stack (mb.c): eMBInit,        *)
(* eMBEnable, eMBDisable, eMBClose, eMBRegisterCB, and the search of       *)
(* eMBPoll for the handler of a request.                                   *)
(*                                                                         *)
(* The search is not in a critical section, so it goes entry by entry here *)
(* and reads the function code of an entry before its handler.             *)
(*                                                                         *)
(* Uses says what the application does beyond registering a new handler    *)
(* for a new code between polls:                                           *)
(*   "remove"      register NULL, to take a handler out;                   *)
(*   "rebind"      register a code that has a handler already;             *)
(*   "share"       register a handler that another code has;               *)
(*   "concurrent"  register handlers from a task that preempts eMBPoll;    *)
(*   "concurrentRemove"  take handlers out from such a task;               *)
(*   "reinit"      call eMBInit again after it succeeded.                  *)
(***************************************************************************)
EXTENDS Integers, FiniteSetsExt

CONSTANTS
  MB_FUNC_HANDLERS_MAX,   \* 16
  Code,                   \* function codes, 1..127
  Handler,                \* the handler functions
  NULL,                   \* no function
  Builtin,                \* the number of entries of the initializer
  BuiltinCode, BuiltinHandler,   \* and what they are
  Address,                \* valid slave addresses
  Uses                    \* see above

Slot   == 0..(MB_FUNC_HANDLERS_MAX - 1)
UseSet == {"remove", "rebind", "share", "concurrent", "concurrentRemove", "reinit"}

ASSUME HandlerAssumption ==
  /\ MB_FUNC_HANDLERS_MAX \in Nat \ {0}
  /\ Code \subseteq Nat \ {0} /\ NULL \notin Handler
ASSUME BuiltinAssumption ==
  /\ Builtin \in 0..MB_FUNC_HANDLERS_MAX
  /\ BuiltinCode \in [0..(Builtin - 1) -> Code]
  /\ BuiltinHandler \in [0..(Builtin - 1) -> Handler]
  /\ \A i, j \in 0..(Builtin - 1) : i # j => /\ BuiltinCode[i] # BuiltinCode[j]
                                             /\ BuiltinHandler[i] # BuiltinHandler[j]
ASSUME UsesAssumption == Uses \subseteq UseSet
ASSUME AddressAssumption == Address # {} /\ 0 \notin Address

VARIABLES
  xFuncHandlers,   \* the table
  eMBState,        \* STATE_ENABLED, STATE_DISABLED or STATE_NOT_INITIALIZED
  pointers,        \* have the pvMBFrame... pointers been set?
  ucMBAddress,     \* the slave address
  scan,            \* the search of eMBPoll: entry reached, and whether its code matched
  bound,           \* history: the handler each code was last registered with
  initAddress,     \* history: the address of the last eMBInit that returned MB_ENOERR
  last             \* the last call of the application, or answer to a request

vars == <<xFuncHandlers, eMBState, pointers, ucMBAddress, scan, bound, initAddress, last>>
stack == <<eMBState, pointers, ucMBAddress, initAddress>>

Entry  == [ucFunctionCode : Code \cup {0}, pxHandler : Handler \cup {NULL}]
Free   == [ucFunctionCode |-> 0, pxHandler |-> NULL]
States == {"STATE_ENABLED", "STATE_DISABLED", "STATE_NOT_INITIALIZED"}
Status == {"MB_ENOERR", "MB_EINVAL", "MB_EPORTERR", "MB_ENORES", "MB_EILLSTATE"}
Idle   == [code |-> 0, at |-> 0, hit |-> FALSE, busy |-> FALSE]

(* The last call: what it was and what it returned; for a request the      *)
(* handler that was called, NULL for an illegal function.                  *)
Called(op, status) == [op |-> op, status |-> status, code |-> 0, by |-> NULL]
Answer(code, h) == [op |-> "request", status |-> "MB_ENOERR",
                    code |-> code, by |-> h]

-----------------------------------------------------------------------------
Init ==
  /\ xFuncHandlers = [i \in Slot |-> IF i < Builtin
                        THEN [ucFunctionCode |-> BuiltinCode[i], pxHandler |-> BuiltinHandler[i]]
                        ELSE Free]
  /\ eMBState = "STATE_NOT_INITIALIZED" /\ pointers = FALSE /\ ucMBAddress = 0
  /\ scan = Idle /\ initAddress = 0 /\ last = Called("none", "MB_ENOERR")
  /\ bound = [c \in Code |-> IF \E i \in 0..(Builtin - 1) : BuiltinCode[i] = c
                             THEN BuiltinHandler[CHOOSE i \in 0..(Builtin - 1) : BuiltinCode[i] = c]
                             ELSE NULL]

-----------------------------------------------------------------------------
(* Starting and stopping.  These are called by the task that polls. *)

MayInit == ~scan.busy /\ ("reinit" \in Uses \/ eMBState = "STATE_NOT_INITIALIZED")

(* Mutant of eMBInit: the stack is ready although the mode is not built in. *)
InitIgnoringMode(addr, result) ==
  /\ MayInit
  /\ ucMBAddress' = addr
  /\ pointers' = (pointers \/ result # "MB_EINVAL")
  /\ eMBState' = IF result = "MB_EPORTERR" THEN eMBState ELSE "STATE_DISABLED"
  /\ initAddress' = IF result = "MB_ENOERR" THEN addr ELSE initAddress
  /\ last' = Called("eMBInit", result)
  /\ UNCHANGED <<xFuncHandlers, scan, bound>>

(* Mutant of eMBInit: an address stays once it is set. *)
InitKeepsAddress(addr, result) ==
  /\ MayInit
  /\ ucMBAddress' = IF ucMBAddress = 0 THEN addr ELSE ucMBAddress
  /\ pointers' = (pointers \/ result # "MB_EINVAL")
  /\ eMBState' = IF result = "MB_ENOERR" THEN "STATE_DISABLED" ELSE eMBState
  /\ initAddress' = IF result = "MB_ENOERR" THEN addr ELSE initAddress
  /\ last' = Called("eMBInit", result)
  /\ UNCHANGED <<xFuncHandlers, scan, bound>>

(* result is MB_EINVAL for a mode that is not built in and MB_EPORTERR     *)
(* when the port refuses the serial parameters.  The address is stored     *)
(* before either is known.                                                 *)
eMBInit(addr, result) ==
  /\ MayInit
  /\ ucMBAddress' = addr
  /\ pointers' = (pointers \/ result # "MB_EINVAL")
  /\ eMBState' = IF result = "MB_ENOERR" THEN "STATE_DISABLED" ELSE eMBState
  /\ initAddress' = IF result = "MB_ENOERR" THEN addr ELSE initAddress
  /\ last' = Called("eMBInit", result)
  /\ UNCHANGED <<xFuncHandlers, scan, bound>>

(* The broadcast address and the addresses above 247. *)
eMBInitRefused ==
  /\ ~scan.busy
  /\ last' = Called("eMBInit", "MB_EINVAL")
  /\ UNCHANGED <<xFuncHandlers, scan, bound, stack>>

eMBEnable ==
  /\ ~scan.busy
  /\ eMBState' = IF eMBState = "STATE_DISABLED" THEN "STATE_ENABLED" ELSE eMBState
  /\ last' = Called("eMBEnable", IF eMBState = "STATE_DISABLED" THEN "MB_ENOERR" ELSE "MB_EILLSTATE")
  /\ UNCHANGED <<xFuncHandlers, scan, bound, pointers, ucMBAddress, initAddress>>

eMBDisable ==
  /\ ~scan.busy
  /\ eMBState' = IF eMBState = "STATE_ENABLED" THEN "STATE_DISABLED" ELSE eMBState
  /\ last' = Called("eMBDisable", IF eMBState = "STATE_NOT_INITIALIZED" THEN "MB_EILLSTATE"
                                                                        ELSE "MB_ENOERR")
  /\ UNCHANGED <<xFuncHandlers, scan, bound, pointers, ucMBAddress, initAddress>>

(* The port has no close function (MB_PORT_HAS_CLOSE is 0). *)
eMBClose ==
  /\ ~scan.busy
  /\ last' = Called("eMBClose", IF eMBState = "STATE_DISABLED" THEN "MB_ENOERR" ELSE "MB_EILLSTATE")
  /\ UNCHANGED <<xFuncHandlers, scan, bound, stack>>

-----------------------------------------------------------------------------
(* eMBRegisterCB: one step, it is a critical section. *)

Allowed(c, h) ==
  /\ scan.busy => "concurrent" \in Uses
  /\ "rebind" \in Uses \/ bound[c] = NULL
  /\ "share" \in Uses \/ \A d \in Code \ {c} : bound[d] # h

(* Where a handler goes: the first entry that is free or already its own. *)
Places(h) == {i \in Slot : xFuncHandlers[i].pxHandler \in {NULL, h}}

eMBRegisterCB(c, h) ==
  /\ Allowed(c, h)
  /\ IF Places(h) = {}
     THEN /\ last' = Called("eMBRegisterCB", "MB_ENORES")
          /\ UNCHANGED <<xFuncHandlers, bound>>
     ELSE /\ xFuncHandlers' = [xFuncHandlers EXCEPT ![Min(Places(h))] =
                                 [ucFunctionCode |-> c, pxHandler |-> h]]
          /\ bound' = [bound EXCEPT ![c] = h]
          /\ last' = Called("eMBRegisterCB", "MB_ENOERR")
  /\ UNCHANGED <<scan, stack>>

Having(c) == {i \in Slot : xFuncHandlers[i].ucFunctionCode = c}

(* Mutant of eMBRemoveCB: only the first entry is looked at. *)
RemoveFirstOnly(c) ==
  /\ "remove" \in Uses
  /\ scan.busy => "concurrentRemove" \in Uses
  /\ xFuncHandlers' = IF 0 \notin Having(c) THEN xFuncHandlers
                      ELSE [xFuncHandlers EXCEPT ![0] = Free]
  /\ bound' = [bound EXCEPT ![c] = NULL]
  /\ last' = Called("eMBRegisterCB", "MB_ENOERR")
  /\ UNCHANGED <<scan, stack>>

(* eMBRegisterCB with NULL: the first entry of the code is freed. *)
eMBRemoveCB(c) ==
  /\ "remove" \in Uses
  /\ scan.busy => "concurrentRemove" \in Uses
  /\ xFuncHandlers' = IF Having(c) = {} THEN xFuncHandlers
                      ELSE [xFuncHandlers EXCEPT ![Min(Having(c))] = Free]
  /\ bound' = [bound EXCEPT ![c] = NULL]
  /\ last' = Called("eMBRegisterCB", "MB_ENOERR")
  /\ UNCHANGED <<scan, stack>>

(* A code outside 1..127. *)
eMBRegisterRefused ==
  /\ last' = Called("eMBRegisterCB", "MB_EINVAL")
  /\ UNCHANGED <<xFuncHandlers, scan, bound, stack>>

-----------------------------------------------------------------------------
(* eMBPoll on EV_EXECUTE.  A request may have any function code, 0 too. *)

eMBPollDisabled ==
  /\ ~scan.busy /\ eMBState # "STATE_ENABLED"
  /\ last' = Called("eMBPoll", "MB_EILLSTATE")
  /\ UNCHANGED <<xFuncHandlers, scan, bound, stack>>

(* Mutant of eMBPollExecute: the search begins with the second entry. *)
ExecuteFromOne(c) ==
  /\ ~scan.busy /\ eMBState = "STATE_ENABLED"
  /\ scan' = [code |-> c, at |-> 1, hit |-> FALSE, busy |-> TRUE]
  /\ UNCHANGED <<xFuncHandlers, bound, last, stack>>

eMBPollExecute(c) ==
  /\ ~scan.busy /\ eMBState = "STATE_ENABLED"
  /\ scan' = [code |-> c, at |-> 0, hit |-> FALSE, busy |-> TRUE]
  /\ UNCHANGED <<xFuncHandlers, bound, last, stack>>

(* The loop ends without a handler: the table is exhausted, or a free      *)
(* entry is taken for its end.                                             *)
ScanAtEnd == scan.at \in Slot => xFuncHandlers[scan.at].ucFunctionCode = 0

ScanEnd ==
  /\ scan.busy /\ ~scan.hit /\ ScanAtEnd
  /\ last' = Answer(scan.code, NULL)
  /\ scan' = Idle
  /\ UNCHANGED <<xFuncHandlers, bound, stack>>

(* Mutant of ScanEntry: the index is advanced twice. *)
ScanEntrySkips ==
  /\ scan.busy /\ ~scan.hit /\ ~ScanAtEnd
  /\ scan' = IF xFuncHandlers[scan.at].ucFunctionCode = scan.code
             THEN [scan EXCEPT !.hit = TRUE] ELSE [scan EXCEPT !.at = @ + 2]
  /\ UNCHANGED <<xFuncHandlers, bound, last, stack>>

ScanEntry ==
  /\ scan.busy /\ ~scan.hit /\ ~ScanAtEnd
  /\ scan' = IF xFuncHandlers[scan.at].ucFunctionCode = scan.code
             THEN [scan EXCEPT !.hit = TRUE] ELSE [scan EXCEPT !.at = @ + 1]
  /\ UNCHANGED <<xFuncHandlers, bound, last, stack>>

ScanCall ==
  /\ scan.busy /\ scan.hit
  /\ last' = Answer(scan.code, xFuncHandlers[scan.at].pxHandler)
  /\ scan' = Idle
  /\ UNCHANGED <<xFuncHandlers, bound, stack>>

-----------------------------------------------------------------------------
Next ==
  \/ \E addr \in Address, result \in {"MB_ENOERR", "MB_EINVAL", "MB_EPORTERR"} : eMBInit(addr, result)
  \/ eMBInitRefused \/ eMBEnable \/ eMBDisable \/ eMBClose
  \/ \E c \in Code : eMBRemoveCB(c) \/ \E h \in Handler : eMBRegisterCB(c, h)
  \/ eMBRegisterRefused
  \/ eMBPollDisabled \/ \E c \in Code \cup {0} : eMBPollExecute(c)
  \/ ScanEnd \/ ScanEntry \/ ScanCall

Spec == Init /\ [][Next]_vars

-----------------------------------------------------------------------------
(* Properties *)

TypeOK ==
  /\ xFuncHandlers \in [Slot -> Entry]
  /\ eMBState \in States /\ pointers \in BOOLEAN
  /\ ucMBAddress \in Address \cup {0} /\ initAddress \in Address \cup {0}
  /\ scan \in [code : Code \cup {0}, at : 0..MB_FUNC_HANDLERS_MAX, hit : BOOLEAN, busy : BOOLEAN]
  /\ bound \in [Code -> Handler \cup {NULL}]
  /\ last.by \in Handler \cup {NULL} /\ last.status \in Status

(* The stack never calls through a null pointer: eMBEnable and eMBPoll     *)
(* call the frame functions, which only eMBInit sets (mb.c:146-153), and   *)
(* eMBPoll calls the handler of the entry whose code it found (mb.c:382).  *)
NeverCallsNull ==
  /\ eMBState # "STATE_NOT_INITIALIZED" => pointers
  /\ scan.busy /\ scan.hit => xFuncHandlers[scan.at].pxHandler # NULL

(* The handler eMBPoll finds for a code when nobody interferes. *)
Lookup(c) ==
  LET before == {i \in Slot : \A j \in 0..i : xFuncHandlers[j].ucFunctionCode # 0}
      found  == Having(c) \cap before
  IN  IF found = {} THEN NULL ELSE xFuncHandlers[Min(found)].pxHandler

(* A request is served by the handler that eMBRegisterCB was last called   *)
(* with for its function code, and refused as an illegal function when     *)
(* there is none or it was removed (mb.h:245-257), except that removing    *)
(* leaves a hole, which the search takes for the end of the table          *)
(* (mb.c:375): what stands behind it is out of reach until another         *)
(* handler fills it.                                                       *)
Hole(c) == \E i \in Slot, j \in Having(c) : i < j /\ xFuncHandlers[i].pxHandler = NULL
ServedUnlessHole ==
  \A c \in Code : Lookup(c) = bound[c] \/ (Hole(c) /\ Lookup(c) = NULL)

(* What the search of eMBPoll, entry by entry and with handlers registered *)
(* under it, ends with is what the registrations say, or no handler for a  *)
(* code behind a hole; no handler is called for function code 0.           *)
AnsweredAsBound ==
  [][scan.busy /\ ~scan'.busy =>
       \/ scan.code = 0 /\ last'.by = NULL
       \/ scan.code # 0 /\ last'.by = bound[scan.code]
       \/ scan.code # 0 /\ last'.by = NULL /\ Hole(scan.code)]_vars

(* An enabled stack answers to the address of the last eMBInit that        *)
(* succeeded (mb.h:134), although a failing eMBInit stores its address too *)
(* (mb.c:140).                                                             *)
AddressAsInitialised == eMBState = "STATE_ENABLED" => ucMBAddress = initAddress

=============================================================================
