--------------------------- MODULE ModbusCoreProofs ---------------------------
(***************************************************************************)
(* The handler table, for every size of the table, every set of codes and  *)
(* handlers and every use of it.                                           *)
(***************************************************************************)
EXTENDS ModbusCore, WellFoundedInduction, TLAPS

(* A set of table indices that is not empty has a first one. *)
LEMMA FirstSlot ==
  ASSUME NEW S \in SUBSET Slot, S # {}
  PROVE  Min(S) \in S /\ \A i \in S : Min(S) <= i
<1> DEFINE Less == {ss \in Nat \X Nat : ss[1] < ss[2]}
<1>1. IsWellFoundedOn(Less, Nat)
  BY NatLessThanWellFounded DEF OpToRel
<1>2. S \subseteq Nat
  BY HandlerAssumption DEF Slot
<1>3. \E x \in S : \A y \in S : ~(<<y, x>> \in Less)
  <2> HIDE DEF Less
  <2> QED BY <1>1, <1>2, WFMin, Zenon
<1>4. PICK x \in S : \A y \in S : ~(<<y, x>> \in Less)
  BY <1>3
<1>5. ASSUME NEW y \in S PROVE x <= y
  <2>1. x \in Nat /\ y \in Nat
    BY <1>2
  <2>2. ~(<<y, x>> \in Less)
    BY <1>4
  <2>3. <<y, x>>[1] = y /\ <<y, x>>[2] = x /\ <<y, x>> \in Nat \X Nat
    BY <2>1
  <2>4. ~(y < x)
    BY <2>2, <2>3
  <2> QED
    BY <2>1, <2>4
<1> QED
  BY <1>5 DEF Min

-----------------------------------------------------------------------------
(* The parts of the inductive invariants. *)

(* An entry with a function code has a handler, and one without has none. *)
Whole == \A i \in Slot : xFuncHandlers[i].ucFunctionCode = 0 <=> xFuncHandlers[i].pxHandler = NULL

(* Only an entry of the table is called. *)
HitInTable == scan.hit => scan.at \in Slot

NullInv == TypeOK /\ Whole /\ HitInTable /\ NeverCallsNull

(* A registration puts a whole entry where the handler was or nothing was. *)
LEMMA RegisterSlot ==
  ASSUME TypeOK, NEW h \in Handler, Places(h) # {}
  PROVE  /\ Min(Places(h)) \in Slot /\ Min(Places(h)) \in Places(h)
         /\ \A i \in Places(h) : Min(Places(h)) <= i
BY FirstSlot DEF Places

LEMMA RemoveSlot ==
  ASSUME TypeOK, NEW c \in Code, Having(c) # {}
  PROVE  Min(Having(c)) \in Slot /\ Min(Having(c)) \in Having(c)
BY FirstSlot DEF Having

(* The initializer of the table satisfies the invariant. *)
LEMMA InitNull == Init => NullInv
<1> SUFFICES ASSUME Init PROVE NullInv
  OBVIOUS
<1>1. xFuncHandlers \in [Slot -> Entry]
  BY BuiltinAssumption, HandlerAssumption DEF Init, Slot, Entry, Free
<1>2. Whole
  BY BuiltinAssumption, HandlerAssumption DEF Init, Slot, Whole, Free
<1>3. bound \in [Code -> Handler \cup {NULL}]
  <2> SUFFICES ASSUME NEW c \in Code, \E i \in 0..(Builtin - 1) : BuiltinCode[i] = c
               PROVE  BuiltinHandler[CHOOSE i \in 0..(Builtin - 1) : BuiltinCode[i] = c] \in Handler
    BY DEF Init
  <2> QED
    BY BuiltinAssumption
<1>4. scan \in [code : Code \cup {0}, at : 0..MB_FUNC_HANDLERS_MAX, hit : BOOLEAN, busy : BOOLEAN]
  BY HandlerAssumption DEF Init, Idle
<1>5. last.by \in Handler \cup {NULL} /\ last.status \in Status
  BY DEF Init, Called, Status
<1>6. eMBState \in States /\ pointers \in BOOLEAN /\ ucMBAddress = 0 /\ initAddress = 0
  BY DEF Init, States
<1>7. HitInTable /\ NeverCallsNull
  BY DEF Init, Idle, HitInTable, NeverCallsNull
<1> QED
  BY <1>1, <1>2, <1>3, <1>4, <1>5, <1>6, <1>7 DEF NullInv, TypeOK

(* Type correctness is preserved by every step. *)
LEMMA TypeStep ==
  ASSUME TypeOK, HitInTable, [Next]_vars
  PROVE  TypeOK' /\ HitInTable'
<1> USE DEF TypeOK, HitInTable
<1>1. ASSUME NEW addr \in Address, NEW result \in {"MB_ENOERR", "MB_EINVAL", "MB_EPORTERR"},
             eMBInit(addr, result)
      PROVE  TypeOK' /\ HitInTable'
  <2>1. pointers' \in BOOLEAN
    BY <1>1, Zenon DEF eMBInit
  <2> QED
    BY <1>1, <2>1 DEF eMBInit, States, Status, Called
<1>2. CASE eMBInitRefused \/ eMBClose \/ eMBRegisterRefused \/ eMBPollDisabled
  <2>1. UNCHANGED <<xFuncHandlers, scan, bound, stack>>
    BY <1>2 DEF eMBInitRefused, eMBClose, eMBRegisterRefused, eMBPollDisabled
  <2>2. last'.by \in Handler \cup {NULL} /\ last'.status \in Status
    BY <1>2 DEF eMBInitRefused, eMBClose, eMBRegisterRefused, eMBPollDisabled, Called, Status
  <2> QED
    BY <2>1, <2>2 DEF stack
<1>3. CASE eMBEnable \/ eMBDisable
  BY <1>3 DEF eMBEnable, eMBDisable, States, Status, Called
<1>4. ASSUME NEW c \in Code, eMBRemoveCB(c)
      PROVE  TypeOK' /\ HitInTable'
  <2>1. xFuncHandlers' \in [Slot -> Entry]
    BY <1>4 DEF eMBRemoveCB, Entry, Free
  <2>2. bound' \in [Code -> Handler \cup {NULL}]
    BY <1>4 DEF eMBRemoveCB
  <2>3. UNCHANGED <<scan, stack>>
    BY <1>4 DEF eMBRemoveCB
  <2>4. last'.by \in Handler \cup {NULL} /\ last'.status \in Status
    BY <1>4 DEF eMBRemoveCB, Called, Status
  <2> QED
    BY <2>1, <2>2, <2>3, <2>4 DEF stack
<1>5. ASSUME NEW c \in Code, NEW h \in Handler, eMBRegisterCB(c, h)
      PROVE  TypeOK' /\ HitInTable'
  <2>1. xFuncHandlers' \in [Slot -> Entry]
    BY <1>5 DEF eMBRegisterCB, Entry
  <2>2. bound' \in [Code -> Handler \cup {NULL}]
    BY <1>5 DEF eMBRegisterCB
  <2>3. UNCHANGED <<scan, stack>>
    BY <1>5 DEF eMBRegisterCB
  <2>4. last'.by \in Handler \cup {NULL} /\ last'.status \in Status
    BY <1>5 DEF eMBRegisterCB, Called, Status
  <2> QED
    BY <2>1, <2>2, <2>3, <2>4 DEF stack
<1>6. ASSUME NEW c \in Code \cup {0}, eMBPollExecute(c)
      PROVE  TypeOK' /\ HitInTable'
  BY <1>6, HandlerAssumption DEF eMBPollExecute, stack
<1>7. CASE ScanEnd
  BY <1>7, HandlerAssumption DEF ScanEnd, Answer, Idle, Status, stack
<1>8. CASE ScanEntry
  <2>1. scan.at \in Slot
    BY <1>8 DEF ScanEntry, ScanAtEnd
  <2>2. scan.at + 1 \in 0..MB_FUNC_HANDLERS_MAX
    BY <2>1, HandlerAssumption DEF Slot
  <2>3. scan' = [scan EXCEPT !.hit = TRUE] \/ scan' = [scan EXCEPT !.at = @ + 1]
    BY <1>8 DEF ScanEntry
  <2>4. scan' \in [code : Code \cup {0}, at : 0..MB_FUNC_HANDLERS_MAX, hit : BOOLEAN, busy : BOOLEAN]
    BY <2>2, <2>3
  <2>5. scan'.hit => scan'.at \in Slot
    BY <1>8, <2>1, <2>3 DEF ScanEntry
  <2>6. UNCHANGED <<xFuncHandlers, bound, last, stack>>
    BY <1>8 DEF ScanEntry
  <2> QED
    BY <2>4, <2>5, <2>6 DEF stack
<1>9. CASE ScanCall
  <2>1. xFuncHandlers[scan.at].pxHandler \in Handler \cup {NULL}
    BY <1>9 DEF ScanCall, Entry
  <2> QED
    BY <1>9, <2>1, HandlerAssumption DEF ScanCall, Answer, Idle, Status, stack
<1>10. CASE UNCHANGED vars
  BY <1>10 DEF vars
<1> QED
  BY <1>1, <1>2, <1>3, <1>4, <1>5, <1>6, <1>7, <1>8, <1>9, <1>10 DEF Next

(* Every variable has its type in every state, however the application     *)
(* uses eMBRegisterCB (mb.c:224) and eMBPoll (mb.c:330).                   *)
THEOREM TypeCorrect == Spec => []TypeOK
<1>1. Init => TypeOK /\ HitInTable
  BY InitNull DEF NullInv
<1>2. TypeOK /\ HitInTable /\ [Next]_vars => (TypeOK /\ HitInTable)'
  BY TypeStep
<1> QED
  BY <1>1, <1>2, PTL DEF Spec

-----------------------------------------------------------------------------
(* Entries stay whole. *)
LEMMA WholeStep ==
  ASSUME TypeOK, Whole, [Next]_vars
  PROVE  Whole'
<1> USE DEF Whole
<1>1. ASSUME NEW c \in Code, eMBRemoveCB(c)
      PROVE  Whole'
  <2>1. xFuncHandlers' = xFuncHandlers \/ xFuncHandlers' = [xFuncHandlers EXCEPT ![Min(Having(c))] = Free]
    BY <1>1 DEF eMBRemoveCB
  <2> QED
    BY <2>1 DEF TypeOK, Free, Entry
<1>2. ASSUME NEW c \in Code, NEW h \in Handler, eMBRegisterCB(c, h)
      PROVE  Whole'
  <2>1. \/ xFuncHandlers' = xFuncHandlers
        \/ xFuncHandlers' = [xFuncHandlers EXCEPT ![Min(Places(h))] =
                               [ucFunctionCode |-> c, pxHandler |-> h]]
    BY <1>2 DEF eMBRegisterCB
  <2>2. c # 0 /\ h # NULL
    BY HandlerAssumption
  <2> QED
    BY <2>1, <2>2 DEF TypeOK, Entry
<1>3. CASE UNCHANGED xFuncHandlers
  BY <1>3
<1>4. \/ UNCHANGED xFuncHandlers
      \/ \E c \in Code : eMBRemoveCB(c) \/ \E h \in Handler : eMBRegisterCB(c, h)
  BY DEF Next, vars, stack, eMBInit, eMBInitRefused, eMBEnable, eMBDisable, eMBClose,
         eMBRegisterRefused, eMBPollDisabled, eMBPollExecute, ScanEnd, ScanEntry, ScanCall
<1> QED
  BY <1>1, <1>2, <1>3, <1>4

(* The pointer that eMBPoll is about to call stays, unless a removal may   *)
(* come between its reading of the code and its reading of the handler.    *)
LEMMA NullStep ==
  ASSUME NullInv, [Next]_vars, "concurrentRemove" \notin Uses
  PROVE  NeverCallsNull'
<1> USE DEF NullInv
<1>0. TypeOK' /\ HitInTable' /\ Whole'
  BY TypeStep, WholeStep
<1>1. ASSUME NEW addr \in Address, NEW result \in {"MB_ENOERR", "MB_EINVAL", "MB_EPORTERR"},
             eMBInit(addr, result)
      PROVE  NeverCallsNull'
  BY <1>1 DEF eMBInit, NeverCallsNull
<1>2. CASE eMBInitRefused \/ eMBClose \/ eMBRegisterRefused \/ eMBPollDisabled
  BY <1>2 DEF eMBInitRefused, eMBClose, eMBRegisterRefused, eMBPollDisabled, NeverCallsNull, stack
<1>3. CASE eMBEnable \/ eMBDisable
  BY <1>3 DEF eMBEnable, eMBDisable, NeverCallsNull
<1>4. ASSUME NEW c \in Code, eMBRemoveCB(c)
      PROVE  NeverCallsNull'
  <2>1. ~scan.busy /\ scan' = scan /\ UNCHANGED stack
    BY <1>4 DEF eMBRemoveCB
  <2> QED
    BY <2>1 DEF NeverCallsNull, stack
<1>5. ASSUME NEW c \in Code, NEW h \in Handler, eMBRegisterCB(c, h)
      PROVE  NeverCallsNull'
  <2>1. \/ xFuncHandlers' = xFuncHandlers
        \/ xFuncHandlers' = [xFuncHandlers EXCEPT ![Min(Places(h))] =
                               [ucFunctionCode |-> c, pxHandler |-> h]]
    BY <1>5 DEF eMBRegisterCB
  <2>2. \A i \in Slot : xFuncHandlers[i].pxHandler # NULL => xFuncHandlers'[i].pxHandler # NULL
    BY <2>1, HandlerAssumption DEF TypeOK
  <2>3. scan' = scan /\ UNCHANGED stack
    BY <1>5 DEF eMBRegisterCB
  <2> QED
    BY <2>2, <2>3 DEF NeverCallsNull, HitInTable, stack
<1>6. ASSUME NEW c \in Code \cup {0}, eMBPollExecute(c)
      PROVE  NeverCallsNull'
  BY <1>6 DEF eMBPollExecute, NeverCallsNull, stack
<1>7. CASE ScanEnd \/ ScanCall
  BY <1>7 DEF ScanEnd, ScanCall, NeverCallsNull, Idle, stack
<1>8. CASE ScanEntry
  <2>1. scan.at \in Slot /\ xFuncHandlers[scan.at].ucFunctionCode # 0
    BY <1>8 DEF ScanEntry, ScanAtEnd
  <2>2. xFuncHandlers[scan.at].pxHandler # NULL
    BY <2>1 DEF Whole
  <2>3. scan' = [scan EXCEPT !.hit = TRUE] \/ scan' = [scan EXCEPT !.at = @ + 1]
    BY <1>8 DEF ScanEntry
  <2>4. scan'.hit => scan'.at = scan.at
    BY <1>8, <2>3 DEF ScanEntry, TypeOK
  <2>5. xFuncHandlers' = xFuncHandlers /\ UNCHANGED stack
    BY <1>8 DEF ScanEntry
  <2> QED
    BY <2>2, <2>4, <2>5 DEF NeverCallsNull, stack
<1>9. CASE UNCHANGED vars
  BY <1>9 DEF vars, NeverCallsNull
<1> QED
  BY <1>1, <1>2, <1>3, <1>4, <1>5, <1>6, <1>7, <1>8, <1>9 DEF Next

(* The stack never calls through a null pointer (mb.c:382), provided that  *)
(* no task removes a handler while another one polls.                      *)
THEOREM NoNullCall ==
  ASSUME "concurrentRemove" \notin Uses
  PROVE  Spec => []NeverCallsNull
<1>1. Init => NullInv
  BY InitNull
<1>2. NullInv /\ [Next]_vars => NullInv'
  BY TypeStep, WholeStep, NullStep DEF NullInv
<1>3. NullInv => NeverCallsNull
  BY DEF NullInv
<1> QED
  BY <1>1, <1>2, <1>3, PTL DEF Spec

-----------------------------------------------------------------------------
(* No code stands in two entries, and the entries and the registrations    *)
(* say the same; where the free entries are does not matter.               *)
(* ServedUnlessHole alone is not inductive: a second entry with the same   *)
(* code would come to light when the first one is removed.                 *)
Distinct == \A i, j \in Slot : i # j /\ xFuncHandlers[i].ucFunctionCode # 0 =>
              xFuncHandlers[i].ucFunctionCode # xFuncHandlers[j].ucFunctionCode
Faithful == /\ \A i \in Slot : xFuncHandlers[i].ucFunctionCode # 0 =>
                 bound[xFuncHandlers[i].ucFunctionCode] = xFuncHandlers[i].pxHandler
            /\ \A c \in Code : bound[c] # NULL => \E i \in Slot : xFuncHandlers[i].ucFunctionCode = c

(* A search has left behind only entries in use, of other codes. *)
Passed == scan.busy =>
  /\ \A i \in Slot : i < scan.at => xFuncHandlers[i].ucFunctionCode \notin {0, scan.code}
  /\ scan.hit => xFuncHandlers[scan.at].ucFunctionCode = scan.code /\ scan.code # 0

TableInv == TypeOK /\ Whole /\ HitInTable /\ Distinct /\ Faithful /\ Passed

LEMMA InitTable == Init => TableInv
<1> SUFFICES ASSUME Init PROVE TableInv
  OBVIOUS
<1> DEFINE B == 0..(Builtin - 1)
<1>1. TypeOK /\ Whole /\ HitInTable
  BY InitNull DEF NullInv
<1>2. B \subseteq Slot /\ \A i \in Slot : i \in B <=> i < Builtin
  BY BuiltinAssumption, HandlerAssumption DEF Slot
<1>3. \A i \in B : /\ xFuncHandlers[i].ucFunctionCode = BuiltinCode[i]
                  /\ xFuncHandlers[i].pxHandler = BuiltinHandler[i]
  BY <1>2 DEF Init
<1>4. \A i \in Slot \ B : xFuncHandlers[i] = Free
  BY <1>2 DEF Init
<1>5. \A i \in B : BuiltinCode[i] \in Code /\ BuiltinHandler[i] \in Handler
  BY BuiltinAssumption
<1>6. Passed
  BY DEF Init, Idle, Passed
<1>7. Distinct
  <2> SUFFICES ASSUME NEW i \in Slot, NEW j \in Slot, i # j, xFuncHandlers[i].ucFunctionCode # 0
               PROVE  xFuncHandlers[i].ucFunctionCode # xFuncHandlers[j].ucFunctionCode
    BY DEF Distinct
  <2>1. i \in B
    BY <1>4 DEF Free
  <2>2. CASE j \in B
    BY <1>3, <2>1, <2>2, BuiltinAssumption
  <2>3. CASE j \notin B
    BY <1>4, <2>3 DEF Free
  <2> QED
    BY <2>2, <2>3
<1>8. ASSUME NEW i \in B PROVE bound[BuiltinCode[i]] = BuiltinHandler[i]
  <2>1. (CHOOSE k \in B : BuiltinCode[k] = BuiltinCode[i]) = i
    BY BuiltinAssumption
  <2>2. bound[BuiltinCode[i]] = BuiltinHandler[CHOOSE k \in B : BuiltinCode[k] = BuiltinCode[i]]
    BY <1>5 DEF Init
  <2> QED
    BY <2>1, <2>2
<1>9. Faithful
  <2>1. ASSUME NEW i \in Slot, xFuncHandlers[i].ucFunctionCode # 0
        PROVE  bound[xFuncHandlers[i].ucFunctionCode] = xFuncHandlers[i].pxHandler
    <3>1. i \in B
      BY <1>4, <2>1 DEF Free
    <3> QED
      BY <1>3, <1>8, <3>1
  <2>2. ASSUME NEW c \in Code, bound[c] # NULL
        PROVE  \E i \in Slot : xFuncHandlers[i].ucFunctionCode = c
    <3>1. \E i \in B : BuiltinCode[i] = c
      BY <2>2 DEF Init
    <3> QED
      BY <1>2, <1>3, <3>1
  <2> QED
    BY <2>1, <2>2 DEF Faithful
<1> QED
  BY <1>1, <1>6, <1>7, <1>9 DEF TableInv

(* A new handler for a new code takes the first free entry. *)
LEMMA RegisterKeepsTable ==
  ASSUME TableInv, Uses \cap {"concurrentRemove", "rebind", "share"} = {},
         NEW c \in Code, NEW h \in Handler, eMBRegisterCB(c, h), Places(h) # {}
  PROVE  Distinct' /\ Faithful' /\ Passed'
<1> DEFINE k == Min(Places(h))
<1>1. k \in Slot /\ k \in Places(h)
  BY RegisterSlot DEF TableInv
<1>2. bound[c] = NULL /\ (\A d \in Code : bound[d] # h)
  BY HandlerAssumption DEF eMBRegisterCB, Allowed
<1>3. xFuncHandlers' = [xFuncHandlers EXCEPT ![k] = [ucFunctionCode |-> c, pxHandler |-> h]]
  BY DEF eMBRegisterCB
<1>4. bound' = [bound EXCEPT ![c] = h] /\ scan' = scan
  BY DEF eMBRegisterCB
<1> HIDE DEF k
<1>5. \A i \in Slot : xFuncHandlers[i] \in Entry
  BY DEF TableInv, TypeOK
<1>6. \A i \in Slot : xFuncHandlers[i].pxHandler # h
  BY <1>2, <1>5, HandlerAssumption DEF TableInv, Whole, Faithful, Entry
<1>7. \A i \in Slot : i \in Places(h) <=> xFuncHandlers[i].pxHandler = NULL
  BY <1>6 DEF Places
<1>8. xFuncHandlers[k].pxHandler = NULL /\ xFuncHandlers[k].ucFunctionCode = 0
  BY <1>1, <1>7 DEF TableInv, Whole
<1>9. /\ xFuncHandlers'[k].ucFunctionCode = c /\ xFuncHandlers'[k].pxHandler = h
      /\ \A i \in Slot \ {k} : xFuncHandlers'[i] = xFuncHandlers[i]
  BY <1>1, <1>3 DEF TableInv, TypeOK
<1>10. c # 0 /\ h # NULL
  BY HandlerAssumption
<1>11. \A i \in Slot : xFuncHandlers[i].ucFunctionCode # c
  BY <1>2, <1>10 DEF TableInv, Whole, Faithful
<1>12. bound'[c] = h /\ \A d \in Code \ {c} : bound'[d] = bound[d]
  BY <1>4 DEF TableInv, TypeOK
<1>13. Distinct'
  BY <1>9, <1>11 DEF TableInv, Distinct
<1>14. Passed'
  <2> SUFFICES ASSUME scan.busy PROVE Passed'
    BY <1>4 DEF Passed
  <2>1. \A i \in Slot : i < scan.at => i # k
    BY <1>8 DEF TableInv, Passed
  <2>2. scan.hit => scan.at \in Slot /\ scan.at # k
    BY <1>8 DEF TableInv, Passed, HitInTable
  <2> QED
    BY <1>4, <1>9, <2>1, <2>2 DEF TableInv, Passed
<1>15. Faithful'
  <2>1. ASSUME NEW i \in Slot, xFuncHandlers'[i].ucFunctionCode # 0
        PROVE  bound'[xFuncHandlers'[i].ucFunctionCode] = xFuncHandlers'[i].pxHandler
    <3>1. CASE i = k
      BY <1>9, <1>12, <3>1
    <3>2. CASE i # k
      <4>1. xFuncHandlers[i].ucFunctionCode \in Code \ {c}
        BY <1>5, <1>9, <1>11, <2>1, <3>2 DEF Entry
      <4> QED
        BY <1>9, <1>12, <2>1, <3>2, <4>1 DEF TableInv, Faithful
    <3> QED
      BY <3>1, <3>2
  <2>2. ASSUME NEW d \in Code, bound'[d] # NULL
        PROVE  \E i \in Slot : xFuncHandlers'[i].ucFunctionCode = d
    <3>1. CASE d = c
      BY <1>1, <1>9, <3>1
    <3>2. CASE d # c
      <4>1. PICK i \in Slot : xFuncHandlers[i].ucFunctionCode = d
        BY <1>12, <2>2, <3>2 DEF TableInv, Faithful
      <4>2. i # k
        BY <1>8, <4>1, HandlerAssumption
      <4> QED
        BY <1>9, <4>1, <4>2
    <3> QED
      BY <3>1, <3>2
  <2> QED
    BY <2>1, <2>2 DEF Faithful
<1> QED
  BY <1>13, <1>14, <1>15

(* Taking a code out frees the one entry it has. *)
LEMMA RemoveKeepsTable ==
  ASSUME TableInv, "concurrentRemove" \notin Uses, NEW c \in Code, eMBRemoveCB(c)
  PROVE  Distinct' /\ Faithful' /\ Passed'
<1>1. ~scan.busy /\ scan' = scan
  BY DEF eMBRemoveCB
<1>2. bound' = [bound EXCEPT ![c] = NULL]
  BY DEF eMBRemoveCB
<1>3. \A i \in Slot : IF xFuncHandlers[i].ucFunctionCode = c
                     THEN xFuncHandlers'[i] = Free
                     ELSE xFuncHandlers'[i] = xFuncHandlers[i]
  <2>1. CASE Having(c) = {}
    BY <2>1 DEF eMBRemoveCB, Having
  <2>2. CASE Having(c) # {}
    <3> DEFINE k == Min(Having(c))
    <3>1. k \in Slot /\ xFuncHandlers[k].ucFunctionCode = c
      BY <2>2, RemoveSlot DEF TableInv, Having
    <3>2. xFuncHandlers' = [xFuncHandlers EXCEPT ![k] = Free]
      BY <2>2 DEF eMBRemoveCB
    <3> HIDE DEF k
    <3>3. \A i \in Slot : xFuncHandlers[i].ucFunctionCode = c => i = k
      BY <3>1, HandlerAssumption DEF TableInv, Distinct
    <3> QED
      BY <3>1, <3>2, <3>3 DEF TableInv, TypeOK
  <2> QED
    BY <2>1, <2>2
<1>4. Free.ucFunctionCode = 0
  BY DEF Free
<1>5. \A i \in Slot : xFuncHandlers'[i].ucFunctionCode # 0 =>
        /\ xFuncHandlers'[i] = xFuncHandlers[i]
        /\ xFuncHandlers[i].ucFunctionCode \in Code \ {c}
  BY <1>3, <1>4 DEF TableInv, TypeOK, Entry
<1>6. \A d \in Code \ {c} : bound'[d] = bound[d]
  BY <1>2 DEF TableInv, TypeOK
<1>7. bound'[c] = NULL
  BY <1>2 DEF TableInv, TypeOK
<1>8. Distinct'
  BY <1>5 DEF TableInv, Distinct
<1>9. Faithful'
  <2>1. \A i \in Slot : xFuncHandlers'[i].ucFunctionCode # 0 =>
          bound'[xFuncHandlers'[i].ucFunctionCode] = xFuncHandlers'[i].pxHandler
    BY <1>5, <1>6 DEF TableInv, Faithful
  <2>2. ASSUME NEW d \in Code, bound'[d] # NULL
        PROVE  \E i \in Slot : xFuncHandlers'[i].ucFunctionCode = d
    <3>1. d # c /\ bound[d] # NULL
      BY <1>6, <1>7, <2>2
    <3>2. PICK i \in Slot : xFuncHandlers[i].ucFunctionCode = d
      BY <3>1 DEF TableInv, Faithful
    <3> QED
      BY <1>3, <3>1, <3>2
  <2> QED
    BY <2>1, <2>2 DEF Faithful
<1> QED
  BY <1>1, <1>8, <1>9 DEF Passed

(* The steps of a search leave behind what Passed says. *)
LEMMA ScanKeepsPassed ==
  ASSUME TableInv, [Next]_vars, UNCHANGED <<xFuncHandlers, bound>>
  PROVE  Passed'
<1>1. CASE UNCHANGED scan
  BY <1>1 DEF TableInv, Passed
<1>2. ASSUME NEW c \in Code \cup {0}, eMBPollExecute(c) PROVE Passed'
  BY <1>2, HandlerAssumption DEF eMBPollExecute, Passed, Slot
<1>3. CASE ScanEnd \/ ScanCall
  BY <1>3 DEF ScanEnd, ScanCall, Idle, Passed
<1>4. CASE ScanEntry
  <2>1. scan.at \in Slot /\ xFuncHandlers[scan.at].ucFunctionCode # 0 /\ scan.busy /\ ~scan.hit
    BY <1>4 DEF ScanEntry, ScanAtEnd
  <2>2. CASE xFuncHandlers[scan.at].ucFunctionCode = scan.code
    BY <1>4, <2>1, <2>2 DEF ScanEntry, TableInv, TypeOK, Passed
  <2>3. CASE xFuncHandlers[scan.at].ucFunctionCode # scan.code
    <3>1. scan' = [scan EXCEPT !.at = @ + 1]
      BY <1>4, <2>3 DEF ScanEntry
    <3>2. scan'.at = scan.at + 1 /\ scan'.code = scan.code /\ ~scan'.hit
      BY <2>1, <3>1 DEF TableInv, TypeOK
    <3>3. \A i \in Slot : i < scan.at + 1 => i < scan.at \/ i = scan.at
      BY <2>1, HandlerAssumption DEF Slot
    <3> QED
      BY <2>1, <2>3, <3>2, <3>3 DEF TableInv, Passed
  <2> QED
    BY <2>2, <2>3
<1>5. \/ UNCHANGED scan \/ ScanEnd \/ ScanCall \/ ScanEntry
      \/ \E c \in Code \cup {0} : eMBPollExecute(c)
  BY DEF Next, vars, stack, eMBInit, eMBInitRefused, eMBEnable, eMBDisable, eMBClose,
         eMBRegisterRefused, eMBPollDisabled, eMBRegisterCB, eMBRemoveCB
<1> QED
  BY <1>1, <1>2, <1>3, <1>4, <1>5

LEMMA TableStep ==
  ASSUME TableInv, [Next]_vars, Uses \cap {"concurrentRemove", "rebind", "share"} = {}
  PROVE  TableInv'
<1>1. TypeOK' /\ HitInTable' /\ Whole'
  BY TypeStep, WholeStep DEF TableInv
<1>2. ASSUME NEW c \in Code, NEW h \in Handler, eMBRegisterCB(c, h)
      PROVE  (Distinct /\ Faithful /\ Passed)' \/ UNCHANGED <<xFuncHandlers, bound>>
  <2>1. CASE Places(h) # {}
    BY <1>2, <2>1, RegisterKeepsTable
  <2>2. CASE Places(h) = {}
    BY <1>2, <2>2 DEF eMBRegisterCB
  <2> QED
    BY <2>1, <2>2
<1>3. ASSUME NEW c \in Code, eMBRemoveCB(c)
      PROVE  Distinct' /\ Faithful' /\ Passed'
  <2>1. "concurrentRemove" \notin Uses
    OBVIOUS
  <2> QED
    BY <1>3, <2>1, RemoveKeepsTable
<1>4. ASSUME UNCHANGED <<xFuncHandlers, bound>>
      PROVE  Distinct' /\ Faithful' /\ Passed'
  <2>1. Passed'
    BY <1>4, ScanKeepsPassed
  <2> QED
    BY <1>4, <2>1 DEF TableInv, Distinct, Faithful
<1>5. \/ UNCHANGED <<xFuncHandlers, bound>>
      \/ \E c \in Code, h \in Handler : eMBRegisterCB(c, h)
      \/ \E c \in Code : eMBRemoveCB(c)
  BY DEF Next, vars, stack, eMBInit, eMBInitRefused, eMBEnable, eMBDisable, eMBClose,
         eMBRegisterRefused, eMBPollDisabled, eMBPollExecute, ScanEnd, ScanEntry, ScanCall
<1> QED
  BY <1>1, <1>2, <1>3, <1>4, <1>5 DEF TableInv

(* In such a table the search finds what was registered, or a hole. *)
LEMMA TableServes == TableInv => ServedUnlessHole
<1> SUFFICES ASSUME TableInv, NEW c \in Code
             PROVE  Lookup(c) = bound[c] \/ (Hole(c) /\ Lookup(c) = NULL)
  BY DEF ServedUnlessHole
<1> DEFINE before == {i \in Slot : \A j \in 0..i : xFuncHandlers[j].ucFunctionCode # 0}
           found  == Having(c) \cap before
<1>1. CASE found = {}
  <2>1. Lookup(c) = NULL
    BY <1>1 DEF Lookup
  <2>2. ASSUME bound[c] # NULL PROVE Hole(c)
    <3>1. PICK i \in Slot : xFuncHandlers[i].ucFunctionCode = c
      BY <2>2 DEF TableInv, Faithful
    <3>2. i \in Having(c) /\ i \notin before
      BY <1>1, <3>1 DEF Having
    <3>3. PICK j \in 0..i : xFuncHandlers[j].ucFunctionCode = 0
      BY <3>2
    <3>4. j \in Slot /\ j # i /\ j < i
      BY <3>1, <3>3, HandlerAssumption DEF Slot
    <3>5. xFuncHandlers[j].pxHandler = NULL
      BY <3>3, <3>4 DEF TableInv, Whole
    <3> QED
      BY <3>2, <3>4, <3>5 DEF Hole
  <2> QED
    BY <2>1, <2>2
<1>2. CASE found # {}
  <2>1. Min(found) \in found
    BY <1>2, FirstSlot
  <2>2. Lookup(c) = xFuncHandlers[Min(found)].pxHandler
    BY <1>2 DEF Lookup
  <2>3. Min(found) \in Slot /\ xFuncHandlers[Min(found)].ucFunctionCode = c
    BY <2>1 DEF Having
  <2> QED
    BY <2>2, <2>3, HandlerAssumption DEF TableInv, Faithful
<1> QED
  BY <1>1, <1>2

(* While every code and every handler is registered at most once and none  *)
(* is removed under a search, eMBPoll (mb.c:373) serves each request with  *)
(* the handler that eMBRegisterCB was called with for its function code,   *)
(* unless a removal left a hole before it.                                 *)
THEOREM RequestsServed ==
  ASSUME Uses \cap {"concurrentRemove", "rebind", "share"} = {}
  PROVE  Spec => []ServedUnlessHole
<1>1. TableInv /\ [Next]_vars => TableInv'
  BY TableStep
<1> QED
  BY <1>1, InitTable, TableServes, PTL DEF Spec

(* The answer of a search is the one of the registrations at its end, with *)
(* handlers registered while it goes on.                                   *)
LEMMA AnswerOfSearch ==
  ASSUME TableInv, [Next]_vars, scan.busy, ~scan'.busy
  PROVE  \/ scan.code = 0 /\ last'.by = NULL
         \/ scan.code # 0 /\ last'.by = bound[scan.code]
         \/ scan.code # 0 /\ last'.by = NULL /\ Hole(scan.code)
<1>0. scan.code \in Code \cup {0} /\ scan.at \in 0..MB_FUNC_HANDLERS_MAX
  BY DEF TableInv, TypeOK
<1>1. CASE ScanCall
  <2>1. last'.by = xFuncHandlers[scan.at].pxHandler /\ scan.at \in Slot
    BY <1>1 DEF ScanCall, Answer, TableInv, HitInTable
  <2>2. xFuncHandlers[scan.at].ucFunctionCode = scan.code /\ scan.code # 0
    BY <1>1 DEF ScanCall, TableInv, Passed
  <2> QED
    BY <2>1, <2>2 DEF TableInv, Faithful
<1>2. CASE ScanEnd
  <2>1. last'.by = NULL
    BY <1>2 DEF ScanEnd, Answer
  <2>2. ASSUME scan.code # 0, bound[scan.code] # NULL PROVE Hole(scan.code)
    <3>1. PICK i \in Slot : xFuncHandlers[i].ucFunctionCode = scan.code
      BY <1>0, <2>2 DEF TableInv, Faithful
    <3>2. ~(i < scan.at) /\ scan.at <= i /\ scan.at \in Slot
      BY <1>0, <3>1, HandlerAssumption DEF TableInv, Passed, Slot
    <3>3. xFuncHandlers[scan.at].ucFunctionCode = 0
      BY <1>2, <3>2 DEF ScanEnd, ScanAtEnd
    <3>4. scan.at < i
      BY <2>2, <3>1, <3>2, <3>3, HandlerAssumption DEF Slot
    <3>5. xFuncHandlers[scan.at].pxHandler = NULL
      BY <3>2, <3>3 DEF TableInv, Whole
    <3> QED
      BY <3>1, <3>2, <3>4, <3>5 DEF Hole, Having
  <2> QED
    BY <2>1, <2>2
<1>3. ScanCall \/ ScanEnd
  <2>1. ASSUME ScanEntry PROVE FALSE
    BY <2>1 DEF ScanEntry, TableInv, TypeOK
  <2>2. scan' # scan
    OBVIOUS
  <2> QED
    BY <2>1, <2>2 DEF Next, vars, stack, eMBInit, eMBInitRefused, eMBEnable, eMBDisable, eMBClose,
         eMBRegisterRefused, eMBPollDisabled, eMBPollExecute, eMBRegisterCB, eMBRemoveCB
<1> QED
  BY <1>1, <1>2, <1>3

(* Every search ends with the registered handler, although registrations   *)
(* from another task come between its steps (mb.c:373-386).                *)
THEOREM SearchAnswers ==
  ASSUME Uses \cap {"concurrentRemove", "rebind", "share"} = {}
  PROVE  Spec => AnsweredAsBound
<1>1. TableInv /\ [Next]_vars => TableInv'
  BY TableStep
<1>2. TableInv /\ [Next]_vars =>
        [scan.busy /\ ~scan'.busy =>
           \/ scan.code = 0 /\ last'.by = NULL
           \/ scan.code # 0 /\ last'.by = bound[scan.code]
           \/ scan.code # 0 /\ last'.by = NULL /\ Hole(scan.code)]_vars
  BY AnswerOfSearch
<1> QED
  BY <1>1, <1>2, InitTable, PTL DEF Spec, AnsweredAsBound

-----------------------------------------------------------------------------
(* The address of a stack that is not initialised again: a failing eMBInit *)
(* leaves its address, and the state says that none succeeded.             *)
AddressInv == /\ TypeOK /\ HitInTable
              /\ eMBState # "STATE_NOT_INITIALIZED" => ucMBAddress = initAddress

(* An enabled stack has the address of the eMBInit that succeeded          *)
(* (mb.c:131-190), if eMBInit is not called again after that.              *)
THEOREM AddressKept ==
  ASSUME "reinit" \notin Uses
  PROVE  Spec => []AddressAsInitialised
<1>1. Init => AddressInv
  BY InitNull DEF NullInv, AddressInv, Init
<1>2. AddressInv /\ [Next]_vars => AddressInv'
  <2> SUFFICES ASSUME AddressInv, [Next]_vars
               PROVE  eMBState' # "STATE_NOT_INITIALIZED" => ucMBAddress' = initAddress'
    BY TypeStep DEF AddressInv
  <2>1. ASSUME NEW addr \in Address, NEW result \in {"MB_ENOERR", "MB_EINVAL", "MB_EPORTERR"},
               eMBInit(addr, result)
        PROVE  eMBState' # "STATE_NOT_INITIALIZED" => ucMBAddress' = initAddress'
    BY <2>1 DEF eMBInit, MayInit
  <2>2. CASE eMBEnable \/ eMBDisable
    BY <2>2 DEF eMBEnable, eMBDisable, AddressInv
  <2>3. CASE UNCHANGED stack
    BY <2>3 DEF stack, AddressInv
  <2>4. \/ UNCHANGED stack \/ eMBEnable \/ eMBDisable
        \/ \E addr \in Address, result \in {"MB_ENOERR", "MB_EINVAL", "MB_EPORTERR"} : eMBInit(addr, result)
    BY DEF Next, vars, stack, eMBInitRefused, eMBClose, eMBRegisterRefused, eMBPollDisabled,
           eMBPollExecute, eMBRegisterCB, eMBRemoveCB, ScanEnd, ScanEntry, ScanCall
  <2> QED
    BY <2>1, <2>2, <2>3, <2>4
<1>3. AddressInv => AddressAsInitialised
  BY DEF AddressInv, AddressAsInitialised
<1> QED
  BY <1>1, <1>2, <1>3, PTL DEF Spec
=============================================================================
