--------------------------- MODULE ModbusRegisters ---------------------------
(***************************************************************************)
(* The Modbus function handlers (functions/mbfunc*.c, mbutils.c) on the    *)
(* register map of modbus.c: what a request PDU does to the registers and  *)
(* what the reply PDU carries.  One action per function code, each the     *)
(* whole handler with its callback.                                        *)
(*                                                                         *)
(* The widths are parameters: a byte has BITS_UCHAR bits, a USHORT two     *)
(* bytes, and addresses and counts wrap as they do in the code.            *)
(***************************************************************************)
EXTENDS Integers, Sequences

CONSTANTS
  BITS_UCHAR,          \* 8
  NREGS,               \* REG_HOLDING_NREGS and REG_INPUT_NREGS, 8
  COILS_SIZE,          \* REG_COILS_SIZE and REG_DISCRETE_SIZE, 16
  READ_REGCNT_MAX,     \* 0x7D
  WRITE_REGCNT_MAX,    \* 0x78
  READ_COILCNT_MAX,    \* 0x7D0
  WRITE_COILCNT_MAX,   \* 0x7B0
  SLAVEID_BUF,         \* MB_FUNC_OTHER_REP_SLAVEID_BUF, 32
  usRegInputBuf,       \* the input registers
  ucRegDiscreteBuf,    \* the discrete inputs, and the byte behind them
  HoldingInit,         \* the initial holding registers
  CoilsInit,           \* the initial coils, and the byte behind them
  Masters,             \* the masters that may be on the line
  Requests,            \* the request PDUs each of them sends
  AdditionalLens       \* the lengths eMBSetSlaveID is called with then

(* Powers of two as far as the bits of a word need them: Pow2[n] is 2^n.   *)
Pow2[n \in 0..(2 * BITS_UCHAR)] == IF n = 0 THEN 1 ELSE 2 * Pow2[n - 1]

UCHAR_MOD  == Pow2[BITS_UCHAR]
USHORT_MOD == UCHAR_MOD * UCHAR_MOD
UCHAR      == 0..(UCHAR_MOD - 1)
USHORT     == 0..(USHORT_MOD - 1)

(* A request: its length in bytes and its fields where the handlers look   *)
(* for them.  cnt stands where single writes have their value.  data is    *)
(* what the buffer holds behind the byte count; only the bytes up to len   *)
(* were received, the others are left over from earlier frames.            *)
Function == {1, 2, 3, 4, 5, 6, 15, 16, 17, 23}
Request  == [fn : Function, len : Nat, addr : USHORT, cnt : USHORT, waddr : USHORT,
             wcnt : USHORT, bytes : UCHAR, data : Seq(UCHAR)]

Reg      == 0..(NREGS - 1)
Bit      == 0..(COILS_SIZE + BITS_UCHAR - 1)   \* one byte more than the buffer

ASSUME WidthAssumption == BITS_UCHAR \in Nat \ {0} /\ COILS_SIZE = 2 * BITS_UCHAR
ASSUME SizeAssumption ==
  /\ NREGS \in Nat \ {0} /\ NREGS < UCHAR_MOD /\ COILS_SIZE < USHORT_MOD \div 2
  /\ READ_REGCNT_MAX \in Nat /\ WRITE_REGCNT_MAX \in Nat
  /\ READ_COILCNT_MAX \in Nat /\ WRITE_COILCNT_MAX \in Nat /\ SLAVEID_BUF \in Nat \ {0}
ASSUME ContentsAssumption ==
  /\ usRegInputBuf \in [Reg -> USHORT] /\ HoldingInit \in [Reg -> USHORT]
  /\ ucRegDiscreteBuf \in [Bit -> BOOLEAN] /\ CoilsInit \in [Bit -> BOOLEAN]

(* ucRTUBuf has room behind the header for the longest write a handler     *)
(* accepts, whatever the length of the request.                            *)
InBuffer(q) ==
  /\ q.fn = 15 => WRITE_COILCNT_MAX <= BITS_UCHAR * Len(q.data)
  /\ q.fn = 16 => 2 * WRITE_REGCNT_MAX <= Len(q.data)
  /\ q.fn = 23 => 2 * (WRITE_REGCNT_MAX + 1) <= Len(q.data)
ASSUME RequestAssumption ==
  \A m \in Masters :
    /\ Requests[m] \subseteq Request /\ AdditionalLens[m] \subseteq Nat
    /\ \A q \in Requests[m] : InBuffer(q)

VARIABLES
  master,            \* the one master of the line
  usRegHoldingBuf,   \* the holding registers
  ucRegCoilsBuf,     \* the coils, and the byte behind them
  usMBSlaveIDLen,    \* how much of the slave id is set
  reply              \* the last request and what was answered

vars == <<master, usRegHoldingBuf, ucRegCoilsBuf, usMBSlaveIDLen, reply>>

-----------------------------------------------------------------------------
(* Conversions *)

(* usRegAddress++ on a USHORT, and usAddress -= 1. *)
Incr(a) == (a + 1) % USHORT_MOD
Decr(a) == (a - 1) % USHORT_MOD

(* A register on the wire is two bytes, the high one first. *)
WordAt(bytes, i)  == bytes[2 * i - 1] * UCHAR_MOD + bytes[2 * i]
BytesOf(words, n) ==
  [i \in 1..(2 * n) |-> IF i % 2 = 1 THEN words[(i + 1) \div 2] \div UCHAR_MOD
                                     ELSE words[i \div 2] % UCHAR_MOD]

(* The number of bytes that n coils are packed in. *)
NBytes(n) == n \div BITS_UCHAR + (IF n % BITS_UCHAR # 0 THEN 1 ELSE 0)

Set(value, i) == (value \div Pow2[i]) % 2 = 1

(* The number that n bits of a buffer from an offset on stand for.         *)
Number(buf, off, n) ==
  LET low[i \in 0..n] ==
        IF i = 0 THEN 0 ELSE low[i - 1] + (IF buf[off + i - 1] THEN Pow2[i - 1] ELSE 0)
  IN  low[n]

(* Mutant of xMBUtilGetBits: the bits above the field are not masked away. *)
GetBitsUnmasked(buf, off, n) == Number(buf, off, BITS_UCHAR)

(* n bits from an offset on, within the word of two bytes that begins at   *)
(* the byte of the offset.                                                 *)
xMBUtilGetBits(buf, off, n) == Number(buf, off, n)

(* Mutant of xMBUtilSetBits: the field is not cleared first. *)
SetBitsNoClear(buf, off, n, value) ==
  [b \in Bit |-> buf[b] \/ (b \in off..(off + n - 1) /\ Set(value, b - off))]

(* The field is cleared and then the value or-ed over it: not only into    *)
(* the field, but up to the end of the word.                               *)
xMBUtilSetBits(buf, off, n, value) ==
  LET first == (off \div BITS_UCHAR) * BITS_UCHAR
      word  == first..(first + 2 * BITS_UCHAR - 1)
  IN  [b \in Bit |-> IF b \in word
                     THEN \/ buf[b] /\ b \notin off..(off + n - 1)
                          \/ b >= off /\ Set(value, b - off)
                     ELSE buf[b]]

-----------------------------------------------------------------------------
(* The callbacks of modbus.c: the range each accepts, and what it does *)

InputMapped(a, n)    == a + n <= NREGS
HoldingMapped(a, n)  == Decr(a) + n <= NREGS
CoilsMapped(a, n)    == a < USHORT_MOD \div 2 /\ a + n <= COILS_SIZE

eMBRegInputCB(a, n) == BytesOf([i \in 1..n |-> usRegInputBuf[a + i - 1]], n)

(* Mutant of HoldingRead: the address is taken as it comes. *)
HoldingReadUnshifted(regs, a, n) ==
  BytesOf([i \in 1..n |-> regs[(a + i - 1) % NREGS]], n)

HoldingRead(regs, a, n) == BytesOf([i \in 1..n |-> regs[Decr(a) + i - 1]], n)

(* Mutant of HoldingWrite: the first register gets every value. *)
HoldingWriteFirst(a, n, data) ==
  [usRegHoldingBuf EXCEPT ![Decr(a)] = WordAt(data, n)]

HoldingWrite(a, n, data) ==
  [r \in Reg |-> IF r - Decr(a) \in 0..(n - 1) THEN WordAt(data, r - Decr(a) + 1)
                                               ELSE usRegHoldingBuf[r]]

(* Bits from an offset on, one byte of the answer for each BITS_UCHAR. *)
PackedBits(buf, off, n) ==
  [k \in 1..NBytes(n) |->
     LET done == (k - 1) * BITS_UCHAR
     IN  xMBUtilGetBits(buf, off + done, IF n - done > BITS_UCHAR THEN BITS_UCHAR ELSE n - done)]

(* The write loop of eMBRegCoilsCB does not move the offset. *)
CoilsWrite(a, n, data) ==
  LET after[k \in 0..NBytes(n)] ==
        LET left == n - (k - 1) * BITS_UCHAR
        IN  IF k = 0 THEN ucRegCoilsBuf
            ELSE xMBUtilSetBits(after[k - 1], a, IF left > BITS_UCHAR THEN BITS_UCHAR ELSE left,
                                data[k])
  IN  after[NBytes(n)]

prveMBError2Exception(mapped) == IF mapped THEN "NONE" ELSE "ILLEGAL_DATA_ADDRESS"

-----------------------------------------------------------------------------
(* The reply.  eMBPoll turns an exception into a PDU of two bytes. *)

ReplyOf(q, ex, len, values) ==
  [q |-> q, ex |-> ex, len |-> IF ex = "NONE" THEN len ELSE 2,
   values |-> IF ex = "NONE" THEN values ELSE <<>>]

(* The order of the checks of every handler: the request itself, then      *)
(* whether the callback has such registers.                                *)
Exception(valid, mapped) ==
  IF valid THEN prveMBError2Exception(mapped) ELSE "ILLEGAL_DATA_VALUE"

(* Function code, byte count and n bytes. *)
ReadReply(q, valid, mapped, values) ==
  LET ex == Exception(valid, mapped)
  IN  IF ex = "NONE" THEN ReplyOf(q, ex, 2 + Len(values), values) ELSE ReplyOf(q, ex, 2, <<>>)

eMBFuncReadInputRegister(q) ==
  LET a == Incr(q.addr)
  IN  /\ q.fn = 4
      /\ reply' = ReadReply(q, q.len = 5 /\ q.cnt >= 1 /\ q.cnt < READ_REGCNT_MAX,
                            InputMapped(a, q.cnt), eMBRegInputCB(a, q.cnt))
      /\ UNCHANGED <<usRegHoldingBuf, ucRegCoilsBuf, usMBSlaveIDLen>>

(* The high byte of the count is overwritten by the low one. *)
eMBFuncReadHoldingRegister(q) ==
  LET a == Incr(q.addr)
      n == q.cnt % UCHAR_MOD
  IN  /\ q.fn = 3
      /\ reply' = ReadReply(q, q.len = 5 /\ n >= 1 /\ n <= READ_REGCNT_MAX,
                            HoldingMapped(a, n), HoldingRead(usRegHoldingBuf, a, n))
      /\ UNCHANGED <<usRegHoldingBuf, ucRegCoilsBuf, usMBSlaveIDLen>>

(* The response repeats the request. *)
eMBFuncWriteHoldingRegister(q) ==
  LET a  == Incr(q.addr)
      ex == Exception(q.len = 5, HoldingMapped(a, 1))
  IN  /\ q.fn = 6
      /\ usRegHoldingBuf' =
           IF ex = "NONE" THEN HoldingWrite(a, 1, <<q.cnt \div UCHAR_MOD, q.cnt % UCHAR_MOD>>)
                          ELSE usRegHoldingBuf
      /\ reply' = ReplyOf(q, ex, q.len, <<>>)
      /\ UNCHANGED <<ucRegCoilsBuf, usMBSlaveIDLen>>

eMBFuncWriteMultipleHoldingRegister(q) ==
  LET a  == Incr(q.addr)
      ex == Exception(/\ q.len >= 6 /\ q.cnt >= 1 /\ q.cnt <= WRITE_REGCNT_MAX
                      /\ q.bytes = (2 * q.cnt) % UCHAR_MOD,
                      HoldingMapped(a, q.cnt))
  IN  /\ q.fn = 16
      /\ usRegHoldingBuf' = IF ex = "NONE" THEN HoldingWrite(a, q.cnt, q.data) ELSE usRegHoldingBuf
      /\ reply' = ReplyOf(q, ex, 5, <<>>)
      /\ UNCHANGED <<ucRegCoilsBuf, usMBSlaveIDLen>>

(* The write comes first and stays when the read that follows is refused.  *)
(* A request that is too short is repeated as if it had been done.         *)
eMBFuncReadWriteMultipleHoldingRegister(q) ==
  LET a       == Incr(q.addr)
      w       == Incr(q.waddr)
      valid   == /\ q.cnt >= 1 /\ q.cnt <= READ_REGCNT_MAX
                 /\ q.wcnt >= 1 /\ q.wcnt <= WRITE_REGCNT_MAX + 1 /\ 2 * q.wcnt = q.bytes
      written == q.len >= 10 /\ valid /\ HoldingMapped(w, q.wcnt)
      regs    == IF written THEN HoldingWrite(w, q.wcnt, q.data) ELSE usRegHoldingBuf
  IN  /\ q.fn = 23
      /\ usRegHoldingBuf' = regs
      /\ reply' = IF q.len < 10 THEN ReplyOf(q, "NONE", q.len, <<>>)
                  ELSE ReadReply(q, valid, written /\ HoldingMapped(a, q.cnt),
                                 HoldingRead(regs, a, q.cnt))
      /\ UNCHANGED <<ucRegCoilsBuf, usMBSlaveIDLen>>

ReadBits(q, buf) ==
  LET a == Incr(q.addr)
  IN  /\ reply' = ReadReply(q, q.len = 5 /\ q.cnt >= 1 /\ q.cnt < READ_COILCNT_MAX,
                            CoilsMapped(a, q.cnt), PackedBits(buf, a, q.cnt))
      /\ UNCHANGED <<usRegHoldingBuf, ucRegCoilsBuf, usMBSlaveIDLen>>

eMBFuncReadCoils(q)          == q.fn = 1 /\ ReadBits(q, ucRegCoilsBuf)
eMBFuncReadDiscreteInputs(q) == q.fn = 2 /\ ReadBits(q, ucRegDiscreteBuf)

(* The value is 0xFF00 for on and 0x0000 for off. *)
CoilOn == (UCHAR_MOD - 1) * UCHAR_MOD

eMBFuncWriteCoil(q) ==
  LET a  == Incr(q.addr)
      ex == Exception(q.len = 5 /\ q.cnt \in {0, CoilOn}, CoilsMapped(a, 1))
  IN  /\ q.fn = 5
      /\ ucRegCoilsBuf' =
           IF ex = "NONE" THEN CoilsWrite(a, 1, <<IF q.cnt = CoilOn THEN 1 ELSE 0>>)
                          ELSE ucRegCoilsBuf
      /\ reply' = ReplyOf(q, ex, q.len, <<>>)
      /\ UNCHANGED <<usRegHoldingBuf, usMBSlaveIDLen>>

eMBFuncWriteMultipleCoils(q) ==
  LET a  == Incr(q.addr)
      ex == Exception(/\ q.len > 5 /\ q.cnt >= 1 /\ q.cnt <= WRITE_COILCNT_MAX
                      /\ q.bytes = NBytes(q.cnt) % UCHAR_MOD,
                      CoilsMapped(a, q.cnt))
  IN  /\ q.fn = 15
      /\ ucRegCoilsBuf' = IF ex = "NONE" THEN CoilsWrite(a, q.cnt, q.data) ELSE ucRegCoilsBuf
      /\ reply' = ReplyOf(q, ex, 5, <<>>)
      /\ UNCHANGED <<usRegHoldingBuf, usMBSlaveIDLen>>

eMBFuncReportSlaveID(q) ==
  /\ q.fn = 17
  /\ reply' = ReplyOf(q, "NONE", 1 + usMBSlaveIDLen, <<>>)
  /\ UNCHANGED <<usRegHoldingBuf, ucRegCoilsBuf, usMBSlaveIDLen>>

(* Mutant of eMBSetSlaveID: the two leading bytes are not counted. *)
SetSlaveIDUnchecked(n) ==
  /\ n < SLAVEID_BUF
  /\ usMBSlaveIDLen' = n + 2
  /\ UNCHANGED <<usRegHoldingBuf, ucRegCoilsBuf, reply>>

(* Called by the application: id, run indicator and n bytes more. *)
eMBSetSlaveID(n) ==
  /\ n + 2 < SLAVEID_BUF
  /\ usMBSlaveIDLen' = n + 2
  /\ UNCHANGED <<usRegHoldingBuf, ucRegCoilsBuf, reply>>

-----------------------------------------------------------------------------
NoReply == [q |-> [fn |-> 17, len |-> 1, addr |-> 0, cnt |-> 0, waddr |-> 0, wcnt |-> 0,
                   bytes |-> 0, data |-> <<>>],
            ex |-> "NONE", len |-> 1, values |-> <<>>]

Init ==
  /\ master \in Masters
  /\ usRegHoldingBuf = HoldingInit
  /\ ucRegCoilsBuf = CoilsInit
  /\ usMBSlaveIDLen = 0
  /\ reply = NoReply

(* The table of function handlers: eMBPoll calls the one of the request.   *)
Next ==
  /\ \/ \E q \in Requests[master] :
          \/ eMBFuncReadCoils(q) \/ eMBFuncReadDiscreteInputs(q)
          \/ eMBFuncReadHoldingRegister(q) \/ eMBFuncReadInputRegister(q)
          \/ eMBFuncWriteCoil(q) \/ eMBFuncWriteHoldingRegister(q)
          \/ eMBFuncWriteMultipleCoils(q) \/ eMBFuncWriteMultipleHoldingRegister(q)
          \/ eMBFuncReportSlaveID(q) \/ eMBFuncReadWriteMultipleHoldingRegister(q)
     \/ \E n \in AdditionalLens[master] : eMBSetSlaveID(n)
  /\ UNCHANGED master

Spec == Init /\ [][Next]_vars

-----------------------------------------------------------------------------
(* Properties *)

(* Every variable has its type. *)
TypeOK ==
  /\ master \in Masters
  /\ usRegHoldingBuf \in [Reg -> USHORT]
  /\ ucRegCoilsBuf \in [Bit -> BOOLEAN]
  /\ usMBSlaveIDLen \in 0..(SLAVEID_BUF - 1)
  /\ reply.ex \in {"NONE", "ILLEGAL_DATA_VALUE", "ILLEGAL_DATA_ADDRESS"}
  /\ reply.len \in Nat /\ reply.values \in Seq(UCHAR)

(* What a request writes: to which register, which word. *)
Writes(q, r, word) ==
  \/ q.fn = 6 /\ r = q.addr /\ word = q.cnt
  \/ q.fn = 16 /\ r - q.addr \in 0..(q.cnt - 1) /\ word = WordAt(q.data, r - q.addr + 1)
  \/ q.fn = 23 /\ r - q.waddr \in 0..(q.wcnt - 1) /\ word = WordAt(q.data, r - q.waddr + 1)
WritesRegister(q, r) == \E word \in USHORT : Writes(q, r, word)

(* A request that was carried out.  Too short a function 23 is repeated to *)
(* the master without having been looked at (mbfuncholding.c:246).         *)
Done(answer) == answer.ex = "NONE" /\ (answer.q.fn = 23 => answer.q.len >= 10)

(* A holding register changes only when a request names it, to what the    *)
(* request says, and a request that was carried out left no register out.  *)
(* Refused requests change nothing, except that the write half of function *)
(* 23 stays when only its read half is refused (mbfuncholding.c:269).      *)
WritesExactly ==
  [][LET q == reply'.q
     IN  /\ \A r \in Reg : usRegHoldingBuf'[r] # usRegHoldingBuf[r] => Writes(q, r, usRegHoldingBuf'[r])
         /\ Done(reply') => \A r \in Reg : WritesRegister(q, r) => Writes(q, r, usRegHoldingBuf'[r])
         /\ reply'.ex # "NONE" /\ usRegHoldingBuf' # usRegHoldingBuf =>
              q.fn = 23 /\ reply'.ex = "ILLEGAL_DATA_ADDRESS" /\ q.addr + q.cnt > NREGS
    ]_vars

(* An answered read carries the registers it asked for, as many as it      *)
(* asked for, as they are now (after the write half for function 23).      *)
ReadsCurrent ==
  LET q == reply.q
  IN  Done(reply) /\ q.fn \in {3, 23} =>
        /\ Len(reply.values) = 2 * q.cnt /\ reply.len = 2 + 2 * q.cnt
        /\ \A i \in 1..q.cnt : WordAt(reply.values, i) = usRegHoldingBuf[q.addr + i - 1]

(* The bit a coil address stands for: the handler counts from one and the  *)
(* callback from zero (modbus.c:143).                                      *)
CoilBit(addr) == Incr(addr)
CoilValue(q, i) == IF q.fn = 5 THEN q.cnt # 0 ELSE Set(q.data[i \div BITS_UCHAR + 1], i % BITS_UCHAR)
CoilCount(q)    == IF q.fn = 5 THEN 1 ELSE q.cnt

(* An acknowledged coil write gives the coils it names the values it       *)
(* carries and leaves all others, and the memory behind them, alone.       *)
CoilsWrittenExactly ==
  [][reply'.q.fn \in {5, 15} =>
       LET q     == reply'.q
           first == CoilBit(q.addr)
           named == IF reply'.ex = "NONE" THEN first..(first + CoilCount(q) - 1) ELSE {}
       IN  \A b \in Bit : ucRegCoilsBuf'[b] = IF b \in named THEN CoilValue(q, b - first)
                                                             ELSE ucRegCoilsBuf[b]]_vars

(* An answered read of coils carries exactly the coils it names, the bits  *)
(* above them zero (mb.h:358), and no bit of the memory behind them.       *)
CoilsReadCurrent ==
  LET q == reply.q
  IN  reply.ex = "NONE" /\ q.fn = 1 =>
        /\ reply.len = 2 + Len(reply.values) /\ CoilBit(q.addr) + q.cnt <= COILS_SIZE
        /\ \A i \in 0..(Len(reply.values) * BITS_UCHAR - 1) :
             Set(reply.values[i \div BITS_UCHAR + 1], i % BITS_UCHAR) <=>
               i < q.cnt /\ ucRegCoilsBuf[CoilBit(q.addr) + i]

=============================================================================
