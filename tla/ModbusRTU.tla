------------------------------ MODULE ModbusRTU ------------------------------
(***************************************************************************)
(* The Modbus RTU slave: the link layer of rtu/mbrtu.c, the event, serial  *)
(* and timer ports under port/, and the protocol task of mb.c that polls   *)
(* them.  Three contexts share its variables, in rising priority:          *)
(*   - the task that calls eMBInit, eMBEnable and then eMBPoll for ever;   *)
(*   - TIM2_IRQHandler, pre-emption priority 3 (t3.5 has expired);         *)
(*   - USART2_IRQHandler, pre-emption priority 1 (byte in, byte out).      *)
(* A context runs only while no interrupt of a higher one is pending.      *)
(* What ENTER_CRITICAL_SECTION protects is one step; what it does not      *)
(* protect is cut wherever another context can be seen in between.         *)
(*                                                                         *)
(* A byte is a token: the value at one place of one request or response.   *)
(* Two copies of a request are the same bytes, and a response that echoes  *)
(* its request is the same bytes again.  A CRC is right exactly when the   *)
(* bytes are one undamaged frame.  The assert() lines of mbrtu.c expand to *)
(* nothing (port.h): they are properties here, never guards.               *)
(***************************************************************************)
EXTENDS Integers, Sequences

CONSTANTS
  BufMax,           \* MB_SER_PDU_SIZE_MAX, 256 in the code
  Requests,         \* the frames a master may send
  Traffic,          \* what each of them is: a record of FrameKind
  MaxFrames,        \* bound: how many frames the master sends
  MaxRestarts,      \* bound: how often the application calls eMBDisable
  Timing,           \* how late interrupts are served, and how patient the
                    \* master is: "free", "prompt" or "patient"
  StallsAfter,      \* at which values of serPc a priority 0 interrupt (ETH)
                    \* may hold USART2_IRQHandler for a character time
  StopWhileSending  \* may eMBDisable be called during a transmission?

(* Address byte and PDU size limits of mbrtu.c: MB_SER_PDU_SIZE_MIN. *)
MB_SER_PDU_SIZE_MIN == 4

(* A frame of the master: its size with address and CRC, whom it is for,   *)
(* whether its CRC is right, and whether its normal response repeats it    *)
(* (as those of the single-write functions do).                            *)
Address   == {"own", "other", "broadcast"}
FrameKind == [len : Nat \ {0}, addr : Address, good : BOOLEAN, echo : BOOLEAN]

ASSUME BufMaxAssumption == BufMax \in Nat /\ BufMax > MB_SER_PDU_SIZE_MIN
ASSUME TrafficAssumption == Traffic \in [Requests -> FrameKind]
ASSUME BoundsAssumption == MaxFrames \in Nat /\ MaxRestarts \in Nat
ASSUME TimingAssumption == Timing \in {"free", "prompt", "patient"}
ASSUME SwitchAssumption == StallsAfter \subseteq {"RXNE", "TC"} /\ StopWhileSending \in BOOLEAN

VARIABLES
  \* USART2 and TIM2 (hardware)
  rxne,     \* SR.RXNE: a byte waits in the receive data register
  ore,      \* SR.ORE: another byte came before that one was read
  rdr,      \* that byte
  tc,       \* SR.TC: transmission complete
  txHw,     \* bytes in the transmit data and shift registers
  rxIE,     \* CR1.RXNEIE
  tcIE,     \* CR1.TCIE
  timOn,    \* TIM2 counts and its update interrupt is enabled
  timFlag,  \* TIM2 SR.UIF
  \* contexts
  serPc,    \* USART2_IRQHandler: "off", or the pending bit it clears next
  timPc,    \* TIM2_IRQHandler: "off", or the step it takes next
  mainPc,   \* the protocol task
  restarts, \* calls of eMBDisable so far
  \* mbrtu.c
  eRcvState, eSndState, ucRTUBuf, usRcvBufferPos, pucSndBufferCur, usSndBufferCount,
  \* portevent.c
  xEventInQueue, eQueuedEvent,
  \* mb.c
  eMBState, eEvent, ucRcvAddress, usLength, ucFunctionCode,
  \* the master and the line
  frames,   \* the frames the master has begun
  wpos,     \* bytes of the last of them already on the line
  line,     \* what the slave put on the line for the current response
  taken,    \* how many frames had begun when eMBRTUReceive last accepted one
  answered  \* the frames whose response has been sent to the end

uart     == <<rxne, ore, rdr, tc, txHw>>
enables  == <<rxIE, tcIE>>
timer    == <<timOn, timFlag>>
rcvVars  == <<eRcvState, usRcvBufferPos>>
sndVars  == <<eSndState, pucSndBufferCur, usSndBufferCount, line>>
mailbox  == <<xEventInQueue, eQueuedEvent>>
pollVars == <<eEvent, ucRcvAddress, usLength, ucFunctionCode, taken>>
wire     == <<frames, wpos>>
control  == <<eMBState, restarts>>

vars == <<uart, enables, timer, serPc, timPc, mainPc, rcvVars, sndVars, ucRTUBuf,
          mailbox, pollVars, wire, control, answered>>

-----------------------------------------------------------------------------
(* Bytes *)

Byte == {"none", "addr", "req", "resp", "crc"} \X (Requests \cup Address) \X Nat

NoByte         == <<"none", "other", 0>>
SlaveAddress   == <<"addr", "own", 0>>
RespByte(r, i) == <<"resp", r, i>>
CrcByte(i)     == <<"crc", "own", i>>
WireByte(r, i) == IF i = 0 THEN <<"addr", Traffic[r].addr, 0>> ELSE <<"req", r, i>>

(* What usMBCRC16 decides in eMBRTUReceive: the first n bytes of the       *)
(* buffer are the undamaged frame r.                                       *)
IsFrame(r, n) ==
  /\ Traffic[r].good /\ Traffic[r].len = n
  /\ \A i \in 0..(n - 1) : ucRTUBuf[i] = WireByte(r, i)

(* What usMBCRC16 computes in eMBRTUSend over the own address and n bytes  *)
(* of PDU: the CRC of a request when they repeat one.                      *)
CRC16(n, i) ==
  LET repeats == {r \in Requests :
                    /\ Traffic[r].good /\ Traffic[r].addr = "own" /\ Traffic[r].len = n + 3
                    /\ \A j \in 1..n : ucRTUBuf[j] = WireByte(r, j)}
  IN  IF repeats = {} THEN CrcByte(i) ELSE WireByte(CHOOSE r \in repeats : TRUE, n + 1 + i)

-----------------------------------------------------------------------------
(* Interrupts: which are pending, and which context may run *)

SerialIrq == ((rxne \/ ore) /\ rxIE) \/ (tc /\ tcIE)
TimerIrq  == timFlag /\ timOn

TimerMayRun == serPc = "off" /\ ~SerialIrq
MainMayRun  == TimerMayRun /\ timPc = "off" /\ ~TimerIrq

-----------------------------------------------------------------------------
(* portserial.c, porttimer.c and portevent.c *)

vMBPortSerialEnable(xRxEnable, xTxEnable) == rxIE' = xRxEnable /\ tcIE' = xTxEnable

vMBPortTimersEnable  == timOn' = TRUE  /\ timFlag' = FALSE

vMBPortTimersDisable == timOn' = FALSE /\ timFlag' = FALSE

Event == {"EV_READY", "EV_FRAME_RECEIVED", "EV_EXECUTE", "EV_FRAME_SENT"}

xMBPortEventPost(e) == xEventInQueue' = TRUE /\ eQueuedEvent' = e

(* The data register takes one byte while another is shifted out; a third  *)
(* overwrites the waiting one.                                             *)
xMBPortSerialPutByte(b) ==
  /\ txHw' = IF txHw = 2 THEN 2 ELSE txHw + 1
  /\ line' = Append(line, b)

-----------------------------------------------------------------------------
(* mbrtu.c: the three state machines *)

StoreByte(pos) ==
  /\ ucRTUBuf' = [ucRTUBuf EXCEPT ![pos] = rdr]
  /\ usRcvBufferPos' = pos + 1

(* Mutant of xMBRTUReceiveFSM: the end of the buffer is missed by one. *)
ReceiveFSMOffByOne ==
  /\ IF eRcvState = "RX_RCV" /\ usRcvBufferPos <= BufMax
     THEN StoreByte(usRcvBufferPos) /\ UNCHANGED eRcvState
     ELSE IF eRcvState = "RX_IDLE" THEN StoreByte(0) /\ eRcvState' = "RX_RCV"
     ELSE UNCHANGED <<rcvVars, ucRTUBuf>>
  /\ vMBPortTimersEnable

xMBRTUReceiveFSM ==
  /\ \/ /\ eRcvState \in {"RX_INIT", "RX_ERROR"}
        /\ UNCHANGED <<rcvVars, ucRTUBuf>>
     \/ /\ eRcvState = "RX_IDLE"
        /\ StoreByte(0)
        /\ eRcvState' = "RX_RCV"
     \/ /\ eRcvState = "RX_RCV" /\ usRcvBufferPos < BufMax
        /\ StoreByte(usRcvBufferPos)
        /\ UNCHANGED eRcvState
     \/ /\ eRcvState = "RX_RCV" /\ usRcvBufferPos >= BufMax
        /\ eRcvState' = "RX_ERROR"
        /\ UNCHANGED <<usRcvBufferPos, ucRTUBuf>>
  /\ vMBPortTimersEnable

(* Mutant of xMBRTUTransmitFSM: the end of a response does not switch the  *)
(* line back to reception.                                                 *)
TransmitFSMStaysDeaf ==
  IF eSndState = "TX_XMIT" /\ usSndBufferCount # 0
  THEN /\ xMBPortSerialPutByte(ucRTUBuf[pucSndBufferCur])
       /\ tc' = FALSE
       /\ pucSndBufferCur' = pucSndBufferCur + 1
       /\ usSndBufferCount' = usSndBufferCount - 1
       /\ UNCHANGED <<eSndState, enables, mailbox, answered>>
  ELSE /\ vMBPortSerialEnable(FALSE, FALSE)
       /\ eSndState' = "TX_IDLE"
       /\ xMBPortEventPost("EV_FRAME_SENT") /\ answered' = answered \cup {taken}
       /\ UNCHANGED <<tc, txHw, line, pucSndBufferCur, usSndBufferCount>>

xMBRTUTransmitFSM ==
  IF eSndState = "TX_XMIT" /\ usSndBufferCount # 0
  THEN /\ xMBPortSerialPutByte(ucRTUBuf[pucSndBufferCur])
       /\ tc' = FALSE
       /\ pucSndBufferCur' = pucSndBufferCur + 1
       /\ usSndBufferCount' = usSndBufferCount - 1
       /\ UNCHANGED <<eSndState, enables, mailbox, answered>>
  ELSE /\ vMBPortSerialEnable(TRUE, FALSE)
       /\ eSndState' = "TX_IDLE"
       /\ IF eSndState = "TX_XMIT"
          THEN xMBPortEventPost("EV_FRAME_SENT") /\ answered' = answered \cup {taken}
          ELSE UNCHANGED <<mailbox, answered>>
       /\ UNCHANGED <<tc, txHw, line, pucSndBufferCur, usSndBufferCount>>

(* The switch of xMBRTUTimerT35Expired; in RX_IDLE only its assert objects. *)
T35Event ==
  CASE eRcvState = "RX_INIT" -> xMBPortEventPost("EV_READY")
    [] eRcvState = "RX_RCV"  -> xMBPortEventPost("EV_FRAME_RECEIVED")
    [] OTHER                 -> UNCHANGED mailbox

-----------------------------------------------------------------------------
(* USART2_IRQHandler: the state machine, then the pending bit is cleared *)

(* Reading the status and then the data register resets RXNE and ORE. *)
USART2_RXNE ==
  /\ serPc = "off" /\ rxne /\ rxIE
  /\ xMBRTUReceiveFSM
  /\ rxne' = FALSE /\ ore' = FALSE
  /\ serPc' = "RXNE"
  /\ UNCHANGED <<rdr, tc, txHw, enables, timPc, mainPc, sndVars, mailbox, pollVars, wire,
                 control, answered>>

USART2_TC ==
  /\ serPc = "off" /\ ~(rxne /\ rxIE) /\ tc /\ tcIE
  /\ xMBRTUTransmitFSM
  /\ serPc' = "TC"
  /\ UNCHANGED <<rxne, ore, rdr, timer, timPc, mainPc, rcvVars, ucRTUBuf, pollVars, wire, control>>

USART2_Clear ==
  /\ serPc # "off"
  /\ rxne' = (rxne /\ serPc # "RXNE")
  /\ tc' = (tc /\ serPc # "TC")
  /\ serPc' = "off"
  /\ UNCHANGED <<ore, rdr, txHw, enables, timer, timPc, mainPc, rcvVars, sndVars, ucRTUBuf,
                 mailbox, pollVars, wire, control, answered>>

(* An overrun raises the interrupt by itself, but the handler asks for     *)
(* USART_IT_ORE, which is USART_IT_ORE_ER and never set without CR3.EIE:   *)
(* it returns with nothing done, and is entered again.                     *)
USART2_ORE ==
  /\ serPc = "off" /\ ore /\ ~rxne /\ rxIE /\ ~(tc /\ tcIE)
  /\ UNCHANGED vars

Serial == USART2_RXNE \/ USART2_TC \/ USART2_Clear \/ USART2_ORE

-----------------------------------------------------------------------------
(* TIM2_IRQHandler: xMBRTUTimerT35Expired in the order of its assignments  *)
(* (USART2 may pre-empt it between any two), then the pending bit.         *)

TIM2_Post ==
  /\ timPc = "off" /\ TimerIrq /\ TimerMayRun
  /\ T35Event
  /\ timPc' = "disable"
  /\ UNCHANGED <<uart, enables, timer, serPc, mainPc, rcvVars, sndVars, ucRTUBuf, pollVars,
                 wire, control, answered>>

TIM2_Disable ==
  /\ timPc = "disable" /\ TimerMayRun
  /\ vMBPortTimersDisable
  /\ timPc' = "idle"
  /\ UNCHANGED <<uart, enables, serPc, mainPc, rcvVars, sndVars, ucRTUBuf, mailbox, pollVars,
                 wire, control, answered>>

TIM2_Idle ==
  /\ timPc = "idle" /\ TimerMayRun
  /\ eRcvState' = "RX_IDLE"
  /\ timPc' = "clear"
  /\ UNCHANGED <<uart, enables, timer, serPc, mainPc, usRcvBufferPos, sndVars, ucRTUBuf,
                 mailbox, pollVars, wire, control, answered>>

TIM2_Clear ==
  /\ timPc = "clear" /\ TimerMayRun
  /\ timFlag' = FALSE
  /\ timPc' = "off"
  /\ UNCHANGED <<uart, enables, timOn, serPc, mainPc, rcvVars, sndVars, ucRTUBuf, mailbox,
                 pollVars, wire, control, answered>>

(* Mutant of Timer: the receiver is idle before the timer is stopped. *)
TimerIdleFirst ==
  \/ TIM2_Post
  \/ TIM2_Clear
  \/ /\ timPc = "disable" /\ TimerMayRun
     /\ eRcvState' = "RX_IDLE" /\ timPc' = "idle"
     /\ UNCHANGED <<uart, enables, timer, serPc, mainPc, usRcvBufferPos, sndVars, ucRTUBuf,
                    mailbox, pollVars, wire, control, answered>>
  \/ /\ timPc = "idle" /\ TimerMayRun
     /\ vMBPortTimersDisable /\ timPc' = "clear"
     /\ UNCHANGED <<uart, enables, serPc, mainPc, rcvVars, sndVars, ucRTUBuf, mailbox, pollVars,
                    wire, control, answered>>

Timer == TIM2_Post \/ TIM2_Disable \/ TIM2_Idle \/ TIM2_Clear

-----------------------------------------------------------------------------
(* The protocol task: eMBInit, eMBEnable, then eMBPoll again and again *)

AtPc(from, to) == MainMayRun /\ mainPc = from /\ mainPc' = to

(* eMBRTUInit in its critical section: rs485_config sends one byte and     *)
(* waits for TC; modbus_timer_config starts TIM2 with its interrupt        *)
(* enabled, and TIM_TimeBaseInit leaves the update flag set.               *)
eMBRTUInit ==
  /\ AtPc("init", "initEvent")
  /\ tc' = TRUE
  /\ timOn' = TRUE /\ timFlag' = TRUE
  /\ UNCHANGED <<rxne, ore, rdr, txHw, enables, serPc, timPc, rcvVars, sndVars, ucRTUBuf, mailbox,
                 pollVars, wire, control, answered>>

(* The rest of eMBInit: xMBPortEventInit and STATE_DISABLED. *)
eMBInitEvent ==
  /\ AtPc("initEvent", "poll")
  /\ xEventInQueue' = FALSE
  /\ eMBState' = "DISABLED"
  /\ UNCHANGED <<uart, enables, timer, serPc, timPc, rcvVars, sndVars, ucRTUBuf, eQueuedEvent,
                 pollVars, wire, restarts, answered>>

(* Mutant of eMBRTUStart: the timer is left as eMBRTUStop or an earlier    *)
(* expiry has left it.                                                     *)
RTUStartWithoutTimer ==
  /\ eRcvState' = "RX_INIT"
  /\ vMBPortSerialEnable(TRUE, FALSE)
  /\ UNCHANGED timer

eMBRTUStart ==
  /\ eRcvState' = "RX_INIT"
  /\ vMBPortSerialEnable(TRUE, FALSE)
  /\ vMBPortTimersEnable

eMBRTUStop == vMBPortSerialEnable(FALSE, FALSE) /\ vMBPortTimersDisable

eMBEnable ==
  /\ AtPc("poll", "poll")
  /\ eMBState = "DISABLED"
  /\ eMBRTUStart
  /\ eMBState' = "ENABLED"
  /\ UNCHANGED <<uart, serPc, timPc, usRcvBufferPos, sndVars, ucRTUBuf, mailbox, pollVars,
                 wire, restarts, answered>>

eMBDisable ==
  /\ AtPc("poll", "poll")
  /\ eMBState = "ENABLED"
  /\ restarts < MaxRestarts
  /\ eSndState = "TX_IDLE" \/ StopWhileSending
  /\ eMBRTUStop
  /\ eMBState' = "DISABLED"
  /\ restarts' = restarts + 1
  /\ UNCHANGED <<uart, serPc, timPc, rcvVars, sndVars, ucRTUBuf, mailbox, pollVars, wire,
                 answered>>

(* eMBPoll finds the mailbox empty and returns. *)
eMBPollEmpty ==
  /\ MainMayRun /\ mainPc = "poll" /\ eMBState = "ENABLED" /\ ~xEventInQueue
  /\ UNCHANGED vars

(* xMBPortEventGet is two steps: an interrupt may post between reading the *)
(* event and clearing the flag.                                            *)
xMBPortEventRead ==
  /\ AtPc("poll", "clear")
  /\ eMBState = "ENABLED" /\ xEventInQueue
  /\ eEvent' = eQueuedEvent
  /\ UNCHANGED <<uart, enables, timer, serPc, timPc, rcvVars, sndVars, ucRTUBuf, mailbox,
                 ucRcvAddress, usLength, ucFunctionCode, taken, wire, control, answered>>

xMBPortEventClear ==
  /\ MainMayRun /\ mainPc = "clear"
  /\ xEventInQueue' = FALSE
  /\ mainPc' = CASE eEvent = "EV_FRAME_RECEIVED" -> "receive"
                 [] eEvent = "EV_EXECUTE"        -> "execute"
                 [] OTHER                        -> "poll"
  /\ UNCHANGED <<uart, enables, timer, serPc, timPc, rcvVars, sndVars, ucRTUBuf, eQueuedEvent,
                 pollVars, wire, control, answered>>

(* Mutant of eMBRTUReceive: the address is not checked. *)
ReceiveAnyAddress ==
  /\ MainMayRun /\ mainPc = "receive"
  /\ \/ \E r \in Requests :
          /\ usRcvBufferPos >= MB_SER_PDU_SIZE_MIN /\ IsFrame(r, usRcvBufferPos)
          /\ ucRcvAddress' = Traffic[r].addr /\ usLength' = usRcvBufferPos - 3
          /\ taken' = Len(frames) /\ mainPc' = "post"
     \/ /\ \A r \in Requests : ~IsFrame(r, usRcvBufferPos)
        /\ mainPc' = "poll" /\ UNCHANGED <<ucRcvAddress, usLength, taken>>
  /\ UNCHANGED <<uart, enables, timer, serPc, timPc, rcvVars, sndVars, ucRTUBuf, mailbox,
                 eEvent, ucFunctionCode, wire, control, answered>>

(* eMBRTUReceive, and the address check of eMBPoll on its result. *)
eMBRTUReceive ==
  /\ MainMayRun /\ mainPc = "receive"
  /\ IF usRcvBufferPos >= MB_SER_PDU_SIZE_MIN /\ (\E r \in Requests : IsFrame(r, usRcvBufferPos))
     THEN \E r \in Requests :
            /\ IsFrame(r, usRcvBufferPos)
            /\ ucRcvAddress' = Traffic[r].addr
            /\ usLength' = usRcvBufferPos - 3
            /\ taken' = Len(frames)
            /\ mainPc' = IF Traffic[r].addr = "other" THEN "poll" ELSE "post"
     ELSE mainPc' = "poll" /\ UNCHANGED <<ucRcvAddress, usLength, taken>>
  /\ UNCHANGED <<uart, enables, timer, serPc, timPc, rcvVars, sndVars, ucRTUBuf, mailbox,
                 eEvent, ucFunctionCode, wire, control, answered>>

PostExecute ==
  /\ AtPc("post", "poll")
  /\ xMBPortEventPost("EV_EXECUTE")
  /\ UNCHANGED <<uart, enables, timer, serPc, timPc, rcvVars, sndVars, ucRTUBuf, pollVars,
                 wire, control, answered>>

(* EV_EXECUTE: the function code and with it the handler's view of the     *)
(* request are read from the shared buffer ...                             *)
ReadRequest ==
  /\ AtPc("execute", "respond")
  /\ ucFunctionCode' = ucRTUBuf[1]
  /\ UNCHANGED <<uart, enables, timer, serPc, timPc, rcvVars, sndVars, ucRTUBuf, mailbox,
                 eEvent, ucRcvAddress, usLength, taken, wire, control, answered>>

(* Mutant of WriteResponse: broadcasts are answered. *)
RespondToAll ==
  /\ AtPc("respond", "send")
  /\ usLength' = 1
  /\ ucRTUBuf' = [ucRTUBuf EXCEPT ![1] = RespByte(ucFunctionCode[2], 1)]
  /\ UNCHANGED <<uart, enables, timer, serPc, timPc, rcvVars, sndVars, mailbox, eEvent,
                 ucRcvAddress, ucFunctionCode, taken, wire, control, answered>>

(* ... and the handler leaves an echo in place, or it or the exception     *)
(* branch writes an answer of any length over the request.  A broadcast is *)
(* executed and not answered.                                              *)
WriteResponse ==
  /\ MainMayRun /\ mainPc = "respond"
  /\ \/ /\ ucFunctionCode[1] = "req" /\ Traffic[ucFunctionCode[2]].echo
        /\ UNCHANGED <<usLength, ucRTUBuf>>
     \/ \E n \in 1..(BufMax - 3) :
          /\ usLength' = n
          /\ ucRTUBuf' = [i \in 0..(BufMax - 1) |->
                            IF i \in 1..n THEN RespByte(ucFunctionCode[2], i) ELSE ucRTUBuf[i]]
  /\ mainPc' = IF ucRcvAddress = "broadcast" THEN "poll" ELSE "send"
  /\ UNCHANGED <<uart, enables, timer, serPc, timPc, rcvVars, sndVars, mailbox, eEvent,
                 ucRcvAddress, ucFunctionCode, taken, wire, control, answered>>

(* Mutants of StartTransmit: the last CRC byte is not counted; the         *)
(* receiver stays enabled; no first byte is written.                       *)
StartTransmitWith(count, first, rx) ==
  LET framed == [ucRTUBuf EXCEPT ![0] = SlaveAddress,
                                 ![usLength + 1] = CRC16(usLength, 0),
                                 ![usLength + 2] = CRC16(usLength, 1)]
  IN  /\ ucRTUBuf' = framed
      /\ eSndState' = "TX_XMIT"
      /\ txHw' = IF txHw = 2 THEN 2 ELSE txHw + first
      /\ tc' = FALSE
      /\ line' = <<framed[0]>>
      /\ pucSndBufferCur' = 1
      /\ usSndBufferCount' = count
      /\ vMBPortSerialEnable(rx, TRUE)
StartTransmitShort    == StartTransmitWith(usLength + 1, 1, FALSE)
StartTransmitDuplex   == StartTransmitWith(usLength + 2, 1, TRUE)
StartTransmitNothing  == StartTransmitWith(usLength + 2, 0, FALSE)
StartTransmitTooMuch  == StartTransmitWith(BufMax, 1, FALSE)

(* The first data register write clears TC, or does not when the status    *)
(* register has not been read since TC was set: either is allowed.         *)
StartTransmit ==
  LET framed == [ucRTUBuf EXCEPT ![0] = SlaveAddress,
                                 ![usLength + 1] = CRC16(usLength, 0),
                                 ![usLength + 2] = CRC16(usLength, 1)]
  IN  /\ ucRTUBuf' = framed
      /\ eSndState' = "TX_XMIT"
      /\ txHw' = IF txHw = 2 THEN 2 ELSE txHw + 1
      /\ tc' \in {FALSE, tc}
      /\ line' = <<framed[0]>>
      /\ pucSndBufferCur' = 1
      /\ usSndBufferCount' = usLength + 2
      /\ vMBPortSerialEnable(FALSE, TRUE)

eMBRTUSend ==
  /\ AtPc("send", "poll")
  /\ IF eRcvState = "RX_IDLE"
     THEN StartTransmit
     ELSE UNCHANGED <<ucRTUBuf, sndVars, txHw, tc, enables>>
  /\ UNCHANGED <<rxne, ore, rdr, timer, serPc, timPc, rcvVars, mailbox, pollVars, wire, control,
                 answered>>

Task == \/ eMBRTUInit \/ eMBInitEvent \/ eMBEnable \/ eMBPollEmpty
        \/ xMBPortEventRead \/ xMBPortEventClear \/ eMBRTUReceive \/ PostExecute
        \/ ReadRequest \/ WriteResponse \/ eMBRTUSend

-----------------------------------------------------------------------------
(* The hardware and the master on the line *)

(* A byte has left the shift register; TC is set with the last one. *)
UartShift ==
  /\ txHw > 0
  /\ serPc = "off" \/ serPc \in StallsAfter
  /\ txHw' = txHw - 1
  /\ tc' = (tc \/ txHw = 1)
  /\ UNCHANGED <<rxne, ore, rdr, enables, timer, serPc, timPc, mainPc, rcvVars, sndVars, ucRTUBuf,
                 mailbox, pollVars, wire, control, answered>>

LineIdle == frames # <<>> => wpos = Traffic[frames[Len(frames)]].len

(* "free": bytes and expiries come at any time, interrupts are served as   *)
(* late as one likes.  Otherwise each interrupt is served before the next  *)
(* byte is complete, t3.5 separates frames and never expires inside one.   *)
ByteInTime ==
  \/ Timing = "free"
  \/ /\ serPc = "off" /\ ~(rxne /\ rxIE)
     /\ wpos = 0 => ~timOn /\ timPc = "off"

ExpiryInTime ==
  \/ Timing = "free"
  \/ serPc = "off" /\ ~(rxne /\ rxIE) /\ (LineIdle \/ wpos = 0)

(* A "patient" master waits until the slave has nothing left to do. *)
Quiet ==
  /\ mainPc = "poll" /\ eMBState = "ENABLED" /\ ~xEventInQueue
  /\ eRcvState = "RX_IDLE" /\ eSndState = "TX_IDLE" /\ MainMayRun /\ ~timOn

BeginFrame(r) ==
  /\ mainPc # "init"
  /\ Len(frames) < MaxFrames
  /\ LineIdle
  /\ Timing = "patient" => Quiet
  /\ frames' = Append(frames, r)
  /\ wpos' = 0
  /\ UNCHANGED <<uart, enables, timer, serPc, timPc, mainPc, rcvVars, sndVars, ucRTUBuf,
                 mailbox, pollVars, control, answered>>

(* A byte of the master is complete: it is lost when the previous one is   *)
(* still in the data register (overrun).                                   *)
LineByte ==
  /\ ~LineIdle
  /\ ByteInTime
  /\ serPc = "off" \/ serPc \in StallsAfter
  /\ rdr' = IF rxne THEN rdr ELSE WireByte(frames[Len(frames)], wpos)
  /\ ore' = (ore \/ rxne)
  /\ rxne' = TRUE
  /\ wpos' = wpos + 1
  /\ UNCHANGED <<tc, txHw, enables, timer, serPc, timPc, mainPc, rcvVars, sndVars, ucRTUBuf,
                 mailbox, pollVars, frames, control, answered>>

TimerExpires ==
  /\ timOn /\ ~timFlag
  /\ ExpiryInTime
  /\ timFlag' = TRUE
  /\ UNCHANGED <<uart, enables, timOn, serPc, timPc, mainPc, rcvVars, sndVars, ucRTUBuf,
                 mailbox, pollVars, wire, control, answered>>

Hardware == UartShift \/ LineByte \/ TimerExpires

-----------------------------------------------------------------------------
Init ==
  /\ rxne = FALSE /\ ore = FALSE /\ rdr = NoByte /\ tc = FALSE /\ txHw = 0
  /\ rxIE = FALSE /\ tcIE = FALSE
  /\ timOn = FALSE /\ timFlag = FALSE
  /\ serPc = "off" /\ timPc = "off" /\ mainPc = "init" /\ restarts = 0
  /\ eRcvState = "RX_INIT" /\ eSndState = "TX_IDLE"
  /\ ucRTUBuf = [i \in 0..(BufMax - 1) |-> NoByte]
  /\ usRcvBufferPos = 0 /\ pucSndBufferCur = 0 /\ usSndBufferCount = 0
  /\ xEventInQueue = FALSE /\ eQueuedEvent = "EV_READY"
  /\ eMBState = "NOT_INITIALIZED" /\ eEvent = "EV_READY"
  /\ ucRcvAddress = "broadcast" /\ usLength = 0 /\ ucFunctionCode = NoByte
  /\ frames = <<>> /\ wpos = 0 /\ line = <<>> /\ taken = 0 /\ answered = {}

Next ==
  \/ Serial \/ Timer \/ Task \/ eMBDisable \/ Hardware
  \/ \E r \in Requests : BeginFrame(r)

Spec == Init /\ [][Next]_vars

(* Pending interrupts are taken, the scheduler keeps running the task,     *)
(* hardware finishes what it has begun and the master finishes a frame it  *)
(* has begun.  Nobody has to begin one, or to call eMBDisable.             *)
Fairness ==
  /\ WF_vars(Serial) /\ WF_vars(Timer) /\ WF_vars(Task)
  /\ WF_vars(UartShift) /\ WF_vars(LineByte) /\ WF_vars(TimerExpires)

FairSpec == Spec /\ Fairness

-----------------------------------------------------------------------------
(* Properties *)

(* Every variable has its type. *)
FlagTypes ==
  /\ rxne \in BOOLEAN /\ ore \in BOOLEAN /\ tc \in BOOLEAN /\ rxIE \in BOOLEAN /\ tcIE \in BOOLEAN
  /\ timOn \in BOOLEAN /\ timFlag \in BOOLEAN /\ xEventInQueue \in BOOLEAN
StateTypes ==
  /\ serPc \in {"off", "RXNE", "TC"}
  /\ timPc \in {"off", "disable", "idle", "clear"}
  /\ mainPc \in {"init", "initEvent", "poll", "clear", "receive", "post", "execute",
                 "respond", "send"}
  /\ eRcvState \in {"RX_INIT", "RX_IDLE", "RX_RCV", "RX_ERROR"}
  /\ eSndState \in {"TX_IDLE", "TX_XMIT"}
  /\ eMBState \in {"NOT_INITIALIZED", "DISABLED", "ENABLED"}
  /\ eQueuedEvent \in Event /\ eEvent \in Event /\ ucRcvAddress \in Address
NumberTypes ==
  /\ txHw \in 0..2 /\ restarts \in 0..MaxRestarts
  /\ usRcvBufferPos \in 0..BufMax /\ usLength \in 0..(BufMax - 3)
  /\ pucSndBufferCur \in 0..BufMax /\ usSndBufferCount \in 0..BufMax
ByteTypes ==
  /\ rdr \in Byte /\ ucFunctionCode \in Byte /\ line \in Seq(Byte)
  /\ ucRTUBuf \in [0..(BufMax - 1) -> Byte]
WireTypes ==
  /\ frames \in Seq(Requests) /\ wpos \in Nat
  /\ taken \in 0..Len(frames) /\ answered \subseteq Nat
TypeOK == FlagTypes /\ StateTypes /\ NumberTypes /\ ByteTypes /\ WireTypes

(* The transmitter never reads past the buffer: what is left to send lies  *)
(* inside it (mbrtu.c:307).                                                *)
SendInBuffer == pucSndBufferCur + usSndBufferCount <= BufMax

(* Half duplex, the asserts of xMBRTUReceiveFSM (mbrtu.c:235) and          *)
(* xMBRTUTransmitFSM (mbrtu.c:294): while a response is being sent the     *)
(* receiver is idle, its interrupt is off and the transmitter's is on.     *)
HalfDuplex == eSndState = "TX_XMIT" => eRcvState = "RX_IDLE" /\ ~rxIE /\ tcIE

(* A receiver that waits for the end of a frame has the t3.5 timer that    *)
(* will end it, whatever pre-empts xMBRTUTimerT35Expired (mbrtu.c:327).    *)
ReceiverArmed ==
  eMBState = "ENABLED" /\ eRcvState # "RX_IDLE" => timOn \/ timPc = "idle"

(* A transmission in progress is never left without its next interrupt:    *)
(* TC is set, or a byte is still being shifted out (portserial.c:131).     *)
TransmitterArmed ==
  eSndState = "TX_XMIT" => txHw > 0 \/ (tc /\ serPc # "TC")

(* After any traffic, in any interleaving, the slave is listening again:   *)
(* it leaves every reception, transmission and restart behind, unless an   *)
(* overrun nobody clears keeps USART2 pending (see OverrunServed below).   *)
Listening == eMBState = "ENABLED" /\ eRcvState = "RX_IDLE" /\ eSndState = "TX_IDLE" /\ rxIE
OverrunStorm == ore /\ ~rxne /\ rxIE
ListensAgain == []<>(Listening \/ OverrunStorm)

(* eMBPoll (mb.c:371) hands a handler the PDU of a frame that was received *)
(* with a right CRC, not what a later frame has left in the shared buffer. *)
ExecutesReceivedFrame ==
  mainPc = "execute" =>
    \E r \in Requests :
      /\ Traffic[r].good /\ Traffic[r].addr # "other" /\ Traffic[r].len = usLength + 3
      /\ \A i \in 0..usLength : ucRTUBuf[i] = WireByte(r, i)
      /\ frames[taken] = r

(* The line carries the response the CRC was computed over, to the request *)
(* that was taken, complete when EV_FRAME_SENT is posted (mbrtu.c:312).    *)
ResponseOf(r, sent) ==
  LET n == Len(sent) - 3
  IN  /\ n >= 1 /\ sent[1] = SlaveAddress
      /\ \/ \A i \in 1..n : sent[i + 1] = RespByte(r, i)
         \/ Traffic[r].echo /\ Len(sent) = Traffic[r].len /\ \A i \in 1..n : sent[i + 1] = WireByte(r, i)
      /\ n = usLength /\ sent[n + 2] = CRC16(n, 0) /\ sent[n + 3] = CRC16(n, 1)
SendsWholeResponse ==
  [][eSndState = "TX_XMIT" /\ eSndState' = "TX_IDLE" =>
       txHw = 0 /\ ResponseOf(frames[taken], line)]_vars

(* A patient master gets an answer to every undamaged request that fits    *)
(* the buffer and names this slave.                                        *)
NeedsAnswer(n) ==
  LET k == Traffic[frames[n]] IN k.good /\ k.addr = "own" /\ k.len \in MB_SER_PDU_SIZE_MIN..BufMax
EveryRequestAnswered ==
  \A n \in 1..MaxFrames : (n <= Len(frames) /\ NeedsAnswer(n)) ~> n \in answered

(* Nobody else is answered: no broadcast, no other slave's frame, no       *)
(* damaged or oversized one (mb.c:363, mb.c:389).                          *)
AnswersOnlyOwn == \A n \in answered : n \in 1..Len(frames) /\ NeedsAnswer(n)

(* USART2_IRQHandler asks for overruns after received bytes                *)
(* (portserial.c:125): an overrun that raises the interrupt is served.     *)
OverrunServed == ore /\ rxIE ~> ~ore

=============================================================================
