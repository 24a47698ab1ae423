-------------------------- MODULE ModbusRTUProofs --------------------------
(***************************************************************************)
(* The RTU slave, for every buffer size, every set of requests and every   *)
(* timing: type correctness, the bounds of the transmit pointer, and the   *)
(* facts that keep the two state machines of mbrtu.c and the t3.5 timer    *)
(* consistent under pre-emption.  Then, for a master that waits for its    *)
(* answer, whole requests: what is executed, what is sent and to whom,     *)
(* and that each request gets its answer, once.                            *)
(***************************************************************************)
EXTENDS ModbusRTU, TLAPS

(* The inductive invariant.  TypeOK needs SendInBuffer: the transmitter    *)
(* reads the buffer at its pointer.                                        *)
Typed == TypeOK /\ SendInBuffer

-----------------------------------------------------------------------------
(* Bytes are bytes. *)
LEMMA TokenTypes ==
  /\ NoByte \in Byte /\ SlaveAddress \in Byte
  /\ \A i \in Nat : CrcByte(i) \in Byte
  /\ \A r \in Requests : \A i \in Nat : WireByte(r, i) \in Byte
  /\ \A r \in Requests \cup Address : \A i \in Nat : RespByte(r, i) \in Byte
BY TrafficAssumption
   DEF NoByte, SlaveAddress, CrcByte, WireByte, RespByte, Byte, Address, FrameKind

LEMMA CrcType == ASSUME NEW n \in Nat, NEW i \in Nat PROVE CRC16(n, i) \in Byte
<1> DEFINE repeats == {r \in Requests :
                    /\ Traffic[r].good /\ Traffic[r].addr = "own" /\ Traffic[r].len = n + 3
                    /\ \A j \in 1..n : ucRTUBuf[j] = WireByte(r, j)}
<1>1. CASE repeats = {}
  BY <1>1, TokenTypes DEF CRC16
<1>2. CASE repeats # {}
  <2>1. (CHOOSE r \in repeats : TRUE) \in Requests
    BY <1>2
  <2> QED
    BY <1>2, <2>1, TokenTypes DEF CRC16
<1> QED
  BY <1>1, <1>2

LEMMA InitTyped == Init => Typed
<1> SUFFICES ASSUME Init PROVE Typed
  OBVIOUS
<1>1. FlagTypes /\ StateTypes
  BY DEF Init, FlagTypes, StateTypes, Event, Address
<1>2. NumberTypes /\ SendInBuffer
  BY BufMaxAssumption, BoundsAssumption DEF Init, NumberTypes, SendInBuffer, MB_SER_PDU_SIZE_MIN
<1>3. ByteTypes /\ WireTypes
  BY TokenTypes DEF Init, ByteTypes, WireTypes
<1> QED
  BY <1>1, <1>2, <1>3 DEF Typed, TypeOK

(* One lemma for each context, one case for each of its steps, and one     *)
(* leaf for each part of the type invariant the step can disturb.          *)
LEMMA SerialTyped == ASSUME Typed, Serial PROVE Typed'
<1> USE DEF uart, enables, timer, rcvVars, sndVars, mailbox, pollVars, wire, control
<1>1. CASE USART2_RXNE
  <2> USE <1>1 DEF USART2_RXNE, xMBRTUReceiveFSM, StoreByte, vMBPortTimersEnable
  <2>1. FlagTypes'
    BY DEF Typed, TypeOK, FlagTypes
  <2>2. StateTypes'
    BY DEF Typed, TypeOK, StateTypes
  <2>3. NumberTypes' /\ SendInBuffer'
    BY BufMaxAssumption DEF Typed, TypeOK, NumberTypes, SendInBuffer, MB_SER_PDU_SIZE_MIN
  <2>4. ByteTypes' /\ WireTypes'
    BY BufMaxAssumption DEF Typed, TypeOK, NumberTypes, ByteTypes, WireTypes, MB_SER_PDU_SIZE_MIN
  <2> QED
    BY <2>1, <2>2, <2>3, <2>4 DEF Typed, TypeOK
<1>2. CASE USART2_TC
  <2> USE <1>2 DEF USART2_TC, xMBRTUTransmitFSM, xMBPortSerialPutByte, vMBPortSerialEnable, xMBPortEventPost
  <2>1. FlagTypes'
    BY DEF Typed, TypeOK, FlagTypes
  <2>2. StateTypes'
    BY DEF Typed, TypeOK, StateTypes, Event
  <2>3. NumberTypes' /\ SendInBuffer'
    <3>1. CASE eSndState = "TX_XMIT" /\ usSndBufferCount # 0
      <4>1. /\ pucSndBufferCur' = pucSndBufferCur + 1 /\ usSndBufferCount' = usSndBufferCount - 1
            /\ txHw' = IF txHw = 2 THEN 2 ELSE txHw + 1
            /\ restarts' = restarts /\ usRcvBufferPos' = usRcvBufferPos /\ usLength' = usLength
        BY <3>1
      <4>2. NumberTypes /\ SendInBuffer
        BY DEF Typed, TypeOK
      <4> HIDE <1>2
      <4> QED
        BY <3>1, <4>1, <4>2, BufMaxAssumption DEF NumberTypes, SendInBuffer
    <3>2. CASE ~(eSndState = "TX_XMIT" /\ usSndBufferCount # 0)
      <4>1. UNCHANGED <<pucSndBufferCur, usSndBufferCount, txHw, restarts, usRcvBufferPos, usLength>>
        BY <3>2
      <4> HIDE <1>2
      <4> QED
        BY <4>1 DEF Typed, TypeOK, NumberTypes, SendInBuffer
    <3> QED
      BY <3>1, <3>2
  <2>4. ByteTypes'
    <3>1. CASE eSndState = "TX_XMIT" /\ usSndBufferCount # 0
      <4>1. line' = Append(line, ucRTUBuf[pucSndBufferCur]) /\ UNCHANGED <<rdr, ucFunctionCode, ucRTUBuf>>
        BY <3>1
      <4>2. pucSndBufferCur \in 0..(BufMax - 1)
        BY <3>1, BufMaxAssumption DEF Typed, TypeOK, NumberTypes, SendInBuffer
      <4> HIDE <1>2
      <4> QED
        BY <4>1, <4>2 DEF Typed, TypeOK, ByteTypes
    <3>2. CASE ~(eSndState = "TX_XMIT" /\ usSndBufferCount # 0)
      BY <3>2 DEF Typed, TypeOK, ByteTypes
    <3> QED
      BY <3>1, <3>2
  <2>5. WireTypes'
    <3>1. CASE answered' = answered \cup {taken}
      <4>1. taken \in Nat
        BY DEF Typed, TypeOK, WireTypes
      <4> QED
        BY <3>1, <4>1 DEF Typed, TypeOK, WireTypes
    <3>2. CASE UNCHANGED answered
      BY <3>2 DEF Typed, TypeOK, WireTypes
    <3> QED
      BY <3>1, <3>2
  <2> QED
    BY <2>1, <2>2, <2>3, <2>4, <2>5 DEF Typed, TypeOK
<1>3. CASE USART2_Clear
  BY <1>3 DEF USART2_Clear, Typed, TypeOK, SendInBuffer, FlagTypes, StateTypes, NumberTypes, ByteTypes, WireTypes
<1>4. CASE USART2_ORE
  BY <1>4 DEF USART2_ORE, vars, Typed, TypeOK, SendInBuffer, FlagTypes, StateTypes, NumberTypes,
              ByteTypes, WireTypes
<1> QED
  BY <1>1, <1>2, <1>3, <1>4 DEF Serial

LEMMA TimerTyped == ASSUME Typed, Timer PROVE Typed'
<1> USE DEF uart, enables, timer, rcvVars, sndVars, mailbox, pollVars, wire, control
<1>1. CASE TIM2_Post
  <2> USE <1>1 DEF TIM2_Post, T35Event, xMBPortEventPost
  <2>1. FlagTypes'
    BY DEF Typed, TypeOK, FlagTypes
  <2>2. StateTypes'
    BY DEF Typed, TypeOK, StateTypes, Event
  <2>3. NumberTypes' /\ SendInBuffer' /\ ByteTypes' /\ WireTypes'
    BY DEF Typed, TypeOK, NumberTypes, SendInBuffer, ByteTypes, WireTypes
  <2> QED
    BY <2>1, <2>2, <2>3 DEF Typed, TypeOK
<1>2. CASE TIM2_Disable
  <2> USE <1>2 DEF TIM2_Disable, vMBPortTimersDisable
  <2>1. FlagTypes'
    BY DEF Typed, TypeOK, FlagTypes
  <2>2. StateTypes' /\ NumberTypes' /\ SendInBuffer' /\ ByteTypes' /\ WireTypes'
    BY DEF Typed, TypeOK, StateTypes, NumberTypes, SendInBuffer, ByteTypes, WireTypes
  <2> QED
    BY <2>1, <2>2 DEF Typed, TypeOK
<1>3. CASE TIM2_Idle
  BY <1>3 DEF TIM2_Idle, Typed, TypeOK, SendInBuffer, FlagTypes, StateTypes, NumberTypes, ByteTypes, WireTypes
<1>4. CASE TIM2_Clear
  <2> USE <1>4 DEF TIM2_Clear
  <2>1. FlagTypes'
    BY DEF Typed, TypeOK, FlagTypes
  <2>2. StateTypes' /\ NumberTypes' /\ SendInBuffer' /\ ByteTypes' /\ WireTypes'
    BY DEF Typed, TypeOK, StateTypes, NumberTypes, SendInBuffer, ByteTypes, WireTypes
  <2> QED
    BY <2>1, <2>2 DEF Typed, TypeOK
<1> QED
  BY <1>1, <1>2, <1>3, <1>4 DEF Timer

LEMMA HardwareTyped == ASSUME Typed, Hardware \/ (\E r \in Requests : BeginFrame(r)) PROVE Typed'
<1> USE DEF uart, enables, timer, rcvVars, sndVars, mailbox, pollVars, wire, control
<1>1. CASE UartShift
  <2> USE <1>1 DEF UartShift
  <2>1. FlagTypes'
    BY Zenon DEF Typed, TypeOK, FlagTypes
  <2>2. NumberTypes' /\ SendInBuffer'
    BY DEF Typed, TypeOK, NumberTypes, SendInBuffer
  <2>3. StateTypes' /\ ByteTypes' /\ WireTypes'
    BY DEF Typed, TypeOK, StateTypes, ByteTypes, WireTypes
  <2> QED
    BY <2>1, <2>2, <2>3 DEF Typed, TypeOK
<1>2. CASE LineByte
  <2> USE <1>2 DEF LineByte
  <2>1. FlagTypes'
    BY DEF Typed, TypeOK, FlagTypes
  <2>2. ByteTypes' /\ WireTypes'
    <3>1. frames # <<>> /\ frames \in Seq(Requests) /\ wpos \in Nat
      BY DEF LineIdle, Typed, TypeOK, WireTypes
    <3>2. frames[Len(frames)] \in Requests
      BY <3>1
    <3>3. WireByte(frames[Len(frames)], wpos) \in Byte
      BY <3>1, <3>2, TokenTypes
    <3> QED
      BY <3>1, <3>3 DEF Typed, TypeOK, ByteTypes, WireTypes
  <2>3. StateTypes' /\ NumberTypes' /\ SendInBuffer'
    BY DEF Typed, TypeOK, StateTypes, NumberTypes, SendInBuffer
  <2> QED
    BY <2>1, <2>2, <2>3 DEF Typed, TypeOK
<1>3. CASE TimerExpires
  <2> USE <1>3 DEF TimerExpires
  <2>1. FlagTypes'
    BY DEF Typed, TypeOK, FlagTypes
  <2>2. StateTypes' /\ NumberTypes' /\ SendInBuffer' /\ ByteTypes' /\ WireTypes'
    BY DEF Typed, TypeOK, StateTypes, NumberTypes, SendInBuffer, ByteTypes, WireTypes
  <2> QED
    BY <2>1, <2>2 DEF Typed, TypeOK
<1>4. ASSUME NEW r \in Requests, BeginFrame(r) PROVE Typed'
  <2> USE <1>4 DEF BeginFrame
  <2>1. FlagTypes'
    BY DEF Typed, TypeOK, FlagTypes
  <2>2. WireTypes'
    BY DEF Typed, TypeOK, WireTypes
  <2>3. StateTypes' /\ NumberTypes' /\ SendInBuffer' /\ ByteTypes'
    BY DEF Typed, TypeOK, StateTypes, NumberTypes, SendInBuffer, ByteTypes
  <2> QED
    BY <2>1, <2>2, <2>3 DEF Typed, TypeOK
<1> QED
  BY <1>1, <1>2, <1>3, <1>4 DEF Hardware

LEMMA TaskTyped == ASSUME Typed, Task \/ eMBDisable PROVE Typed'
<1> USE DEF uart, enables, timer, rcvVars, sndVars, mailbox, pollVars, wire, control
<1>1. CASE eMBRTUInit
  <2> USE <1>1 DEF eMBRTUInit, AtPc
  <2>1. FlagTypes'
    BY DEF Typed, TypeOK, FlagTypes
  <2>2. StateTypes'
    BY DEF Typed, TypeOK, StateTypes, Event
  <2>3. NumberTypes' /\ SendInBuffer' /\ ByteTypes' /\ WireTypes'
    BY DEF Typed, TypeOK, NumberTypes, SendInBuffer, ByteTypes, WireTypes
  <2> QED
    BY <2>1, <2>2, <2>3 DEF Typed, TypeOK
<1>2. CASE eMBInitEvent
  <2> USE <1>2 DEF eMBInitEvent, AtPc
  <2>1. FlagTypes'
    BY DEF Typed, TypeOK, FlagTypes
  <2>2. StateTypes'
    BY DEF Typed, TypeOK, StateTypes, Event
  <2>3. NumberTypes' /\ SendInBuffer' /\ ByteTypes' /\ WireTypes'
    BY DEF Typed, TypeOK, NumberTypes, SendInBuffer, ByteTypes, WireTypes
  <2> QED
    BY <2>1, <2>2, <2>3 DEF Typed, TypeOK
<1>3. CASE eMBEnable
  <2> USE <1>3 DEF eMBEnable, AtPc, eMBRTUStart, vMBPortSerialEnable, vMBPortTimersEnable
  <2>1. FlagTypes'
    BY DEF Typed, TypeOK, FlagTypes
  <2>2. StateTypes'
    BY DEF Typed, TypeOK, StateTypes, Event
  <2>3. NumberTypes' /\ SendInBuffer' /\ ByteTypes' /\ WireTypes'
    BY DEF Typed, TypeOK, NumberTypes, SendInBuffer, ByteTypes, WireTypes
  <2> QED
    BY <2>1, <2>2, <2>3 DEF Typed, TypeOK
<1>4. CASE eMBPollEmpty
  BY <1>4 DEF eMBPollEmpty, vars, Typed, TypeOK, FlagTypes, StateTypes, NumberTypes, SendInBuffer,
              ByteTypes, WireTypes
<1>5. CASE xMBPortEventRead
  <2> USE <1>5 DEF xMBPortEventRead, AtPc
  <2>1. FlagTypes'
    BY DEF Typed, TypeOK, FlagTypes
  <2>2. StateTypes'
    BY DEF Typed, TypeOK, StateTypes, Event
  <2>3. NumberTypes' /\ SendInBuffer' /\ ByteTypes' /\ WireTypes'
    BY DEF Typed, TypeOK, NumberTypes, SendInBuffer, ByteTypes, WireTypes
  <2> QED
    BY <2>1, <2>2, <2>3 DEF Typed, TypeOK
<1>6. CASE xMBPortEventClear
  <2> USE <1>6 DEF xMBPortEventClear, MainMayRun
  <2>1. FlagTypes'
    BY DEF Typed, TypeOK, FlagTypes
  <2>2. StateTypes'
    BY DEF Typed, TypeOK, StateTypes, Event
  <2>3. NumberTypes' /\ SendInBuffer' /\ ByteTypes' /\ WireTypes'
    BY DEF Typed, TypeOK, NumberTypes, SendInBuffer, ByteTypes, WireTypes
  <2> QED
    BY <2>1, <2>2, <2>3 DEF Typed, TypeOK
<1>7. CASE eMBRTUReceive
  <2> USE <1>7 DEF eMBRTUReceive
  <2>1. FlagTypes'
    BY DEF Typed, TypeOK, FlagTypes
  <2>2. StateTypes'
    BY TrafficAssumption DEF Typed, TypeOK, StateTypes, FrameKind
  <2>3. NumberTypes' /\ SendInBuffer'
    BY BufMaxAssumption DEF Typed, TypeOK, NumberTypes, SendInBuffer, MB_SER_PDU_SIZE_MIN
  <2>4. ByteTypes' /\ WireTypes'
    BY DEF Typed, TypeOK, ByteTypes, WireTypes
  <2> QED
    BY <2>1, <2>2, <2>3, <2>4 DEF Typed, TypeOK
<1>8. CASE PostExecute
  <2> USE <1>8 DEF PostExecute, AtPc, xMBPortEventPost
  <2>1. FlagTypes'
    BY DEF Typed, TypeOK, FlagTypes
  <2>2. StateTypes'
    BY DEF Typed, TypeOK, StateTypes, Event
  <2>3. NumberTypes' /\ SendInBuffer' /\ ByteTypes' /\ WireTypes'
    BY DEF Typed, TypeOK, NumberTypes, SendInBuffer, ByteTypes, WireTypes
  <2> QED
    BY <2>1, <2>2, <2>3 DEF Typed, TypeOK
<1>9. CASE ReadRequest
  <2> USE <1>9 DEF ReadRequest, AtPc
  <2>1. FlagTypes'
    BY DEF Typed, TypeOK, FlagTypes
  <2>2. StateTypes' /\ NumberTypes' /\ SendInBuffer' /\ WireTypes'
    BY DEF Typed, TypeOK, StateTypes, NumberTypes, SendInBuffer, WireTypes
  <2>3. ByteTypes'
    BY BufMaxAssumption DEF Typed, TypeOK, ByteTypes, MB_SER_PDU_SIZE_MIN
  <2> QED
    BY <2>1, <2>2, <2>3 DEF Typed, TypeOK
<1>10. CASE WriteResponse
  <2> USE <1>10 DEF WriteResponse
  <2>1. FlagTypes'
    BY DEF Typed, TypeOK, FlagTypes
  <2>2. StateTypes' /\ WireTypes'
    BY DEF Typed, TypeOK, StateTypes, WireTypes
  <2>3. NumberTypes' /\ SendInBuffer'
    BY BufMaxAssumption DEF Typed, TypeOK, NumberTypes, SendInBuffer, MB_SER_PDU_SIZE_MIN
  <2>4. ByteTypes'
    <3>1. ucFunctionCode \in Byte /\ ucRTUBuf \in [0..(BufMax - 1) -> Byte]
      BY DEF Typed, TypeOK, ByteTypes
    <3>2. ucFunctionCode[2] \in Requests \cup Address
      BY <3>1 DEF Byte
    <3>3. \A i \in Nat : RespByte(ucFunctionCode[2], i) \in Byte
      BY <3>2, TokenTypes
    <3>4. ucRTUBuf' \in [0..(BufMax - 1) -> Byte]
      <4>1. CASE UNCHANGED ucRTUBuf
        BY <3>1, <4>1
      <4>2. ASSUME NEW n \in 1..(BufMax - 3),
                   ucRTUBuf' = [i \in 0..(BufMax - 1) |->
                            IF i \in 1..n THEN RespByte(ucFunctionCode[2], i) ELSE ucRTUBuf[i]]
            PROVE  ucRTUBuf' \in [0..(BufMax - 1) -> Byte]
        BY <3>1, <3>3, <4>2, BufMaxAssumption DEF MB_SER_PDU_SIZE_MIN
      <4> QED
        BY <4>1, <4>2
    <3> QED
      BY <3>4 DEF Typed, TypeOK, ByteTypes
  <2> QED
    BY <2>1, <2>2, <2>3, <2>4 DEF Typed, TypeOK
<1>11. CASE eMBRTUSend
  <2> USE <1>11 DEF eMBRTUSend, AtPc
  <2>1. FlagTypes'
    BY Zenon DEF Typed, TypeOK, FlagTypes, StartTransmit, vMBPortSerialEnable
  <2>2. StateTypes' /\ WireTypes'
    BY DEF Typed, TypeOK, StateTypes, WireTypes, StartTransmit
  <2>3. NumberTypes' /\ SendInBuffer'
    <3>1. CASE StartTransmit
      <4>1. /\ pucSndBufferCur' = 1 /\ usSndBufferCount' = usLength + 2
            /\ txHw' = IF txHw = 2 THEN 2 ELSE txHw + 1
            /\ UNCHANGED <<restarts, usRcvBufferPos, usLength>>
        BY <3>1 DEF StartTransmit
      <4>2. NumberTypes
        BY DEF Typed, TypeOK
      <4> HIDE <1>11
      <4> QED
        BY <4>1, <4>2, BufMaxAssumption DEF NumberTypes, SendInBuffer, MB_SER_PDU_SIZE_MIN
    <3>2. CASE UNCHANGED <<sndVars, txHw>>
      BY <3>2 DEF Typed, TypeOK, NumberTypes, SendInBuffer
    <3> QED
      BY <3>1, <3>2
  <2>4. ByteTypes'
    <3>1. usLength \in Nat
      BY BufMaxAssumption DEF Typed, TypeOK, NumberTypes
    <3>2. SlaveAddress \in Byte /\ CRC16(usLength, 0) \in Byte /\ CRC16(usLength, 1) \in Byte
      BY <3>1, TokenTypes, CrcType
    <3>3. CASE StartTransmit
      <4> DEFINE framed == [ucRTUBuf EXCEPT ![0] = SlaveAddress,
                                 ![usLength + 1] = CRC16(usLength, 0),
                                 ![usLength + 2] = CRC16(usLength, 1)]
      <4>1. framed \in [0..(BufMax - 1) -> Byte]
        BY <3>2 DEF Typed, TypeOK, ByteTypes
      <4>2. framed[0] \in Byte
        BY <4>1, BufMaxAssumption DEF MB_SER_PDU_SIZE_MIN
      <4>3. ucRTUBuf' = framed /\ line' = <<framed[0]>>
        BY <3>3 DEF StartTransmit
      <4> HIDE DEF framed
      <4>4. ucRTUBuf' \in [0..(BufMax - 1) -> Byte] /\ line' \in Seq(Byte)
        BY <4>1, <4>2, <4>3
      <4> QED
        BY <4>4 DEF Typed, TypeOK, ByteTypes
    <3>4. CASE UNCHANGED <<ucRTUBuf, sndVars>>
      BY <3>4 DEF Typed, TypeOK, ByteTypes
    <3> QED
      BY <3>3, <3>4
  <2> QED
    BY <2>1, <2>2, <2>3, <2>4 DEF Typed, TypeOK
<1>12. CASE eMBDisable
  <2> USE <1>12 DEF eMBDisable, AtPc, eMBRTUStop, vMBPortSerialEnable, vMBPortTimersDisable
  <2>1. FlagTypes'
    BY DEF Typed, TypeOK, FlagTypes
  <2>2. NumberTypes' /\ SendInBuffer'
    BY BoundsAssumption DEF Typed, TypeOK, NumberTypes, SendInBuffer
  <2>3. StateTypes' /\ ByteTypes' /\ WireTypes'
    BY DEF Typed, TypeOK, StateTypes, ByteTypes, WireTypes
  <2> QED
    BY <2>1, <2>2, <2>3 DEF Typed, TypeOK
<1> QED
  BY <1>1, <1>2, <1>3, <1>4, <1>5, <1>6, <1>7, <1>8, <1>9, <1>10, <1>11, <1>12 DEF Task

LEMMA StepTyped == ASSUME Typed, [Next]_vars PROVE Typed'
<1>1. CASE UNCHANGED vars
  BY <1>1 DEF vars, uart, enables, timer, rcvVars, sndVars, mailbox, pollVars, wire, control,
              Typed, TypeOK, FlagTypes, StateTypes, NumberTypes, SendInBuffer, ByteTypes, WireTypes
<1> QED
  BY <1>1, SerialTyped, TimerTyped, TaskTyped, HardwareTyped DEF Next

LEMMA AlwaysTyped == Spec => []Typed
BY InitTyped, StepTyped, PTL DEF Spec

(* Every variable keeps its type, whatever the master sends and however    *)
(* the three contexts interleave: usRcvBufferPos stays within the buffer   *)
(* (mbrtu.c:274), the queued event is an event, every byte a byte.         *)
THEOREM TypeCorrect == Spec => []TypeOK
<1>1. Typed => TypeOK
  BY DEF Typed
<1> QED
  BY <1>1, AlwaysTyped, PTL

(* xMBRTUTransmitFSM (mbrtu.c:307) never reads past ucRTUBuf.              *)
THEOREM TransmitStaysInBuffer == Spec => []SendInBuffer
<1>1. Typed => SendInBuffer
  BY DEF Typed
<1> QED
  BY <1>1, AlwaysTyped, PTL

-----------------------------------------------------------------------------
(* The receiver is never left waiting for a frame end that no timer will   *)
(* signal, although USART2 may pre-empt xMBRTUTimerT35Expired between any  *)
(* two of its assignments (mbrtu.c:353): the invariant is inductive,       *)
(* because the timer is stopped before the receiver becomes idle and both  *)
(* are restarted together.                                                 *)
THEOREM ReceiverKeepsTimer == Spec => []ReceiverArmed
<1> USE DEF uart, enables, timer, rcvVars, sndVars, mailbox, pollVars, wire, control, ReceiverArmed
<1>1. Init => ReceiverArmed
  BY DEF Init
<1>2. ASSUME ReceiverArmed, [Next]_vars PROVE ReceiverArmed'
  <2>1. CASE USART2_RXNE
    BY <2>1 DEF USART2_RXNE, xMBRTUReceiveFSM, vMBPortTimersEnable
  <2>2. CASE USART2_TC \/ USART2_Clear
    BY <1>2, <2>2 DEF USART2_TC, USART2_Clear
  <2>3. CASE TIM2_Post
    BY <1>2, <2>3 DEF TIM2_Post
  <2>4. CASE TIM2_Disable
    BY <2>4 DEF TIM2_Disable
  <2>5. CASE TIM2_Idle
    BY <2>5 DEF TIM2_Idle
  <2>6. CASE TIM2_Clear
    BY <1>2, <2>6 DEF TIM2_Clear
  <2>7. CASE eMBRTUInit
    BY <1>2, <2>7 DEF eMBRTUInit
  <2>8. CASE eMBInitEvent \/ eMBDisable
    BY <2>8 DEF eMBInitEvent, eMBDisable
  <2>9. CASE eMBEnable
    BY <2>9 DEF eMBEnable, eMBRTUStart, vMBPortTimersEnable
  <2>10. CASE xMBPortEventRead \/ xMBPortEventClear \/ PostExecute \/ ReadRequest
    BY <1>2, <2>10 DEF xMBPortEventRead, xMBPortEventClear, PostExecute, ReadRequest
  <2>11. CASE eMBRTUReceive \/ WriteResponse \/ eMBRTUSend
    BY <1>2, <2>11 DEF eMBRTUReceive, WriteResponse, eMBRTUSend
  <2>12. CASE UartShift \/ LineByte \/ TimerExpires
    BY <1>2, <2>12 DEF UartShift, LineByte, TimerExpires
  <2>13. ASSUME NEW r \in Requests, BeginFrame(r) PROVE ReceiverArmed'
    BY <1>2, <2>13 DEF BeginFrame
  <2>14. CASE eMBPollEmpty \/ USART2_ORE \/ UNCHANGED vars
    BY <1>2, <2>14 DEF eMBPollEmpty, USART2_ORE, vars
  <2> QED
    BY <1>2, <2>1, <2>2, <2>3, <2>4, <2>5, <2>6, <2>7, <2>8, <2>9, <2>10, <2>11, <2>12, <2>13, <2>14
       DEF Next, Serial, Timer, Task, Hardware
<1> QED
  BY <1>1, <1>2, PTL DEF Spec

-----------------------------------------------------------------------------
(* Half duplex needs to know that a stopped slave is not sending, and that *)
(* exactly an initialised and enabled one executes requests.               *)
DuplexInv ==
  /\ HalfDuplex
  /\ eMBState # "ENABLED" => eSndState = "TX_IDLE"
  /\ mainPc \notin {"init", "initEvent", "poll"} => eMBState = "ENABLED"
  /\ mainPc \in {"init", "initEvent"} => eMBState # "ENABLED"

LEMMA StepDuplex == ASSUME ~StopWhileSending, DuplexInv, [Next]_vars PROVE DuplexInv'
<1> USE DEF uart, enables, timer, rcvVars, sndVars, mailbox, pollVars, wire, control, DuplexInv,
            HalfDuplex
<1>1. CASE USART2_RXNE
  BY <1>1 DEF USART2_RXNE
<1>2. CASE USART2_TC
  BY <1>2 DEF USART2_TC, xMBRTUTransmitFSM, vMBPortSerialEnable
<1>3. CASE USART2_Clear
  BY <1>3 DEF USART2_Clear
<1>4. CASE TIM2_Post \/ TIM2_Disable \/ TIM2_Clear
  BY <1>4 DEF TIM2_Post, TIM2_Disable, TIM2_Clear
<1>5. CASE TIM2_Idle
  BY <1>5 DEF TIM2_Idle
<1>6. CASE eMBRTUInit \/ eMBInitEvent
  BY <1>6 DEF eMBRTUInit, eMBInitEvent, AtPc
<1>7. CASE eMBEnable
  BY <1>7 DEF eMBEnable, AtPc
<1>8. CASE eMBDisable
  BY <1>8 DEF eMBDisable, AtPc
<1>9. CASE xMBPortEventRead \/ xMBPortEventClear \/ PostExecute \/ ReadRequest
  BY <1>9 DEF xMBPortEventRead, xMBPortEventClear, PostExecute, ReadRequest, AtPc
<1>10. CASE eMBRTUReceive \/ WriteResponse
  BY <1>10 DEF eMBRTUReceive, WriteResponse
<1>11. CASE eMBRTUSend
  BY <1>11 DEF eMBRTUSend, AtPc, StartTransmit, vMBPortSerialEnable
<1>12. CASE UartShift \/ LineByte \/ TimerExpires
  BY <1>12 DEF UartShift, LineByte, TimerExpires
<1>13. ASSUME NEW r \in Requests, BeginFrame(r) PROVE DuplexInv'
  BY <1>13 DEF BeginFrame
<1>14. CASE eMBPollEmpty \/ USART2_ORE \/ UNCHANGED vars
  BY <1>14 DEF eMBPollEmpty, USART2_ORE, vars
<1> QED
  BY <1>1, <1>2, <1>3, <1>4, <1>5, <1>6, <1>7, <1>8, <1>9, <1>10, <1>11, <1>12, <1>13, <1>14
     DEF Next, Serial, Timer, Task, Hardware

LEMMA AlwaysDuplex == ASSUME ~StopWhileSending PROVE Spec => []DuplexInv
<1>1. Init => DuplexInv
  BY DEF Init, DuplexInv, HalfDuplex
<1>2. DuplexInv /\ [Next]_vars => DuplexInv'
  BY StepDuplex
<1> QED
  BY <1>1, <1>2, PTL DEF Spec

(* As long as the application does not call eMBDisable in the middle of a  *)
(* response, the asserts of xMBRTUReceiveFSM and xMBRTUTransmitFSM hold:   *)
(* the receiver is off and idle while a response is being sent.            *)
THEOREM StaysHalfDuplex == ASSUME ~StopWhileSending PROVE Spec => []HalfDuplex
<1>1. DuplexInv => HalfDuplex
  BY DEF DuplexInv
<1> QED
  BY <1>1, AlwaysDuplex, PTL

-----------------------------------------------------------------------------
(* A transmission always has an interrupt to come.  The proof needs the    *)
(* range of txHw and, for a received byte, that half duplex holds.         *)
ArmedInv == TransmitterArmed /\ DuplexInv /\ txHw \in 0..2

LEMMA StepArmed ==
  ASSUME ~StopWhileSending, "TC" \notin StallsAfter, ArmedInv, [Next]_vars, txHw' \in 0..2
  PROVE  TransmitterArmed'
<1> USE DEF uart, enables, timer, rcvVars, sndVars, mailbox, pollVars, wire, control, ArmedInv,
            TransmitterArmed
<1>1. CASE USART2_RXNE
  BY <1>1 DEF USART2_RXNE, DuplexInv, HalfDuplex
<1>2. CASE USART2_TC
  <2>1. CASE eSndState = "TX_XMIT" /\ usSndBufferCount # 0
    <3>1. txHw' = IF txHw = 2 THEN 2 ELSE txHw + 1
      BY <1>2, <2>1 DEF USART2_TC, xMBRTUTransmitFSM, xMBPortSerialPutByte
    <3>2. txHw' > 0
      BY <3>1
    <3> QED
      BY <3>2
  <2>2. CASE ~(eSndState = "TX_XMIT" /\ usSndBufferCount # 0)
    BY <1>2, <2>2 DEF USART2_TC, xMBRTUTransmitFSM
  <2> QED
    BY <2>1, <2>2
<1>3. CASE USART2_Clear
  BY <1>3 DEF USART2_Clear
<1>4. CASE TIM2_Post \/ TIM2_Disable \/ TIM2_Clear \/ TIM2_Idle
  BY <1>4 DEF TIM2_Post, TIM2_Disable, TIM2_Clear, TIM2_Idle
<1>5. CASE eMBRTUInit
  BY <1>5 DEF eMBRTUInit, AtPc, MainMayRun, TimerMayRun
<1>6. CASE eMBInitEvent \/ eMBEnable \/ eMBDisable
  BY <1>6 DEF eMBInitEvent, eMBEnable, eMBDisable
<1>7. CASE xMBPortEventRead \/ xMBPortEventClear \/ PostExecute \/ ReadRequest
  BY <1>7 DEF xMBPortEventRead, xMBPortEventClear, PostExecute, ReadRequest
<1>8. CASE eMBRTUReceive \/ WriteResponse
  BY <1>8 DEF eMBRTUReceive, WriteResponse
<1>9. CASE eMBRTUSend
  <2>1. CASE eRcvState = "RX_IDLE"
    <3>1. txHw' = IF txHw = 2 THEN 2 ELSE txHw + 1
      BY <1>9, <2>1 DEF eMBRTUSend, StartTransmit
    <3>2. txHw' > 0
      BY <3>1
    <3> QED
      BY <3>2
  <2>2. CASE eRcvState # "RX_IDLE"
    BY <1>9, <2>2 DEF eMBRTUSend
  <2> QED
    BY <2>1, <2>2
<1>10. CASE UartShift
  <2>1. /\ txHw > 0 /\ txHw' = txHw - 1 /\ tc' = (tc \/ txHw = 1)
        /\ serPc' = serPc /\ serPc # "TC"
    BY <1>10 DEF UartShift
  <2>2. txHw = 1 \/ txHw' > 0
    BY <2>1
  <2> QED
    BY <2>1, <2>2
<1>11. CASE LineByte \/ TimerExpires
  BY <1>11 DEF LineByte, TimerExpires
<1>12. ASSUME NEW r \in Requests, BeginFrame(r) PROVE TransmitterArmed'
  BY <1>12 DEF BeginFrame
<1>13. CASE eMBPollEmpty \/ USART2_ORE \/ UNCHANGED vars
  BY <1>13 DEF eMBPollEmpty, USART2_ORE, vars
<1> QED
  BY <1>1, <1>2, <1>3, <1>4, <1>5, <1>6, <1>7, <1>8, <1>9, <1>10, <1>11, <1>12, <1>13
     DEF Next, Serial, Timer, Task, Hardware

(* No transmission is left without the interrupt that continues it, when   *)
(* nothing holds USART2_IRQHandler for a character time between the state  *)
(* machine of the transmitter and the clearing of TC (portserial.c:133);   *)
(* a handler of a received byte may be held as long as one likes.          *)
THEOREM TransmitterKeepsInterrupt ==
  ASSUME ~StopWhileSending, "TC" \notin StallsAfter PROVE Spec => []TransmitterArmed
<1>1. Init => TransmitterArmed
  BY DEF Init, TransmitterArmed
<1>2. Typed => txHw \in 0..2
  BY DEF Typed, TypeOK, NumberTypes
<1>3. Typed' => txHw' \in 0..2
  BY DEF Typed, TypeOK, NumberTypes
<1>4. TransmitterArmed /\ DuplexInv /\ Typed /\ Typed' /\ [Next]_vars => TransmitterArmed'
  BY <1>2, <1>3, StepArmed DEF ArmedInv
<1> QED
  BY <1>1, <1>4, AlwaysTyped, AlwaysDuplex, PTL DEF Spec

-----------------------------------------------------------------------------
(* Whole frames.  With a master that waits for its answer, a request goes  *)
(* through the slave in stages, one at a time, and the shared buffer holds *)
(* what the stage is about.  The application may stop and restart the      *)
(* slave as often as it likes, as long as it is not sending, and other     *)
(* interrupts may delay USART2_IRQHandler.                                 *)
PatientMaster == Timing = "patient" /\ ~StopWhileSending

(* The frame on the line, or the last one that was. *)
Begun == Len(frames)
Last  == frames[Begun]

(* The stages of a request once t3.5 has ended its frame. *)
Queued(e)  == xEventInQueue /\ eQueuedEvent = e
HasRead(e) == mainPc = "clear" /\ eEvent = e
Handling   == mainPc \in {"receive", "post", "execute", "respond", "send"}

Received == Queued("EV_FRAME_RECEIVED") \/ HasRead("EV_FRAME_RECEIVED") \/ mainPc = "receive"
Accepted ==
  Queued("EV_EXECUTE") \/ HasRead("EV_EXECUTE") \/ mainPc \in {"post", "execute", "respond"}
Sending  == eSndState = "TX_XMIT"
Busy     == Received \/ Accepted \/ mainPc = "send" \/ Sending

(* There is at most one request in the slave, and it is at one stage. *)
OneRequest ==
  /\ Handling \/ Sending => ~Queued("EV_FRAME_RECEIVED") /\ ~Queued("EV_EXECUTE")
  /\ Handling => ~Sending
  /\ HasRead("EV_FRAME_RECEIVED") => ~Sending /\ ~Queued("EV_EXECUTE")
  /\ HasRead("EV_EXECUTE") => ~Sending /\ ~Queued("EV_FRAME_RECEIVED")

(* An enabled slave listens unless it sends. *)
Enables == (rxIE <=> eMBState = "ENABLED" /\ ~Sending) /\ (tcIE => Sending)

(* t3.5 expires between frames only, and no received byte waits then; a    *)
(* stopped slave has no timer that would end what it has half received.    *)
LineInv ==
  /\ wpos <= IF Begun = 0 THEN 0 ELSE Traffic[Last].len
  /\ mainPc \in {"init", "initEvent"} => Begun = 0 /\ eRcvState \in {"RX_INIT", "RX_IDLE"}
  /\ serPc = "RXNE" => ~rxne
  /\ timPc # "off" \/ TimerIrq => (LineIdle \/ wpos = 0) /\ ~(rxne /\ rxIE)
  /\ eMBState # "ENABLED" /\ eRcvState = "RX_RCV" => ~timOn /\ timPc = "off"

(* Nothing arrives while a request is in the slave. *)
BusyInv ==
  Busy => /\ Begun > 0 /\ LineIdle /\ ~rxne
          /\ eRcvState = "RX_RCV" => timPc \in {"disable", "idle"}

(* The first usRcvBufferPos bytes of the buffer are those of the frame. *)
Copied == \A i \in 0..(usRcvBufferPos - 1) : ucRTUBuf[i] = WireByte(Last, i)

(* The receiver is in step with the line: idle until the first byte, then  *)
(* behind by the byte that waits in the data register.                     *)
IdleInv ==
  eMBState = "ENABLED" /\ eRcvState = "RX_IDLE" =>
    \/ ~rxne /\ (wpos = 0 \/ LineIdle)
    \/ rxne /\ wpos = 1 /\ Begun > 0 /\ rdr = WireByte(Last, 0)
RcvInv ==
  eMBState = "ENABLED" /\ eRcvState = "RX_RCV" =>
    /\ Begun > 0 /\ usRcvBufferPos > 0 /\ Copied
    /\ wpos = usRcvBufferPos + (IF rxne THEN 1 ELSE 0)
    /\ rxne => rdr = WireByte(Last, usRcvBufferPos)

ControlInv == OneRequest /\ Enables /\ LineInv /\ BusyInv

-----------------------------------------------------------------------------
LEMMA OneRequestKept == ASSUME OneRequest, BusyInv, [Next]_vars PROVE OneRequest'
<1> USE DEF uart, enables, timer, rcvVars, sndVars, mailbox, pollVars, wire, control,
            OneRequest, Queued, HasRead, Handling, Sending
<1>1. CASE USART2_RXNE \/ USART2_Clear \/ USART2_ORE \/ eMBPollEmpty \/ UNCHANGED vars
  BY <1>1 DEF USART2_RXNE, USART2_Clear, USART2_ORE, eMBPollEmpty, vars
<1>2. CASE USART2_TC
  BY <1>2 DEF USART2_TC, xMBRTUTransmitFSM, xMBPortEventPost
<1>3. CASE TIM2_Post
  BY <1>3 DEF TIM2_Post, T35Event, xMBPortEventPost, BusyInv, Busy, Received, Accepted
<1>4. CASE TIM2_Disable \/ TIM2_Idle \/ TIM2_Clear
  BY <1>4 DEF TIM2_Disable, TIM2_Idle, TIM2_Clear
<1>5. CASE eMBRTUInit \/ eMBInitEvent \/ eMBEnable \/ eMBDisable
  BY <1>5 DEF eMBRTUInit, eMBInitEvent, eMBEnable, eMBDisable, AtPc
<1>6. CASE xMBPortEventRead
  BY <1>6 DEF xMBPortEventRead, AtPc
<1>7. CASE xMBPortEventClear
  BY <1>7 DEF xMBPortEventClear
<1>8. CASE eMBRTUReceive
  BY <1>8 DEF eMBRTUReceive
<1>9. CASE PostExecute
  BY <1>9 DEF PostExecute, AtPc, xMBPortEventPost
<1>10. CASE ReadRequest \/ WriteResponse
  BY <1>10 DEF ReadRequest, WriteResponse, AtPc
<1>11. CASE eMBRTUSend
  BY <1>11 DEF eMBRTUSend, AtPc
<1>12. CASE Hardware \/ (\E r \in Requests : BeginFrame(r))
  BY <1>12 DEF Hardware, UartShift, LineByte, TimerExpires, BeginFrame
<1> QED
  BY <1>1, <1>2, <1>3, <1>4, <1>5, <1>6, <1>7, <1>8, <1>9, <1>10, <1>11, <1>12
     DEF Next, Serial, Timer, Task

LEMMA EnablesKept == ASSUME PatientMaster, Typed, Enables, DuplexInv, [Next]_vars PROVE Enables'
<1> USE DEF uart, enables, timer, rcvVars, sndVars, mailbox, pollVars, wire, control,
            Enables, Sending
<1>0. eSndState \in {"TX_IDLE", "TX_XMIT"} /\ rxIE \in BOOLEAN /\ tcIE \in BOOLEAN
  BY DEF Typed, TypeOK, StateTypes, FlagTypes
<1>1. CASE USART2_RXNE \/ USART2_Clear \/ USART2_ORE \/ eMBPollEmpty \/ UNCHANGED vars
  BY <1>1 DEF USART2_RXNE, USART2_Clear, USART2_ORE, eMBPollEmpty, vars
<1>2. CASE USART2_TC
  BY <1>0, <1>2 DEF USART2_TC, xMBRTUTransmitFSM, vMBPortSerialEnable, DuplexInv
<1>3. CASE Timer
  BY <1>3 DEF Timer, TIM2_Post, TIM2_Disable, TIM2_Idle, TIM2_Clear
<1>4. CASE eMBRTUInit \/ eMBInitEvent
  BY <1>4 DEF eMBRTUInit, eMBInitEvent, AtPc, DuplexInv
<1>5. CASE eMBEnable
  BY <1>5 DEF eMBEnable, AtPc, eMBRTUStart, vMBPortSerialEnable, DuplexInv
<1>6. CASE eMBDisable
  BY <1>6 DEF eMBDisable, AtPc, eMBRTUStop, vMBPortSerialEnable, PatientMaster
<1>7. CASE xMBPortEventRead \/ xMBPortEventClear \/ PostExecute \/ ReadRequest
  BY <1>7 DEF xMBPortEventRead, xMBPortEventClear, PostExecute, ReadRequest
<1>8. CASE eMBRTUReceive \/ WriteResponse
  BY <1>8 DEF eMBRTUReceive, WriteResponse
<1>9. CASE eMBRTUSend
  BY <1>9 DEF eMBRTUSend, AtPc, StartTransmit, vMBPortSerialEnable
<1>10. CASE Hardware \/ (\E r \in Requests : BeginFrame(r))
  BY <1>10 DEF Hardware, UartShift, LineByte, TimerExpires, BeginFrame
<1> QED
  BY <1>1, <1>2, <1>3, <1>4, <1>5, <1>6, <1>7, <1>8, <1>9, <1>10 DEF Next, Serial, Task

(* What begins or continues a frame. *)
LEMMA LineFacts ==
  ASSUME Typed
  PROVE  /\ Begun \in Nat /\ wpos \in Nat
         /\ Begun = 0 <=> frames = <<>>
         /\ Begun > 0 => /\ Last \in Requests /\ Traffic[Last] \in FrameKind
                         /\ Traffic[Last].len \in Nat \ {0}
         /\ LineIdle <=> Begun = 0 \/ wpos = Traffic[Last].len
BY TrafficAssumption DEF Typed, TypeOK, WireTypes, Begun, Last, LineIdle, FrameKind

LEMMA FrameBegins ==
  ASSUME Typed, NEW r \in Requests, BeginFrame(r)
  PROVE  /\ Begun' = Begun + 1 /\ Last' = r /\ wpos' = 0
         /\ ~LineIdle' /\ \A n \in 1..Begun : frames'[n] = frames[n]
<1>1. frames \in Seq(Requests) /\ frames' = Append(frames, r) /\ wpos' = 0
  BY DEF BeginFrame, Typed, TypeOK, WireTypes
<1>2. /\ Len(frames') = Len(frames) + 1 /\ frames'[Len(frames) + 1] = r /\ frames' # <<>>
      /\ \A n \in 1..Len(frames) : frames'[n] = frames[n]
  BY <1>1
<1>3. Traffic[r].len # 0
  BY TrafficAssumption DEF FrameKind
<1> QED
  BY <1>1, <1>2, <1>3 DEF Begun, Last, LineIdle

LEMMA LineKept ==
  ASSUME PatientMaster, Typed, DuplexInv, ControlInv, [Next]_vars PROVE LineInv'
<1> USE DEF uart, enables, timer, rcvVars, sndVars, mailbox, pollVars, wire, control,
            ControlInv, LineInv, TimerIrq
<1>0. UNCHANGED frames => Begun' = Begun /\ Last' = Last /\ (wpos' = wpos => (LineIdle' <=> LineIdle))
  BY DEF Begun, Last, LineIdle
<1>1. CASE USART2_RXNE
  <2>1. timPc = "off" /\ eMBState = "ENABLED" /\ mainPc \notin {"init", "initEvent"}
    BY <1>1 DEF USART2_RXNE, Enables, DuplexInv
  <2> QED
    BY <1>0, <1>1, <2>1 DEF USART2_RXNE, xMBRTUReceiveFSM, vMBPortTimersEnable
<1>2. CASE USART2_TC
  BY <1>0, <1>2 DEF USART2_TC, xMBRTUTransmitFSM, vMBPortSerialEnable, BusyInv, Busy,
                    Enables
<1>3. CASE USART2_Clear \/ USART2_ORE \/ eMBPollEmpty \/ UNCHANGED vars
  <2>1. /\ UNCHANGED <<frames, wpos, rxIE, timer, timPc, mainPc, eMBState, eRcvState>>
        /\ rxne' => rxne
        /\ serPc' = "RXNE" => serPc = "RXNE"
    <3>1. CASE USART2_Clear
      BY Zenon, <3>1 DEF USART2_Clear
    <3>2. CASE UNCHANGED vars
      BY <3>2 DEF vars
    <3> QED
      BY <1>3, <3>1, <3>2 DEF USART2_ORE, eMBPollEmpty
  <2> QED
    BY <1>0, <2>1
<1>4. CASE TIM2_Post
  BY <1>0, <1>4 DEF TIM2_Post
<1>5. CASE TIM2_Disable \/ TIM2_Idle \/ TIM2_Clear
  BY <1>0, <1>5 DEF TIM2_Disable, TIM2_Idle, TIM2_Clear, vMBPortTimersDisable
<1>6. CASE eMBRTUInit
  <2>1. Begun = 0 /\ wpos <= 0 /\ wpos \in Nat /\ ~rxIE
    BY <1>6, LineFacts DEF eMBRTUInit, AtPc, Enables, DuplexInv
  <2>2. wpos = 0
    BY <2>1
  <2> QED
    BY <1>0, <1>6, <2>1, <2>2 DEF eMBRTUInit, AtPc
<1>7. CASE eMBInitEvent
  BY <1>0, <1>7 DEF eMBInitEvent, AtPc
<1>8. CASE eMBEnable
  BY <1>0, <1>8 DEF eMBEnable, AtPc, MainMayRun, eMBRTUStart, vMBPortSerialEnable,
                    vMBPortTimersEnable
<1>9. CASE eMBDisable
  BY <1>0, <1>9 DEF eMBDisable, AtPc, MainMayRun, eMBRTUStop, vMBPortSerialEnable,
                    vMBPortTimersDisable
<1>10. CASE xMBPortEventRead \/ xMBPortEventClear \/ PostExecute \/ ReadRequest
  BY <1>0, <1>10 DEF xMBPortEventRead, xMBPortEventClear, PostExecute, ReadRequest, AtPc
<1>11. CASE eMBRTUReceive \/ WriteResponse
  BY <1>0, <1>11 DEF eMBRTUReceive, WriteResponse
<1>12. CASE eMBRTUSend
  BY <1>0, <1>12 DEF eMBRTUSend, AtPc, MainMayRun, StartTransmit, vMBPortSerialEnable
<1>13. CASE UartShift
  BY <1>0, <1>13 DEF UartShift
<1>14. CASE LineByte
  <2>1. /\ serPc = "off" /\ ~LineIdle /\ (wpos = 0 => ~timOn /\ timPc = "off")
        /\ UNCHANGED <<timer, serPc, timPc, mainPc, eMBState, eRcvState>> /\ wpos' = wpos + 1
    BY <1>14 DEF LineByte, ByteInTime, PatientMaster
  <2>2. timPc = "off" /\ ~TimerIrq
    BY <2>1
  <2>3. wpos + 1 <= IF Begun = 0 THEN 0 ELSE Traffic[Last].len
    <3>1. Begun # 0 /\ wpos \in Nat /\ Traffic[Last].len \in Nat /\ wpos # Traffic[Last].len
      BY <2>1, LineFacts
    <3> QED
      BY <3>1
  <2>4. Begun' = Begun /\ Last' = Last
    BY <1>14 DEF LineByte, Begun, Last
  <2> QED
    BY <2>1, <2>2, <2>3, <2>4
<1>15. CASE TimerExpires
  BY <1>0, <1>15 DEF TimerExpires, ExpiryInTime, PatientMaster
<1>16. ASSUME NEW r \in Requests, BeginFrame(r) PROVE LineInv'
  <2>1. Begun' = Begun + 1 /\ Last' = r /\ wpos' = 0 /\ Begun \in Nat /\ Traffic[r].len \in Nat
    BY <1>16, FrameBegins, LineFacts, TrafficAssumption DEF FrameKind
  <2>2. /\ mainPc = "poll" /\ timPc = "off" /\ ~timOn /\ serPc = "off" /\ eMBState = "ENABLED"
        /\ UNCHANGED <<rxne, rxIE, timer, serPc, timPc, mainPc, eMBState, eRcvState>>
    BY <1>16 DEF BeginFrame, Quiet, PatientMaster, MainMayRun, TimerMayRun
  <2>3. wpos' <= IF Begun' = 0 THEN 0 ELSE Traffic[Last'].len
    BY <2>1
  <2> QED
    BY <2>2, <2>3
<1> QED
  BY <1>1, <1>2, <1>3, <1>4, <1>5, <1>6, <1>7, <1>8, <1>9, <1>10, <1>11, <1>12, <1>13, <1>14, <1>15,
     <1>16 DEF Next, Serial, Timer, Task, Hardware

(* When t3.5 ends a frame, the whole of it has been received and the slave *)
(* has nothing else to do.                                                 *)
LEMMA FrameEnds ==
  ASSUME Typed, DuplexInv, ControlInv, RcvInv, TIM2_Post, eRcvState = "RX_RCV"
  PROVE  /\ ~Busy /\ ~rxne /\ Begun > 0 /\ LineIdle /\ eMBState = "ENABLED" /\ Copied
         /\ wpos = Traffic[Last].len /\ usRcvBufferPos = wpos
<1>1. timPc = "off" /\ timFlag /\ timOn /\ serPc = "off" /\ ~(rxne /\ rxIE)
  BY DEF TIM2_Post, TimerIrq, TimerMayRun, SerialIrq
<1>2. ~Busy /\ eMBState = "ENABLED"
  BY <1>1 DEF ControlInv, BusyInv, LineInv
<1>3. ~rxne
  BY <1>1, <1>2 DEF ControlInv, Enables, Busy
<1>4. Begun > 0 /\ usRcvBufferPos > 0 /\ Copied /\ wpos = usRcvBufferPos
  BY <1>2, <1>3 DEF RcvInv, Typed, TypeOK, NumberTypes
<1>5. LineIdle
  BY <1>1, <1>4 DEF ControlInv, LineInv, TimerIrq
<1> QED
  BY <1>2, <1>3, <1>4, <1>5, LineFacts

LEMMA BusyKept ==
  ASSUME PatientMaster, Typed, DuplexInv, ControlInv, RcvInv, [Next]_vars PROVE BusyInv'
<1> USE DEF uart, enables, timer, rcvVars, sndVars, mailbox, pollVars, wire, control,
            BusyInv, Busy, Received, Accepted, Queued, HasRead, Sending, Begun, LineIdle
<1>0. BusyInv
  BY DEF ControlInv
<1>1. CASE USART2_RXNE
  BY <1>0, <1>1 DEF USART2_RXNE
<1>2. CASE USART2_TC
  BY <1>0, <1>2 DEF USART2_TC, xMBRTUTransmitFSM, xMBPortEventPost
<1>3. CASE USART2_Clear \/ USART2_ORE \/ eMBPollEmpty \/ UNCHANGED vars
  BY <1>0, <1>3 DEF USART2_Clear, USART2_ORE, eMBPollEmpty, vars
<1>4. CASE TIM2_Post
  <2>1. CASE eRcvState = "RX_RCV"
    <3>1. ~rxne /\ Len(frames) > 0 /\ LineIdle
      BY <1>4, <2>1, FrameEnds
    <3> QED
      BY <1>4, <3>1 DEF TIM2_Post
  <2>2. CASE eRcvState # "RX_RCV"
    BY <1>0, <1>4, <2>2 DEF TIM2_Post, T35Event, xMBPortEventPost
  <2> QED
    BY <2>1, <2>2
<1>5. CASE TIM2_Disable \/ TIM2_Idle \/ TIM2_Clear
  BY <1>0, <1>5 DEF TIM2_Disable, TIM2_Idle, TIM2_Clear
<1>6. CASE eMBRTUInit \/ eMBInitEvent
  BY <1>0, <1>6 DEF eMBRTUInit, eMBInitEvent, AtPc
<1>7. CASE eMBEnable
  BY <1>0, <1>7 DEF eMBEnable, AtPc, eMBRTUStart
<1>8. CASE eMBDisable
  BY <1>0, <1>8 DEF eMBDisable, AtPc
<1>9. CASE xMBPortEventRead
  BY <1>0, <1>9 DEF xMBPortEventRead, AtPc
<1>10. CASE xMBPortEventClear
  BY <1>0, <1>10 DEF xMBPortEventClear
<1>11. CASE PostExecute
  BY <1>0, <1>11 DEF PostExecute, AtPc, xMBPortEventPost
<1>12. CASE ReadRequest
  BY <1>0, <1>12 DEF ReadRequest, AtPc
<1>13. CASE eMBRTUReceive
  BY <1>0, <1>13 DEF eMBRTUReceive
<1>14. CASE WriteResponse
  BY <1>0, <1>14 DEF WriteResponse
<1>15. CASE eMBRTUSend
  BY <1>0, <1>15 DEF eMBRTUSend, AtPc
<1>16. CASE UartShift \/ TimerExpires
  BY <1>0, <1>16 DEF UartShift, TimerExpires
<1>17. CASE LineByte
  BY <1>0, <1>17 DEF LineByte
<1>18. ASSUME NEW r \in Requests, BeginFrame(r) PROVE BusyInv'
  BY <1>18 DEF BeginFrame, Quiet, PatientMaster
<1> QED
  BY <1>1, <1>2, <1>3, <1>4, <1>5, <1>6, <1>7, <1>8, <1>9, <1>10, <1>11, <1>12, <1>13, <1>14, <1>15,
     <1>16, <1>17, <1>18 DEF Next, Serial, Timer, Task, Hardware

(* A byte that arrives finds the data register empty, or nobody reads it. *)
LEMMA ByteArrives ==
  ASSUME PatientMaster, Typed, ControlInv, LineByte
  PROVE  /\ serPc = "off" /\ ~LineIdle /\ Begun > 0 /\ ~Busy
         /\ eMBState = "ENABLED" => ~rxne /\ rdr' = WireByte(Last, wpos)
         /\ UNCHANGED <<frames, eMBState, eRcvState, usRcvBufferPos, ucRTUBuf>>
         /\ rxne' = TRUE /\ wpos' = wpos + 1
<1>1. serPc = "off" /\ ~LineIdle /\ ~(rxne /\ rxIE)
  BY DEF LineByte, ByteInTime, PatientMaster
<1>2. Begun > 0 /\ ~Busy
  BY <1>1, LineFacts DEF ControlInv, BusyInv
<1>3. eMBState = "ENABLED" => ~rxne
  BY <1>1, <1>2 DEF ControlInv, Enables, Busy
<1> QED
  BY <1>1, <1>2, <1>3 DEF LineByte, Last, Begun, wire, rcvVars, control

LEMMA IdleKept ==
  ASSUME PatientMaster, Typed, DuplexInv, ControlInv, IdleInv, RcvInv, [Next]_vars PROVE IdleInv'
<1> USE DEF uart, enables, timer, rcvVars, sndVars, mailbox, pollVars, wire, control,
            IdleInv, Begun, Last, LineIdle
<1>1. CASE USART2_RXNE
  BY <1>1 DEF USART2_RXNE, xMBRTUReceiveFSM
<1>2. CASE USART2_TC
  BY <1>2 DEF USART2_TC
<1>3. CASE USART2_Clear
  BY <1>3 DEF USART2_Clear, ControlInv, LineInv
<1>4. CASE USART2_ORE \/ eMBPollEmpty \/ UNCHANGED vars
  BY <1>4 DEF USART2_ORE, eMBPollEmpty, vars
<1>5. CASE TIM2_Post \/ TIM2_Disable \/ TIM2_Clear
  BY <1>5 DEF TIM2_Post, TIM2_Disable, TIM2_Clear
<1>6. CASE TIM2_Idle
  <2>1. (LineIdle \/ wpos = 0) /\ ~(rxne /\ rxIE)
    BY <1>6 DEF TIM2_Idle, ControlInv, LineInv
  <2>2. eMBState = "ENABLED" => ~rxne
    BY <2>1 DEF ControlInv, Enables, BusyInv, Busy
  <2> QED
    BY <1>6, <2>1, <2>2 DEF TIM2_Idle
<1>7. CASE eMBRTUInit \/ eMBInitEvent \/ eMBEnable \/ eMBDisable
  BY <1>7 DEF eMBRTUInit, eMBInitEvent, eMBEnable, eMBDisable, AtPc, eMBRTUStart
<1>8. CASE xMBPortEventRead \/ xMBPortEventClear \/ PostExecute \/ ReadRequest
  BY <1>8 DEF xMBPortEventRead, xMBPortEventClear, PostExecute, ReadRequest
<1>9. CASE eMBRTUReceive \/ WriteResponse \/ eMBRTUSend
  BY <1>9 DEF eMBRTUReceive, WriteResponse, eMBRTUSend
<1>10. CASE UartShift \/ TimerExpires
  BY <1>10 DEF UartShift, TimerExpires
<1>11. CASE LineByte
  <2>1. /\ Begun > 0 /\ ~LineIdle
        /\ eMBState = "ENABLED" => ~rxne /\ rdr' = WireByte(Last, wpos)
        /\ UNCHANGED <<frames, eMBState, eRcvState>> /\ rxne' = TRUE /\ wpos' = wpos + 1
    BY <1>11, ByteArrives
  <2>2. eMBState = "ENABLED" /\ eRcvState = "RX_IDLE" => wpos = 0
    BY <2>1
  <2> QED
    BY <2>1, <2>2
<1>12. ASSUME NEW r \in Requests, BeginFrame(r) PROVE IdleInv'
  <2>1. ~rxne
    BY <1>12 DEF BeginFrame, Quiet, PatientMaster, MainMayRun, TimerMayRun, SerialIrq,
                 ControlInv, Enables, Sending
  <2>2. wpos' = 0 /\ rxne' = rxne
    BY <1>12 DEF BeginFrame
  <2> QED
    BY <2>1, <2>2
<1> QED
  BY <1>1, <1>2, <1>3, <1>4, <1>5, <1>6, <1>7, <1>8, <1>9, <1>10, <1>11, <1>12
     DEF Next, Serial, Timer, Task, Hardware

(* The main loop and a receiver in RX_RCV never touch the buffer together. *)
LEMMA NotReceiving ==
  ASSUME ControlInv, MainMayRun, Handling PROVE eRcvState # "RX_RCV"
BY DEF ControlInv, BusyInv, Busy, Received, Accepted, Handling, MainMayRun

LEMMA RcvKept ==
  ASSUME PatientMaster, Typed, DuplexInv, ControlInv, IdleInv, RcvInv, [Next]_vars PROVE RcvInv'
<1> USE DEF uart, enables, timer, rcvVars, sndVars, mailbox, pollVars, wire, control,
            RcvInv, Begun, Last, Copied
<1>1. CASE USART2_RXNE
  <2>0. /\ rxne /\ rxne' = FALSE /\ UNCHANGED <<frames, wpos, eMBState>> /\ xMBRTUReceiveFSM
        /\ ucRTUBuf \in [0..(BufMax - 1) -> Byte] /\ usRcvBufferPos \in 0..BufMax /\ BufMax \in Nat
        /\ eMBState = "ENABLED"
    BY <1>1, BufMaxAssumption DEF USART2_RXNE, Typed, TypeOK, ByteTypes, NumberTypes,
                                  ControlInv, Enables
  <2>1. CASE eRcvState \in {"RX_INIT", "RX_ERROR"}
    BY <2>0, <2>1 DEF xMBRTUReceiveFSM
  <2>2. CASE eRcvState = "RX_IDLE"
    <3>1. wpos = 1 /\ Begun > 0 /\ rdr = WireByte(Last, 0)
      BY <2>0, <2>2 DEF IdleInv
    <3>2. usRcvBufferPos' = 1 /\ ucRTUBuf'[0] = rdr
      BY <2>0, <2>2, BufMaxAssumption DEF xMBRTUReceiveFSM, StoreByte, MB_SER_PDU_SIZE_MIN
    <3>3. \A i \in 0..(usRcvBufferPos' - 1) : i = 0
      BY <3>2
    <3> QED
      BY <2>0, <3>1, <3>2, <3>3
  <2>3. CASE eRcvState = "RX_RCV" /\ usRcvBufferPos < BufMax
    <3>1. usRcvBufferPos' = usRcvBufferPos + 1 /\ ucRTUBuf' = [ucRTUBuf EXCEPT ![usRcvBufferPos] = rdr]
      BY <2>0, <2>3 DEF xMBRTUReceiveFSM, StoreByte
    <3>2. /\ usRcvBufferPos > 0 /\ wpos = usRcvBufferPos + 1 /\ rdr = WireByte(Last, usRcvBufferPos)
          /\ Copied /\ Begun > 0
      BY <2>0, <2>3
    <3>3. \A i \in 0..usRcvBufferPos : ucRTUBuf'[i] = WireByte(Last, i)
      BY <2>0, <2>3, <3>1, <3>2
    <3>4. usRcvBufferPos' - 1 = usRcvBufferPos /\ Last' = Last
      BY <2>0, <3>1
    <3>5. Copied'
      BY <3>3, <3>4
    <3> QED
      BY <2>0, <3>1, <3>2, <3>5
  <2>4. CASE eRcvState = "RX_RCV" /\ usRcvBufferPos >= BufMax
    BY <2>0, <2>4 DEF xMBRTUReceiveFSM
  <2> QED
    BY <2>0, <2>1, <2>2, <2>3, <2>4 DEF xMBRTUReceiveFSM
<1>2. CASE USART2_TC
  BY <1>2 DEF USART2_TC
<1>3. CASE USART2_Clear
  BY <1>3 DEF USART2_Clear, ControlInv, LineInv
<1>4. CASE USART2_ORE \/ eMBPollEmpty \/ UNCHANGED vars
  BY <1>4 DEF USART2_ORE, eMBPollEmpty, vars
<1>5. CASE Timer
  BY <1>5 DEF Timer, TIM2_Post, TIM2_Disable, TIM2_Idle, TIM2_Clear
<1>6. CASE eMBRTUInit \/ eMBInitEvent \/ eMBEnable \/ eMBDisable
  BY <1>6 DEF eMBRTUInit, eMBInitEvent, eMBEnable, eMBDisable, AtPc, eMBRTUStart
<1>7. CASE xMBPortEventRead \/ xMBPortEventClear \/ PostExecute \/ ReadRequest \/ eMBRTUReceive
  BY <1>7 DEF xMBPortEventRead, xMBPortEventClear, PostExecute, ReadRequest, eMBRTUReceive
<1>8. CASE WriteResponse \/ eMBRTUSend
  <2>1. eRcvState # "RX_RCV" /\ eRcvState' = eRcvState
    BY <1>8, NotReceiving DEF WriteResponse, eMBRTUSend, AtPc, Handling
  <2> QED
    BY <2>1
<1>9. CASE UartShift \/ TimerExpires
  BY <1>9 DEF UartShift, TimerExpires
<1>10. CASE LineByte
  <2>1. /\ eMBState = "ENABLED" => ~rxne /\ rdr' = WireByte(Last, wpos)
        /\ UNCHANGED <<frames, eMBState, eRcvState, usRcvBufferPos, ucRTUBuf>>
        /\ rxne' = TRUE /\ wpos' = wpos + 1
    BY <1>10, ByteArrives
  <2>2. usRcvBufferPos \in Nat
    BY DEF Typed, TypeOK, NumberTypes
  <2> QED
    BY <2>1, <2>2
<1>11. ASSUME NEW r \in Requests, BeginFrame(r) PROVE RcvInv'
  BY <1>11 DEF BeginFrame, Quiet, PatientMaster
<1> QED
  BY <1>1, <1>2, <1>3, <1>4, <1>5, <1>6, <1>7, <1>8, <1>9, <1>10, <1>11
     DEF Next, Serial, Task, Hardware

-----------------------------------------------------------------------------
(* What the shared buffer holds at each stage: the frame as it was sent ... *)
Held == usRcvBufferPos = Traffic[Last].len /\ Copied

(* ... which eMBRTUReceive has found undamaged and for this slave ... *)
Taken ==
  /\ Traffic[Last].good /\ Traffic[Last].addr # "other"
  /\ Traffic[Last].len >= MB_SER_PDU_SIZE_MIN
  /\ usLength + 3 = Traffic[Last].len /\ taken = Begun /\ ucRcvAddress = Traffic[Last].addr
  /\ mainPc = "respond" => ucFunctionCode = WireByte(Last, 1)

(* ... then the answer to it ... *)
Answer ==
  /\ NeedsAnswer(Begun) /\ taken = Begun /\ usLength >= 1
  /\ \/ \A i \in 1..usLength : ucRTUBuf[i] = RespByte(Last, i)
     \/ /\ Traffic[Last].echo /\ usLength + 3 = Traffic[Last].len
        /\ \A i \in 1..usLength : ucRTUBuf[i] = WireByte(Last, i)

(* ... of which the line has carried as much as the transmitter has read.  *)
Transmitted ==
  /\ pucSndBufferCur + usSndBufferCount = usLength + 3
  /\ Len(line) = pucSndBufferCur /\ pucSndBufferCur > 0
  /\ \A k \in 1..pucSndBufferCur : line[k] = ucRTUBuf[k - 1]
  /\ ucRTUBuf[0] = SlaveAddress
  /\ ucRTUBuf[usLength + 1] = CRC16(usLength, 0) /\ ucRTUBuf[usLength + 2] = CRC16(usLength, 1)

(* TC is the end of the last byte, except before the second one.           *)
ShiftInv ==
  /\ ~Sending => txHw = 0
  /\ Sending /\ tc /\ serPc # "TC" => txHw = 0 \/ usSndBufferCount = usLength + 2

HeldInv  == Received \/ Accepted => Held
TakenInv == Accepted => Taken
SendInv  == (mainPc = "send" \/ Sending => Answer) /\ (Sending => Transmitted)

(* The inductive invariant. *)
PatientInv ==
  ControlInv /\ IdleInv /\ RcvInv /\ HeldInv /\ TakenInv /\ SendInv /\ ShiftInv /\ AnswersOnlyOwn

-----------------------------------------------------------------------------
LEMMA HeldKept ==
  ASSUME PatientMaster, Typed, DuplexInv, ControlInv, RcvInv, HeldInv, [Next]_vars PROVE HeldInv'
<1> USE DEF uart, enables, timer, rcvVars, sndVars, mailbox, pollVars, wire, control,
            HeldInv, Held, Copied, Begun, Last, Received, Accepted, Queued, HasRead
<1>1. CASE USART2_RXNE
  BY <1>1 DEF USART2_RXNE, ControlInv, BusyInv, Busy
<1>2. CASE USART2_TC
  BY <1>2 DEF USART2_TC, xMBRTUTransmitFSM, xMBPortEventPost
<1>3. CASE USART2_Clear \/ USART2_ORE \/ eMBPollEmpty \/ UNCHANGED vars
  BY <1>3 DEF USART2_Clear, USART2_ORE, eMBPollEmpty, vars
<1>4. CASE TIM2_Post
  <2>1. CASE eRcvState = "RX_RCV"
    BY <1>4, <2>1, FrameEnds DEF TIM2_Post
  <2>2. CASE eRcvState # "RX_RCV"
    BY <1>4, <2>2 DEF TIM2_Post, T35Event, xMBPortEventPost
  <2> QED
    BY <2>1, <2>2
<1>5. CASE TIM2_Disable \/ TIM2_Idle \/ TIM2_Clear
  BY <1>5 DEF TIM2_Disable, TIM2_Idle, TIM2_Clear
<1>6. CASE eMBRTUInit \/ eMBInitEvent \/ eMBEnable \/ eMBDisable
  BY <1>6 DEF eMBRTUInit, eMBInitEvent, eMBEnable, eMBDisable, AtPc
<1>7. CASE xMBPortEventRead
  BY <1>7 DEF xMBPortEventRead, AtPc
<1>8. CASE xMBPortEventClear
  BY <1>8 DEF xMBPortEventClear
<1>9. CASE PostExecute
  BY <1>9 DEF PostExecute, AtPc, xMBPortEventPost
<1>10. CASE ReadRequest
  BY <1>10 DEF ReadRequest, AtPc
<1>11. CASE eMBRTUReceive
  BY <1>11 DEF eMBRTUReceive
<1>12. CASE WriteResponse \/ eMBRTUSend
  BY <1>12 DEF WriteResponse, eMBRTUSend, AtPc, ControlInv, OneRequest, Handling
<1>13. CASE Hardware
  BY <1>13 DEF Hardware, UartShift, LineByte, TimerExpires
<1>14. ASSUME NEW r \in Requests, BeginFrame(r) PROVE HeldInv'
  BY <1>14 DEF BeginFrame, Quiet, PatientMaster
<1> QED
  BY <1>1, <1>2, <1>3, <1>4, <1>5, <1>6, <1>7, <1>8, <1>9, <1>10, <1>11, <1>12, <1>13, <1>14
     DEF Next, Serial, Timer, Task

(* A frame eMBRTUReceive accepts is the one that is on the line. *)
LEMMA AcceptsLast ==
  ASSUME Typed, Begun > 0, Held, NEW r \in Requests, IsFrame(r, usRcvBufferPos),
         usRcvBufferPos >= MB_SER_PDU_SIZE_MIN
  PROVE  r = Last
<1>1. 1 \in 0..(usRcvBufferPos - 1)
  BY DEF Typed, TypeOK, NumberTypes, MB_SER_PDU_SIZE_MIN
<1>2. ucRTUBuf[1] = WireByte(r, 1) /\ ucRTUBuf[1] = WireByte(Last, 1)
  BY <1>1 DEF IsFrame, Held, Copied
<1> QED
  BY <1>2 DEF WireByte

LEMMA TakenKept ==
  ASSUME PatientMaster, Typed, ControlInv, HeldInv, TakenInv, [Next]_vars PROVE TakenInv'
<1> USE DEF uart, enables, timer, rcvVars, sndVars, mailbox, pollVars, wire, control,
            TakenInv, Taken, Begun, Last, Accepted, Queued, HasRead
<1>1. CASE USART2_RXNE
  BY <1>1 DEF USART2_RXNE
<1>2. CASE USART2_TC
  BY <1>2 DEF USART2_TC, xMBRTUTransmitFSM, xMBPortEventPost
<1>3. CASE USART2_Clear \/ USART2_ORE \/ eMBPollEmpty \/ UNCHANGED vars
  BY <1>3 DEF USART2_Clear, USART2_ORE, eMBPollEmpty, vars
<1>4. CASE TIM2_Post
  BY <1>4 DEF TIM2_Post, T35Event, xMBPortEventPost
<1>5. CASE TIM2_Disable \/ TIM2_Idle \/ TIM2_Clear
  BY <1>5 DEF TIM2_Disable, TIM2_Idle, TIM2_Clear
<1>6. CASE eMBRTUInit \/ eMBInitEvent \/ eMBEnable \/ eMBDisable
  BY <1>6 DEF eMBRTUInit, eMBInitEvent, eMBEnable, eMBDisable, AtPc
<1>7. CASE xMBPortEventRead
  BY <1>7 DEF xMBPortEventRead, AtPc
<1>8. CASE xMBPortEventClear
  BY <1>8 DEF xMBPortEventClear
<1>9. CASE PostExecute
  BY <1>9 DEF PostExecute, AtPc, xMBPortEventPost
<1>10. CASE ReadRequest
  <2>1. Taken /\ Held /\ usRcvBufferPos \in Nat
    BY <1>10 DEF ReadRequest, AtPc, HeldInv, Typed, TypeOK, NumberTypes
  <2>2. ucRTUBuf[1] = WireByte(Last, 1)
    BY <2>1 DEF Held, Copied, MB_SER_PDU_SIZE_MIN
  <2> QED
    BY <1>10, <2>1, <2>2 DEF ReadRequest, AtPc
<1>11. CASE eMBRTUReceive
  <2>1. Held /\ Begun > 0 /\ mainPc = "receive" /\ ~Queued("EV_EXECUTE")
    BY <1>11 DEF eMBRTUReceive, HeldInv, Received, ControlInv, BusyInv, Busy, OneRequest, Handling
  <2>2. ASSUME Accepted' PROVE Taken'
    <3>1. mainPc' = "post" /\ UNCHANGED <<frames, mailbox, eEvent>>
      BY <1>11, <2>1, <2>2 DEF eMBRTUReceive
    <3>2. PICK r \in Requests : /\ usRcvBufferPos >= MB_SER_PDU_SIZE_MIN
                                /\ IsFrame(r, usRcvBufferPos) /\ ucRcvAddress' = Traffic[r].addr
                                /\ usLength' = usRcvBufferPos - 3 /\ taken' = Len(frames)
                                /\ Traffic[r].addr # "other"
      BY <1>11, <3>1 DEF eMBRTUReceive
    <3>3. r = Last
      BY <2>1, <3>2, AcceptsLast
    <3>4. usRcvBufferPos \in Nat
      BY DEF Typed, TypeOK, NumberTypes
    <3> QED
      BY <3>1, <3>2, <3>3, <3>4 DEF IsFrame
  <2> QED
    BY <2>2
<1>12. CASE WriteResponse \/ eMBRTUSend
  BY <1>12 DEF WriteResponse, eMBRTUSend, AtPc, ControlInv, OneRequest, Handling
<1>13. CASE Hardware
  BY <1>13 DEF Hardware, UartShift, LineByte, TimerExpires
<1>14. ASSUME NEW r \in Requests, BeginFrame(r) PROVE TakenInv'
  BY <1>14 DEF BeginFrame, Quiet, PatientMaster
<1> QED
  BY <1>1, <1>2, <1>3, <1>4, <1>5, <1>6, <1>7, <1>8, <1>9, <1>10, <1>11, <1>12, <1>13, <1>14
     DEF Next, Serial, Timer, Task

(* The CRC depends on the PDU alone. *)
LEMMA SameCRC ==
  ASSUME NEW n \in Nat, NEW i \in Nat, \A j \in 1..n : ucRTUBuf'[j] = ucRTUBuf[j]
  PROVE  CRC16(n, i)' = CRC16(n, i)
<1> DEFINE repeats(b) == {r \in Requests :
                           /\ Traffic[r].good /\ Traffic[r].addr = "own" /\ Traffic[r].len = n + 3
                           /\ \A j \in 1..n : b[j] = WireByte(r, j)}
<1>1. repeats(ucRTUBuf') = repeats(ucRTUBuf)
  OBVIOUS
<1> DEFINE crc(b) == IF repeats(b) = {} THEN CrcByte(i)
                     ELSE WireByte(CHOOSE r \in repeats(b) : TRUE, n + 1 + i)
<1>2. CRC16(n, i) = crc(ucRTUBuf) /\ CRC16(n, i)' = crc(ucRTUBuf')
  BY DEF CRC16
<1>3. crc(ucRTUBuf') = crc(ucRTUBuf)
  <2> HIDE DEF repeats
  <2> QED
    BY <1>1
<1> QED
  BY <1>2, <1>3

(* The handler answers the request it has read. *)
LEMMA ResponseWritten ==
  ASSUME Typed, ControlInv, HeldInv, TakenInv, WriteResponse, mainPc' = "send" PROVE Answer'
<1>1. mainPc = "respond" /\ Held /\ Taken /\ ucRcvAddress # "broadcast" /\ Begun > 0
  BY DEF WriteResponse, HeldInv, TakenInv, Accepted, ControlInv, BusyInv, Busy
<1>2. /\ Begun' = Begun /\ Last' = Last /\ taken' = taken /\ frames' = frames
      /\ \A n : NeedsAnswer(n)' <=> NeedsAnswer(n)
  BY DEF WriteResponse, Begun, Last, wire, NeedsAnswer
<1>3. /\ Traffic[Last].len \in Nat /\ Traffic[Last].addr \in Address /\ usLength \in Nat
      /\ usRcvBufferPos \in 0..BufMax /\ BufMax \in Nat /\ ucRTUBuf \in [0..(BufMax - 1) -> Byte]
  BY <1>1, LineFacts, BufMaxAssumption DEF Typed, TypeOK, NumberTypes, ByteTypes, FrameKind
<1>4. NeedsAnswer(Begun) /\ usLength >= 1
  BY <1>1, <1>3 DEF NeedsAnswer, Taken, Held, Last, Address, MB_SER_PDU_SIZE_MIN
<1>5. ucFunctionCode[1] = "req" /\ ucFunctionCode[2] = Last
  BY <1>1 DEF Taken, WireByte
<1>6. CASE Traffic[Last].echo /\ UNCHANGED <<usLength, ucRTUBuf>>
  <2>1. \A i \in 1..usLength : ucRTUBuf[i] = WireByte(Last, i)
    BY <1>1, <1>3 DEF Taken, Held, Copied
  <2> QED
    BY <1>1, <1>2, <1>4, <1>6, <2>1 DEF Answer, Taken
<1>7. ASSUME NEW n \in 1..(BufMax - 3), usLength' = n,
             ucRTUBuf' = [i \in 0..(BufMax - 1) |->
                            IF i \in 1..n THEN RespByte(ucFunctionCode[2], i) ELSE ucRTUBuf[i]]
      PROVE  Answer'
  <2>1. \A i \in 1..n : ucRTUBuf'[i] = RespByte(Last, i)
    BY <1>3, <1>5, <1>7
  <2>2. usLength' >= 1 /\ \A i \in 1..usLength' : ucRTUBuf'[i] = RespByte(Last', i)
    <3>1. usLength' = n /\ Last' = Last /\ n \in Nat /\ n >= 1
      BY <1>2, <1>3, <1>7
    <3> QED
      BY <2>1, <3>1
  <2>3. NeedsAnswer(Begun)' /\ taken' = Begun'
    BY <1>1, <1>2, <1>4 DEF Taken, NeedsAnswer
  <2> QED
    BY <2>2, <2>3 DEF Answer
<1> QED
  BY <1>5, <1>6, <1>7 DEF WriteResponse

(* The slave puts its address before the answer and the CRC behind it.     *)
LEMMA TransmissionStarts ==
  ASSUME Typed, Answer, StartTransmit, UNCHANGED <<frames, usLength, taken>>
  PROVE  Answer' /\ Transmitted'
<1> DEFINE framed == [ucRTUBuf EXCEPT ![0] = SlaveAddress,
                                 ![usLength + 1] = CRC16(usLength, 0),
                                 ![usLength + 2] = CRC16(usLength, 1)]
<1>1. /\ ucRTUBuf' = framed /\ line' = <<framed[0]>> /\ pucSndBufferCur' = 1
      /\ usSndBufferCount' = usLength + 2
  BY DEF StartTransmit
<1>2. /\ usLength \in 0..(BufMax - 3) /\ BufMax \in Nat /\ BufMax > 4
      /\ ucRTUBuf \in [0..(BufMax - 1) -> Byte]
  BY BufMaxAssumption DEF Typed, TypeOK, NumberTypes, ByteTypes, MB_SER_PDU_SIZE_MIN
<1>3. /\ framed[0] = SlaveAddress /\ framed[usLength + 1] = CRC16(usLength, 0)
      /\ framed[usLength + 2] = CRC16(usLength, 1)
      /\ \A i \in 1..usLength : framed[i] = ucRTUBuf[i]
  BY <1>2
<1> HIDE DEF framed
<1>4. CRC16(usLength, 0)' = CRC16(usLength, 0) /\ CRC16(usLength, 1)' = CRC16(usLength, 1)
  <2>1. usLength \in Nat /\ usLength' = usLength
    BY <1>2
  <2>2. \A j \in 1..usLength : ucRTUBuf'[j] = ucRTUBuf[j]
    BY <1>1, <1>3
  <2>3. \A i \in Nat : CRC16(usLength, i)' = CRC16(usLength, i)
    BY <2>1, <2>2, SameCRC
  <2> QED
    BY <2>3
<1>5. Answer'
  BY <1>1, <1>2, <1>3 DEF Answer, NeedsAnswer, Begun, Last
<1>6. Transmitted'
  <2>1. \A k \in 1..1 : line'[k] = ucRTUBuf'[k - 1]
    BY <1>1
  <2> QED
    BY <1>1, <1>2, <1>3, <1>4, <2>1 DEF Transmitted
<1> QED
  BY <1>5, <1>6

LEMMA SendSame ==
  ASSUME Typed, SendInv, UNCHANGED <<frames, taken, usLength, ucRTUBuf, sndVars>>,
         mainPc' = "send" => mainPc = "send"
  PROVE  SendInv'
<1>1. Answer => Answer'
  BY DEF Answer, NeedsAnswer, Begun, Last
<1>2. CRC16(usLength, 0)' = CRC16(usLength, 0) /\ CRC16(usLength, 1)' = CRC16(usLength, 1)
  <2>1. usLength \in Nat /\ usLength' = usLength /\ \A j \in 1..usLength : ucRTUBuf'[j] = ucRTUBuf[j]
    BY BufMaxAssumption DEF Typed, TypeOK, NumberTypes
  <2>2. \A i \in Nat : CRC16(usLength, i)' = CRC16(usLength, i)
    BY <2>1, SameCRC
  <2> QED
    BY <2>2
<1>3. Transmitted => Transmitted'
  BY <1>2 DEF Transmitted, sndVars
<1> QED
  BY <1>1, <1>3 DEF SendInv, Sending, sndVars

(* One byte more is on the line. *)
LEMMA ByteSent ==
  ASSUME Typed, SendInv, USART2_TC, Sending, usSndBufferCount # 0
  PROVE  SendInv'
<1>1. /\ line' = Append(line, ucRTUBuf[pucSndBufferCur]) /\ pucSndBufferCur' = pucSndBufferCur + 1
      /\ usSndBufferCount' = usSndBufferCount - 1 /\ eSndState' = eSndState
      /\ UNCHANGED <<mainPc, frames, taken, usLength, ucRTUBuf>>
  BY DEF USART2_TC, xMBRTUTransmitFSM, xMBPortSerialPutByte, Sending, pollVars, wire
<1>2. Answer /\ Transmitted
  BY DEF SendInv
<1>3. Answer'
  BY <1>1, <1>2 DEF Answer, NeedsAnswer, Begun, Last
<1>4. CRC16(usLength, 0)' = CRC16(usLength, 0) /\ CRC16(usLength, 1)' = CRC16(usLength, 1)
  <2>1. usLength \in Nat /\ usLength' = usLength /\ \A j \in 1..usLength : ucRTUBuf'[j] = ucRTUBuf[j]
    BY <1>1, BufMaxAssumption DEF Typed, TypeOK, NumberTypes
  <2>2. \A i \in Nat : CRC16(usLength, i)' = CRC16(usLength, i)
    BY <2>1, SameCRC
  <2> QED
    BY <2>2
<1>5. /\ line \in Seq(Byte) /\ pucSndBufferCur \in Nat /\ usSndBufferCount \in Nat
      /\ usLength \in Nat /\ Len(line) = pucSndBufferCur /\ pucSndBufferCur > 0
      /\ pucSndBufferCur + usSndBufferCount = usLength + 3
      /\ \A k \in 1..pucSndBufferCur : line[k] = ucRTUBuf[k - 1]
  BY <1>2, BufMaxAssumption DEF Typed, TypeOK, ByteTypes, NumberTypes, Transmitted
<1>6. Len(line') = pucSndBufferCur' /\ \A k \in 1..pucSndBufferCur' : line'[k] = ucRTUBuf'[k - 1]
  <2>1. /\ Len(line') = pucSndBufferCur + 1 /\ line'[pucSndBufferCur + 1] = ucRTUBuf[pucSndBufferCur]
        /\ \A k \in 1..pucSndBufferCur : line'[k] = line[k]
    BY <1>1, <1>5
  <2>2. \A k \in 1..(pucSndBufferCur + 1) : line'[k] = ucRTUBuf[k - 1]
    <3>1. ASSUME NEW k \in 1..(pucSndBufferCur + 1) PROVE line'[k] = ucRTUBuf[k - 1]
      <4>1. CASE k = pucSndBufferCur + 1
        <5>1. k - 1 = pucSndBufferCur
          BY <1>5, <4>1
        <5> QED
          BY <2>1, <4>1, <5>1
      <4>2. CASE k # pucSndBufferCur + 1
        <5>1. k \in 1..pucSndBufferCur
          BY <1>5, <4>2
        <5> QED
          BY <1>5, <2>1, <5>1
      <4> QED
        BY <4>1, <4>2
    <3> QED
      BY <3>1
  <2> QED
    BY <1>1, <2>1, <2>2
<1>7. Transmitted'
  BY <1>1, <1>2, <1>4, <1>5, <1>6 DEF Transmitted
<1> QED
  BY <1>1, <1>3, <1>7 DEF SendInv

LEMMA SendKept ==
  ASSUME PatientMaster, Typed, DuplexInv, ControlInv, HeldInv, TakenInv, SendInv, [Next]_vars
  PROVE  SendInv'
<1> USE DEF uart, enables, timer, rcvVars, sndVars, mailbox, pollVars, wire, control
<1>1. CASE USART2_RXNE
  BY <1>1 DEF USART2_RXNE, ControlInv, BusyInv, Busy, SendInv, Sending
<1>2. CASE USART2_TC
  <2>1. CASE Sending /\ usSndBufferCount # 0
    BY <1>2, <2>1, ByteSent
  <2>2. CASE Sending /\ usSndBufferCount = 0
    <3>1. mainPc # "send" /\ mainPc' = mainPc /\ ~Sending'
      BY <1>2, <2>2 DEF USART2_TC, xMBRTUTransmitFSM, ControlInv, OneRequest, Handling, Sending
    <3> QED
      BY <3>1 DEF SendInv
  <2> QED
    BY <1>2, <2>1, <2>2 DEF USART2_TC, ControlInv, Enables
<1>3. CASE USART2_Clear \/ USART2_ORE \/ eMBPollEmpty \/ UNCHANGED vars
  BY <1>3, SendSame DEF USART2_Clear, USART2_ORE, eMBPollEmpty, vars
<1>4. CASE Timer
  BY <1>4, SendSame DEF Timer, TIM2_Post, TIM2_Disable, TIM2_Idle, TIM2_Clear
<1>5. CASE eMBRTUInit \/ eMBInitEvent \/ eMBEnable \/ eMBDisable
  BY <1>5, SendSame DEF eMBRTUInit, eMBInitEvent, eMBEnable, eMBDisable, AtPc
<1>6. CASE xMBPortEventRead \/ PostExecute \/ ReadRequest
  BY <1>6, SendSame DEF xMBPortEventRead, PostExecute, ReadRequest, AtPc
<1>7. CASE xMBPortEventClear
  BY <1>7, SendSame DEF xMBPortEventClear
<1>8. CASE eMBRTUReceive
  <2>1. ~Sending /\ ~Sending' /\ mainPc' # "send"
    BY <1>8 DEF eMBRTUReceive, ControlInv, OneRequest, Handling, Sending
  <2> QED
    BY <2>1 DEF SendInv
<1>9. CASE WriteResponse
  <2>1. ~Sending'
    BY <1>9 DEF WriteResponse, ControlInv, OneRequest, Handling, Sending
  <2>2. mainPc' = "send" => Answer'
    BY <1>9, ResponseWritten
  <2> QED
    BY <2>1, <2>2 DEF SendInv
<1>10. CASE eMBRTUSend
  <2>1. Answer /\ ~Sending /\ mainPc' = "poll" /\ UNCHANGED <<frames, usLength, taken>>
    BY <1>10 DEF eMBRTUSend, AtPc, SendInv, ControlInv, OneRequest, Handling
  <2>2. CASE eRcvState = "RX_IDLE"
    <3>1. Answer' /\ Transmitted'
      BY <1>10, <2>1, <2>2, TransmissionStarts DEF eMBRTUSend
    <3> QED
      BY <3>1 DEF SendInv
  <2>3. CASE eRcvState # "RX_IDLE"
    <3>1. ~Sending'
      BY <1>10, <2>1, <2>3 DEF eMBRTUSend, Sending
    <3> QED
      BY <2>1, <3>1 DEF SendInv
  <2> QED
    BY <2>2, <2>3
<1>11. CASE Hardware
  BY <1>11, SendSame DEF Hardware, UartShift, LineByte, TimerExpires
<1>12. ASSUME NEW r \in Requests, BeginFrame(r) PROVE SendInv'
  BY <1>12 DEF BeginFrame, Quiet, PatientMaster, SendInv, Sending
<1> QED
  BY <1>1, <1>2, <1>3, <1>4, <1>5, <1>6, <1>7, <1>8, <1>9, <1>10, <1>11, <1>12
     DEF Next, Serial, Task

-----------------------------------------------------------------------------
LEMMA ShiftKept ==
  ASSUME PatientMaster, Typed, DuplexInv, ControlInv, SendInv, ShiftInv, [Next]_vars PROVE ShiftInv'
<1> USE DEF uart, enables, timer, rcvVars, sndVars, mailbox, pollVars, wire, control,
            ShiftInv, Sending
<1>0. txHw \in 0..2 /\ usLength \in Nat
  BY BufMaxAssumption DEF Typed, TypeOK, NumberTypes
<1>1. CASE USART2_RXNE
  BY <1>1 DEF USART2_RXNE
<1>2. CASE USART2_TC
  <2>1. serPc' = "TC" /\ Sending /\ (usSndBufferCount = 0 => txHw = 0)
    BY <1>0, <1>2 DEF USART2_TC, ControlInv, Enables
  <2>2. CASE usSndBufferCount # 0
    BY <1>2, <2>1, <2>2 DEF USART2_TC, xMBRTUTransmitFSM
  <2>3. CASE usSndBufferCount = 0
    BY <1>2, <2>1, <2>3 DEF USART2_TC, xMBRTUTransmitFSM
  <2> QED
    BY <2>2, <2>3
<1>3. CASE USART2_Clear
  BY <1>3 DEF USART2_Clear
<1>4. CASE USART2_ORE \/ eMBPollEmpty \/ UNCHANGED vars
  BY <1>4 DEF USART2_ORE, eMBPollEmpty, vars
<1>5. CASE Timer
  BY <1>5 DEF Timer, TIM2_Post, TIM2_Disable, TIM2_Idle, TIM2_Clear
<1>6. CASE eMBRTUInit
  BY <1>6 DEF eMBRTUInit, AtPc, DuplexInv
<1>7. CASE eMBInitEvent \/ eMBEnable \/ eMBDisable
  BY <1>7 DEF eMBInitEvent, eMBEnable, eMBDisable, AtPc
<1>8. CASE xMBPortEventRead \/ xMBPortEventClear \/ PostExecute \/ ReadRequest
  BY <1>8 DEF xMBPortEventRead, xMBPortEventClear, PostExecute, ReadRequest, AtPc
<1>9. CASE eMBRTUReceive \/ WriteResponse
  BY <1>9 DEF eMBRTUReceive, WriteResponse, ControlInv, OneRequest, Handling
<1>10. CASE eMBRTUSend
  <2>1. CASE eRcvState = "RX_IDLE"
    BY <1>10, <2>1 DEF eMBRTUSend, StartTransmit
  <2>2. CASE eRcvState # "RX_IDLE"
    BY <1>10, <2>2 DEF eMBRTUSend, AtPc
  <2> QED
    BY <2>1, <2>2
<1>11. CASE UartShift
  <2>1. /\ txHw > 0 /\ txHw' = txHw - 1 /\ (tc' => tc \/ txHw = 1) /\ Sending
        /\ UNCHANGED <<serPc, eSndState, usSndBufferCount, usLength>>
    <3>1. /\ txHw > 0 /\ txHw' = txHw - 1
          /\ UNCHANGED <<serPc, eSndState, usSndBufferCount, usLength>>
      BY <1>11 DEF UartShift
    <3>2. tc' => tc \/ txHw = 1
      BY Zenon, <1>11 DEF UartShift
    <3>3. txHw # 0
      BY <3>1
    <3> QED
      BY <3>1, <3>2, <3>3
  <2>2. txHw = 1 => txHw' = 0
    BY <2>1
  <2>3. txHw # 0
    BY <2>1
  <2> QED
    BY <2>1, <2>2, <2>3
<1>12. CASE LineByte \/ TimerExpires
  BY <1>12 DEF LineByte, TimerExpires
<1>13. ASSUME NEW r \in Requests, BeginFrame(r) PROVE ShiftInv'
  BY <1>13 DEF BeginFrame
<1> QED
  BY <1>1, <1>2, <1>3, <1>4, <1>5, <1>6, <1>7, <1>8, <1>9, <1>10, <1>11, <1>12, <1>13
     DEF Next, Serial, Task, Hardware

(* What is answered stays answered, and a request leaves the slave with    *)
(* its whole answer on the line.                                           *)
LEMMA AnswerLeaves ==
  ASSUME Typed, ControlInv, SendInv, ShiftInv, [Next]_vars, PatientMaster
  PROVE  \/ UNCHANGED answered /\ (Sending => Sending')
         \/ /\ USART2_TC /\ Sending /\ usSndBufferCount = 0 /\ txHw = 0
            /\ answered' = answered \cup {Begun} /\ UNCHANGED <<frames, mainPc, wpos>>
            /\ NeedsAnswer(Begun) /\ taken = Begun /\ Transmitted /\ Answer
<1> USE DEF uart, enables, timer, rcvVars, sndVars, mailbox, pollVars, wire, control, Sending
<1>1. CASE USART2_TC
  <2>1. Sending /\ Answer /\ Transmitted /\ usLength \in Nat
    BY <1>1, BufMaxAssumption DEF USART2_TC, ControlInv, Enables, SendInv, Typed, TypeOK, NumberTypes
  <2>2. CASE usSndBufferCount # 0
    BY <1>1, <2>1, <2>2 DEF USART2_TC, xMBRTUTransmitFSM
  <2>3. CASE usSndBufferCount = 0
    <3>1. txHw = 0
      BY <1>1, <2>1, <2>3 DEF USART2_TC, ShiftInv
    <3>2. answered' = answered \cup {taken} /\ UNCHANGED <<frames, mainPc, wpos>>
      BY <1>1, <2>1, <2>3 DEF USART2_TC, xMBRTUTransmitFSM
    <3> QED
      BY <1>1, <2>1, <2>3, <3>1, <3>2 DEF Answer
  <2> QED
    BY <2>2, <2>3
<1>2. CASE USART2_RXNE \/ USART2_Clear \/ USART2_ORE \/ eMBPollEmpty \/ UNCHANGED vars
  BY <1>2 DEF USART2_RXNE, USART2_Clear, USART2_ORE, eMBPollEmpty, vars
<1>3. CASE Timer \/ Hardware \/ (\E r \in Requests : BeginFrame(r))
  BY <1>3 DEF Timer, TIM2_Post, TIM2_Disable, TIM2_Idle, TIM2_Clear, Hardware, UartShift, LineByte,
              TimerExpires, BeginFrame
<1>4. CASE eMBRTUInit \/ eMBInitEvent \/ eMBEnable \/ eMBDisable
  BY <1>4 DEF eMBRTUInit, eMBInitEvent, eMBEnable, eMBDisable
<1>5. CASE xMBPortEventRead \/ xMBPortEventClear \/ PostExecute \/ ReadRequest
  BY <1>5 DEF xMBPortEventRead, xMBPortEventClear, PostExecute, ReadRequest
<1>6. CASE eMBRTUReceive \/ WriteResponse
  BY <1>6 DEF eMBRTUReceive, WriteResponse
<1>7. CASE eMBRTUSend
  BY <1>7 DEF eMBRTUSend, StartTransmit
<1> QED
  BY <1>1, <1>2, <1>3, <1>4, <1>5, <1>6, <1>7 DEF Next, Serial, Task

(* The frames that have begun stay as they are. *)
LEMMA FramesGrow ==
  ASSUME Typed, [Next]_vars
  PROVE  \/ UNCHANGED frames
         \/ \E r \in Requests : BeginFrame(r)
BY DEF Next, Serial, Timer, Task, Hardware, vars, USART2_RXNE, USART2_TC, USART2_Clear, USART2_ORE,
       TIM2_Post, TIM2_Disable, TIM2_Idle, TIM2_Clear, eMBRTUInit, eMBInitEvent, eMBEnable,
       eMBDisable, eMBPollEmpty, xMBPortEventRead, xMBPortEventClear, eMBRTUReceive, PostExecute,
       ReadRequest, WriteResponse, eMBRTUSend, UartShift, LineByte, TimerExpires, wire

LEMMA NeedStays ==
  ASSUME Typed, [Next]_vars, NEW n \in 1..Begun
  PROVE  n \in 1..Begun' /\ (NeedsAnswer(n)' <=> NeedsAnswer(n))
<1>0. Begun \in Nat
  BY LineFacts
<1>1. CASE UNCHANGED frames
  BY <1>1 DEF Begun, NeedsAnswer
<1>2. ASSUME NEW r \in Requests, BeginFrame(r) PROVE n \in 1..Begun' /\ (NeedsAnswer(n)' <=> NeedsAnswer(n))
  <2>1. Begun' = Begun + 1 /\ frames'[n] = frames[n]
    BY <1>2, FrameBegins
  <2> QED
    BY <1>0, <2>1 DEF NeedsAnswer
<1> QED
  BY <1>1, <1>2, FramesGrow

LEMMA AnswersKept ==
  ASSUME PatientMaster, Typed, ControlInv, SendInv, ShiftInv, AnswersOnlyOwn, [Next]_vars
  PROVE  AnswersOnlyOwn'
<1>1. \A n \in answered : n \in 1..Begun' /\ NeedsAnswer(n)'
  <2>1. \A n \in answered : n \in 1..Begun /\ NeedsAnswer(n)
    BY DEF AnswersOnlyOwn, Begun
  <2> QED
    BY <2>1, NeedStays
<1>2. CASE UNCHANGED answered
  BY <1>1, <1>2 DEF AnswersOnlyOwn, Begun
<1>3. CASE answered' = answered \cup {Begun} /\ NeedsAnswer(Begun) /\ Sending
  <2>1. Begun \in 1..Begun
    BY <1>3, LineFacts DEF ControlInv, BusyInv, Busy
  <2>2. Begun \in 1..Begun' /\ NeedsAnswer(Begun)
    BY <1>3, <2>1, NeedStays
  <2>3. \A n \in {Begun} : n \in 1..Begun' /\ NeedsAnswer(n)'
    <3>1. ASSUME NEW n, n = Begun PROVE n \in 1..Begun' /\ NeedsAnswer(n)'
      BY <1>3, <2>1, <3>1, NeedStays
    <3> QED
      BY <3>1
  <2> QED
    BY <1>1, <1>3, <2>3 DEF AnswersOnlyOwn, Begun
<1> QED
  BY <1>2, <1>3, AnswerLeaves

LEMMA PatientStart == Init => PatientInv
<1> SUFFICES ASSUME Init PROVE PatientInv
  OBVIOUS
<1> USE DEF Init, Queued, HasRead, Handling, Sending, Received, Accepted, Busy
<1>1. OneRequest /\ Enables /\ BusyInv
  BY DEF OneRequest, Enables, BusyInv
<1>2. LineInv
  <2>1. Begun = 0
    BY DEF Begun
  <2> QED
    BY <2>1 DEF LineInv, TimerIrq
<1>3. IdleInv /\ RcvInv /\ HeldInv /\ TakenInv /\ SendInv /\ ShiftInv /\ AnswersOnlyOwn
  BY DEF IdleInv, RcvInv, HeldInv, TakenInv, SendInv, ShiftInv, AnswersOnlyOwn
<1> QED
  BY <1>1, <1>2, <1>3 DEF PatientInv, ControlInv

LEMMA PatientKept ==
  ASSUME PatientMaster, Typed, DuplexInv, PatientInv, [Next]_vars PROVE PatientInv'
<1> USE DEF PatientInv
<1>1. ControlInv'
  BY OneRequestKept, EnablesKept, LineKept, BusyKept DEF ControlInv
<1>2. IdleInv' /\ RcvInv' /\ HeldInv' /\ TakenInv'
  BY IdleKept, RcvKept, HeldKept, TakenKept
<1>3. SendInv' /\ ShiftInv' /\ AnswersOnlyOwn'
  BY SendKept, ShiftKept, AnswersKept
<1> QED
  BY <1>1, <1>2, <1>3

LEMMA AlwaysPatient == ASSUME PatientMaster PROVE Spec => [](Typed /\ PatientInv)
<1>1. Spec => []DuplexInv
  BY AlwaysDuplex DEF PatientMaster
<1>2. Typed /\ DuplexInv /\ PatientInv /\ [Next]_vars => PatientInv'
  BY PatientKept
<1> QED
  BY <1>1, <1>2, PatientStart, AlwaysTyped, PTL DEF Spec

-----------------------------------------------------------------------------
(* eMBPoll (mb.c:371) hands a handler the frame that was received with a   *)
(* right CRC, whole and unchanged, however often the application restarts  *)
(* the slave in between.                                                   *)
THEOREM ExecutesWhatArrived == ASSUME PatientMaster PROVE Spec => []ExecutesReceivedFrame
<1>1. Typed /\ PatientInv => ExecutesReceivedFrame
  <2> SUFFICES ASSUME Typed, PatientInv, mainPc = "execute"
               PROVE  \E r \in Requests :
                        /\ Traffic[r].good /\ Traffic[r].addr # "other" /\ Traffic[r].len = usLength + 3
                        /\ \A i \in 0..usLength : ucRTUBuf[i] = WireByte(r, i)
                        /\ frames[taken] = r
    BY DEF ExecutesReceivedFrame
  <2>1. Taken /\ Held /\ Begun > 0
    BY DEF PatientInv, ControlInv, BusyInv, Busy, TakenInv, HeldInv, Accepted
  <2>2. Last \in Requests /\ usLength \in Nat /\ Traffic[Last].len = usLength + 3 /\ frames[taken] = Last
    BY <2>1, LineFacts, BufMaxAssumption DEF Typed, TypeOK, NumberTypes, Taken, Last
  <2>3. \A i \in 0..usLength : ucRTUBuf[i] = WireByte(Last, i)
    BY <2>1, <2>2 DEF Held, Copied
  <2> QED
    BY <2>1, <2>2, <2>3 DEF Taken
<1> QED
  BY <1>1, AlwaysPatient, PTL

(* No answer to a broadcast, to another slave's request, or to a frame     *)
(* that is damaged, too short or too long (mb.c:363, mb.c:389).            *)
THEOREM NobodyElseAnswered == ASSUME PatientMaster PROVE Spec => []AnswersOnlyOwn
<1>1. PatientInv => AnswersOnlyOwn
  BY DEF PatientInv
<1> QED
  BY <1>1, AlwaysPatient, PTL

LEMMA WholeResponse ==
  ASSUME PatientMaster, Typed, PatientInv, [Next]_vars, Sending, ~Sending'
  PROVE  txHw = 0 /\ ResponseOf(frames[taken], line)
<1>1. txHw = 0 /\ usSndBufferCount = 0 /\ taken = Begun /\ Transmitted /\ Answer
  BY AnswerLeaves DEF PatientInv
<1>2. /\ usLength \in Nat /\ usLength >= 1 /\ pucSndBufferCur = usLength + 3
      /\ Len(line) = usLength + 3 /\ frames[taken] = Last
      /\ \A k \in 1..(usLength + 3) : line[k] = ucRTUBuf[k - 1]
  BY <1>1, BufMaxAssumption DEF Typed, TypeOK, NumberTypes, Transmitted, Answer, Last
<1>3. /\ line[1] = SlaveAddress
      /\ line[usLength + 2] = CRC16(usLength, 0) /\ line[usLength + 3] = CRC16(usLength, 1)
  <2>1. line[1] = ucRTUBuf[0]
    BY <1>2
  <2>2. line[usLength + 2] = ucRTUBuf[usLength + 1]
    <3>1. usLength + 2 \in 1..(usLength + 3) /\ (usLength + 2) - 1 = usLength + 1
      BY <1>2
    <3> QED
      BY <1>2, <3>1
  <2>3. line[usLength + 3] = ucRTUBuf[usLength + 2]
    <3>1. usLength + 3 \in 1..(usLength + 3) /\ (usLength + 3) - 1 = usLength + 2
      BY <1>2
    <3> QED
      BY <1>2, <3>1
  <2> QED
    BY <1>1, <2>1, <2>2, <2>3 DEF Transmitted
<1>4. \A i \in 1..usLength : line[i + 1] = ucRTUBuf[i]
  <2>1. ASSUME NEW i \in 1..usLength PROVE line[i + 1] = ucRTUBuf[i]
    <3>1. i + 1 \in 1..(usLength + 3) /\ (i + 1) - 1 = i
      BY <1>2
    <3> QED
      BY <1>2, <3>1
  <2> QED
    BY <2>1
<1>5. \/ \A i \in 1..usLength : line[i + 1] = RespByte(Last, i)
      \/ /\ Traffic[Last].echo /\ Len(line) = Traffic[Last].len
         /\ \A i \in 1..usLength : line[i + 1] = WireByte(Last, i)
  BY <1>1, <1>2, <1>4 DEF Answer
<1>6. Len(line) - 3 = usLength
  BY <1>2
<1> QED
  BY <1>1, <1>2, <1>3, <1>5, <1>6 DEF ResponseOf

(* A transmission ends with the whole response to the request that was     *)
(* taken on the line, and nothing left in the transmitter (mbrtu.c:312).   *)
THEOREM WholeResponseSent == ASSUME PatientMaster PROVE Spec => SendsWholeResponse
<1>1. Typed /\ PatientInv /\ [Next]_vars =>
        [eSndState = "TX_XMIT" /\ eSndState' = "TX_IDLE" =>
           txHw = 0 /\ ResponseOf(frames[taken], line)]_vars
  BY WholeResponse DEF Sending
<1> QED
  BY <1>1, AlwaysPatient, PTL DEF Spec, SendsWholeResponse

-----------------------------------------------------------------------------
(* No request is lost: what a liveness property says of the master's       *)
(* requests, short of time.  Until the application first stops the slave,  *)
(* it is idle only when all of them are answered.                          *)
NoRequestLost ==
  restarts = 0 /\ Quiet /\ LineIdle => \A n \in 1..Begun : NeedsAnswer(n) => n \in answered

(* A frame is still coming in. *)
Waiting == ~LineIdle \/ rxne \/ (eRcvState = "RX_RCV" /\ timPc = "off")

(* No event of an earlier request is left that could hide a later one.     *)
NoStaleEvent ==
  /\ eMBState = "ENABLED" /\ eRcvState # "RX_INIT"
  /\ ~Queued("EV_READY") /\ ~HasRead("EV_READY")
  /\ HasRead("EV_FRAME_SENT") => ~Queued("EV_FRAME_RECEIVED") /\ ~Queued("EV_EXECUTE")
  /\ Waiting => mainPc = "poll" /\ ~xEventInQueue /\ ~Sending

(* The request on the line is answered, still coming in, or in the slave.  *)
LastKnown == NeedsAnswer(Begun) => Begun \in answered \/ Waiting \/ Busy

LossInv ==
  /\ timPc = "clear" => eRcvState # "RX_RCV"
  /\ restarts = 0 /\ Begun > 0 =>
       /\ NoStaleEvent
       /\ eRcvState = "RX_ERROR" => Traffic[Last].len > BufMax
       /\ \A n \in 1..(Begun - 1) : NeedsAnswer(n) => n \in answered
       /\ LastKnown

LEMMA ClearIsIdle ==
  ASSUME ControlInv, timPc = "clear" => eRcvState # "RX_RCV", [Next]_vars
  PROVE  timPc' = "clear" => eRcvState' # "RX_RCV"
<1> USE DEF timer, rcvVars
<1>1. CASE USART2_RXNE
  BY <1>1 DEF USART2_RXNE, ControlInv, LineInv
<1>2. CASE Timer
  BY <1>2 DEF Timer, TIM2_Post, TIM2_Disable, TIM2_Idle, TIM2_Clear
<1>3. CASE Task \/ eMBDisable
  BY <1>3 DEF Task, eMBRTUInit, eMBInitEvent, eMBEnable, eMBDisable, eMBPollEmpty, vars,
              xMBPortEventRead, xMBPortEventClear, eMBRTUReceive, PostExecute, ReadRequest,
              WriteResponse, eMBRTUSend, eMBRTUStart, AtPc
<1>4. CASE USART2_TC \/ USART2_Clear \/ USART2_ORE \/ UNCHANGED vars
  BY <1>4 DEF USART2_TC, USART2_Clear, USART2_ORE, vars
<1>5. CASE Hardware \/ (\E r \in Requests : BeginFrame(r))
  BY <1>5 DEF Hardware, UartShift, LineByte, TimerExpires, BeginFrame
<1> QED
  BY <1>1, <1>2, <1>3, <1>4, <1>5 DEF Next, Serial

LEMMA RestartsGrow == ASSUME Typed, [Next]_vars, restarts' = 0 PROVE restarts = 0 /\ ~eMBDisable
<1>0. restarts \in Nat
  BY BoundsAssumption DEF Typed, TypeOK, NumberTypes
<1>1. CASE eMBDisable
  BY <1>0, <1>1 DEF eMBDisable
<1>2. CASE ~eMBDisable
  BY <1>2 DEF Next, Serial, Timer, Task, Hardware, vars, USART2_RXNE, USART2_TC, USART2_Clear,
         USART2_ORE, TIM2_Post, TIM2_Disable, TIM2_Idle, TIM2_Clear, eMBRTUInit, eMBInitEvent,
         eMBEnable, eMBPollEmpty, xMBPortEventRead, xMBPortEventClear, eMBRTUReceive, PostExecute,
         ReadRequest, WriteResponse, eMBRTUSend, UartShift, LineByte, TimerExpires, BeginFrame, control
<1> QED
  BY <1>1, <1>2

(* An idle slave has lost nothing. *)
LEMMA QuietIsDone ==
  ASSUME Typed, PatientInv, LossInv, restarts = 0, Quiet, LineIdle
  PROVE  \A n \in 1..Begun : NeedsAnswer(n) => n \in answered
<1>1. Begun \in Nat
  BY LineFacts
<1>2. ~rxne
  BY DEF Quiet, MainMayRun, TimerMayRun, SerialIrq, PatientInv, ControlInv, Enables, Sending
<1>3. ~Waiting /\ ~Busy
  BY <1>2 DEF Quiet, Waiting, Busy, Received, Accepted, Queued, HasRead, Sending
<1>4. ASSUME NEW n \in 1..Begun, NeedsAnswer(n) PROVE n \in answered
  <2>1. n = Begun \/ n \in 1..(Begun - 1)
    BY <1>1
  <2>2. Begun > 0
    BY <1>1
  <2> QED
    BY <1>3, <1>4, <2>1, <2>2 DEF LossInv, LastKnown
<1> QED
  BY <1>4

LEMMA StaleKept ==
  ASSUME PatientMaster, Typed, DuplexInv, PatientInv, LossInv, [Next]_vars, restarts = 0,
         ~eMBDisable, Begun > 0, UNCHANGED frames
  PROVE  NoStaleEvent'
<1> USE DEF uart, enables, timer, rcvVars, sndVars, mailbox, pollVars, wire, control,
            NoStaleEvent, Waiting, Queued, HasRead, Sending, LineIdle
<1>0. NoStaleEvent /\ ControlInv
  BY DEF LossInv, PatientInv
<1>1. CASE USART2_RXNE
  BY <1>0, <1>1 DEF USART2_RXNE, xMBRTUReceiveFSM
<1>2. CASE USART2_TC
  <2>1. ~Waiting /\ ~Waiting'
    <3>1. ~Waiting
      BY <1>0, <1>2 DEF USART2_TC, ControlInv, Enables
    <3> QED
      BY <1>2, <3>1 DEF USART2_TC
  <2> QED
    BY <1>0, <1>2, <2>1 DEF USART2_TC, xMBRTUTransmitFSM, xMBPortEventPost
<1>3. CASE USART2_Clear
  BY <1>0, <1>3 DEF USART2_Clear
<1>4. CASE USART2_ORE \/ eMBPollEmpty \/ UNCHANGED vars
  BY <1>0, <1>4 DEF USART2_ORE, eMBPollEmpty, vars
<1>5. CASE TIM2_Post
  <2>1. CASE eRcvState = "RX_RCV"
    <3>1. LineIdle /\ ~rxne /\ mainPc = "poll"
      BY <1>0, <1>5, <2>1, FrameEnds DEF PatientInv, TIM2_Post
    <3> QED
      BY <1>0, <1>5, <2>1, <3>1 DEF TIM2_Post, T35Event, xMBPortEventPost
  <2>2. CASE eRcvState # "RX_RCV"
    BY <1>0, <1>5, <2>2 DEF TIM2_Post, T35Event
  <2> QED
    BY <2>1, <2>2
<1>6. CASE TIM2_Disable \/ TIM2_Idle \/ TIM2_Clear
  BY <1>0, <1>6 DEF TIM2_Disable, TIM2_Idle, TIM2_Clear, LossInv
<1>7. CASE eMBRTUInit \/ eMBInitEvent \/ eMBEnable
  BY <1>0, <1>7 DEF eMBRTUInit, eMBInitEvent, eMBEnable, AtPc, ControlInv, LineInv
<1>8. CASE xMBPortEventRead
  BY <1>0, <1>8 DEF xMBPortEventRead, AtPc
<1>9. CASE xMBPortEventClear
  BY <1>0, <1>9 DEF xMBPortEventClear
<1>10. CASE eMBRTUReceive
  BY <1>0, <1>10 DEF eMBRTUReceive
<1>11. CASE PostExecute
  BY <1>0, <1>11 DEF PostExecute, AtPc, xMBPortEventPost
<1>12. CASE ReadRequest
  BY <1>0, <1>12 DEF ReadRequest, AtPc
<1>13. CASE WriteResponse
  BY <1>0, <1>13 DEF WriteResponse
<1>14. CASE eMBRTUSend
  BY <1>0, <1>14 DEF eMBRTUSend, AtPc
<1>15. CASE UartShift \/ TimerExpires
  BY <1>0, <1>15 DEF UartShift, TimerExpires
<1>16. CASE LineByte
  BY <1>0, <1>16 DEF LineByte
<1>17. ASSUME NEW r \in Requests, BeginFrame(r) PROVE FALSE
  BY <1>17, FrameBegins, LineFacts DEF Begun
<1> QED
  BY <1>1, <1>2, <1>3, <1>4, <1>5, <1>6, <1>7, <1>8, <1>9, <1>10, <1>11, <1>12, <1>13, <1>14, <1>15,
     <1>16, <1>17 DEF Next, Serial, Timer, Task, Hardware

LEMMA ErrorKept ==
  ASSUME PatientMaster, Typed, DuplexInv, PatientInv, LossInv, [Next]_vars, restarts = 0,
         ~eMBDisable, Begun > 0, UNCHANGED frames, eRcvState' = "RX_ERROR"
  PROVE  Traffic[Last].len > BufMax
<1>1. CASE eRcvState = "RX_ERROR"
  BY <1>1 DEF LossInv
<1>2. CASE eRcvState # "RX_ERROR"
  <2>1. USART2_RXNE
    BY <1>2 DEF Next, Serial, Timer, Task, Hardware, vars, USART2_TC, USART2_Clear, USART2_ORE,
         TIM2_Post, TIM2_Disable, TIM2_Idle, TIM2_Clear, eMBRTUInit, eMBInitEvent, eMBEnable,
         eMBPollEmpty, xMBPortEventRead, xMBPortEventClear, eMBRTUReceive, PostExecute,
         ReadRequest, WriteResponse, eMBRTUSend, UartShift, LineByte, TimerExpires, BeginFrame,
         rcvVars, eMBRTUStart
  <2>2. eRcvState = "RX_RCV" /\ usRcvBufferPos >= BufMax
    BY <1>2, <2>1 DEF USART2_RXNE, xMBRTUReceiveFSM, rcvVars
  <2>3. rxne /\ rxIE
    BY <2>1 DEF USART2_RXNE
  <2>4. wpos = usRcvBufferPos + 1 /\ wpos <= Traffic[Last].len
    BY <2>2, <2>3 DEF PatientInv, ControlInv, Enables, RcvInv, LineInv
  <2>5. usRcvBufferPos \in Nat /\ BufMax \in Nat /\ Traffic[Last].len \in Nat
    BY BufMaxAssumption, LineFacts DEF Typed, TypeOK, NumberTypes
  <2> QED
    BY <2>2, <2>4, <2>5
<1> QED
  BY <1>1, <1>2

LEMMA KnownKept ==
  ASSUME PatientMaster, Typed, DuplexInv, PatientInv, LossInv, [Next]_vars, restarts = 0,
         ~eMBDisable, Begun > 0, UNCHANGED frames, NeedsAnswer(Begun), answered \subseteq answered'
  PROVE  Begun \in answered' \/ Waiting' \/ Busy'
<1> USE DEF uart, enables, timer, rcvVars, sndVars, mailbox, pollVars, wire, control
<1>0. /\ NoStaleEvent /\ ControlInv /\ (eRcvState = "RX_ERROR" => Traffic[Last].len > BufMax)
      /\ Traffic[Last].len \in MB_SER_PDU_SIZE_MIN..BufMax /\ Traffic[Last].good
      /\ Traffic[Last].addr = "own" /\ eRcvState # "RX_ERROR"
  <2>1. Traffic[Last].len \in Nat /\ BufMax \in Nat
    BY BufMaxAssumption, LineFacts
  <2> QED
    BY <2>1 DEF LossInv, PatientInv, NeedsAnswer, Last
<1> SUFFICES ASSUME Begun \notin answered, Waiting \/ Busy
             PROVE  Begun \in answered' \/ Waiting' \/ Busy'
  BY DEF LossInv, LastKnown
<1> USE DEF Waiting, Busy, Received, Accepted, Queued, HasRead, Sending, LineIdle
<1>1. CASE USART2_RXNE
  <2>1. timPc = "off" /\ eRcvState \in {"RX_IDLE", "RX_RCV"} /\ rxne
    BY <1>0, <1>1 DEF USART2_RXNE, ControlInv, LineInv, NoStaleEvent, Typed, TypeOK, StateTypes
  <2>2. eRcvState' # "RX_ERROR"
    BY <1>0, ErrorKept, LineFacts, BufMaxAssumption
  <2> QED
    BY <1>1, <2>1, <2>2 DEF USART2_RXNE, xMBRTUReceiveFSM
<1>2. CASE USART2_TC
  BY <1>2, AnswerLeaves DEF USART2_TC, PatientInv, ControlInv, Enables
<1>3. CASE USART2_Clear
  BY <1>0, <1>3 DEF USART2_Clear, ControlInv, LineInv
<1>4. CASE USART2_ORE \/ eMBPollEmpty \/ UNCHANGED vars
  BY <1>4 DEF USART2_ORE, eMBPollEmpty, vars
<1>5. CASE TIM2_Post
  <2>1. CASE eRcvState = "RX_RCV"
    BY <1>5, <2>1 DEF TIM2_Post, T35Event, xMBPortEventPost
  <2>2. CASE eRcvState # "RX_RCV"
    BY <1>0, <1>5, <2>2 DEF TIM2_Post, T35Event, NoStaleEvent
  <2> QED
    BY <2>1, <2>2
<1>6. CASE TIM2_Disable \/ TIM2_Idle \/ TIM2_Clear
  BY <1>6 DEF TIM2_Disable, TIM2_Idle, TIM2_Clear
<1>7. CASE eMBRTUInit \/ eMBInitEvent \/ eMBEnable
  BY <1>0, <1>7 DEF eMBRTUInit, eMBInitEvent, eMBEnable, AtPc, ControlInv, LineInv, NoStaleEvent
<1>8. CASE xMBPortEventRead
  BY <1>8 DEF xMBPortEventRead, AtPc
<1>9. CASE xMBPortEventClear
  <2>1. eEvent \in Event /\ eEvent # "EV_READY"
    BY <1>0, <1>9 DEF NoStaleEvent, Typed, TypeOK, StateTypes, xMBPortEventClear
  <2> QED
    BY <1>0, <1>9, <2>1 DEF xMBPortEventClear, NoStaleEvent, Event
<1>10. CASE eMBRTUReceive
  <2>1. Held /\ Last \in Requests
    BY <1>10, LineFacts DEF eMBRTUReceive, PatientInv, HeldInv
  <2>2. usRcvBufferPos >= MB_SER_PDU_SIZE_MIN /\ IsFrame(Last, usRcvBufferPos)
    BY <1>0, <2>1, LineFacts DEF Held, Copied, IsFrame, MB_SER_PDU_SIZE_MIN
  <2>3. PICK r \in Requests : /\ IsFrame(r, usRcvBufferPos)
                              /\ mainPc' = IF Traffic[r].addr = "other" THEN "poll" ELSE "post"
    BY <1>10, <2>1, <2>2 DEF eMBRTUReceive
  <2>4. r = Last
    BY <2>1, <2>2, <2>3, AcceptsLast
  <2> QED
    BY <1>0, <2>3, <2>4
<1>11. CASE PostExecute
  BY <1>11 DEF PostExecute, AtPc, xMBPortEventPost
<1>12. CASE ReadRequest
  BY <1>12 DEF ReadRequest, AtPc
<1>13. CASE WriteResponse
  <2>1. ucRcvAddress = "own"
    BY <1>0, <1>13 DEF WriteResponse, PatientInv, TakenInv, Taken
  <2> QED
    BY <1>13, <2>1 DEF WriteResponse
<1>14. CASE eMBRTUSend
  <2>1. eRcvState = "RX_IDLE"
    BY <1>0, <1>14, NotReceiving
       DEF eMBRTUSend, AtPc, Handling, NoStaleEvent, Typed, TypeOK, StateTypes
  <2> QED
    BY <1>14, <2>1 DEF eMBRTUSend, StartTransmit
<1>15. CASE UartShift \/ TimerExpires
  BY <1>15 DEF UartShift, TimerExpires
<1>16. CASE LineByte
  BY <1>16 DEF LineByte
<1>17. ASSUME NEW r \in Requests, BeginFrame(r) PROVE FALSE
  BY <1>17, FrameBegins, LineFacts DEF Begun
<1> QED
  BY <1>1, <1>2, <1>3, <1>4, <1>5, <1>6, <1>7, <1>8, <1>9, <1>10, <1>11, <1>12, <1>13, <1>14, <1>15,
     <1>16, <1>17 DEF Next, Serial, Timer, Task, Hardware

(* A new frame begins when all requests so far are answered. *)
LEMMA LossAtBegin ==
  ASSUME PatientMaster, Typed, PatientInv, LossInv, NEW r \in Requests, BeginFrame(r), restarts = 0
  PROVE  /\ NoStaleEvent' /\ eRcvState' # "RX_ERROR" /\ LastKnown'
         /\ \A n \in 1..(Begun' - 1) : NeedsAnswer(n)' => n \in answered'
<1>1. /\ Quiet /\ LineIdle /\ answered' = answered
      /\ UNCHANGED <<eMBState, eRcvState, xEventInQueue, mainPc, eSndState>>
  BY DEF BeginFrame, PatientMaster, mailbox, rcvVars, sndVars, control
<1>2. Begun \in Nat /\ Begun' = Begun + 1 /\ ~LineIdle' /\ \A n \in 1..Begun : frames'[n] = frames[n]
  BY FrameBegins, LineFacts
<1>3. ASSUME NEW n \in 1..(Begun' - 1), NeedsAnswer(n)' PROVE n \in answered'
  <2>1. n \in 1..Begun
    BY <1>2
  <2>2. NeedsAnswer(n)
    BY <1>2, <1>3, <2>1 DEF NeedsAnswer
  <2> QED
    BY <1>1, <2>1, <2>2, QuietIsDone
<1>4. NoStaleEvent' /\ eRcvState' # "RX_ERROR"
  BY <1>1 DEF NoStaleEvent, Quiet, Queued, HasRead, Sending
<1>5. LastKnown'
  BY <1>2 DEF LastKnown, Waiting
<1> QED
  BY <1>3, <1>4, <1>5

LEMMA LossKept ==
  ASSUME PatientMaster, Typed, DuplexInv, PatientInv, LossInv, [Next]_vars PROVE LossInv'
<1>1. timPc' = "clear" => eRcvState' # "RX_RCV"
  BY ClearIsIdle DEF LossInv, PatientInv
<1>2. ASSUME restarts' = 0, Begun' > 0
      PROVE  /\ NoStaleEvent' /\ LastKnown'
             /\ eRcvState' = "RX_ERROR" => Traffic[Last'].len > BufMax
             /\ \A n \in 1..(Begun' - 1) : NeedsAnswer(n)' => n \in answered'
  <2>1. restarts = 0 /\ ~eMBDisable
    BY <1>2, RestartsGrow
  <2>2. CASE UNCHANGED frames
    <3>1. Begun' = Begun /\ Last' = Last /\ Begun > 0 /\ Begun \in Nat
      BY <1>2, <2>2, LineFacts DEF Begun, Last
    <3>2. answered \subseteq answered'
      BY AnswerLeaves DEF PatientInv
    <3>3. \A n \in 1..Begun : NeedsAnswer(n)' <=> NeedsAnswer(n)
      BY NeedStays
    <3>4. \A n \in 1..(Begun' - 1) : NeedsAnswer(n)' => n \in answered'
      <4>1. ASSUME NEW n \in 1..(Begun' - 1), NeedsAnswer(n)' PROVE n \in answered'
        <5>1. n \in 1..(Begun - 1) /\ n \in 1..Begun
          BY <3>1
        <5> QED
          BY <2>1, <3>1, <3>2, <3>3, <4>1, <5>1 DEF LossInv
      <4> QED
        BY <4>1
    <3>5. LastKnown'
      <4>1. NeedsAnswer(Begun)' => NeedsAnswer(Begun)
        BY <2>2 DEF NeedsAnswer, Begun
      <4>2. NeedsAnswer(Begun) => Begun \in answered' \/ Waiting' \/ Busy'
        BY <2>1, <2>2, <3>1, <3>2, KnownKept
      <4> QED
        BY <3>1, <4>1, <4>2 DEF LastKnown
    <3>6. NoStaleEvent' /\ (eRcvState' = "RX_ERROR" => Traffic[Last'].len > BufMax)
      BY <2>1, <2>2, <3>1, StaleKept, ErrorKept
    <3> QED
      BY <3>4, <3>5, <3>6
  <2>3. ASSUME NEW r \in Requests, BeginFrame(r)
        PROVE  /\ NoStaleEvent' /\ LastKnown'
               /\ eRcvState' = "RX_ERROR" => Traffic[Last'].len > BufMax
               /\ \A n \in 1..(Begun' - 1) : NeedsAnswer(n)' => n \in answered'
    BY <2>1, <2>3, LossAtBegin
  <2> QED
    BY <2>2, <2>3, FramesGrow
<1> QED
  BY <1>1, <1>2 DEF LossInv

(* Whatever the interleaving of the three contexts, a slave that is idle   *)
(* again has sent the whole answer to every undamaged request that names   *)
(* it and fits its buffer: no event overwrites another in the one-place    *)
(* mailbox (portevent.c:60), and no byte of a request is missed.           *)
THEOREM AnswersEveryRequest == ASSUME PatientMaster PROVE Spec => []NoRequestLost
<1>1. Init => LossInv
  BY DEF Init, LossInv, Begun
<1>2. Typed /\ DuplexInv /\ PatientInv /\ LossInv /\ [Next]_vars => LossInv'
  BY LossKept
<1>3. Typed /\ PatientInv /\ LossInv => NoRequestLost
  BY QuietIsDone DEF NoRequestLost
<1>4. Spec => []DuplexInv
  BY AlwaysDuplex DEF PatientMaster
<1> QED
  BY <1>1, <1>2, <1>3, <1>4, AlwaysPatient, PTL DEF Spec

-----------------------------------------------------------------------------
(* No request is answered twice: each transmission that ends answers one   *)
(* that no earlier transmission did.                                       *)
AnswersOnce ==
  [][Sending /\ ~Sending' => taken \notin answered /\ answered' = answered \cup {taken}]_vars

(* A request that is still coming in or in the slave is not answered yet.  *)
NotYet == Waiting \/ Busy => Begun \notin answered

(* Work comes from work: only a frame that has come in is received, and    *)
(* only one that was received is executed and answered.                    *)
LEMMA WorkFromWork ==
  ASSUME Typed, PatientInv, LossInv, [Next]_vars, UNCHANGED frames, Waiting' \/ Busy'
  PROVE  Waiting \/ Busy
<1> USE DEF uart, enables, timer, rcvVars, sndVars, mailbox, pollVars, wire, control,
            Waiting, Busy, Received, Accepted, Queued, HasRead, Sending, LineIdle
<1>1. CASE USART2_RXNE
  BY <1>1 DEF USART2_RXNE
<1>2. CASE USART2_TC
  <2>1. tcIE
    BY <1>2 DEF USART2_TC
  <2> QED
    BY <2>1 DEF PatientInv, ControlInv, Enables
<1>3. CASE USART2_ORE \/ eMBPollEmpty \/ UNCHANGED vars
  BY <1>3 DEF USART2_ORE, eMBPollEmpty, vars
<1>4. CASE USART2_Clear
  <2>1. rxne' => rxne
    BY <1>4, Zenon DEF USART2_Clear
  <2> QED
    BY <1>4, <2>1 DEF USART2_Clear
<1>5. CASE TIM2_Post
  BY <1>5 DEF TIM2_Post, T35Event, xMBPortEventPost
<1>6. CASE TIM2_Disable \/ TIM2_Idle \/ TIM2_Clear
  BY <1>6 DEF TIM2_Disable, TIM2_Idle, TIM2_Clear, LossInv
<1>7. CASE eMBRTUInit \/ eMBInitEvent \/ eMBEnable \/ eMBDisable
  BY <1>7 DEF eMBRTUInit, eMBInitEvent, eMBEnable, eMBDisable, eMBRTUStart, eMBRTUStop, AtPc
<1>8. CASE xMBPortEventRead
  BY <1>8 DEF xMBPortEventRead, AtPc
<1>9. CASE xMBPortEventClear
  BY <1>9 DEF xMBPortEventClear
<1>10. CASE eMBRTUReceive
  BY <1>10 DEF eMBRTUReceive
<1>11. CASE PostExecute
  BY <1>11 DEF PostExecute, AtPc, xMBPortEventPost
<1>12. CASE ReadRequest \/ WriteResponse
  BY <1>12 DEF ReadRequest, WriteResponse, AtPc
<1>13. CASE eMBRTUSend
  BY <1>13 DEF eMBRTUSend, AtPc
<1>14. CASE UartShift \/ TimerExpires
  BY <1>14 DEF UartShift, TimerExpires
<1>15. CASE LineByte
  BY <1>15 DEF LineByte
<1>16. ASSUME NEW r \in Requests, BeginFrame(r) PROVE FALSE
  BY <1>16, FrameBegins, LineFacts DEF Begun
<1> QED
  BY <1>1, <1>2, <1>3, <1>4, <1>5, <1>6, <1>7, <1>8, <1>9, <1>10, <1>11, <1>12, <1>13, <1>14, <1>15,
     <1>16 DEF Next, Serial, Timer, Task, Hardware

(* With the end of its response a request has left the slave.              *)
LEMMA DoneWithAnswer ==
  ASSUME ControlInv, USART2_TC, Sending, usSndBufferCount = 0, UNCHANGED <<frames, mainPc, wpos>>
  PROVE  ~Waiting' /\ ~Busy'
<1> USE DEF USART2_TC, xMBRTUTransmitFSM, xMBPortEventPost, Sending
<1>1. LineIdle /\ ~rxne /\ (eRcvState = "RX_RCV" => timPc # "off")
  BY DEF ControlInv, BusyInv, Busy
<1>2. ~Waiting'
  BY <1>1 DEF rcvVars, Waiting, LineIdle
<1>3. ~Handling /\ ~HasRead("EV_FRAME_RECEIVED") /\ ~HasRead("EV_EXECUTE")
  BY DEF ControlInv, OneRequest
<1>4. ~Busy'
  BY <1>3 DEF pollVars, Busy, Received, Accepted, Queued, HasRead, Handling
<1> QED
  BY <1>2, <1>4

LEMMA NotYetKept ==
  ASSUME PatientMaster, Typed, PatientInv, LossInv, NotYet, [Next]_vars PROVE NotYet'
<1>1. ASSUME NEW r \in Requests, BeginFrame(r) PROVE NotYet'
  <2>1. Begun' = Begun + 1 /\ answered' = answered /\ Begun \in Nat
    BY <1>1, FrameBegins, LineFacts DEF BeginFrame
  <2>2. answered \subseteq 1..Begun
    BY DEF PatientInv, AnswersOnlyOwn, Begun
  <2> QED
    BY <2>1, <2>2 DEF NotYet
<1>2. CASE UNCHANGED frames
  <2>1. Begun' = Begun
    BY <1>2 DEF Begun
  <2>2. CASE UNCHANGED answered
    BY <1>2, <2>1, <2>2, WorkFromWork DEF NotYet
  <2>3. CASE USART2_TC /\ Sending /\ usSndBufferCount = 0 /\ UNCHANGED <<frames, mainPc, wpos>>
    BY <2>3, DoneWithAnswer DEF NotYet, PatientInv
  <2> QED
    BY <2>2, <2>3, AnswerLeaves DEF PatientInv
<1> QED
  BY <1>1, <1>2, FramesGrow

(* A request is answered at most once (mbrtu.c:312): however often the     *)
(* slave is stopped and restarted, it does not take a frame a second time, *)
(* nor send an answer again.                                               *)
THEOREM NoSecondAnswer == ASSUME PatientMaster PROVE Spec => AnswersOnce
<1>1. Init => LossInv /\ NotYet
  BY DEF Init, LossInv, Begun, NotYet
<1>2. Typed /\ DuplexInv /\ PatientInv /\ LossInv /\ NotYet /\ [Next]_vars => LossInv' /\ NotYet'
  BY LossKept, NotYetKept
<1>3. Typed /\ PatientInv /\ NotYet /\ [Next]_vars =>
        [Sending /\ ~Sending' => taken \notin answered /\ answered' = answered \cup {taken}]_vars
  <2> SUFFICES ASSUME Typed, PatientInv, NotYet, [Next]_vars, Sending, ~Sending'
               PROVE  taken \notin answered /\ answered' = answered \cup {taken}
    OBVIOUS
  <2>1. taken = Begun /\ answered' = answered \cup {Begun}
    BY AnswerLeaves DEF PatientInv
  <2> QED
    BY <2>1 DEF NotYet, Busy
<1>4. Spec => []DuplexInv
  BY AlwaysDuplex DEF PatientMaster
<1> QED
  BY <1>1, <1>2, <1>3, <1>4, AlwaysPatient, PTL DEF Spec, AnswersOnce

=============================================================================
