------------------------------- MODULE Ethernet -------------------------------
(***************************************************************************)
(* The descriptor rings of the Ethernet driver and the two contexts that   *)
(* use them: ETH_IRQHandler (stm32f4xx_it.c), which takes received frames  *)
(* and runs lwIP on them, and the main loop, which sends for lwIP's timers.*)
(* lwIP runs in both, so low_level_output is called from both.             *)
(*                                                                         *)
(* A received frame is its number, an answer to frame n is n again, and    *)
(* the k-th frame of the main loop is -k.  The DMA engine is external: it  *)
(* works on the rings between any two steps of the code.                   *)
(***************************************************************************)
EXTENDS Integers, FiniteSets, Sequences

CONSTANTS
  ETH_RXBUFNB,   \* 20 receive descriptors
  ETH_TXBUFNB,   \* 5 transmit descriptors
  MaxFrames,     \* bound: frames that arrive
  MaxOutputs,    \* bound: frames the main loop sends
  MaxLate,       \* frames that may arrive while the handler leaves its loop
  Preempt        \* may the interrupt come in the middle of low_level_output?

ASSUME RingAssumption == ETH_RXBUFNB \in Nat \ {0} /\ ETH_TXBUFNB \in Nat \ {0}
ASSUME BoundAssumption == MaxFrames \in Nat /\ MaxOutputs \in Nat
ASSUME LateAssumption == MaxLate \in 0..(ETH_RXBUFNB - 1)
ASSUME PreemptAssumption == Preempt \in BOOLEAN

VARIABLES
  rxOwner, rxBuf,    \* the receive ring
  rxDma,             \* the descriptor the DMA receives into next
  DMARxDescToGet,    \* the descriptor the handler reads next
  rbus, rs,          \* status bits: no receive buffer, frame received
  irq,               \* where ETH_IRQHandler is
  frame,             \* its frame: the number and the descriptor
  late,              \* frames that arrived since the handler left its loop
  arrived,           \* number of frames that arrived
  missed, dropped,   \* frames without a descriptor, without a pbuf
  delivered,         \* frames handed to lwIP, in order
  txOwner, txBuf,    \* the transmit ring
  txDma,             \* the descriptor the DMA sends next
  DMATxDescToSet,    \* the descriptor the code fills next
  tbus,              \* status bit: nothing to send, the DMA is suspended
  out,               \* low_level_output in each context
  outputs,           \* number of frames the main loop wanted to send
  accepted, refused, \* frames given to the DMA, in order, and turned down
  wire               \* frames sent, in order

rxRing == <<rxOwner, rxBuf, rxDma, rbus, rs, late, arrived, missed>>
rxCode == <<DMARxDescToGet, irq, frame, dropped, delivered>>
txRing == <<txOwner, txBuf, txDma, tbus, wire>>
txCode == <<DMATxDescToSet, out, outputs, accepted, refused>>
vars   == <<rxRing, rxCode, txRing, txCode>>

RxDesc  == 0..(ETH_RXBUFNB - 1)
TxDesc  == 0..(ETH_TXBUFNB - 1)
RxNext(d) == (d + 1) % ETH_RXBUFNB
TxNext(d) == (d + 1) % ETH_TXBUFNB
Owner   == {"DMA", "CPU"}
Frame   == (-MaxOutputs)..MaxFrames      \* 0 is no frame
Context == {"main", "irq"}
OutPc   == {"idle", "address", "copy", "check", "own", "resume", "advance"}

-----------------------------------------------------------------------------
Init ==
  /\ rxOwner = [d \in RxDesc |-> "DMA"] /\ rxBuf = [d \in RxDesc |-> 0]
  /\ rxDma = 0 /\ DMARxDescToGet = 0 /\ rbus = FALSE /\ rs = FALSE
  /\ irq = "off" /\ frame = [n |-> 0, desc |-> 0] /\ late = 0 /\ arrived = 0
  /\ missed = {} /\ dropped = {} /\ delivered = <<>>
  /\ txOwner = [d \in TxDesc |-> "CPU"] /\ txBuf = [d \in TxDesc |-> 0]
  /\ txDma = 0 /\ DMATxDescToSet = 0 /\ tbus = FALSE
  /\ out = [c \in Context |-> [pc |-> "idle", n |-> 0, buffer |-> 0]]
  /\ outputs = 0 /\ accepted = <<>> /\ refused = {} /\ wire = <<>>

-----------------------------------------------------------------------------
(* The DMA engine. *)

(* A frame goes into the current descriptor when the DMA owns it, and is   *)
(* lost when it does not.  No more than MaxLate come while the handler     *)
(* leaves its loop, which takes less than a frame does on the line.        *)
FrameArrives ==
  /\ arrived < MaxFrames
  /\ irq = "clear" => late < MaxLate
  /\ arrived' = arrived + 1
  /\ late' = IF irq = "clear" THEN late + 1 ELSE 0
  /\ IF rxOwner[rxDma] = "DMA"
     THEN /\ rxBuf' = [rxBuf EXCEPT ![rxDma] = arrived + 1]
          /\ rxOwner' = [rxOwner EXCEPT ![rxDma] = "CPU"]
          /\ rxDma' = RxNext(rxDma) /\ rs' = TRUE
          /\ rbus' = (rbus \/ rxOwner'[rxDma'] = "CPU")
          /\ UNCHANGED missed
     ELSE /\ missed' = missed \cup {arrived + 1} /\ rbus' = TRUE
          /\ UNCHANGED <<rxBuf, rxOwner, rxDma, rs>>
  /\ UNCHANGED <<rxCode, txRing, txCode>>

TxSend ==
  /\ ~tbus /\ txOwner[txDma] = "DMA"
  /\ wire' = Append(wire, txBuf[txDma])
  /\ txOwner' = [txOwner EXCEPT ![txDma] = "CPU"] /\ txDma' = TxNext(txDma)
  /\ UNCHANGED <<txBuf, tbus, rxRing, rxCode, txCode>>

TxSuspend ==
  /\ ~tbus /\ txOwner[txDma] = "CPU"
  /\ tbus' = TRUE
  /\ UNCHANGED <<txOwner, txBuf, txDma, wire, rxRing, rxCode, txCode>>

-----------------------------------------------------------------------------
(* low_level_output and eth_tx_packet.  The interrupt handler is never     *)
(* preempted; the main loop stands still while the handler runs.           *)

Runs(c, pc) == out[c].pc = pc /\ (c = "main" => irq = "off")
Goto(c, pc) == out' = [out EXCEPT ![c].pc = pc]

Output ==
  /\ irq = "off" /\ out["main"].pc = "idle" /\ outputs < MaxOutputs
  /\ outputs' = outputs + 1
  /\ out' = [out EXCEPT !["main"] = [pc |-> "address", n |-> -(outputs + 1), buffer |-> 0]]
  /\ UNCHANGED <<DMATxDescToSet, accepted, refused, txRing, rxRing, rxCode>>

eth_get_current_tx_buffer(c) ==
  /\ Runs(c, "address")
  /\ out' = [out EXCEPT ![c].pc = "copy", ![c].buffer = DMATxDescToSet]
  /\ UNCHANGED <<DMATxDescToSet, outputs, accepted, refused, txRing, rxRing, rxCode>>

CopyOut(c) ==
  /\ Runs(c, "copy")
  /\ txBuf' = [txBuf EXCEPT ![out[c].buffer] = out[c].n]
  /\ Goto(c, "check")
  /\ UNCHANGED <<txOwner, txDma, tbus, wire, DMATxDescToSet, outputs, accepted, refused, rxRing, rxCode>>

(* Mutant of CheckOwner: the owner is not looked at. *)
CheckNothing(c) ==
  /\ Runs(c, "check")
  /\ Goto(c, "own") /\ UNCHANGED refused
  /\ UNCHANGED <<DMATxDescToSet, outputs, accepted, txRing, rxRing, rxCode>>

CheckOwner(c) ==
  /\ Runs(c, "check")
  /\ IF txOwner[DMATxDescToSet] = "DMA"
     THEN Goto(c, "idle") /\ refused' = refused \cup {out[c].n}
     ELSE Goto(c, "own") /\ UNCHANGED refused
  /\ UNCHANGED <<DMATxDescToSet, outputs, accepted, txRing, rxRing, rxCode>>

SetOwner(c) ==
  /\ Runs(c, "own")
  /\ txOwner' = [txOwner EXCEPT ![DMATxDescToSet] = "DMA"]
  /\ accepted' = Append(accepted, out[c].n)
  /\ Goto(c, "resume")
  /\ UNCHANGED <<txBuf, txDma, tbus, wire, DMATxDescToSet, outputs, refused, rxRing, rxCode>>

(* Mutant of ResumeTx: a suspended DMA is left to itself. *)
ResumeNothing(c) ==
  /\ Runs(c, "resume")
  /\ Goto(c, "advance")
  /\ UNCHANGED <<DMATxDescToSet, outputs, accepted, refused, txRing, rxRing, rxCode>>

ResumeTx(c) ==
  /\ Runs(c, "resume")
  /\ tbus' = FALSE
  /\ Goto(c, "advance")
  /\ UNCHANGED <<txOwner, txBuf, txDma, wire, DMATxDescToSet, outputs, accepted, refused, rxRing, rxCode>>

(* Mutant of AdvanceTx: the ring does not close. *)
AdvanceStraight(c) ==
  /\ Runs(c, "advance")
  /\ DMATxDescToSet' = DMATxDescToSet + 1
  /\ Goto(c, "idle")
  /\ UNCHANGED <<outputs, accepted, refused, txRing, rxRing, rxCode>>

AdvanceTx(c) ==
  /\ Runs(c, "advance")
  /\ DMATxDescToSet' = TxNext(DMATxDescToSet)
  /\ Goto(c, "idle")
  /\ UNCHANGED <<outputs, accepted, refused, txRing, rxRing, rxCode>>

low_level_output(c) ==
  \/ eth_get_current_tx_buffer(c) \/ CopyOut(c) \/ CheckOwner(c)
  \/ SetOwner(c) \/ ResumeTx(c) \/ AdvanceTx(c)

-----------------------------------------------------------------------------
(* ETH_IRQHandler.  ETH_GetRxPktSize is not 0 exactly for a frame the DMA  *)
(* has stored: one that is longer than a buffer is not modelled.           *)

Interrupt ==
  /\ irq = "off" /\ rs
  /\ Preempt \/ out["main"].pc = "idle"
  /\ irq' = "look"
  /\ UNCHANGED <<DMARxDescToGet, frame, dropped, delivered, rxRing, txRing, txCode>>

LookForFrame ==
  /\ irq = "look"
  /\ irq' = IF rxOwner[DMARxDescToGet] = "CPU" THEN "take" ELSE "clear"
  /\ UNCHANGED <<DMARxDescToGet, frame, dropped, delivered, rxRing, txRing, txCode>>

eth_rx_packet ==
  /\ irq = "take"
  /\ frame' = [n |-> 0, desc |-> DMARxDescToGet]
  /\ DMARxDescToGet' = RxNext(DMARxDescToGet)
  /\ irq' = "copy"
  /\ UNCHANGED <<dropped, delivered, rxRing, txRing, txCode>>

(* Mutant of CopyIn: the bytes are read at the next descriptor. *)
CopyNext ==
  /\ irq = "copy"
  /\ \/ frame' = [frame EXCEPT !.n = rxBuf[DMARxDescToGet]] /\ UNCHANGED dropped
     \/ dropped' = dropped \cup {rxBuf[frame.desc]} /\ UNCHANGED frame
  /\ irq' = "release"
  /\ UNCHANGED <<DMARxDescToGet, delivered, rxRing, txRing, txCode>>

(* The pbuf pool may be empty; then the frame is dropped. *)
CopyIn ==
  /\ irq = "copy"
  /\ \/ frame' = [frame EXCEPT !.n = rxBuf[frame.desc]] /\ UNCHANGED dropped
     \/ dropped' = dropped \cup {rxBuf[frame.desc]} /\ UNCHANGED frame
  /\ irq' = "release"
  /\ UNCHANGED <<DMARxDescToGet, delivered, rxRing, txRing, txCode>>

(* Mutant of Release: a frame without a pbuf keeps its descriptor. *)
ReleaseDelivered ==
  /\ irq = "release"
  /\ rxOwner' = IF frame.n # 0 THEN [rxOwner EXCEPT ![frame.desc] = "DMA"] ELSE rxOwner
  /\ irq' = "resume"
  /\ UNCHANGED <<rxBuf, rxDma, rbus, rs, late, arrived, missed>>
  /\ UNCHANGED <<DMARxDescToGet, frame, dropped, delivered, txRing, txCode>>

Release ==
  /\ irq = "release"
  /\ rxOwner' = [rxOwner EXCEPT ![frame.desc] = "DMA"]
  /\ irq' = "resume"
  /\ UNCHANGED <<rxBuf, rxDma, rbus, rs, late, arrived, missed>>
  /\ UNCHANGED <<DMARxDescToGet, frame, dropped, delivered, txRing, txCode>>

(* The DMA looks at its descriptor again with the next frame anyway. *)
ResumeRx ==
  /\ irq = "resume"
  /\ rbus' = FALSE
  /\ irq' = IF frame.n = 0 THEN "look" ELSE "input"
  /\ UNCHANGED <<rxOwner, rxBuf, rxDma, rs, late, arrived, missed>>
  /\ UNCHANGED <<DMARxDescToGet, frame, dropped, delivered, txRing, txCode>>

(* netif->input: lwIP may answer at once. *)
Input ==
  /\ irq = "input"
  /\ delivered' = Append(delivered, frame.n)
  /\ \/ irq' = "look" /\ UNCHANGED out
     \/ /\ irq' = "answer"
        /\ out' = [out EXCEPT !["irq"] = [pc |-> "address", n |-> frame.n, buffer |-> 0]]
  /\ UNCHANGED <<DMARxDescToGet, frame, dropped, rxRing, txRing>>
  /\ UNCHANGED <<DMATxDescToSet, outputs, accepted, refused>>

Answered ==
  /\ irq = "answer" /\ out["irq"].pc = "idle"
  /\ irq' = "look"
  /\ UNCHANGED <<DMARxDescToGet, frame, dropped, delivered, rxRing, txRing, txCode>>

ClearPending ==
  /\ irq = "clear"
  /\ rs' = FALSE /\ late' = 0 /\ irq' = "off"
  /\ UNCHANGED <<rxOwner, rxBuf, rxDma, rbus, arrived, missed>>
  /\ UNCHANGED <<DMARxDescToGet, frame, dropped, delivered, txRing, txCode>>

ETH_IRQHandler ==
  \/ LookForFrame \/ eth_rx_packet \/ CopyIn \/ Release \/ ResumeRx
  \/ Input \/ low_level_output("irq") \/ Answered \/ ClearPending

-----------------------------------------------------------------------------
Next ==
  \/ FrameArrives \/ TxSend \/ TxSuspend
  \/ Output \/ low_level_output("main")
  \/ Interrupt \/ ETH_IRQHandler

(* The DMA works, an interrupt is taken and its handler runs to its end,   *)
(* an output that was begun goes on.  Nothing has to arrive or to be sent. *)
Fairness ==
  /\ WF_vars(TxSend) /\ WF_vars(TxSuspend)
  /\ WF_vars(Interrupt) /\ WF_vars(ETH_IRQHandler) /\ WF_vars(low_level_output("main"))

Spec == Init /\ [][Next]_vars /\ Fairness

-----------------------------------------------------------------------------
(* Properties *)

TypeOK ==
  /\ rxOwner \in [RxDesc -> Owner] /\ rxBuf \in [RxDesc -> 0..MaxFrames]
  /\ rxDma \in RxDesc /\ DMARxDescToGet \in RxDesc /\ rbus \in BOOLEAN /\ rs \in BOOLEAN
  /\ irq \in {"off", "look", "take", "copy", "release", "resume", "input", "answer", "clear"}
  /\ frame \in [n : 0..MaxFrames, desc : RxDesc]
  /\ late \in 0..MaxLate /\ arrived \in 0..MaxFrames
  /\ missed \subseteq 1..MaxFrames /\ dropped \subseteq 0..MaxFrames
  /\ delivered \in Seq(0..MaxFrames)
  /\ txOwner \in [TxDesc -> Owner] /\ txBuf \in [TxDesc -> Frame]
  /\ txDma \in TxDesc /\ DMATxDescToSet \in TxDesc /\ tbus \in BOOLEAN
  /\ out \in [Context -> [pc : OutPc, n : Frame, buffer : TxDesc]]
  /\ outputs \in 0..MaxOutputs
  /\ accepted \in Seq(Frame) /\ refused \subseteq Frame /\ wire \in Seq(Frame)

(* Every frame that came is, exactly once, with lwIP, dropped for want of  *)
(* a pbuf, missed for want of a descriptor, or still in the ring; lwIP     *)
(* gets them unmixed and in the order they came, whatever the DMA stores   *)
(* while the handler copies (eth.c:83, ethernetif.c:127).                  *)
Given   == {delivered[k] : k \in 1..Len(delivered)}
InHand  == IF irq \in {"release", "resume", "input"} /\ frame.n # 0 THEN {frame.n} ELSE {}
Waiting == {rxBuf[d] : d \in {e \in RxDesc :
              /\ rxOwner[e] = "CPU"
              /\ irq = "release" => e # frame.desc}}
Accounted ==
  /\ \A k \in 1..(Len(delivered) - 1) : delivered[k] < delivered[k + 1]
  /\ 1..arrived = Given \cup InHand \cup dropped \cup missed \cup Waiting
  /\ Cardinality(Given) + Cardinality(InHand) + Cardinality(dropped) + Cardinality(missed)
       + Cardinality(Waiting) = arrived

(* A frame in the ring is taken at the latest when the next one is stored, *)
(* although the handler clears the flag of one that came after its last    *)
(* look (stm32f4xx_it.c:174): the ring never stops for good.               *)
ServedWithNext ==
  \A n \in 1..MaxFrames : n \in Waiting /\ arrived > n ~> n \notin Waiting

(* The DMA finds the accepted frames in the order they were accepted and   *)
(* each once.  What it finds in place of one is the frame that came when   *)
(* all the ring was full: it was copied over the oldest before the owner   *)
(* was checked (ethernetif.c:73-79), be it refused or accepted then.       *)
Outgoing == {out[c].n : c \in {b \in Context : out[b].pc \in {"check", "own"}}}
SentAsAccepted ==
  /\ Len(wire) <= Len(accepted)
  /\ \A k \in 1..Len(wire) :
       \/ wire[k] = accepted[k]
       \/ Len(accepted) >= k + ETH_TXBUFNB - 1
          /\ \/ wire[k] \in refused \cup Outgoing
             \/ k + ETH_TXBUFNB \in 1..Len(accepted) /\ wire[k] = accepted[k + ETH_TXBUFNB]

(* Every accepted frame is sent: no descriptor is left behind with a       *)
(* suspended DMA (eth.c:109).                                              *)
AcceptedSent ==
  \A k \in 1..(MaxFrames + MaxOutputs) : Len(accepted) >= k ~> Len(wire) >= k

===============================================================================
