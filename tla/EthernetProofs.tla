--------------------------- MODULE EthernetProofs ---------------------------
(***************************************************************************)
(* The Ethernet driver with rings of any length and any number of frames:  *)
(* no frame that came is lost unnoticed, mixed or handed to lwIP twice,    *)
(* and the DMA sends what was given to it, in order.                       *)
(*                                                                         *)
(* Places in a ring are counted from a place of it, without a remainder.   *)
(***************************************************************************)
EXTENDS Ethernet, FiniteSetTheorems, TLAPS

Dist(tail, d, n) == IF d >= tail THEN d - tail ELSE d - tail + n

(* The m places of a ring of n from place tail on, and the place after.    *)
Within(tail, d, n, m) == Dist(tail, d, n) < m
After(tail, d, n, m)  == IF m = n THEN d = tail ELSE m < n /\ Dist(tail, d, n) = m

-----------------------------------------------------------------------------
(* The receive ring: the descriptors with a frame are those from the one   *)
(* the handler works on to the one the DMA receives into, and their frames *)
(* came in this order.                                                     *)

RxTail  == IF irq \in {"copy", "release"} THEN frame.desc ELSE DMARxDescToGet
RxDist(d) == Dist(RxTail, d, ETH_RXBUFNB)

RxOrder ==
  /\ \E m \in 0..ETH_RXBUFNB :
       /\ \A d \in RxDesc : rxOwner[d] = "CPU" <=> Within(RxTail, d, ETH_RXBUFNB, m)
       /\ After(RxTail, rxDma, ETH_RXBUFNB, m)
  /\ \A d \in RxDesc : rxOwner[d] = "CPU" => rxBuf[d] \in 1..arrived
  /\ \A d, e \in RxDesc : rxOwner[e] = "CPU" /\ RxDist(d) < RxDist(e) => rxBuf[d] < rxBuf[e]

(* The handler and the descriptor it works on. *)
RxHandler ==
  /\ irq = "take" => rxOwner[DMARxDescToGet] = "CPU"
  /\ irq \in {"copy", "release"} =>
       rxOwner[frame.desc] = "CPU" /\ DMARxDescToGet = RxNext(frame.desc)
  /\ irq = "copy" => frame.n = 0
  /\ irq = "release" => \/ frame.n = rxBuf[frame.desc]
                        \/ frame.n = 0 /\ rxBuf[frame.desc] \in dropped
  /\ irq = "input" => frame.n # 0

(* Where each frame is, and that it is there once. *)
RxSets ==
  /\ 1..arrived = Given \cup InHand \cup dropped \cup missed \cup Waiting
  /\ \A k, l \in 1..Len(delivered) : k < l => delivered[k] < delivered[l]
  /\ \A f \in Given, g \in InHand \cup Waiting : f < g
  /\ \A f \in InHand, g \in Waiting : f < g
  /\ dropped \cap (Given \cup InHand \cup missed \cup Waiting) = {}
  /\ missed \cap (Given \cup InHand \cup Waiting) = {}

(* The part of TypeOK about the receive ring and the handler. *)
RxTypes ==
  /\ rxOwner \in [RxDesc -> Owner] /\ rxBuf \in [RxDesc -> 0..MaxFrames]
  /\ rxDma \in RxDesc /\ DMARxDescToGet \in RxDesc /\ rbus \in BOOLEAN /\ rs \in BOOLEAN
  /\ irq \in {"off", "look", "take", "copy", "release", "resume", "input", "answer", "clear"}
  /\ frame \in [n : 0..MaxFrames, desc : RxDesc]
  /\ late \in 0..MaxLate /\ arrived \in 0..MaxFrames
  /\ missed \subseteq 1..MaxFrames /\ dropped \subseteq 0..MaxFrames
  /\ delivered \in Seq(0..MaxFrames)

RxInv == RxTypes /\ RxOrder /\ RxHandler /\ RxSets

-----------------------------------------------------------------------------
(* The transmit ring: the frames given to the DMA and not yet sent lie in  *)
(* the descriptors from the one it sends next to the one that is filled    *)
(* next, in order, but for the first one, which is copied over when the    *)
(* ring is full.                                                           *)

TxHead == IF \E c \in Context : out[c].pc \in {"resume", "advance"}
          THEN TxNext(DMATxDescToSet) ELSE DMATxDescToSet
TxDist(d) == Dist(txDma, d, ETH_TXBUFNB)
TxCount   == Len(accepted) - Len(wire)

(* One context at a time: the interrupt waits for the main loop. *)
OneOutput ==
  /\ irq # "off" => out["main"].pc = "idle"
  /\ irq # "answer" => out["irq"].pc = "idle"

TxOrder ==
  /\ TxCount \in 0..ETH_TXBUFNB
  /\ \A d \in TxDesc : txOwner[d] = "DMA" <=> Within(txDma, d, ETH_TXBUFNB, TxCount)
  /\ After(txDma, TxHead, ETH_TXBUFNB, TxCount)

(* What may be sent in place of the k-th accepted frame: one copied over   *)
(* it when all the ring was full.                                          *)
CopiedOver(n, k) ==
  /\ Len(accepted) >= k + ETH_TXBUFNB - 1
  /\ \/ n \in refused
     \/ k + ETH_TXBUFNB \in 1..Len(accepted) /\ n = accepted[k + ETH_TXBUFNB]
     \/ n \in Outgoing /\ Len(accepted) = k + ETH_TXBUFNB - 1

TxStored ==
  \A d \in TxDesc : txOwner[d] = "DMA" =>
    LET k == Len(wire) + TxDist(d) + 1
    IN  txBuf[d] = accepted[k] \/ (d = txDma /\ CopiedOver(txBuf[d], k))

TxFilling ==
  \A c \in Context :
    /\ out[c].pc = "copy" => out[c].buffer = DMATxDescToSet
    /\ out[c].pc \in {"check", "own"} => txBuf[DMATxDescToSet] = out[c].n
    /\ out[c].pc = "own" => txOwner[DMATxDescToSet] = "CPU"

TxSent == \A k \in 1..Len(wire) : wire[k] = accepted[k] \/ CopiedOver(wire[k], k)

TxTypes ==
  /\ txOwner \in [TxDesc -> Owner] /\ txBuf \in [TxDesc -> Frame]
  /\ txDma \in TxDesc /\ DMATxDescToSet \in TxDesc /\ tbus \in BOOLEAN
  /\ out \in [Context -> [pc : OutPc, n : Frame, buffer : TxDesc]]
  /\ outputs \in 0..MaxOutputs
  /\ accepted \in Seq(Frame) /\ refused \subseteq Frame /\ wire \in Seq(Frame)

TxInv == TxTypes /\ OneOutput /\ TxOrder /\ TxStored /\ TxFilling /\ TxSent

-----------------------------------------------------------------------------
(* Rings.  A ring of n places, m of them from place tail on. *)

LEMMA NextPlace ==
  ASSUME NEW n \in Nat \ {0}, NEW d \in 0..(n - 1)
  PROVE  (d + 1) % n = IF d = n - 1 THEN 0 ELSE d + 1
<1>1. CASE d = n - 1
  BY <1>1
<1>2. CASE d # n - 1
  BY <1>2
<1> QED
  BY <1>1, <1>2

LEMMA RingGrows ==
  ASSUME NEW n \in Nat \ {0}, NEW tail \in 0..(n - 1), NEW m \in 0..(n - 1),
         NEW last \in 0..(n - 1), After(tail, last, n, m)
  PROVE  /\ Dist(tail, last, n) = m
         /\ \A d \in 0..(n - 1) : Within(tail, d, n, m + 1) <=> Within(tail, d, n, m) \/ d = last
         /\ After(tail, (last + 1) % n, n, m + 1)
<1>1. (last + 1) % n = IF last = n - 1 THEN 0 ELSE last + 1
  BY NextPlace
<1>2. Dist(tail, last, n) = m
  BY DEF After
<1>3. \A d \in 0..(n - 1) : Dist(tail, d, n) = m <=> d = last
  BY <1>2 DEF Dist
<1>4. \A d \in 0..(n - 1) : Within(tail, d, n, m + 1) <=> Within(tail, d, n, m) \/ d = last
  <2>1. \A d \in 0..(n - 1) : Dist(tail, d, n) \in Nat
    BY DEF Dist
  <2> QED
    BY <1>3, <2>1 DEF Within
<1>5. After(tail, (last + 1) % n, n, m + 1)
  <2>1. CASE last = n - 1
    BY <1>1, <1>2, <2>1 DEF After, Dist
  <2>2. CASE last # n - 1
    BY <1>1, <1>2, <2>2 DEF After, Dist
  <2> QED
    BY <2>1, <2>2
<1> QED
  BY <1>2, <1>4, <1>5

LEMMA RingShrinks ==
  ASSUME NEW n \in Nat \ {0}, NEW tail \in 0..(n - 1), NEW m \in 1..n,
         NEW last \in 0..(n - 1), After(tail, last, n, m)
  PROVE  LET next == (tail + 1) % n
         IN  /\ next \in 0..(n - 1)
             /\ \A d \in 0..(n - 1) : Within(next, d, n, m - 1) <=> Within(tail, d, n, m) /\ d # tail
             /\ \A d \in 0..(n - 1) : d # tail => Dist(next, d, n) = Dist(tail, d, n) - 1
             /\ After(next, last, n, m - 1)
<1> DEFINE next == (tail + 1) % n
<1>1. next = (IF tail = n - 1 THEN 0 ELSE tail + 1) /\ next \in 0..(n - 1)
  BY NextPlace
<1> HIDE DEF next
<1>2. \A d \in 0..(n - 1) : d # tail => Dist(next, d, n) = Dist(tail, d, n) - 1
  BY <1>1 DEF Dist
<1>3. Dist(next, tail, n) = n - 1 /\ Dist(tail, tail, n) = 0
  BY <1>1 DEF Dist
<1>4. \A d \in 0..(n - 1) : Dist(tail, d, n) \in Int
  BY DEF Dist
<1>5. \A d \in 0..(n - 1) : Within(next, d, n, m - 1) <=> Within(tail, d, n, m) /\ d # tail
  BY <1>2, <1>3, <1>4 DEF Within
<1>6. After(next, last, n, m - 1)
  <2>1. CASE last = tail
    <3>1. m = n
      BY <1>3, <2>1 DEF After
    <3> QED
      BY <1>3, <2>1, <3>1 DEF After
  <2>2. CASE last # tail
    <3>1. m # n /\ Dist(tail, last, n) = m
      BY <2>2 DEF After
    <3> QED
      BY <1>2, <2>2, <3>1 DEF After
  <2> QED
    BY <2>1, <2>2
<1> QED
  BY <1>1, <1>2, <1>5, <1>6 DEF next

LEMMA RingPlaces ==
  ASSUME NEW n \in Nat \ {0}, NEW tail \in 0..(n - 1)
  PROVE  /\ \A d \in 0..(n - 1) : Dist(tail, d, n) \in 0..(n - 1) /\ (Dist(tail, d, n) = 0 <=> d = tail)
         /\ \A d \in 0..(n - 1) : d # tail => Dist(tail, tail, n) < Dist(tail, d, n)
BY DEF Dist

-----------------------------------------------------------------------------
(* The receive ring.  Every step of the transmit side leaves it alone. *)

LEMMA TxLeavesRx ==
  ASSUME TxSend \/ TxSuspend \/ Output \/ low_level_output("main") \/ low_level_output("irq")
  PROVE  UNCHANGED <<rxRing, rxCode>>
BY DEF TxSend, TxSuspend, Output, low_level_output, eth_get_current_tx_buffer, CopyOut, CheckOwner,
   SetOwner, ResumeTx, AdvanceTx

LEMMA RxUnchanged ==
  ASSUME RxInv, UNCHANGED <<rxRing, rxCode>>
  PROVE  RxInv'
<1> USE DEF rxRing, rxCode, RxInv
<1>1. RxTypes'
  BY DEF RxTypes
<1>2. RxTail' = RxTail
  BY DEF RxTail
<1>3. RxOrder' /\ RxHandler'
  BY <1>2 DEF RxOrder, RxHandler, RxDist
<1>4. Given' = Given /\ InHand' = InHand /\ Waiting' = Waiting
  BY DEF Given, InHand, Waiting
<1>5. RxSets'
  BY <1>4 DEF RxSets
<1> QED
  BY <1>1, <1>3, <1>5

LEMMA RxTypesKept ==
  ASSUME RxTypes, [Next]_vars
  PROVE  RxTypes'
<1> USE DEF RxTypes, rxRing, rxCode
<1>0. /\ MaxLate \in Nat
      /\ \A d \in RxDesc : RxNext(d) \in RxDesc
  BY NextPlace, RingAssumption, LateAssumption DEF RxNext, RxDesc
<1>1. CASE FrameArrives
  <2>1. late' \in 0..MaxLate
    BY <1>0, <1>1 DEF FrameArrives
  <2>2. arrived + 1 \in 1..MaxFrames /\ arrived + 1 \in 0..MaxFrames
    BY <1>1, BoundAssumption DEF FrameArrives
  <2>3. CASE rxOwner[rxDma] = "DMA"
    <3>1. rxBuf' \in [RxDesc -> 0..MaxFrames] /\ rxOwner' \in [RxDesc -> Owner]
      BY <1>1, <2>2, <2>3 DEF FrameArrives, Owner
    <3>2. rbus' \in BOOLEAN
      BY <1>1, <2>3 DEF FrameArrives
    <3>3. rxDma' \in RxDesc /\ rs' \in BOOLEAN /\ arrived' \in 0..MaxFrames /\ missed' = missed
      BY <1>0, <1>1, <2>2, <2>3 DEF FrameArrives
    <3>4. UNCHANGED rxCode
      BY <1>1 DEF FrameArrives
    <3> QED
      BY <2>1, <3>1, <3>2, <3>3, <3>4
  <2>4. CASE rxOwner[rxDma] # "DMA"
    BY <1>1, <2>1, <2>2, <2>4 DEF FrameArrives
  <2> QED
    BY <2>3, <2>4
<1>2. CASE Interrupt
  BY <1>2 DEF Interrupt
<1>3. CASE LookForFrame
  BY <1>3 DEF LookForFrame
<1>4. CASE eth_rx_packet
  <2>1. frame' \in [n : 0..MaxFrames, desc : RxDesc]
    BY <1>4, BoundAssumption DEF eth_rx_packet
  <2> QED
    BY <1>0, <1>4, <2>1 DEF eth_rx_packet
<1>5. CASE CopyIn
  <2>1. rxBuf[frame.desc] \in 0..MaxFrames
    OBVIOUS
  <2> QED
    BY <1>5, <2>1 DEF CopyIn
<1>6. CASE Release
  BY <1>6 DEF Release, Owner
<1>7. CASE ResumeRx
  BY <1>7 DEF ResumeRx
<1>8. CASE Input
  BY <1>8 DEF Input
<1>9. CASE Answered
  BY <1>9 DEF Answered
<1>10. CASE ClearPending
  <2>1. late' = 0 /\ late' \in 0..MaxLate
    BY <1>0, <1>10 DEF ClearPending
  <2>3. rs' \in BOOLEAN
    BY <1>10 DEF ClearPending
  <2> QED
    BY <1>10, <2>1, <2>3 DEF ClearPending
<1>11. CASE UNCHANGED vars
  BY <1>11 DEF vars
<1>12. CASE UNCHANGED <<rxRing, rxCode>>
  BY <1>12
<1> QED
  BY <1>1, <1>2, <1>3, <1>4, <1>5, <1>6, <1>7, <1>8, <1>9, <1>10, <1>11, <1>12, TxLeavesRx
  DEF Next, ETH_IRQHandler

(* What the ring says of a frame in it. *)
LEMMA WaitingFacts ==
  ASSUME RxInv
  PROVE  /\ Waiting \subseteq 1..arrived
         /\ irq # "release" => Waiting = {rxBuf[d] : d \in {e \in RxDesc : rxOwner[e] = "CPU"}}
         /\ irq = "release" =>
              Waiting = {rxBuf[d] : d \in {e \in RxDesc : rxOwner[e] = "CPU" /\ e # frame.desc}}
BY DEF RxInv, RxOrder, Waiting

(* Steps that only move the handler. *)
LEMMA RxQuiet ==
  ASSUME RxInv, RxTail' = RxTail, InHand' = InHand, Waiting' = Waiting,
         UNCHANGED <<rxOwner, rxBuf, rxDma, arrived, missed, dropped, delivered>>
  PROVE  RxOrder' /\ RxSets'
<1>1. RxOrder'
  BY DEF RxInv, RxOrder, RxDist
<1>2. Given' = Given
  BY DEF Given
<1>3. RxSets'
  BY <1>2 DEF RxInv, RxSets
<1> QED
  BY <1>1, <1>3

LEMMA RxControlKept ==
  ASSUME RxInv, Interrupt \/ LookForFrame \/ eth_rx_packet \/ ResumeRx \/ Answered \/ ClearPending
  PROVE  RxOrder' /\ RxHandler' /\ RxSets'
<1>1. UNCHANGED <<rxOwner, rxBuf, rxDma, arrived, missed, dropped, delivered>>
  BY DEF Interrupt, LookForFrame, eth_rx_packet, ResumeRx, Answered, ClearPending, rxRing
<1>2. irq # "release" /\ irq' # "release"
  BY DEF Interrupt, LookForFrame, eth_rx_packet, ResumeRx, Answered, ClearPending
<1>3. Waiting' = Waiting
  BY <1>1, <1>2 DEF Waiting
<1>4. RxTail' = RxTail /\ InHand' = InHand /\ RxHandler'
  <2>1. frame \in [n : 0..MaxFrames, desc : RxDesc]
    BY DEF RxInv, RxTypes
  <2>2. CASE Interrupt \/ LookForFrame \/ Answered \/ ClearPending
    BY <1>1, <2>2 DEF Interrupt, LookForFrame, Answered, ClearPending, RxTail, InHand, RxHandler
  <2>3. CASE eth_rx_packet
    BY <1>1, <2>3 DEF eth_rx_packet, RxTail, InHand, RxHandler, RxInv
  <2>4. CASE ResumeRx
    BY <1>1, <2>1, <2>4 DEF ResumeRx, RxTail, InHand, RxHandler
  <2> QED
    BY <2>2, <2>3, <2>4
<1> QED
  BY <1>1, <1>3, <1>4, RxQuiet

(* A frame that arrives is stored behind the others, or missed. *)
LEMMA FrameArrivesKept ==
  ASSUME RxInv, FrameArrives
  PROVE  RxOrder' /\ RxHandler' /\ RxSets'
<1>1. /\ arrived \in Nat /\ arrived' = arrived + 1 /\ irq' = irq /\ frame' = frame
      /\ DMARxDescToGet' = DMARxDescToGet /\ dropped' = dropped /\ delivered' = delivered
  BY BoundAssumption DEF FrameArrives, rxCode, RxInv, RxTypes
<1>2. /\ RxTail' = RxTail /\ Given' = Given /\ InHand' = InHand
      /\ RxTail \in RxDesc /\ rxDma \in RxDesc /\ frame.desc \in RxDesc
  BY <1>1 DEF RxTail, Given, InHand, RxInv, RxTypes
<1>3. /\ Given \subseteq 1..arrived /\ InHand \subseteq 1..arrived /\ dropped \subseteq 1..arrived
      /\ missed \subseteq 1..arrived /\ Waiting \subseteq 1..arrived
      /\ 1..(arrived + 1) = 1..arrived \cup {arrived + 1} /\ arrived + 1 \notin 1..arrived
  BY <1>1 DEF RxInv, RxSets
<1>4. CASE rxOwner[rxDma] = "DMA"
  <2>1. /\ rxBuf' = [rxBuf EXCEPT ![rxDma] = arrived + 1]
        /\ rxOwner' = [rxOwner EXCEPT ![rxDma] = "CPU"]
        /\ rxDma' = RxNext(rxDma) /\ missed' = missed
    BY <1>4 DEF FrameArrives
  <2>2. /\ rxOwner'[rxDma] = "CPU" /\ rxBuf'[rxDma] = arrived + 1
        /\ \A d \in RxDesc : d # rxDma => rxOwner'[d] = rxOwner[d] /\ rxBuf'[d] = rxBuf[d]
    BY <1>2, <2>1 DEF RxInv, RxTypes
  <2>3. PICK m \in 0..ETH_RXBUFNB :
          /\ \A d \in RxDesc : rxOwner[d] = "CPU" <=> Within(RxTail, d, ETH_RXBUFNB, m)
          /\ After(RxTail, rxDma, ETH_RXBUFNB, m)
    BY DEF RxInv, RxOrder
  <2>4. \A d \in RxDesc : RxDist(d) \in 0..(ETH_RXBUFNB - 1)
    BY <1>2, RingPlaces, RingAssumption DEF RxDist, RxDesc
  <2>5. m \in 0..(ETH_RXBUFNB - 1)
    BY <1>2, <1>4, <2>3, <2>4, RingAssumption DEF Within, RxDist
  <2>6. /\ RxDist(rxDma) = m
        /\ \A d \in RxDesc : Within(RxTail, d, ETH_RXBUFNB, m + 1) <=>
                                Within(RxTail, d, ETH_RXBUFNB, m) \/ d = rxDma
        /\ After(RxTail, rxDma', ETH_RXBUFNB, m + 1)
    BY <1>2, <2>1, <2>3, <2>5, RingGrows, RingAssumption DEF RxDist, RxDesc, RxNext
  <2>7. m + 1 \in 0..ETH_RXBUFNB
    BY <2>5, RingAssumption
  <2>8. \A d \in RxDesc : rxOwner'[d] = "CPU" <=> Within(RxTail, d, ETH_RXBUFNB, m + 1)
    BY <2>2, <2>3, <2>6
  <2>9. \A d \in RxDesc : rxOwner'[d] = "CPU" => rxBuf'[d] \in 1..(arrived + 1)
    BY <1>1, <2>2 DEF RxInv, RxOrder
  <2>10. ASSUME NEW d \in RxDesc, NEW e \in RxDesc, rxOwner'[e] = "CPU", RxDist(d) < RxDist(e)
         PROVE  rxBuf'[d] < rxBuf'[e]
    <3>1. d # rxDma
      <4>1. CASE d = rxDma
        <5>1. RxDist(e) < m + 1
          BY <2>8, <2>10 DEF Within, RxDist
        <5> QED
          BY <2>4, <2>5, <2>6, <2>10, <4>1, <5>1
      <4> QED
        BY <4>1
    <3>2. CASE e = rxDma
      <4>1. rxOwner[d] = "CPU"
        BY <2>3, <2>6, <2>10, <3>2 DEF Within, RxDist
      <4> QED
        BY <1>1, <2>2, <3>1, <3>2, <4>1 DEF RxInv, RxOrder
    <3>3. CASE e # rxDma
      BY <2>2, <2>10, <3>1, <3>3 DEF RxInv, RxOrder
    <3> QED
      BY <3>2, <3>3
  <2>11. RxOrder'
    BY <1>1, <1>2, <2>6, <2>7, <2>8, <2>9, <2>10 DEF RxOrder, RxDist
  <2>12. RxHandler'
    <3>1. \A d \in RxDesc : rxOwner[d] = "CPU" => d # rxDma
      BY <1>4
    <3> QED
      BY <1>1, <1>2, <2>2, <3>1 DEF RxHandler, RxInv, RxTypes
  <2>13. Waiting' = Waiting \cup {arrived + 1}
    <3>1. irq = "release" => frame.desc # rxDma
      BY <1>4 DEF RxInv, RxHandler
    <3> QED
      BY <1>1, <1>2, <1>4, <2>2, <3>1 DEF Waiting
  <2>14. RxSets'
    BY <1>1, <1>2, <1>3, <2>1, <2>13 DEF RxSets, RxInv
  <2> QED
    BY <2>11, <2>12, <2>14
<1>5. CASE rxOwner[rxDma] # "DMA"
  <2>1. missed' = missed \cup {arrived + 1} /\ UNCHANGED <<rxBuf, rxOwner, rxDma>>
    BY <1>5 DEF FrameArrives
  <2>2. Waiting' = Waiting
    BY <1>1, <2>1 DEF Waiting
  <2>3. RxOrder'
    BY <1>1, <1>2, <2>1 DEF RxOrder, RxDist, RxInv
  <2>4. RxHandler'
    BY <1>1, <2>1 DEF RxHandler, RxInv
  <2>5. RxSets'
    BY <1>1, <1>2, <1>3, <2>1, <2>2 DEF RxSets, RxInv
  <2> QED
    BY <2>3, <2>4, <2>5
<1> QED
  BY <1>4, <1>5

(* The frame the handler copies is the first of those that wait. *)
LEMMA CopyInKept ==
  ASSUME RxInv, CopyIn
  PROVE  RxOrder' /\ RxHandler' /\ RxSets'
<1> DEFINE f == rxBuf[frame.desc]
<1>1. /\ UNCHANGED <<rxOwner, rxBuf, rxDma, arrived, missed, delivered, DMARxDescToGet>>
      /\ irq = "copy" /\ irq' = "release" /\ frame.n = 0
  BY DEF CopyIn, rxRing, RxInv, RxHandler
<1>2. /\ frame'.desc = frame.desc
      /\ \/ frame'.n = f /\ dropped' = dropped
         \/ frame'.n = 0 /\ dropped' = dropped \cup {f}
  BY <1>1 DEF CopyIn, RxInv, RxTypes
<1>3. /\ RxTail = frame.desc /\ RxTail' = frame.desc /\ frame.desc \in RxDesc
      /\ rxOwner[frame.desc] = "CPU" /\ f \in 1..arrived /\ arrived \in Nat
  BY <1>1, <1>2, BoundAssumption DEF RxTail, RxInv, RxTypes, RxHandler, RxOrder
<1>4. RxOrder'
  BY <1>1, <1>3 DEF RxInv, RxOrder, RxDist
<1>5. RxHandler'
  BY <1>1, <1>2, <1>3 DEF RxInv, RxHandler
<1>6. \A d \in RxDesc : rxOwner[d] = "CPU" /\ d # frame.desc => f < rxBuf[d]
  <2>1. \A d \in RxDesc : d # frame.desc => RxDist(frame.desc) < RxDist(d)
    BY <1>3, RingPlaces, RingAssumption DEF RxDist, RxDesc
  <2> QED
    BY <1>3, <2>1 DEF RxInv, RxOrder
<1>7. /\ Waiting = Waiting' \cup {f} /\ \A g \in Waiting' : f < g
      /\ Waiting \subseteq 1..arrived
  <2>1. Waiting' = {rxBuf[d] : d \in {e \in RxDesc : rxOwner[e] = "CPU" /\ e # frame.desc}}
    BY <1>1, <1>2 DEF Waiting
  <2>2. Waiting = {rxBuf[d] : d \in {e \in RxDesc : rxOwner[e] = "CPU"}}
    BY <1>1 DEF Waiting
  <2> QED
    BY <1>3, <1>6, <2>1, <2>2 DEF RxInv, RxOrder
<1>8. Given' = Given /\ InHand = {} /\ Given \subseteq 1..arrived
  BY <1>1 DEF Given, InHand, RxInv, RxSets
<1>9. \/ InHand' = {f} /\ dropped' = dropped
      \/ InHand' = {} /\ dropped' = dropped \cup {f}
  BY <1>1, <1>2, <1>3 DEF InHand
<1>10. f \notin Waiting'
  BY <1>3, <1>7
<1>11. RxSets'
  <2> HIDE DEF f
  <2>1. /\ 1..arrived = Given \cup dropped \cup missed \cup Waiting
        /\ \A g \in Given, h \in Waiting : g < h
        /\ dropped \cap (Given \cup missed \cup Waiting) = {}
        /\ missed \cap (Given \cup Waiting) = {}
        /\ \A k, l \in 1..Len(delivered) : k < l => delivered[k] < delivered[l]
    BY <1>8 DEF RxInv, RxSets
  <2>2. f \notin Given
    BY <1>3, <1>7, <2>1
  <2>3. CASE InHand' = {f} /\ dropped' = dropped
    BY <1>1, <1>7, <1>8, <1>10, <2>1, <2>2, <2>3 DEF RxSets
  <2>4. CASE InHand' = {} /\ dropped' = dropped \cup {f}
    BY <1>1, <1>7, <1>8, <1>10, <2>1, <2>2, <2>4 DEF RxSets
  <2> QED
    BY <1>9, <2>3, <2>4
<1> QED
  BY <1>4, <1>5, <1>11

(* The handler gives back the first descriptor of those with a frame. *)
LEMMA ReleaseKept ==
  ASSUME RxInv, Release
  PROVE  RxOrder' /\ RxHandler' /\ RxSets'
<1>1. /\ UNCHANGED <<rxBuf, rxDma, arrived, missed, dropped, delivered, DMARxDescToGet, frame>>
      /\ irq = "release" /\ irq' = "resume" /\ DMARxDescToGet = RxNext(frame.desc)
      /\ rxOwner' = [rxOwner EXCEPT ![frame.desc] = "DMA"]
      /\ rxOwner[frame.desc] = "CPU" /\ frame.desc \in RxDesc /\ rxDma \in RxDesc
  BY DEF Release, RxInv, RxHandler, RxTypes
<1>2. /\ rxOwner'[frame.desc] = "DMA"
      /\ \A d \in RxDesc : d # frame.desc => rxOwner'[d] = rxOwner[d]
  BY <1>1 DEF RxInv, RxTypes
<1>3. RxTail = frame.desc /\ RxTail' = RxNext(frame.desc)
  BY <1>1 DEF RxTail
<1>4. PICK m \in 0..ETH_RXBUFNB :
        /\ \A d \in RxDesc : rxOwner[d] = "CPU" <=> Within(frame.desc, d, ETH_RXBUFNB, m)
        /\ After(frame.desc, rxDma, ETH_RXBUFNB, m)
  BY <1>3 DEF RxInv, RxOrder
<1>5. m \in 1..ETH_RXBUFNB
  <2>1. Dist(frame.desc, frame.desc, ETH_RXBUFNB) = 0
    BY <1>1, RingPlaces, RingAssumption DEF RxDesc
  <2> QED
    BY <1>1, <1>4, <2>1, RingAssumption DEF Within
<1>6. /\ RxNext(frame.desc) \in RxDesc
      /\ \A d \in RxDesc : Within(RxNext(frame.desc), d, ETH_RXBUFNB, m - 1) <=>
                             Within(frame.desc, d, ETH_RXBUFNB, m) /\ d # frame.desc
      /\ \A d \in RxDesc : d # frame.desc =>
           Dist(RxNext(frame.desc), d, ETH_RXBUFNB) = Dist(frame.desc, d, ETH_RXBUFNB) - 1
      /\ After(RxNext(frame.desc), rxDma, ETH_RXBUFNB, m - 1)
  BY <1>1, <1>4, <1>5, RingShrinks, RingAssumption DEF RxDesc, RxNext
<1>7. RxOrder'
  <2>1. m - 1 \in 0..ETH_RXBUFNB
    BY <1>5, RingAssumption
  <2>2. \A d \in RxDesc : rxOwner'[d] = "CPU" <=> Within(RxNext(frame.desc), d, ETH_RXBUFNB, m - 1)
    BY <1>2, <1>4, <1>6
  <2>3. \A d \in RxDesc : rxOwner'[d] = "CPU" => rxBuf[d] \in 1..arrived
    BY <1>2 DEF RxInv, RxOrder
  <2>4. ASSUME NEW d \in RxDesc, NEW e \in RxDesc, rxOwner'[e] = "CPU",
               Dist(RxNext(frame.desc), d, ETH_RXBUFNB) < Dist(RxNext(frame.desc), e, ETH_RXBUFNB)
        PROVE  rxBuf[d] < rxBuf[e]
    <3>1. e # frame.desc /\ rxOwner[e] = "CPU"
      BY <1>2, <2>4
    <3>2. CASE d = frame.desc
      <4>1. Dist(frame.desc, d, ETH_RXBUFNB) < Dist(frame.desc, e, ETH_RXBUFNB)
        BY <1>1, <3>1, <3>2, RingPlaces, RingAssumption DEF RxDesc
      <4> QED
        BY <1>3, <3>1, <4>1 DEF RxInv, RxOrder, RxDist
    <3>3. CASE d # frame.desc
      <4>1. Dist(frame.desc, d, ETH_RXBUFNB) \in Int /\ Dist(frame.desc, e, ETH_RXBUFNB) \in Int
        BY <1>1, RingPlaces, RingAssumption DEF RxDesc
      <4>2. Dist(frame.desc, d, ETH_RXBUFNB) < Dist(frame.desc, e, ETH_RXBUFNB)
        BY <1>6, <2>4, <3>1, <3>3, <4>1
      <4> QED
        BY <1>3, <3>1, <4>2 DEF RxInv, RxOrder, RxDist
    <3> QED
      BY <3>2, <3>3
  <2> QED
    BY <1>1, <1>3, <1>6, <2>1, <2>2, <2>3, <2>4 DEF RxOrder, RxDist
<1>8. RxHandler'
  BY <1>1 DEF RxHandler
<1>9. Waiting' = Waiting /\ InHand' = InHand /\ Given' = Given
  BY <1>1, <1>2 DEF Waiting, InHand, Given
<1>10. RxSets'
  BY <1>1, <1>9 DEF RxInv, RxSets
<1> QED
  BY <1>7, <1>8, <1>10

(* lwIP gets a frame that came after all it has been given. *)
LEMMA InputKept ==
  ASSUME RxInv, Input
  PROVE  RxOrder' /\ RxHandler' /\ RxSets'
<1>1. /\ UNCHANGED <<rxOwner, rxBuf, rxDma, arrived, missed, dropped, frame, DMARxDescToGet>>
      /\ irq = "input" /\ irq' \in {"look", "answer"} /\ delivered' = Append(delivered, frame.n)
      /\ frame.n # 0 /\ delivered \in Seq(0..MaxFrames) /\ frame.n \in 0..MaxFrames
  BY DEF Input, rxRing, RxInv, RxTypes, RxHandler
<1>2. RxTail' = RxTail /\ Waiting' = Waiting /\ InHand = {frame.n} /\ InHand' = {}
  BY <1>1 DEF RxTail, Waiting, InHand
<1>3. RxOrder' /\ RxHandler'
  BY <1>1, <1>2 DEF RxInv, RxOrder, RxDist, RxHandler
<1>4. /\ Len(delivered') = Len(delivered) + 1 /\ Len(delivered) \in Nat
      /\ delivered'[Len(delivered) + 1] = frame.n
      /\ \A k \in 1..Len(delivered) : delivered'[k] = delivered[k]
  BY <1>1
<1>5. Given' = Given \cup {frame.n}
  BY <1>4 DEF Given
<1>6. \A k, l \in 1..Len(delivered') : k < l => delivered'[k] < delivered'[l]
  <2>1. \A k \in 1..Len(delivered) : delivered[k] < frame.n
    BY <1>2 DEF RxInv, RxSets, Given
  <2>2. ASSUME NEW k \in 1..Len(delivered'), NEW l \in 1..Len(delivered'), k < l
        PROVE  delivered'[k] < delivered'[l]
    <3>1. k \in 1..Len(delivered)
      BY <1>4, <2>2
    <3>2. CASE l = Len(delivered) + 1
      BY <1>4, <2>1, <3>1, <3>2
    <3>3. CASE l # Len(delivered) + 1
      <4>1. l \in 1..Len(delivered)
        BY <1>4, <3>3
      <4> QED
        BY <1>4, <2>2, <3>1, <4>1 DEF RxInv, RxSets
    <3> QED
      BY <3>2, <3>3
  <2> QED
    BY <2>2
<1>7. RxSets'
  BY <1>1, <1>2, <1>5, <1>6 DEF RxInv, RxSets
<1> QED
  BY <1>3, <1>7

LEMMA RxInitSafe == Init => RxInv
<1> SUFFICES ASSUME Init PROVE RxInv
  OBVIOUS
<1> USE RingAssumption, BoundAssumption, LateAssumption DEF Init
<1>1. RxTypes
  <2>1. MaxLate \in Nat /\ 0 \in RxDesc /\ 0 \in 0..MaxLate /\ 0 \in 0..MaxFrames
    BY DEF RxDesc
  <2>2. rbus \in BOOLEAN /\ rs \in BOOLEAN
    OBVIOUS
  <2>3. rxOwner \in [RxDesc -> Owner] /\ rxBuf \in [RxDesc -> 0..MaxFrames]
    BY <2>1 DEF Owner
  <2>4. delivered \in Seq(0..MaxFrames) /\ missed = {} /\ dropped = {}
    OBVIOUS
  <2> QED
    BY <2>1, <2>2, <2>3, <2>4 DEF RxTypes
<1>2. RxTail = 0
  BY DEF RxTail
<1>3. \A d \in RxDesc : rxOwner[d] = "DMA" /\ ~Within(0, d, ETH_RXBUFNB, 0)
  BY DEF RxDesc, Within, Dist
<1>4. After(0, rxDma, ETH_RXBUFNB, 0)
  BY DEF After, Dist
<1>5. RxOrder
  BY <1>2, <1>3, <1>4 DEF RxOrder
<1>6. Given = {} /\ InHand = {} /\ Waiting = {}
  BY <1>3 DEF Given, InHand, Waiting
<1>7. RxSets /\ RxHandler
  BY <1>6 DEF RxSets, RxHandler
<1> QED
  BY <1>1, <1>5, <1>7 DEF RxInv

LEMMA RxStepSafe ==
  ASSUME RxInv, [Next]_vars
  PROVE  RxInv'
<1>1. RxTypes'
  BY RxTypesKept DEF RxInv
<1>2. CASE UNCHANGED vars
  BY <1>2, RxUnchanged DEF vars, rxRing, rxCode
<1>3. CASE UNCHANGED <<rxRing, rxCode>>
  BY <1>3, RxUnchanged
<1> QED
  BY <1>1, <1>2, <1>3, TxLeavesRx, RxControlKept, FrameArrivesKept, CopyInKept, ReleaseKept, InputKept
  DEF RxInv, Next, ETH_IRQHandler

LEMMA RxInvariance == Spec => []RxInv
<1>1. Init => RxInv
  BY RxInitSafe
<1>2. RxInv /\ [Next]_vars => RxInv'
  BY RxStepSafe
<1> QED
  BY <1>1, <1>2, PTL DEF Spec

(* Five sets that share nothing have as many elements as they have in all. *)
LEMMA DisjointFive ==
  ASSUME NEW A, NEW B, NEW C, NEW D, NEW E, NEW n \in Nat,
         1..n = A \cup B \cup C \cup D \cup E,
         A \cap B = {}, (A \cup B) \cap C = {}, (A \cup B \cup C) \cap D = {},
         (A \cup B \cup C \cup D) \cap E = {}
  PROVE  Cardinality(A) + Cardinality(B) + Cardinality(C) + Cardinality(D) + Cardinality(E) = n
<1>1. IsFiniteSet(1..n) /\ Cardinality(1..n) = n
  BY FS_Interval
<1>2. /\ IsFiniteSet(A) /\ IsFiniteSet(B) /\ IsFiniteSet(C) /\ IsFiniteSet(D) /\ IsFiniteSet(E)
  BY <1>1, FS_Subset
<1>3. Cardinality({}) = 0
  BY FS_EmptySet
<1>4. \A S, T : IsFiniteSet(S) /\ IsFiniteSet(T) /\ S \cap T = {} =>
        IsFiniteSet(S \cup T) /\ Cardinality(S \cup T) = Cardinality(S) + Cardinality(T)
  <2> SUFFICES ASSUME NEW S, NEW T, IsFiniteSet(S), IsFiniteSet(T), S \cap T = {}
               PROVE  IsFiniteSet(S \cup T) /\ Cardinality(S \cup T) = Cardinality(S) + Cardinality(T)
    OBVIOUS
  <2>1. Cardinality(S) \in Nat /\ Cardinality(T) \in Nat
    BY FS_CardinalityType
  <2> QED
    BY <1>3, <2>1, FS_Union
<1>5. IsFiniteSet(A \cup B) /\ Cardinality(A \cup B) = Cardinality(A) + Cardinality(B)
  BY <1>2, <1>4
<1>6. /\ IsFiniteSet(A \cup B \cup C)
      /\ Cardinality(A \cup B \cup C) = Cardinality(A) + Cardinality(B) + Cardinality(C)
  BY <1>2, <1>4, <1>5
<1>7. /\ IsFiniteSet(A \cup B \cup C \cup D)
      /\ Cardinality(A \cup B \cup C \cup D)
           = Cardinality(A) + Cardinality(B) + Cardinality(C) + Cardinality(D)
  BY <1>2, <1>4, <1>6
<1>8. Cardinality(A \cup B \cup C \cup D \cup E)
        = Cardinality(A) + Cardinality(B) + Cardinality(C) + Cardinality(D) + Cardinality(E)
  BY <1>2, <1>4, <1>7
<1> QED
  BY <1>1, <1>8

(* Every frame that came is exactly once with lwIP, in the handler, in the *)
(* ring, or among those dropped or missed, and lwIP gets them in order: no *)
(* step of the DMA between two steps of ETH_IRQHandler loses or mixes one. *)
THEOREM FramesAccounted == Spec => []Accounted
<1>1. RxInv => Accounted
  <2> SUFFICES ASSUME RxInv PROVE Accounted
    OBVIOUS
  <2>1. /\ 1..arrived = Given \cup InHand \cup dropped \cup missed \cup Waiting
        /\ arrived \in Nat /\ delivered \in Seq(0..MaxFrames)
    BY BoundAssumption DEF RxInv, RxSets, RxTypes
  <2>2. ASSUME NEW S, NEW T, S \subseteq 1..arrived, \A f \in S, g \in T : f < g
        PROVE  S \cap T = {}
    <3>1. ASSUME NEW f \in S \cap T PROVE FALSE
      <4>1. f \in Int /\ f < f
        BY <2>1, <2>2
      <4> QED
        BY <4>1
    <3> QED
      BY <3>1
  <2>3. /\ Given \cap InHand = {} /\ Given \cap Waiting = {} /\ InHand \cap Waiting = {}
    <3>1. /\ Given \subseteq 1..arrived /\ InHand \subseteq 1..arrived
          /\ \A f \in Given, g \in InHand : f < g
          /\ \A f \in Given, g \in Waiting : f < g
          /\ \A f \in InHand, g \in Waiting : f < g
      BY <2>1 DEF RxInv, RxSets
    <3> QED
      BY <2>2, <3>1
  <2>4. /\ (Given \cup InHand) \cap dropped = {}
        /\ (Given \cup InHand \cup dropped) \cap missed = {}
        /\ (Given \cup InHand \cup dropped \cup missed) \cap Waiting = {}
    BY <2>3 DEF RxInv, RxSets
  <2>5. Cardinality(Given) + Cardinality(InHand) + Cardinality(dropped) + Cardinality(missed)
          + Cardinality(Waiting) = arrived
    BY <2>1, <2>3, <2>4, DisjointFive
  <2>6. \A k \in 1..(Len(delivered) - 1) : delivered[k] < delivered[k + 1]
    BY <2>1 DEF RxInv, RxSets
  <2> QED
    BY <2>1, <2>5, <2>6 DEF Accounted
<1> QED
  BY <1>1, RxInvariance, PTL

-----------------------------------------------------------------------------
(* The transmit ring.  Of the steps of the receive side only the delivery  *)
(* of a frame, which lwIP may answer, touches it.                          *)

LEMMA RxLeavesTx ==
  ASSUME \/ FrameArrives \/ Interrupt \/ LookForFrame \/ eth_rx_packet \/ CopyIn \/ Release
         \/ ResumeRx \/ Answered \/ ClearPending
  PROVE  UNCHANGED <<txRing, txCode>>
BY DEF FrameArrives, Interrupt, LookForFrame, eth_rx_packet, CopyIn, Release, ResumeRx, Answered,
   ClearPending

(* What a step of low_level_output does to where its context is. *)
LEMMA OutTypes ==
  ASSUME TxTypes, NEW c \in Context
  PROVE  /\ out[c].n \in Frame /\ out[c].buffer \in TxDesc /\ out[c].pc \in OutPc
         /\ \A pc \in OutPc :
              [out EXCEPT ![c].pc = pc] \in [Context -> [pc : OutPc, n : Frame, buffer : TxDesc]]
         /\ \A r \in [pc : OutPc, n : Frame, buffer : TxDesc] :
              [out EXCEPT ![c] = r] \in [Context -> [pc : OutPc, n : Frame, buffer : TxDesc]]
<1>1. out \in [Context -> [pc : OutPc, n : Frame, buffer : TxDesc]]
  BY DEF TxTypes
<1>2. out[c] \in [pc : OutPc, n : Frame, buffer : TxDesc]
  BY <1>1
<1> QED
  BY <1>1, <1>2

LEMMA TxTypesKept ==
  ASSUME TxTypes, RxTypes, [Next]_vars
  PROVE  TxTypes'
<1> USE DEF TxTypes, txRing, txCode
<1>0. /\ 0 \in TxDesc /\ 0 \in Frame
      /\ \A d \in TxDesc : TxNext(d) \in TxDesc
  BY NextPlace, RingAssumption, BoundAssumption DEF TxNext, TxDesc, Frame
<1>1. CASE TxSend
  <2>1. txBuf[txDma] \in Frame
    OBVIOUS
  <2> QED
    BY <1>0, <1>1, <2>1 DEF TxSend, Owner
<1>2. CASE TxSuspend
  <2>1. tbus' \in BOOLEAN
    BY <1>2 DEF TxSuspend
  <2> QED
    BY <1>2, <2>1 DEF TxSuspend
<1>3. CASE Output
  <2>1. outputs + 1 \in 0..MaxOutputs /\ -(outputs + 1) \in Frame
    BY <1>3, BoundAssumption DEF Output, Frame
  <2>2. [pc |-> "address", n |-> -(outputs + 1), buffer |-> 0]
          \in [pc : OutPc, n : Frame, buffer : TxDesc]
    BY <1>0, <2>1 DEF OutPc
  <2>3. out' \in [Context -> [pc : OutPc, n : Frame, buffer : TxDesc]]
    BY <1>3, <2>2, OutTypes DEF Output, Context
  <2> QED
    BY <1>3, <2>1, <2>3 DEF Output
<1>4. ASSUME NEW c \in Context, low_level_output(c) PROVE TxTypes'
  <2>1. CASE eth_get_current_tx_buffer(c)
    <3>1. out' \in [Context -> [pc : OutPc, n : Frame, buffer : TxDesc]]
      BY <2>1 DEF eth_get_current_tx_buffer, OutPc
    <3> QED
      BY <2>1, <3>1 DEF eth_get_current_tx_buffer
  <2>2. CASE CopyOut(c)
    BY <2>2, OutTypes DEF CopyOut, Goto, OutPc
  <2>3. CASE CheckOwner(c)
    <3>1. out' \in [Context -> [pc : OutPc, n : Frame, buffer : TxDesc]]
      <4>1. \/ out' = [out EXCEPT ![c].pc = "idle"]
            \/ out' = [out EXCEPT ![c].pc = "own"]
        BY <2>3 DEF CheckOwner, Goto
      <4>2. "idle" \in OutPc /\ "own" \in OutPc
        BY DEF OutPc
      <4>3. \A pc \in OutPc :
              [out EXCEPT ![c].pc = pc] \in [Context -> [pc : OutPc, n : Frame, buffer : TxDesc]]
        BY OutTypes
      <4> QED
        BY <4>1, <4>2, <4>3
    <3>2. refused' \subseteq Frame
      BY <2>3, OutTypes DEF CheckOwner
    <3> QED
      BY <2>3, <3>1, <3>2 DEF CheckOwner
  <2>4. CASE SetOwner(c)
    <3>1. out' \in [Context -> [pc : OutPc, n : Frame, buffer : TxDesc]]
      BY <2>4, OutTypes DEF SetOwner, Goto, OutPc
    <3>2. accepted' \in Seq(Frame) /\ txOwner' \in [TxDesc -> Owner]
      BY <2>4, OutTypes DEF SetOwner, Owner
    <3> QED
      BY <2>4, <3>1, <3>2 DEF SetOwner
  <2>5. CASE ResumeTx(c)
    <3>1. tbus' \in BOOLEAN
      BY <2>5 DEF ResumeTx
    <3> QED
      BY <2>5, <3>1, OutTypes DEF ResumeTx, Goto, OutPc
  <2>6. CASE AdvanceTx(c)
    BY <1>0, <2>6, OutTypes DEF AdvanceTx, Goto, OutPc
  <2> QED
    BY <1>4, <2>1, <2>2, <2>3, <2>4, <2>5, <2>6 DEF low_level_output
<1>5. CASE Input
  <2>1. [pc |-> "address", n |-> frame.n, buffer |-> 0] \in [pc : OutPc, n : Frame, buffer : TxDesc]
    BY <1>0, BoundAssumption DEF OutPc, Frame, RxTypes
  <2>2. out' \in [Context -> [pc : OutPc, n : Frame, buffer : TxDesc]]
    BY <1>5, <2>1, OutTypes DEF Input, Context
  <2> QED
    BY <1>5, <2>2 DEF Input
<1>6. CASE UNCHANGED <<txRing, txCode>>
  BY <1>6
<1>7. CASE UNCHANGED vars
  BY <1>7 DEF vars
<1> QED
  BY <1>1, <1>2, <1>3, <1>4, <1>5, <1>6, <1>7, RxLeavesTx DEF Next, ETH_IRQHandler, Context

LEMMA TxInitTypes == Init => TxTypes
<1> SUFFICES ASSUME Init PROVE TxTypes
  OBVIOUS
<1>1. 0 \in TxDesc /\ 0 \in Frame /\ 0 \in 0..MaxOutputs
  BY RingAssumption, BoundAssumption DEF TxDesc, Frame
<1>2. tbus \in BOOLEAN
  BY DEF Init
<1>3. out \in [Context -> [pc : OutPc, n : Frame, buffer : TxDesc]]
  BY <1>1 DEF Init, OutPc
<1>4. txOwner \in [TxDesc -> Owner] /\ txBuf \in [TxDesc -> Frame]
  BY <1>1 DEF Init, Owner
<1>5. accepted \in Seq(Frame) /\ wire \in Seq(Frame)
  BY DEF Init
<1> QED
  BY <1>1, <1>2, <1>3, <1>4, <1>5 DEF Init, TxTypes

(* Every variable of the driver keeps its type. *)
THEOREM EthernetTypeCorrect == Spec => []TypeOK
<1>1. Init => RxTypes /\ TxTypes
  BY RxInitSafe, TxInitTypes DEF RxInv
<1>2. (RxTypes /\ TxTypes) /\ [Next]_vars => (RxTypes /\ TxTypes)'
  BY RxTypesKept, TxTypesKept
<1>3. RxTypes /\ TxTypes => TypeOK
  BY DEF RxTypes, TxTypes, TypeOK
<1> QED
  BY <1>1, <1>2, <1>3, PTL DEF Spec

-----------------------------------------------------------------------------
(* What the DMA sends, when the interrupt waits for low_level_output. *)

(* The context that sends is alone. *)
LEMMA Alone ==
  ASSUME TxInv, NEW c \in Context, out[c].pc # "idle"
  PROVE  /\ \A b \in Context : b # c => out[b].pc = "idle"
         /\ out[c].pc \in {"check", "own"} => Outgoing = {out[c].n}
         /\ out[c].pc \notin {"check", "own"} => Outgoing = {}
         /\ out[c].pc \in {"resume", "advance"} => TxHead = TxNext(DMATxDescToSet)
         /\ out[c].pc \notin {"resume", "advance"} => TxHead = DMATxDescToSet
<1>1. \A b \in Context : b # c => out[b].pc = "idle"
  BY DEF TxInv, OneOutput, Context
<1>2. \A b \in Context : out[b].pc \in {"check", "own", "resume", "advance"} => b = c
  BY <1>1
<1>3. Outgoing = IF out[c].pc \in {"check", "own"} THEN {out[c].n} ELSE {}
  BY <1>2 DEF Outgoing
<1> QED
  BY <1>1, <1>2, <1>3 DEF TxHead

(* A frame that was copied over another keeps its excuse. *)
LEMMA CopiedOverKept ==
  ASSUME NEW n, NEW k, CopiedOver(n, k), accepted' = accepted, refused \subseteq refused',
         Outgoing \subseteq Outgoing' \cup refused'
  PROVE  CopiedOver(n, k)'
BY DEF CopiedOver

(* Steps that leave the ring alone. *)
LEMMA TxQuiet ==
  ASSUME TxInv, UNCHANGED <<txOwner, txBuf, txDma, accepted, wire>>, TxHead' = TxHead,
         refused \subseteq refused', Outgoing \subseteq Outgoing' \cup refused'
  PROVE  TxOrder' /\ TxStored' /\ TxSent'
<1>1. \A n, k : CopiedOver(n, k) => CopiedOver(n, k)'
  BY CopiedOverKept
<1>2. TxOrder'
  BY DEF TxInv, TxOrder, TxCount
<1>3. TxStored'
  BY <1>1 DEF TxInv, TxStored, TxDist
<1>4. TxSent'
  BY <1>1 DEF TxInv, TxSent
<1> QED
  BY <1>2, <1>3, <1>4

(* The interrupt waits. *)
LEMMA OneOutputKept ==
  ASSUME ~Preempt, TxInv, [Next]_vars
  PROVE  OneOutput'
<1> USE DEF TxInv, OneOutput
<1>1. CASE TxSend \/ TxSuspend
  BY <1>1 DEF TxSend, TxSuspend, rxCode, txCode
<1>2. CASE Output
  BY <1>2 DEF Output, rxCode, TxTypes, Context
<1>3. ASSUME NEW c \in Context, low_level_output(c) PROVE OneOutput'
  <2>1. out[c].pc # "idle" /\ (c = "main" => irq = "off") /\ irq' = irq
    BY <1>3 DEF low_level_output, eth_get_current_tx_buffer, CopyOut, CheckOwner, SetOwner, ResumeTx,
       AdvanceTx, Runs, rxCode
  <2>2. \A b \in Context : b # c => out'[b] = out[b]
    BY <1>3 DEF low_level_output, eth_get_current_tx_buffer, CopyOut, CheckOwner, SetOwner, ResumeTx,
       AdvanceTx, Goto, TxTypes
  <2> QED
    BY <2>1, <2>2 DEF Context
<1>4. CASE Interrupt
  BY <1>4 DEF Interrupt, txCode
<1>5. CASE Input
  BY <1>5 DEF Input, TxTypes, Context
<1>6. CASE FrameArrives \/ LookForFrame \/ eth_rx_packet \/ CopyIn \/ Release \/ ResumeRx
           \/ Answered \/ ClearPending
  BY <1>6 DEF FrameArrives, LookForFrame, eth_rx_packet, CopyIn, Release, ResumeRx, Answered,
     ClearPending, txCode, rxCode
<1>7. CASE UNCHANGED vars
  BY <1>7 DEF vars, txCode, rxCode
<1> QED
  BY <1>1, <1>2, <1>3, <1>4, <1>5, <1>6, <1>7 DEF Next, ETH_IRQHandler, Context

(* The beginning and the end of low_level_output, and its check, leave the *)
(* ring alone.                                                             *)
LEMMA BeginKept ==
  ASSUME TxInv, Output \/ Input
  PROVE  TxOrder' /\ TxStored' /\ TxFilling' /\ TxSent'
<1>1. UNCHANGED <<txOwner, txBuf, txDma, accepted, wire, DMATxDescToSet, refused>>
  BY DEF Output, Input, txRing
<1>2. \E c \in Context : /\ out[c].pc = "idle" /\ out'[c].pc \in {"idle", "address"}
                        /\ \A b \in Context : b # c => out'[b] = out[b]
  <2>1. CASE Output
    BY <2>1 DEF Output, TxInv, TxTypes, Context
  <2>2. CASE Input
    BY <2>2 DEF Input, TxInv, TxTypes, OneOutput, Context
  <2> QED
    BY <2>1, <2>2
<1>3. PICK c \in Context : /\ out[c].pc = "idle" /\ out'[c].pc \in {"idle", "address"}
                         /\ \A b \in Context : b # c => out'[b] = out[b]
  BY <1>2
<1>4. TxHead' = TxHead /\ Outgoing' = Outgoing
  BY <1>1, <1>3 DEF TxHead, Outgoing
<1>5. TxFilling'
  BY <1>1, <1>3 DEF TxInv, TxFilling
<1> QED
  BY <1>1, <1>4, <1>5, TxQuiet

LEMMA ControlKept ==
  ASSUME TxInv, NEW c \in Context,
         eth_get_current_tx_buffer(c) \/ CheckOwner(c) \/ ResumeTx(c) \/ AdvanceTx(c)
  PROVE  TxOrder' /\ TxStored' /\ TxFilling' /\ TxSent'
<1>1. UNCHANGED <<txOwner, txBuf, txDma, accepted, wire>> /\ out[c].pc # "idle"
  BY DEF eth_get_current_tx_buffer, CheckOwner, ResumeTx, AdvanceTx, Runs, txRing
<1>2. \A b \in Context : b # c => out[b].pc = "idle" /\ out'[b] = out[b]
  BY <1>1, Alone
     DEF eth_get_current_tx_buffer, CheckOwner, ResumeTx, AdvanceTx, Goto, TxInv, TxTypes
<1>3. /\ out'[c].n = out[c].n
      /\ \/ /\ out[c].pc = "address" /\ out'[c].pc = "copy" /\ out'[c].buffer = DMATxDescToSet
            /\ DMATxDescToSet' = DMATxDescToSet /\ refused' = refused
         \/ /\ out[c].pc = "check" /\ out'[c].pc = "idle" /\ refused' = refused \cup {out[c].n}
            /\ DMATxDescToSet' = DMATxDescToSet
         \/ /\ out[c].pc = "check" /\ out'[c].pc = "own" /\ refused' = refused
            /\ DMATxDescToSet' = DMATxDescToSet /\ txOwner[DMATxDescToSet] = "CPU"
         \/ /\ out[c].pc = "resume" /\ out'[c].pc = "advance" /\ refused' = refused
            /\ DMATxDescToSet' = DMATxDescToSet
         \/ /\ out[c].pc = "advance" /\ out'[c].pc = "idle" /\ refused' = refused
            /\ DMATxDescToSet' = TxNext(DMATxDescToSet)
  <2>1. /\ out \in [Context -> [pc : OutPc, n : Frame, buffer : TxDesc]]
        /\ txOwner[DMATxDescToSet] \in Owner
    BY DEF TxInv, TxTypes
  <2>2. CASE eth_get_current_tx_buffer(c)
    BY <2>1, <2>2 DEF eth_get_current_tx_buffer, Runs
  <2>3. CASE CheckOwner(c)
    BY <2>1, <2>3 DEF CheckOwner, Runs, Goto, Owner
  <2>4. CASE ResumeTx(c)
    BY <2>1, <2>4 DEF ResumeTx, Runs, Goto
  <2>5. CASE AdvanceTx(c)
    BY <2>1, <2>5 DEF AdvanceTx, Runs, Goto
  <2> QED
    BY <2>2, <2>3, <2>4, <2>5
<1>4. TxHead' = TxHead
  <2>1. TxHead = IF out[c].pc \in {"resume", "advance"} THEN TxNext(DMATxDescToSet) ELSE DMATxDescToSet
    BY <1>1, Alone
  <2>2. TxHead' = IF out'[c].pc \in {"resume", "advance"}
                  THEN TxNext(DMATxDescToSet)' ELSE DMATxDescToSet'
    BY <1>2 DEF TxHead
  <2> QED
    BY <1>3, <2>1, <2>2 DEF TxNext
<1>5. refused \subseteq refused' /\ Outgoing \subseteq Outgoing' \cup refused'
  <2>1. Outgoing \subseteq {out[c].n} /\ (out[c].pc \notin {"check", "own"} => Outgoing = {})
    BY <1>1, Alone
  <2>2. out'[c].pc = "own" => out'[c].n \in Outgoing'
    BY DEF Outgoing
  <2> QED
    BY <1>3, <2>1, <2>2
<1>6. TxFilling'
  <2>1. out[c].pc = "check" => txBuf[DMATxDescToSet] = out[c].n
    BY DEF TxInv, TxFilling
  <2> QED
    BY <1>1, <1>2, <1>3, <2>1 DEF TxFilling
<1> QED
  BY <1>1, <1>4, <1>5, <1>6, TxQuiet

(* Sizes and places in the transmit ring. *)
LEMMA TxPlaces ==
  ASSUME TxInv
  PROVE  /\ Len(accepted) \in Nat /\ Len(wire) \in Nat /\ ETH_TXBUFNB \in Nat \ {0}
         /\ txDma \in TxDesc /\ DMATxDescToSet \in TxDesc /\ TxDesc = 0..(ETH_TXBUFNB - 1)
         /\ \A d \in TxDesc : TxDist(d) \in 0..(ETH_TXBUFNB - 1) /\ (TxDist(d) = 0 <=> d = txDma)
         /\ \A d \in TxDesc : txOwner[d] = "DMA" <=> TxDist(d) < TxCount
         /\ TxCount \in 0..ETH_TXBUFNB /\ Len(accepted) = Len(wire) + TxCount
<1>1. /\ Len(accepted) \in Nat /\ Len(wire) \in Nat /\ txDma \in TxDesc /\ DMATxDescToSet \in TxDesc
  BY DEF TxInv, TxTypes
<1>2. \A d \in TxDesc : TxDist(d) \in 0..(ETH_TXBUFNB - 1) /\ (TxDist(d) = 0 <=> d = txDma)
  BY <1>1, RingPlaces, RingAssumption DEF TxDist, TxDesc
<1> QED
  BY <1>1, <1>2, RingAssumption DEF TxInv, TxOrder, TxCount, Within, TxDist, TxDesc

(* CopyOut writes into the descriptor that is filled next; the DMA owns it *)
(* only when the ring is full, and then it is the one that is sent next.   *)
LEMMA CopyOutKept ==
  ASSUME TxInv, NEW c \in Context, CopyOut(c)
  PROVE  TxOrder' /\ TxStored' /\ TxFilling' /\ TxSent'
<1> DEFINE h == DMATxDescToSet
<1>1. /\ UNCHANGED <<txOwner, txDma, accepted, wire, refused, DMATxDescToSet>>
      /\ out[c].pc = "copy" /\ out[c].buffer = h /\ h \in TxDesc
      /\ txBuf' = [txBuf EXCEPT ![h] = out[c].n]
  BY DEF CopyOut, Runs, TxInv, TxFilling, TxTypes
<1>2. /\ out'[c].pc = "check" /\ out'[c].n = out[c].n
      /\ \A b \in Context : b # c => out[b].pc = "idle" /\ out'[b] = out[b]
      /\ Outgoing = {} /\ TxHead = h
  BY <1>1, Alone DEF CopyOut, Goto, TxInv, TxTypes
<1>3. txBuf'[h] = out[c].n /\ \A d \in TxDesc : d # h => txBuf'[d] = txBuf[d]
  BY <1>1 DEF TxInv, TxTypes
<1>4. TxHead' = TxHead /\ out[c].n \in Outgoing'
  <2>1. TxHead' = h
    BY <1>1, <1>2 DEF TxHead
  <2> QED
    BY <1>2, <2>1 DEF Outgoing
<1>5. \A n, k : CopiedOver(n, k) => CopiedOver(n, k)'
  BY <1>1, <1>2, CopiedOverKept
<1>6. TxOrder' /\ TxSent'
  BY <1>1, <1>4, <1>5 DEF TxInv, TxOrder, TxCount, TxSent
<1>7. TxStored'
  <2>1. ASSUME NEW d \in TxDesc, txOwner[d] = "DMA", NEW k, k = Len(wire) + TxDist(d) + 1,
               NEW v, v = txBuf'[d]
        PROVE  v = accepted[k] \/ (d = txDma /\ CopiedOver(v, k)')
    <3>1. CASE d # h
      <4>1. v = txBuf[d]
        BY <1>3, <2>1, <3>1
      <4>2. v = accepted[k] \/ (d = txDma /\ CopiedOver(v, k))
        BY <2>1, <4>1 DEF TxInv, TxStored
      <4> QED
        BY <1>5, <4>2
    <3>2. CASE d = h
      <4>1. TxDist(h) < TxCount
        BY <2>1, <3>2, TxPlaces
      <4>2. TxCount = ETH_TXBUFNB /\ h = txDma
        <5>1. TxCount # ETH_TXBUFNB => TxDist(h) = TxCount
          BY <1>2 DEF TxInv, TxOrder, After, TxDist
        <5>2. TxCount = ETH_TXBUFNB
          BY <1>1, <4>1, <5>1, TxPlaces
        <5> QED
          BY <1>2, <5>2 DEF TxInv, TxOrder, After
      <4>3. k = Len(wire) + 1 /\ Len(accepted) = Len(wire) + ETH_TXBUFNB
        BY <1>1, <2>1, <3>2, <4>2, TxPlaces
      <4>4. Len(accepted) = k + ETH_TXBUFNB - 1 /\ Len(accepted) >= k + ETH_TXBUFNB - 1
        <5>1. Len(accepted) \in Nat /\ Len(wire) \in Nat /\ ETH_TXBUFNB \in Nat
          BY TxPlaces
        <5> QED
          BY <4>3, <5>1
      <4>5. CopiedOver(v, k)'
        BY <1>1, <1>3, <1>4, <2>1, <3>2, <4>4 DEF CopiedOver
      <4> QED
        BY <3>2, <4>2, <4>5
    <3> QED
      BY <3>1, <3>2
  <2>2. \A d \in TxDesc : TxDist(d)' = TxDist(d)
    BY <1>1 DEF TxDist
  <2> QED
    BY <1>1, <2>1, <2>2 DEF TxStored, CopiedOver
<1>8. TxFilling'
  BY <1>1, <1>2, <1>3 DEF TxFilling
<1> QED
  BY <1>6, <1>7, <1>8

(* SetOwner puts one frame more behind those in the ring.  If the DMA has  *)
(* sent it already, in place of the oldest, it is that frame's successor   *)
(* by a whole ring.                                                        *)
LEMMA SetOwnerKept ==
  ASSUME TxInv, NEW c \in Context, SetOwner(c)
  PROVE  TxOrder' /\ TxStored' /\ TxFilling' /\ TxSent'
<1> DEFINE h == DMATxDescToSet
           W == Len(wire)
           A == Len(accepted)
           N == ETH_TXBUFNB
<1>1. /\ UNCHANGED <<txBuf, txDma, wire, refused, DMATxDescToSet>> /\ out[c].pc = "own"
      /\ txOwner[h] = "CPU" /\ txBuf[h] = out[c].n /\ h \in TxDesc
      /\ txOwner' = [txOwner EXCEPT ![h] = "DMA"] /\ accepted' = Append(accepted, out[c].n)
  BY DEF SetOwner, Runs, TxInv, TxFilling, TxTypes
<1>2. /\ out'[c].pc = "resume" /\ Outgoing = {out[c].n} /\ TxHead = h
      /\ \A b \in Context : b # c => out[b].pc = "idle" /\ out'[b] = out[b]
  BY <1>1, Alone DEF SetOwner, Goto, TxInv, TxTypes
<1>3. /\ A \in Nat /\ W \in Nat /\ N \in Nat \ {0} /\ TxCount \in 0..N /\ A = W + TxCount
      /\ Len(accepted') = A + 1 /\ accepted'[A + 1] = out[c].n
      /\ \A k \in 1..A : accepted'[k] = accepted[k]
  BY <1>1, TxPlaces DEF TxInv, TxTypes
<1>4. txOwner'[h] = "DMA" /\ \A d \in TxDesc : d # h => txOwner'[d] = txOwner[d]
  BY <1>1 DEF TxInv, TxTypes
<1>5. TxHead' = TxNext(h) /\ TxCount' = TxCount + 1
  <2>1. TxHead' = TxNext(h)
    BY <1>1, <1>2 DEF TxHead, TxNext
  <2> QED
    BY <1>1, <1>3, <2>1 DEF TxCount
<1>6. TxCount \in 0..(N - 1)
  <2>1. ~(TxDist(h) < TxCount) /\ TxDist(h) < N
    BY <1>1, TxPlaces
  <2> QED
    BY <1>3, <2>1
<1>7. /\ TxDist(h) = TxCount
      /\ \A d \in TxDesc : Within(txDma, d, N, TxCount + 1) <=> Within(txDma, d, N, TxCount) \/ d = h
      /\ After(txDma, TxNext(h), N, TxCount + 1)
  <2>1. /\ TxDesc = 0..(N - 1) /\ txDma \in 0..(N - 1) /\ h \in 0..(N - 1)
        /\ After(txDma, h, N, TxCount)
    BY <1>1, <1>2, TxPlaces DEF TxInv, TxOrder
  <2> QED
    BY <1>3, <1>6, <2>1, RingGrows DEF TxDist, TxNext
<1>8. TxOrder'
  <2>1. TxCount + 1 \in 0..N
    BY <1>3, <1>6
  <2>2. \A d \in TxDesc : txOwner'[d] = "DMA" <=> Within(txDma, d, N, TxCount + 1)
    BY <1>4, <1>7 DEF TxInv, TxOrder
  <2> QED
    BY <1>1, <1>5, <1>7, <2>1, <2>2 DEF TxOrder
<1>9. ASSUME NEW n, NEW k \in Nat, CopiedOver(n, k) PROVE CopiedOver(n, k)'
  <2>1. A >= k + N - 1 /\ Len(accepted') >= k + N - 1
    BY <1>3, <1>9 DEF CopiedOver
  <2>2. CASE n \in refused
    BY <1>1, <2>1, <2>2 DEF CopiedOver
  <2>3. CASE k + N \in 1..A /\ n = accepted[k + N]
    <3>1. k + N \in 1..Len(accepted') /\ n = accepted'[k + N]
      BY <1>3, <2>3
    <3> QED
      BY <2>1, <3>1 DEF CopiedOver
  <2>4. CASE n \in Outgoing /\ A = k + N - 1
    <3>1. k + N = A + 1 /\ n = out[c].n
      BY <1>2, <1>3, <2>4
    <3>2. k + N \in 1..Len(accepted') /\ n = accepted'[k + N]
      BY <1>3, <3>1
    <3> QED
      BY <2>1, <3>2 DEF CopiedOver
  <2> QED
    BY <1>9, <2>2, <2>3, <2>4 DEF CopiedOver
<1>10. TxStored'
  <2>1. ASSUME NEW d \in TxDesc, txOwner'[d] = "DMA", NEW k, k = W + TxDist(d) + 1,
               NEW v, v = txBuf[d]
        PROVE  v = accepted'[k] \/ (d = txDma /\ CopiedOver(v, k)')
    <3>1. CASE d = h
      <4>1. k = A + 1
        BY <1>3, <1>7, <2>1, <3>1
      <4> QED
        BY <1>1, <1>3, <2>1, <3>1, <4>1
    <3>2. CASE d # h
      <4>1. txOwner[d] = "DMA"
        BY <1>4, <2>1, <3>2
      <4>2. TxDist(d) \in Nat /\ TxDist(d) < TxCount
        BY <4>1, TxPlaces
      <4>3. k \in 1..A
        BY <1>3, <2>1, <4>2
      <4>4. v = accepted[k] \/ (d = txDma /\ CopiedOver(v, k))
        BY <2>1, <4>1 DEF TxInv, TxStored
      <4> QED
        BY <1>3, <1>9, <4>3, <4>4
    <3> QED
      BY <3>1, <3>2
  <2>2. \A d \in TxDesc : TxDist(d)' = TxDist(d)
    BY <1>1 DEF TxDist
  <2>3. Len(wire') = W /\ txBuf' = txBuf /\ txDma' = txDma
    BY <1>1
  <2> SUFFICES ASSUME NEW d \in TxDesc, txOwner'[d] = "DMA", NEW k, k = W + TxDist(d) + 1
               PROVE  txBuf[d] = accepted'[k] \/ (d = txDma /\ CopiedOver(txBuf[d], k)')
    BY <2>2, <2>3 DEF TxStored, CopiedOver
  <2> QED
    BY <2>1, <2>3 DEF CopiedOver
<1>11. TxSent'
  <2>1. ASSUME NEW k \in 1..W, NEW v, v = wire[k] PROVE v = accepted'[k] \/ CopiedOver(v, k)'
    <3>1. v = accepted[k] \/ CopiedOver(v, k)
      BY <2>1 DEF TxInv, TxSent
    <3>2. k \in 1..A /\ k \in Nat
      BY <1>3
    <3> QED
      BY <1>3, <1>9, <3>1, <3>2
  <2> QED
    BY <1>1, <2>1 DEF TxSent, CopiedOver
<1>12. TxFilling'
  BY <1>2 DEF TxFilling
<1> QED
  BY <1>8, <1>10, <1>11, <1>12

(* The DMA sends the first frame in the ring. *)
LEMMA TxSendKept ==
  ASSUME TxInv, TxSend
  PROVE  TxOrder' /\ TxStored' /\ TxFilling' /\ TxSent'
<1> DEFINE W == Len(wire)
           A == Len(accepted)
           N == ETH_TXBUFNB
<1>1. /\ UNCHANGED <<txBuf, DMATxDescToSet, out, accepted, refused>>
      /\ txOwner[txDma] = "DMA" /\ txOwner' = [txOwner EXCEPT ![txDma] = "CPU"]
      /\ wire' = Append(wire, txBuf[txDma]) /\ txDma' = TxNext(txDma) /\ txDma \in TxDesc
  BY DEF TxSend, txCode, TxInv, TxTypes
<1>2. /\ A \in Nat /\ W \in Nat /\ N \in Nat \ {0} /\ TxCount \in 0..N /\ A = W + TxCount
      /\ Len(wire') = W + 1 /\ wire'[W + 1] = txBuf[txDma]
      /\ \A k \in 1..W : wire'[k] = wire[k]
  BY <1>1, TxPlaces DEF TxInv, TxTypes
<1>3. txOwner'[txDma] = "CPU" /\ \A d \in TxDesc : d # txDma => txOwner'[d] = txOwner[d]
  BY <1>1 DEF TxInv, TxTypes
<1>4. TxDist(txDma) = 0 /\ TxCount \in 1..N
  <2>1. TxDist(txDma) = 0 /\ TxDist(txDma) < TxCount
    BY <1>1, TxPlaces
  <2> QED
    BY <1>2, <2>1
<1>5. TxHead' = TxHead /\ TxHead \in TxDesc /\ TxCount' = TxCount - 1
  <2>1. TxHead' = TxHead
    BY <1>1 DEF TxHead, TxNext
  <2>2. \A d \in TxDesc : TxNext(d) \in TxDesc
    BY NextPlace, RingAssumption DEF TxNext, TxDesc
  <2>3. TxHead \in TxDesc
    BY <2>2, TxPlaces DEF TxHead
  <2> QED
    BY <1>1, <1>2, <2>1, <2>3 DEF TxCount
<1>6. /\ TxNext(txDma) \in TxDesc
      /\ \A d \in TxDesc : Within(TxNext(txDma), d, N, TxCount - 1) <=>
                             Within(txDma, d, N, TxCount) /\ d # txDma
      /\ \A d \in TxDesc : d # txDma => Dist(TxNext(txDma), d, N) = TxDist(d) - 1
      /\ After(TxNext(txDma), TxHead, N, TxCount - 1)
  <2>1. /\ TxDesc = 0..(N - 1) /\ txDma \in 0..(N - 1) /\ TxHead \in 0..(N - 1)
        /\ After(txDma, TxHead, N, TxCount)
    BY <1>1, <1>5, TxPlaces DEF TxInv, TxOrder
  <2> QED
    BY <1>2, <1>4, <2>1, RingShrinks DEF TxDist, TxNext
<1>7. TxOrder'
  <2>1. TxCount - 1 \in 0..N
    BY <1>2, <1>4
  <2>2. \A d \in TxDesc : txOwner'[d] = "DMA" <=> Within(TxNext(txDma), d, N, TxCount - 1)
    <3>1. \A d \in TxDesc : txOwner[d] = "DMA" <=> Within(txDma, d, N, TxCount)
      BY DEF TxInv, TxOrder
    <3> QED
      BY <1>3, <1>6, <3>1
  <2> QED
    BY <1>1, <1>5, <1>6, <2>1, <2>2 DEF TxOrder
<1>8. \A n, k : CopiedOver(n, k) => CopiedOver(n, k)'
  <2>1. Outgoing' = Outgoing
    BY <1>1 DEF Outgoing
  <2> QED
    BY <1>1, <2>1, CopiedOverKept
<1>9. TxStored'
  <2>1. ASSUME NEW d \in TxDesc, txOwner'[d] = "DMA"
        PROVE  txBuf[d] = accepted[(W + 1) + TxDist(d)' + 1]
    <3>1. d # txDma /\ txOwner[d] = "DMA"
      BY <1>3, <2>1
    <3>2. TxDist(d)' = TxDist(d) - 1 /\ TxDist(d) \in Nat
      BY <1>1, <1>6, <3>1, TxPlaces DEF TxDist
    <3>3. (W + 1) + TxDist(d)' + 1 = W + TxDist(d) + 1
      BY <1>2, <3>2
    <3> QED
      BY <3>1, <3>3 DEF TxInv, TxStored
  <2> QED
    BY <1>1, <1>2, <2>1 DEF TxStored
<1>10. TxSent'
  <2>1. ASSUME NEW k \in 1..(W + 1), NEW v, v = wire'[k] PROVE v = accepted[k] \/ CopiedOver(v, k)'
    <3>1. CASE k \in 1..W
      BY <1>2, <1>8, <2>1, <3>1 DEF TxInv, TxSent
    <3>2. CASE k = W + 1
      <4>1. W + TxDist(txDma) + 1 = W + 1
        BY <1>2, <1>4
      <4>2. txBuf[txDma] = accepted[W + 1] \/ CopiedOver(txBuf[txDma], W + 1)
        BY <1>1, <4>1 DEF TxInv, TxStored
      <4> QED
        BY <1>2, <1>8, <2>1, <3>2, <4>2
    <3> QED
      BY <1>2, <3>1, <3>2
  <2> QED
    BY <1>1, <1>2, <2>1 DEF TxSent, CopiedOver
<1>11. TxFilling'
  <2>1. txOwner[DMATxDescToSet] = "CPU" => txOwner'[DMATxDescToSet] = "CPU"
    BY <1>3, TxPlaces
  <2> QED
    BY <1>1, <2>1 DEF TxInv, TxFilling
<1> QED
  BY <1>7, <1>9, <1>10, <1>11

LEMMA TxUnchanged ==
  ASSUME TxInv, UNCHANGED <<txOwner, txBuf, txDma, txCode, wire>>
  PROVE  TxOrder' /\ TxStored' /\ TxFilling' /\ TxSent'
<1>1. TxHead' = TxHead /\ Outgoing' = Outgoing
  BY DEF TxHead, Outgoing, txCode, TxNext
<1>2. TxFilling'
  BY DEF TxInv, TxFilling, txCode
<1> QED
  BY <1>1, <1>2, TxQuiet DEF txCode

LEMMA TxInitSafe == Init => TxInv
<1> SUFFICES ASSUME Init PROVE TxInv
  OBVIOUS
<1>1. \A c \in Context : out[c].pc = "idle"
  BY DEF Init
<1>2. OneOutput /\ TxFilling
  BY <1>1 DEF OneOutput, TxFilling, Context
<1>3. TxHead = 0 /\ TxCount = 0
  BY <1>1 DEF TxHead, TxCount, Init
<1>4. \A d \in TxDesc : txOwner[d] = "CPU" /\ ~Within(0, d, ETH_TXBUFNB, 0)
  BY RingAssumption DEF Init, TxDesc, Within, Dist
<1>5. After(0, 0, ETH_TXBUFNB, 0)
  BY RingAssumption DEF After, Dist
<1>6. TxOrder
  BY <1>3, <1>4, <1>5, RingAssumption DEF TxOrder, Init
<1>7. TxStored /\ TxSent
  BY <1>4 DEF TxStored, TxSent, Init
<1> QED
  BY <1>2, <1>6, <1>7, TxInitTypes DEF TxInv

LEMMA TxStepSafe ==
  ASSUME ~Preempt, TxInv, RxTypes, [Next]_vars
  PROVE  TxInv'
<1>1. TxTypes' /\ OneOutput'
  BY TxTypesKept, OneOutputKept DEF TxInv
<1>2. CASE TxSuspend
  BY <1>1, <1>2, TxUnchanged DEF TxSuspend, TxInv
<1>3. ASSUME NEW c \in Context, low_level_output(c) PROVE TxInv'
  BY <1>1, <1>3, ControlKept, CopyOutKept, SetOwnerKept DEF low_level_output, TxInv
<1>4. CASE Output \/ Input
  BY <1>1, <1>4, BeginKept DEF TxInv
<1>5. CASE TxSend
  BY <1>1, <1>5, TxSendKept DEF TxInv
<1>6. CASE UNCHANGED <<txRing, txCode>>
  BY <1>1, <1>6, TxUnchanged DEF TxInv, txRing
<1>7. CASE UNCHANGED vars
  BY <1>1, <1>7, TxUnchanged DEF TxInv, txRing, vars
<1> QED
  BY <1>2, <1>3, <1>4, <1>5, <1>6, <1>7, RxLeavesTx DEF Next, ETH_IRQHandler, Context

(* When the interrupt waits for the end of low_level_output, the DMA sends *)
(* the accepted frames in their order and each once, except for the one    *)
(* that low_level_output copies over the oldest of a full ring before it   *)
(* looks at its owner (ethernetif.c:73-79).  Without that condition it     *)
(* does not (the run eth_preempt).                                         *)
THEOREM AcceptedInOrder == ~Preempt => (Spec => []SentAsAccepted)
<1> SUFFICES ASSUME ~Preempt PROVE Spec => []SentAsAccepted
  OBVIOUS
<1>1. Init => RxTypes /\ TxInv
  BY RxInitSafe, TxInitSafe DEF RxInv
<1>2. (RxTypes /\ TxInv) /\ [Next]_vars => (RxTypes /\ TxInv)'
  BY RxTypesKept, TxStepSafe
<1>3. TxInv => SentAsAccepted
  <2> SUFFICES ASSUME TxInv PROVE SentAsAccepted
    OBVIOUS
  <2>1. Len(accepted) \in Nat /\ Len(wire) \in Nat /\ Len(wire) <= Len(accepted)
    BY TxPlaces
  <2> QED
    BY <2>1 DEF TxInv, TxSent, CopiedOver, SentAsAccepted
<1> QED
  BY <1>1, <1>2, <1>3, PTL DEF Spec

=============================================================================
