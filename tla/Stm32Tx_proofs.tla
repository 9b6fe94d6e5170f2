---------------------------- MODULE Stm32Tx_proofs ----------------------------
(* Sending with the STM32 driver, for every number of mailboxes, length of *)
(* the buffer and number of calls: the capacity of the buffer, when the    *)
(* transmit interrupt stays off, and that no overflow is forgotten.        *)
EXTENDS Stm32Tx, SequenceTheorems, FiniteSetTheorems, TLAPS

-----------------------------------------------------------------------------
(* NoFrame is no frame, and the constants are numbers. *)
LEMMA Facts ==
  /\ NoFrame \notin Frame
  /\ Mailboxes \in Nat \ {0} /\ TxBufferLen \in Nat /\ Reserved \in Nat
  /\ Reserved <= TxBufferLen /\ MaxCalls \in Nat
BY TxAssumption DEF NoFrame, Frame

(* The frame and the mailbox the program works on are there when it needs  *)
(* them: what the steps of sendMessage leave for each other.               *)
AtWork ==
  /\ pc \in {"try", "request", "disable", "push"} => frame \in Frame
  /\ pc \in {"request", "request front"} =>
       adding \in [frame : Frame, mailbox : Mailbox]

TypeInv == TypeOK /\ AtWork

(* The frames HAL_CAN_IRQHandler takes from the buffer. *)
LEMMA NextFramesBounds ==
  ASSUME TypeOK
  PROVE  /\ NextFrames \in Nat /\ NextFrames <= Len(txBuffer)
         /\ Len(txBuffer) \in Nat /\ DOMAIN txBuffer = 1 .. Len(txBuffer)
         /\ \A i \in 1 .. Len(txBuffer) : txBuffer[i] \in Frame
         /\ BufferWithout(NextFrames) \in Seq(Frame)
         /\ Len(BufferWithout(NextFrames)) = Len(txBuffer) - NextFrames
         /\ \A i \in 1 .. (Len(txBuffer) - NextFrames) :
              BufferWithout(NextFrames)[i] = txBuffer[NextFrames + i]
<1>1. /\ txBuffer \in Seq(Frame) /\ Len(txBuffer) \in Nat
      /\ DOMAIN txBuffer = 1 .. Len(txBuffer)
      /\ \A i \in 1 .. Len(txBuffer) : txBuffer[i] \in Frame
  BY LenProperties, ElementOfSeq DEF TypeOK
<1>2. Cardinality(completed) \in Nat
  <2>1. IsFiniteSet(Mailbox)
    BY Facts, FS_Interval DEF Mailbox
  <2>2. completed \subseteq Mailbox
    BY DEF TypeOK
  <2> QED
    BY <2>1, <2>2, FS_Subset, FS_CardinalityType
<1>3. NextFrames \in Nat /\ NextFrames <= Len(txBuffer)
  BY <1>1, <1>2 DEF NextFrames
<1> DEFINE k == NextFrames
           rest == SubSeq(txBuffer, k + 1, Len(txBuffer))
<1>4. k \in Nat /\ k <= Len(txBuffer)
  BY <1>3
<1> HIDE DEF k
<1>5. k + 1 \in Int /\ Len(txBuffer) \in Int
      /\ \A i \in (k + 1) .. Len(txBuffer) : txBuffer[i] \in Frame
  <2>1. \A i \in (k + 1) .. Len(txBuffer) : i \in 1 .. Len(txBuffer)
    BY <1>1, <1>4
  <2> QED
    BY <1>1, <1>4, <2>1
<1>6. /\ rest \in Seq(Frame)
      /\ Len(rest) = IF k + 1 <= Len(txBuffer) THEN Len(txBuffer) - (k + 1) + 1 ELSE 0
      /\ \A i \in 1 .. (Len(txBuffer) - (k + 1) + 1) : rest[i] = txBuffer[(k + 1) + i - 1]
  BY <1>5, SubSeqProperties
<1> HIDE DEF rest
<1>7. Len(rest) = Len(txBuffer) - k
  <2>1. Len(txBuffer) \in Nat
    BY <1>1
  <2>2. Len(rest) = IF k + 1 <= Len(txBuffer) THEN Len(txBuffer) - (k + 1) + 1 ELSE 0
    BY <1>6
  <2> QED
    BY <1>4, <2>1, <2>2
<1>8. ASSUME NEW i \in 1 .. (Len(txBuffer) - k)
      PROVE  rest[i] = txBuffer[k + i]
  <2>1. i \in 1 .. (Len(txBuffer) - (k + 1) + 1) /\ (k + 1) + i - 1 = k + i
    BY <1>1, <1>4
  <2> QED
    BY <1>6, <2>1
<1>9. BufferWithout(NextFrames) = rest
  BY DEF BufferWithout, rest, k
<1>10. NextFrames = k
  BY DEF k
<1> QED
  BY <1>1, <1>4, <1>6, <1>7, <1>8, <1>9, <1>10

-----------------------------------------------------------------------------
(* The variables keep their types. *)
LEMMA TypeInit == Init => TypeInv
<1> SUFFICES ASSUME Init PROVE TypeInv
  OBVIOUS
<1>1. txBuffer \in Seq(Frame) /\ Len(txBuffer) = 0 /\ bus \in Seq(Frame)
  BY EmptySeq DEF Init
<1>2. mailboxes \in [Mailbox -> Frame \cup {NoFrame}]
  BY DEF Init
<1>3. Len(txBuffer) + Reserved <= TxBufferLen /\ calls \in 0 .. MaxCalls
  BY <1>1, Facts DEF Init
<1> QED
  BY <1>1, <1>2, <1>3 DEF Init, TypeInv, TypeOK, AtWork, ProgramPoint

(* Entering canSendFrame, for a message or for a report. *)
LEMMA TypeCall ==
  ASSUME TypeInv, NEW report \in BOOLEAN, CallCanSendFrame(report), calls < MaxCalls,
         onTxOverflow' \in BOOLEAN
  PROVE  TypeInv'
<1>1. calls + 1 \in 1 .. MaxCalls
  BY Facts DEF TypeInv, TypeOK
<1>2. frame' \in Frame /\ calls' \in 0 .. MaxCalls
  BY <1>1 DEF CallCanSendFrame, Frame
<1> QED
  BY <1>2
  DEF CallCanSendFrame, TypeInv, TypeOK, AtWork, ProgramPoint, driverVars, historyVars

(* HAL_CAN_AddTxMessage in its two steps. *)
LEMMA TypePick ==
  ASSUME TypeInv, NEW f \in Frame, NEW point \in {"request", "request front"},
         PickMailbox(f, point), point = "request" => frame \in Frame
  PROVE  TypeInv'
<1>1. adding' \in [frame : Frame, mailbox : Mailbox]
  <2>1. PICK m \in FreeMailboxes : adding' = [frame |-> f, mailbox |-> m]
    BY DEF PickMailbox
  <2>2. m \in Mailbox
    BY DEF FreeMailboxes
  <2> QED
    BY <2>1, <2>2
<1>2. /\ pc' = point
      /\ UNCHANGED <<frame, txBuffer, mailboxes, completed, irqEnabled, onTxOverflow,
                    calls, bus, failed, rejected, cutIn>>
  BY DEF PickMailbox, driverVars, historyVars
<1>3. AtWork'
  <2>1. pc' = "request" \/ pc' = "request front"
    BY <1>2
  <2>2. frame' \in Frame \/ pc' = "request front"
    BY <1>2
  <2> QED
    BY <1>1, <2>1, <2>2 DEF AtWork
<1>4. TypeOK'
  BY <1>1, <1>2 DEF TypeInv, TypeOK, ProgramPoint, CriticalPoint
<1> QED
  BY <1>3, <1>4 DEF TypeInv

LEMMA TypeRequest ==
  ASSUME TypeInv, pc \in {"request", "request front"},
         NEW point \in {"drain", "pop"}, RequestTransmission(point)
  PROVE  TypeInv'
<1>1. adding.frame \in Frame /\ adding.mailbox \in Mailbox
  BY DEF TypeInv, AtWork
<1>2. mailboxes' \in [Mailbox -> Frame \cup {NoFrame}]
  BY <1>1 DEF RequestTransmission, TypeInv, TypeOK
<1>3. completed' \subseteq {m \in Mailbox : mailboxes'[m] = NoFrame}
  BY <1>1 DEF RequestTransmission, TypeInv, TypeOK
<1> QED
  <2>1. /\ adding' = Nothing /\ pc' = point
        /\ UNCHANGED <<frame, txBuffer, irqEnabled, onTxOverflow, calls, bus, failed,
                      rejected, cutIn>>
    BY DEF RequestTransmission, historyVars
  <2>2. TypeOK'
    BY <1>2, <1>3, <2>1 DEF TypeInv, TypeOK, ProgramPoint, CriticalPoint
  <2>3. AtWork'
    BY <2>1 DEF AtWork
  <2> QED
    BY <2>2, <2>3 DEF TypeInv

(* The other steps of the program. *)
LEMMA TypeMainStep == TypeInv /\ MainStep => TypeInv'
<1> SUFFICES ASSUME TypeInv, MainStep PROVE TypeInv'
  OBVIOUS
<1>1. CASE SendDirectly
  <2>1. frame \in Frame
    BY <1>1 DEF SendDirectly, TypeInv, AtWork
  <2> QED
    BY <1>1, <2>1, TypePick DEF SendDirectly
<1>2. CASE SentDirectly
  BY <1>2, TypeRequest DEF SentDirectly
<1>3. CASE QueueIsFull \/ DisableInterrupt \/ EnableInterrupt \/ BeginRefill
           \/ TestRefill \/ BufferIsGone \/ EndRefill \/ FillData
  BY <1>3
  DEF QueueIsFull, DisableInterrupt, EnableInterrupt, BeginRefill, TestRefill,
      BufferIsGone, EndRefill, FillData, GoTo, Enabled, TypeInv, TypeOK, AtWork,
      ProgramPoint, CriticalPoint, driverVars, historyVars
<1>4. CASE PushToBuffer
  <2>1. frame \in Frame /\ txBuffer \in Seq(Frame) /\ Len(txBuffer) \in Nat
    BY <1>4, LenProperties DEF PushToBuffer, TypeInv, TypeOK, AtWork
  <2>2. txBuffer' \in Seq(Frame) /\ Len(txBuffer') = Len(txBuffer) + 1
    BY <1>4, <2>1, AppendProperties DEF PushToBuffer
  <2>3. Len(txBuffer') + Reserved <= TxBufferLen
    BY <1>4, <2>1, <2>2, Facts DEF PushToBuffer, TxBufferIsFull, Available
  <2> QED
    BY <1>4, <2>2, <2>3 DEF PushToBuffer, GoTo, TypeInv, TypeOK, AtWork,
                            ProgramPoint, CriticalPoint, historyVars
<1>5. CASE Overflow
  <2>1. rejected' \subseteq Frame
    BY <1>5 DEF Overflow, TypeInv, TypeOK, AtWork
  <2>2. onTxOverflow' \in BOOLEAN
    BY <1>5 DEF Overflow
  <2> QED
    BY <1>5, <2>1, <2>2
    DEF Overflow, TypeInv, TypeOK, AtWork, ProgramPoint, driverVars
<1>6. CASE SendFront
  <2>1. Head(txBuffer) \in Frame
    BY <1>6, HeadTailProperties DEF SendFront, TypeInv, TypeOK
  <2> QED
    BY <1>6, <2>1, TypePick DEF SendFront
<1>7. CASE SentFront
  BY <1>7, TypeRequest DEF SentFront
<1>8. CASE PopFront
  <2>1. txBuffer \in Seq(Frame) /\ Len(txBuffer) \in Nat
    BY LenProperties DEF TypeInv, TypeOK
  <2>2. txBuffer' \in Seq(Frame) /\ Len(txBuffer') = Len(txBuffer) - 1
    BY <1>8, <2>1, HeadTailProperties DEF PopFront
  <2>3. Len(txBuffer') + Reserved <= TxBufferLen
    BY <2>1, <2>2, Facts DEF TypeInv, TypeOK
  <2> QED
    BY <1>8, <2>2, <2>3
    DEF PopFront, GoTo, TypeInv, TypeOK, AtWork, ProgramPoint, historyVars
<1>9. CASE ReportOverflow
  BY <1>9, TypeCall DEF ReportOverflow
<1>10. CASE SendMessageReturns
  BY <1>10
  DEF SendMessageReturns, TypeInv, TypeOK, AtWork, ProgramPoint, driverVars, historyVars
<1> QED
  BY <1>1, <1>2, <1>3, <1>4, <1>5, <1>6, <1>7, <1>8, <1>9, <1>10 DEF MainStep

(* The hardware. *)
LEMMA TypeHardware == TypeInv /\ (HardwareTransmits \/ HardwareFails) => TypeInv'
<1> SUFFICES ASSUME TypeInv, NEW m \in Mailbox, Transmit(m) \/ TransmissionFails(m)
             PROVE  TypeInv'
  BY DEF HardwareTransmits, HardwareFails
<1>1. mailboxes[m] \in Frame /\ mailboxes' = [mailboxes EXCEPT ![m] = NoFrame]
  BY DEF Transmit, TransmissionFails, TypeInv, TypeOK
<1>2. mailboxes' \in [Mailbox -> Frame \cup {NoFrame}]
  BY <1>1 DEF TypeInv, TypeOK
<1>3. completed' \subseteq {n \in Mailbox : mailboxes'[n] = NoFrame}
  BY <1>1 DEF Transmit, TransmissionFails, TypeInv, TypeOK
<1>4. bus' \in Seq(Frame)
  BY <1>1, AppendProperties DEF Transmit, TransmissionFails, TypeInv, TypeOK
<1>5. failed' \subseteq Frame
  BY <1>1 DEF Transmit, TransmissionFails, TypeInv, TypeOK
<1> QED
  BY <1>2, <1>3, <1>4, <1>5
  DEF Transmit, TransmissionFails, TypeInv, TypeOK, AtWork, programVars

(* The interrupt. *)
LEMMA TypeHandler == TypeInv /\ HAL_CAN_IRQHandler => TypeInv'
<1> SUFFICES ASSUME TypeInv, HAL_CAN_IRQHandler PROVE TypeInv'
  OBVIOUS
<1>1. TypeOK
  BY DEF TypeInv
<1>2. mailboxes' \in [Mailbox -> Frame \cup {NoFrame}]
  <2>1. PICK into \in [1 .. NextFrames -> FreeMailboxes] :
          mailboxes' = [m \in Mailbox |->
            IF \E i \in 1 .. NextFrames : into[i] = m
              THEN txBuffer[CHOOSE i \in 1 .. NextFrames : into[i] = m]
              ELSE mailboxes[m]]
    BY DEF HAL_CAN_IRQHandler
  <2>2. ASSUME NEW m \in Mailbox, \E i \in 1 .. NextFrames : into[i] = m
        PROVE  txBuffer[CHOOSE i \in 1 .. NextFrames : into[i] = m] \in Frame
    <3>1. (CHOOSE i \in 1 .. NextFrames : into[i] = m) \in 1 .. NextFrames
      BY <2>2
    <3>2. \A i \in 1 .. NextFrames : i \in 1 .. Len(txBuffer)
      BY <1>1, NextFramesBounds
    <3> QED
      BY <1>1, <3>1, <3>2, NextFramesBounds
  <2> QED
    BY <1>1, <2>1, <2>2 DEF TypeOK
<1>3. /\ txBuffer' \in Seq(Frame)
      /\ Len(txBuffer') + Reserved <= TxBufferLen
  BY <1>1, NextFramesBounds, Facts DEF HAL_CAN_IRQHandler, TypeOK
<1>4. cutIn' \in BOOLEAN
  BY <1>1 DEF HAL_CAN_IRQHandler, TypeOK
<1> QED
  BY <1>2, <1>3, <1>4 DEF HAL_CAN_IRQHandler, TypeInv, TypeOK, AtWork, programVars

LEMMA TypeStep == TypeInv /\ [Next]_vars => TypeInv'
<1> SUFFICES ASSUME TypeInv, [Next]_vars PROVE TypeInv'
  OBVIOUS
<1>1. CASE SendMessage
  <2>1. calls < MaxCalls
    <3>1. calls \in Nat /\ calls + 2 <= MaxCalls
      BY <1>1, Facts DEF SendMessage, TypeInv, TypeOK
    <3> QED
      BY <3>1, Facts
  <2>2. CallCanSendFrame(FALSE) /\ onTxOverflow' \in BOOLEAN
    BY <1>1 DEF SendMessage, TypeInv, TypeOK
  <2> QED
    BY <2>1, <2>2, TypeCall
<1>2. CASE UNCHANGED vars
  BY <1>2 DEF vars, programVars, driverVars, historyVars, TypeInv, TypeOK, AtWork
<1> QED
  BY <1>1, <1>2, TypeMainStep, TypeHardware, TypeHandler
  DEF Next, TxInterrupt, RxInterrupt

LEMMA TypeInvariant == Spec => []TypeInv
<1> QED
  BY TypeInit, TypeStep, PTL DEF Spec

(* The transmit buffer of Stm32HalCanInterface.hpp never holds more than   *)
(* its length without the reserve, however the handler cuts into           *)
(* canSendFrame, and the variables keep their types.                       *)
THEOREM TypesCorrect == Spec => []TypeOK
<1>1. TypeInv => TypeOK
  BY DEF TypeInv
<1> QED
  BY <1>1, TypeInvariant, PTL

-----------------------------------------------------------------------------
(* Outside its critical sections the program has the transmit interrupt    *)
(* disabled only since an overflow, and the buffer is still full.          *)
OffOnlyWhenFull ==
  pc \in {"idle", "try", "request", "disable", "drain", "check"} /\ ~ irqEnabled =>
    TxBufferIsFull /\ rejected # {}

LEMMA OffStep == TypeInv /\ OffOnlyWhenFull /\ [Next]_vars => OffOnlyWhenFull'
<1> SUFFICES ASSUME TypeInv, OffOnlyWhenFull, [Next]_vars PROVE OffOnlyWhenFull'
  OBVIOUS
<1>1. CASE UNCHANGED <<txBuffer, irqEnabled, rejected>>
           /\ (pc' \in {"idle", "try", "request", "disable", "drain", "check"} =>
               pc \in {"idle", "try", "request", "disable", "drain", "check"})
  BY <1>1 DEF OffOnlyWhenFull, TxBufferIsFull, Available
<1>2. CASE irqEnabled'
  BY <1>2 DEF OffOnlyWhenFull
<1>3. CASE pc' \notin {"idle", "try", "request", "disable", "drain", "check"}
  BY <1>3 DEF OffOnlyWhenFull
<1>4. CASE SendMessage \/ ReportOverflow
  BY <1>1, <1>4
  DEF SendMessage, ReportOverflow, CallCanSendFrame, driverVars, historyVars
<1>5. CASE SendDirectly \/ SentDirectly
  BY <1>1, <1>5 DEF SendDirectly, SentDirectly, PickMailbox, RequestTransmission,
                    driverVars, historyVars
<1>6. CASE QueueIsFull \/ SendMessageReturns
  BY <1>1, <1>6
  DEF QueueIsFull, SendMessageReturns, GoTo, driverVars, historyVars
<1>7. CASE DisableInterrupt \/ PushToBuffer \/ FillData \/ BeginRefill \/ TestRefill
           \/ SendFront \/ SentFront \/ PopFront \/ BufferIsGone
  BY <1>3, <1>7
  DEF DisableInterrupt, PushToBuffer, FillData, BeginRefill, TestRefill, SendFront,
      SentFront, PopFront, BufferIsGone, GoTo, PickMailbox, RequestTransmission
<1>8. CASE Overflow
  BY <1>8
  DEF Overflow, OffOnlyWhenFull, TxBufferIsFull, Available, driverVars
<1>9. CASE EnableInterrupt \/ EndRefill \/ HAL_CAN_IRQHandler
  BY <1>2, <1>9 DEF EnableInterrupt, EndRefill, HAL_CAN_IRQHandler, Enabled
<1>10. CASE HardwareTransmits \/ HardwareFails
  BY <1>1, <1>10
  DEF HardwareTransmits, HardwareFails, Transmit, TransmissionFails, programVars
<1>11. CASE UNCHANGED vars
  BY <1>1, <1>11 DEF vars, programVars, driverVars, historyVars
<1> QED
  BY <1>4, <1>5, <1>6, <1>7, <1>8, <1>9, <1>10, <1>11
  DEF Next, MainStep, TxInterrupt, RxInterrupt

(* The early return of canSendFrame on a full buffer is the only way for   *)
(* the program to leave the transmit interrupt disabled between calls of   *)
(* sendMessage, and the buffer is full then.                               *)
THEOREM InterruptStaysOn == Spec => []InterruptOffOnlyWhenFull
<1>1. Init => OffOnlyWhenFull
  BY DEF Init, OffOnlyWhenFull
<1>2. OffOnlyWhenFull => InterruptOffOnlyWhenFull
  BY DEF OffOnlyWhenFull, InterruptOffOnlyWhenFull
<1> QED
  BY <1>1, <1>2, OffStep, TypeInvariant, PTL DEF Spec

-----------------------------------------------------------------------------
(* What the steps of adding a frame to a mailbox find, as long as the      *)
(* handler has sent nothing at a critical point.                           *)
InMailbox(f) == \E m \in Mailbox : mailboxes[m] = f
InTheBuffer(f) == \E i \in 1 .. Len(txBuffer) : txBuffer[i] = f
Gone(f) == f \in failed \/ \E i \in 1 .. Len(bus) : bus[i] = f

Undisturbed ==
  ~ cutIn =>
    /\ pc \in {"request", "request front"} => mailboxes[adding.mailbox] = NoFrame
    /\ pc = "request" => adding.frame = frame
    /\ pc = "request front" => txBuffer # << >> /\ adding.frame = Head(txBuffer)
    /\ pc = "pop" =>
         txBuffer # << >> /\ (InMailbox(Head(txBuffer)) \/ Gone(Head(txBuffer)))

(* A frame given to the hardware stays with it, or has been on the bus.    *)
StaysGone(f) == InMailbox(f) \/ Gone(f) => InMailbox(f)' \/ Gone(f)'
StaysTaken(f) ==
  InTheBuffer(f) \/ InMailbox(f) \/ Gone(f) =>
    InTheBuffer(f)' \/ InMailbox(f)' \/ Gone(f)'

LEMMA HardwareKeeps ==
  ASSUME TypeOK, HardwareTransmits \/ HardwareFails, NEW f \in Frame
  PROVE  StaysGone(f) /\ txBuffer' = txBuffer
<1> PICK m \in Mailbox : Transmit(m) \/ TransmissionFails(m)
  BY DEF HardwareTransmits, HardwareFails
<1>1. mailboxes' = [mailboxes EXCEPT ![m] = NoFrame] /\ mailboxes[m] \in Frame
  BY DEF Transmit, TransmissionFails, TypeOK
<1>2. \A n \in Mailbox : n # m => mailboxes'[n] = mailboxes[n]
  BY <1>1 DEF TypeOK
<1>3. CASE Transmit(m)
  <2>1. bus' = Append(bus, mailboxes[m]) /\ failed' = failed /\ txBuffer' = txBuffer
    BY <1>3 DEF Transmit
  <2>2. /\ Len(bus) \in Nat /\ Len(bus') = Len(bus) + 1
        /\ \A i \in 1 .. Len(bus) : bus'[i] = bus[i]
        /\ bus'[Len(bus) + 1] = mailboxes[m]
    BY <1>1, <2>1, AppendProperties, LenProperties DEF TypeOK
  <2>3. Gone(f) => Gone(f)'
    BY <2>1, <2>2 DEF Gone
  <2>5. InMailbox(f) => f = mailboxes[m] \/ InMailbox(f)'
    BY <1>2 DEF InMailbox
  <2>6. f = mailboxes[m] => Gone(f)'
    BY <2>2 DEF Gone
  <2> QED
    BY <2>1, <2>3, <2>5, <2>6 DEF StaysGone
<1>4. CASE TransmissionFails(m)
  <2>1. failed' = failed \cup {mailboxes[m]} /\ bus' = bus /\ txBuffer' = txBuffer
    BY <1>4 DEF TransmissionFails
  <2>2. Gone(f) => Gone(f)'
    BY <2>1 DEF Gone
  <2>3. InMailbox(f) => f = mailboxes[m] \/ InMailbox(f)'
    BY <1>2 DEF InMailbox
  <2>4. f = mailboxes[m] => Gone(f)'
    BY <2>1 DEF Gone
  <2> QED
    BY <2>1, <2>2, <2>3, <2>4 DEF StaysGone
<1> QED
  BY <1>3, <1>4

(* HAL_CAN_AddTxMessage puts its frame into a mailbox that is empty.       *)
LEMMA RequestKeeps ==
  ASSUME TypeInv, Undisturbed, ~ cutIn, pc \in {"request", "request front"},
         NEW point, RequestTransmission(point), NEW f \in Frame
  PROVE  /\ StaysGone(f) /\ txBuffer' = txBuffer
         /\ f = adding.frame => InMailbox(f)'
<1>1. /\ adding.mailbox \in Mailbox /\ mailboxes[adding.mailbox] = NoFrame
      /\ mailboxes' = [mailboxes EXCEPT ![adding.mailbox] = adding.frame]
      /\ UNCHANGED <<bus, failed, txBuffer>>
  BY DEF TypeInv, AtWork, Undisturbed, RequestTransmission, historyVars
<1>2. /\ mailboxes'[adding.mailbox] = adding.frame
      /\ \A n \in Mailbox : n # adding.mailbox => mailboxes'[n] = mailboxes[n]
  BY <1>1 DEF TypeInv, TypeOK
<1>3. f # NoFrame
  BY Facts
<1>4. InMailbox(f) => InMailbox(f)'
  BY <1>1, <1>2, <1>3 DEF InMailbox
<1>5. Gone(f) => Gone(f)'
  BY <1>1 DEF Gone
<1>6. f = adding.frame => InMailbox(f)'
  BY <1>1, <1>2 DEF InMailbox
<1> QED
  BY <1>1, <1>4, <1>5, <1>6 DEF StaysGone

(* The handler moves the first frames of the buffer into mailboxes.        *)
LEMMA HandlerKeeps ==
  ASSUME TypeOK, HAL_CAN_IRQHandler, NEW f \in Frame
  PROVE  StaysGone(f) /\ StaysTaken(f)
<1> PICK into \in [1 .. NextFrames -> FreeMailboxes] :
       /\ \A i, j \in 1 .. NextFrames : into[i] = into[j] => i = j
       /\ mailboxes' = [m \in Mailbox |->
            IF \E i \in 1 .. NextFrames : into[i] = m
              THEN txBuffer[CHOOSE i \in 1 .. NextFrames : into[i] = m]
              ELSE mailboxes[m]]
  BY DEF HAL_CAN_IRQHandler
<1>1. bus' = bus /\ failed' = failed /\ txBuffer' = BufferWithout(NextFrames)
  BY DEF HAL_CAN_IRQHandler
<1>2. Gone(f) => Gone(f)'
  BY <1>1 DEF Gone
<1>3. InMailbox(f) => InMailbox(f)'
  <2> SUFFICES ASSUME NEW m \in Mailbox, mailboxes[m] = f PROVE mailboxes'[m] = f
    BY DEF InMailbox
  <2>1. m \notin FreeMailboxes
    BY Facts DEF FreeMailboxes
  <2>2. ~ \E i \in 1 .. NextFrames : into[i] = m
    BY <2>1
  <2> QED
    BY <2>2
<1>4. ASSUME NEW i \in 1 .. Len(txBuffer), txBuffer[i] = f
      PROVE  InTheBuffer(f)' \/ InMailbox(f)'
  <2>1. CASE i \in 1 .. NextFrames
    <3>1. into[i] \in Mailbox
      BY <2>1 DEF FreeMailboxes
    <3>2. (CHOOSE j \in 1 .. NextFrames : into[j] = into[i]) = i
      BY <2>1
    <3>3. mailboxes'[into[i]] = f
      BY <1>4, <2>1, <3>1, <3>2
    <3> QED
      BY <3>1, <3>3 DEF InMailbox
  <2>2. CASE i \notin 1 .. NextFrames
    <3>1. /\ i - NextFrames \in 1 .. (Len(txBuffer) - NextFrames)
          /\ NextFrames + (i - NextFrames) = i
      BY <2>2, NextFramesBounds
    <3>2. /\ txBuffer'[i - NextFrames] = f
          /\ i - NextFrames \in 1 .. Len(txBuffer')
      BY <1>1, <1>4, <3>1, NextFramesBounds
    <3> QED
      BY <3>2 DEF InTheBuffer
  <2> QED
    BY <2>1, <2>2
<1> QED
  BY <1>2, <1>3, <1>4 DEF StaysGone, StaysTaken, InTheBuffer

(* The handler that has not cut in at a critical point has left the buffer *)
(* and the mailboxes as they were, if it came at one.                      *)
LEMMA HandlerCutsNotIn ==
  ASSUME TypeOK, HAL_CAN_IRQHandler, ~ cutIn', pc \in CriticalPoint
  PROVE  txBuffer' = txBuffer /\ mailboxes' = mailboxes
<1>1. NextFrames = 0
  <2>1. ~ (NextFrames > 0)
    BY DEF HAL_CAN_IRQHandler
  <2> QED
    BY <2>1, NextFramesBounds
<1>2. 1 .. NextFrames = {}
  BY <1>1
<1>3. mailboxes' = [m \in Mailbox |-> mailboxes[m]]
  BY <1>2 DEF HAL_CAN_IRQHandler
<1>4. mailboxes' = mailboxes
  BY <1>3 DEF TypeOK
<1>5. txBuffer' = SubSeq(txBuffer, 0 + 1, Len(txBuffer))
  BY <1>1 DEF HAL_CAN_IRQHandler, BufferWithout
<1>6. txBuffer' = txBuffer
  BY <1>5, SubSeqFull DEF TypeOK
<1> QED
  BY <1>4, <1>6

(* The steps of the program that move no frame. *)
Quiet ==
  UNCHANGED <<txBuffer, mailboxes, bus, failed, cutIn>>

LEMMA QuietSteps ==
  ASSUME \/ SendMessage \/ SendDirectly \/ QueueIsFull \/ DisableInterrupt \/ FillData
         \/ Overflow \/ EnableInterrupt \/ BeginRefill \/ TestRefill \/ SendFront
         \/ BufferIsGone \/ EndRefill \/ ReportOverflow \/ SendMessageReturns
         \/ UNCHANGED vars
  PROVE  Quiet
BY DEF SendMessage, SendDirectly, QueueIsFull, DisableInterrupt, FillData, Overflow,
       EnableInterrupt, BeginRefill, TestRefill, SendFront, BufferIsGone, EndRefill,
       ReportOverflow, SendMessageReturns, CallCanSendFrame, PickMailbox, GoTo, Quiet,
       vars, programVars, driverVars, historyVars

LEMMA UndisturbedStep ==
  ASSUME TypeInv, Undisturbed, [Next]_vars
  PROVE  Undisturbed'
<1> SUFFICES ASSUME ~ cutIn' PROVE Undisturbed'
  BY DEF Undisturbed
<1>0. TypeOK
  BY DEF TypeInv
<1>1. CASE pc' \notin {"request", "request front", "pop"}
  BY <1>1 DEF Undisturbed
<1>2. CASE SendDirectly
  <2>1. PICK m \in FreeMailboxes : adding' = [frame |-> frame, mailbox |-> m]
    BY <1>2 DEF SendDirectly, PickMailbox
  <2>2. mailboxes[m] = NoFrame
    BY DEF FreeMailboxes
  <2>3. pc' = "request" /\ mailboxes' = mailboxes /\ frame' = frame
    BY <1>2 DEF SendDirectly, PickMailbox, driverVars
  <2> QED
    BY <2>1, <2>2, <2>3 DEF Undisturbed
<1>3. CASE SendFront
  <2>1. PICK m \in FreeMailboxes : adding' = [frame |-> Head(txBuffer), mailbox |-> m]
    BY <1>3 DEF SendFront, PickMailbox
  <2>2. mailboxes[m] = NoFrame
    BY DEF FreeMailboxes
  <2>3. /\ pc' = "request front" /\ txBuffer # << >>
        /\ mailboxes' = mailboxes /\ txBuffer' = txBuffer
    BY <1>3 DEF SendFront, PickMailbox, driverVars
  <2> QED
    BY <2>1, <2>2, <2>3 DEF Undisturbed
<1>4. CASE SentFront
  <2>1. /\ pc = "request front" /\ RequestTransmission("pop") /\ ~ cutIn
        /\ pc' = "pop"
    BY <1>4 DEF SentFront, RequestTransmission, historyVars
  <2>2. txBuffer # << >> /\ adding.frame = Head(txBuffer)
    BY <2>1 DEF Undisturbed
  <2>3. Head(txBuffer) \in Frame
    BY <2>2, <1>0, HeadTailProperties DEF TypeOK
  <2>4. ASSUME NEW f \in Frame, f = Head(txBuffer)
        PROVE  txBuffer' = txBuffer /\ InMailbox(f)'
    BY <2>1, <2>2, <2>4, RequestKeeps
  <2>5. txBuffer' = txBuffer /\ \E m \in Mailbox : mailboxes'[m] = Head(txBuffer)
    BY <2>3, <2>4 DEF InMailbox
  <2> QED
    BY <2>1, <2>2, <2>5 DEF Undisturbed, InMailbox
<1>5. CASE HardwareTransmits \/ HardwareFails
  <2>1. /\ UNCHANGED <<pc, frame, adding, cutIn, txBuffer>>
        /\ \E m \in Mailbox : mailboxes' = [mailboxes EXCEPT ![m] = NoFrame]
    BY <1>5 DEF HardwareTransmits, HardwareFails, Transmit, TransmissionFails, programVars
  <2>2. CASE pc \in {"request", "request front"}
    <3>1. adding.mailbox \in Mailbox /\ mailboxes[adding.mailbox] = NoFrame
      BY <2>1, <2>2 DEF TypeInv, AtWork, Undisturbed
    <3>2. mailboxes'[adding.mailbox] = NoFrame
      BY <2>1, <3>1, <1>0 DEF TypeOK
    <3> QED
      BY <2>1, <2>2, <3>2 DEF Undisturbed
  <2>3. CASE pc = "pop"
    <3>1. txBuffer # << >> /\ (InMailbox(Head(txBuffer)) \/ Gone(Head(txBuffer)))
      BY <2>1, <2>3 DEF Undisturbed
    <3>2. Head(txBuffer) \in Frame
      BY <3>1, <1>0, HeadTailProperties DEF TypeOK
    <3>3. ASSUME NEW f \in Frame, f = Head(txBuffer)
          PROVE  InMailbox(f)' \/ Gone(f)'
      BY <1>0, <1>5, <3>1, <3>3, HardwareKeeps DEF StaysGone
    <3>4. \/ \E m \in Mailbox : mailboxes'[m] = Head(txBuffer)
          \/ Head(txBuffer) \in failed' \/ \E i \in 1 .. Len(bus') : bus'[i] = Head(txBuffer)
      BY <3>2, <3>3 DEF InMailbox, Gone
    <3> QED
      BY <2>1, <2>3, <3>1, <3>4 DEF Undisturbed, InMailbox, Gone
  <2> QED
    BY <1>1, <2>1, <2>2, <2>3
<1>6. CASE HAL_CAN_IRQHandler
  <2>1. UNCHANGED <<pc, frame, adding, bus, failed>> /\ ~ cutIn
    BY <1>6 DEF HAL_CAN_IRQHandler, programVars
  <2>2. CASE pc \in CriticalPoint
    <3>1. txBuffer' = txBuffer /\ mailboxes' = mailboxes
      BY <1>0, <1>6, <2>2, HandlerCutsNotIn
    <3> QED
      BY <2>1, <3>1 DEF Undisturbed, InMailbox, Gone
  <2>3. CASE pc \notin CriticalPoint
    BY <1>1, <2>1, <2>3 DEF CriticalPoint
  <2> QED
    BY <2>2, <2>3
<1>7. CASE UNCHANGED vars
  BY <1>7 DEF vars, programVars, driverVars, historyVars, Undisturbed, InMailbox, Gone
<1>8. CASE \/ SendMessage \/ SentDirectly \/ QueueIsFull \/ DisableInterrupt
           \/ PushToBuffer \/ FillData \/ Overflow \/ EnableInterrupt \/ BeginRefill
           \/ TestRefill \/ PopFront \/ BufferIsGone \/ EndRefill \/ ReportOverflow
           \/ SendMessageReturns
  BY <1>1, <1>8
  DEF SendMessage, SentDirectly, QueueIsFull, DisableInterrupt, PushToBuffer, FillData,
      Overflow, EnableInterrupt, BeginRefill, TestRefill, PopFront, BufferIsGone,
      EndRefill, ReportOverflow, SendMessageReturns, CallCanSendFrame,
      RequestTransmission, GoTo
<1> QED
  BY <1>2, <1>3, <1>4, <1>5, <1>6, <1>7, <1>8
  DEF Next, MainStep, TxInterrupt, RxInterrupt

(* No frame taken is lost by a step. *)
LEMMA TakenStep ==
  ASSUME TypeInv, Undisturbed, [Next]_vars, ~ cutIn', NEW f \in Frame
  PROVE  StaysTaken(f)
<1>0. TypeOK /\ txBuffer \in Seq(Frame) /\ Len(txBuffer) \in Nat
  BY LenProperties DEF TypeInv, TypeOK
<1>1. CASE Quiet
  BY <1>1 DEF Quiet, StaysTaken, InTheBuffer, InMailbox, Gone
<1>2. CASE SentDirectly \/ SentFront
  <2>1. PICK point \in {"drain", "pop"} :
          pc \in {"request", "request front"} /\ RequestTransmission(point)
    BY <1>2 DEF SentDirectly, SentFront
  <2>2. ~ cutIn
    BY <2>1 DEF RequestTransmission, historyVars
  <2> QED
    BY <2>1, <2>2, RequestKeeps DEF StaysGone, StaysTaken, InTheBuffer
<1>3. CASE PushToBuffer
  <2>1. /\ frame \in Frame /\ txBuffer' = Append(txBuffer, frame)
        /\ UNCHANGED <<mailboxes, bus, failed>>
    BY <1>3 DEF PushToBuffer, GoTo, TypeInv, AtWork, historyVars
  <2>2. Len(txBuffer') = Len(txBuffer) + 1 /\ \A i \in 1 .. Len(txBuffer) : txBuffer'[i] = txBuffer[i]
    BY <1>0, <2>1, AppendProperties
  <2> QED
    BY <1>0, <2>1, <2>2 DEF StaysTaken, InTheBuffer, InMailbox, Gone
<1>4. CASE PopFront
  <2>1. /\ txBuffer # << >> /\ txBuffer' = Tail(txBuffer) /\ pc = "pop" /\ ~ cutIn
        /\ UNCHANGED <<mailboxes, bus, failed>>
    BY <1>4 DEF PopFront, GoTo, historyVars
  <2>2. /\ Len(txBuffer') = Len(txBuffer) - 1 /\ txBuffer[1] = Head(txBuffer)
        /\ \A i \in 1 .. Len(txBuffer') : txBuffer'[i] = txBuffer[i + 1]
    BY <1>0, <2>1, HeadTailProperties
  <2>3. InMailbox(Head(txBuffer)) \/ Gone(Head(txBuffer))
    BY <2>1 DEF Undisturbed
  <2>4. ASSUME NEW i \in 1 .. Len(txBuffer), txBuffer[i] = f
        PROVE  f = Head(txBuffer) \/ InTheBuffer(f)'
    <3>1. CASE i = 1
      BY <2>2, <2>4, <3>1
    <3>2. CASE i # 1
      <4>1. i - 1 \in 1 .. Len(txBuffer') /\ (i - 1) + 1 = i
        BY <1>0, <2>2, <3>2
      <4>2. txBuffer'[i - 1] = f
        BY <2>2, <2>4, <4>1
      <4> QED
        BY <4>1, <4>2 DEF InTheBuffer
    <3> QED
      BY <3>1, <3>2
  <2> QED
    BY <2>1, <2>3, <2>4 DEF StaysTaken, InTheBuffer, InMailbox, Gone
<1>5. CASE HardwareTransmits \/ HardwareFails
  BY <1>0, <1>5, HardwareKeeps DEF StaysGone, StaysTaken, InTheBuffer
<1>6. CASE HAL_CAN_IRQHandler
  BY <1>0, <1>6, HandlerKeeps
<1> QED
  BY <1>1, <1>2, <1>3, <1>4, <1>5, <1>6, QuietSteps
  DEF Next, MainStep, TxInterrupt, RxInterrupt

-----------------------------------------------------------------------------
(* The frame in work is the latest, later than every rejected one. *)
Numbered ==
  /\ \A f \in rejected : f.n <= calls
  /\ Undecided => frame.n = calls /\ \A f \in rejected : f.n < calls

LEMMA NumberedStep == TypeInv /\ Numbered /\ [Next]_vars => Numbered'
<1> SUFFICES ASSUME TypeInv, Numbered, [Next]_vars PROVE Numbered'
  OBVIOUS
<1>1. calls \in Nat /\ \A f \in rejected : f.n \in Nat
  BY Facts DEF TypeInv, TypeOK, Frame
<1>2. CASE SendMessage \/ ReportOverflow
  <2>1. /\ calls' = calls + 1 /\ frame'.n = calls + 1 /\ rejected' = rejected
    BY <1>2 DEF SendMessage, ReportOverflow, CallCanSendFrame, historyVars
  <2> QED
    BY <1>1, <2>1 DEF Numbered
<1>3. CASE Overflow
  <2>1. /\ pc = "push" /\ pc' = "check" /\ calls' = calls
        /\ rejected' = rejected \cup {frame}
    BY <1>3 DEF Overflow
  <2> QED
    BY <1>1, <2>1 DEF Numbered, Undecided
<1>4. CASE UNCHANGED <<calls, frame, rejected>> /\ (Undecided' => Undecided)
  BY <1>4 DEF Numbered
<1>5. CASE SendDirectly \/ SentDirectly \/ QueueIsFull \/ DisableInterrupt
  BY <1>4, <1>5
  DEF SendDirectly, SentDirectly, QueueIsFull, DisableInterrupt, GoTo, PickMailbox,
      RequestTransmission, Undecided, historyVars
<1>6. CASE \/ PushToBuffer \/ FillData \/ EnableInterrupt \/ BeginRefill \/ TestRefill
           \/ SendFront \/ SentFront \/ PopFront \/ BufferIsGone \/ EndRefill
  BY <1>4, <1>6
  DEF PushToBuffer, FillData, EnableInterrupt, BeginRefill, TestRefill, SendFront,
      SentFront, PopFront, BufferIsGone, EndRefill, GoTo, PickMailbox,
      RequestTransmission, Undecided, historyVars
<1>7. CASE SendMessageReturns
  BY <1>7 DEF SendMessageReturns, Numbered, Undecided, historyVars
<1>8. CASE HardwareTransmits \/ HardwareFails \/ HAL_CAN_IRQHandler
  BY <1>4, <1>8
  DEF HardwareTransmits, HardwareFails, Transmit, TransmissionFails, HAL_CAN_IRQHandler,
      Undecided, programVars
<1>9. CASE UNCHANGED vars
  BY <1>4, <1>9 DEF vars, programVars, historyVars, Undecided
<1> QED
  BY <1>2, <1>3, <1>5, <1>6, <1>7, <1>8, <1>9
  DEF Next, MainStep, TxInterrupt, RxInterrupt

(* A report that is later than a rejected frame has been taken. *)
Reported(f) ==
  \E r \in Frame :
    r.report /\ r.n > f.n /\ (InTheBuffer(r) \/ InMailbox(r) \/ Gone(r))

Remembered ==
  ~ cutIn =>
    \A f \in rejected : Reported(f) \/ onTxOverflow \/ (frame.report /\ Undecided)

LEMMA TakenFramesAre ==
  ASSUME TypeOK, NEW r \in Frame
  PROVE  InTheBuffer(r) \/ InMailbox(r) \/ Gone(r) <=> r \in TakenFrames
<1>1. DOMAIN txBuffer = 1 .. Len(txBuffer) /\ DOMAIN bus = 1 .. Len(bus)
  BY LenProperties DEF TypeOK
<1> QED
  BY <1>1 DEF TakenFrames, InTheBuffer, InMailbox, Gone

LEMMA CutInStays ==
  ASSUME [Next]_vars, cutIn
  PROVE  cutIn'
<1>1. CASE HAL_CAN_IRQHandler
  BY <1>1 DEF HAL_CAN_IRQHandler
<1>2. CASE \/ SentDirectly \/ SentFront \/ PushToBuffer \/ PopFront
           \/ HardwareTransmits \/ HardwareFails
  BY <1>2
  DEF SentDirectly, SentFront, PushToBuffer, PopFront, RequestTransmission, GoTo,
      HardwareTransmits, HardwareFails, Transmit, TransmissionFails, historyVars
<1> QED
  BY <1>1, <1>2, QuietSteps DEF Next, MainStep, TxInterrupt, RxInterrupt, Quiet

LEMMA RememberedStep ==
  ASSUME TypeInv, Undisturbed, Numbered, Remembered, [Next]_vars
  PROVE  Remembered'
<1> SUFFICES ASSUME ~ cutIn', NEW f \in rejected',
                    ~ onTxOverflow', ~ (frame.report /\ Undecided)'
             PROVE  Reported(f)'
  BY DEF Remembered
<1>1. TypeOK /\ ~ cutIn
  BY CutInStays DEF TypeInv
<1>2. ASSUME Reported(f) PROVE Reported(f)'
  <2>1. PICK r \in Frame :
          r.report /\ r.n > f.n /\ (InTheBuffer(r) \/ InMailbox(r) \/ Gone(r))
    BY <1>2 DEF Reported
  <2>2. InTheBuffer(r)' \/ InMailbox(r)' \/ Gone(r)'
    BY <2>1, TakenStep DEF StaysTaken
  <2> QED
    BY <2>1, <2>2 DEF Reported
<1>3. CASE Overflow
  BY <1>3 DEF Overflow, SetsOverflow
<1>4. CASE ReportOverflow
  BY <1>4 DEF ReportOverflow, CallCanSendFrame, Undecided
<1>5. ASSUME rejected' = rejected, onTxOverflow' = onTxOverflow,
             ~ (frame.report /\ Undecided)
      PROVE  Reported(f)'
  BY <1>1, <1>2, <1>5 DEF Remembered
<1>6. CASE SendMessage
  BY <1>5, <1>6 DEF SendMessage, CallCanSendFrame, Undecided, historyVars
<1>7. ASSUME rejected' = rejected, onTxOverflow' = onTxOverflow, frame' = frame,
             Undecided => Undecided'
      PROVE  Reported(f)'
  BY <1>5, <1>7
<1>8. CASE SendDirectly \/ QueueIsFull \/ DisableInterrupt
  BY <1>7, <1>8
  DEF SendDirectly, QueueIsFull, DisableInterrupt, GoTo, PickMailbox, Undecided,
      historyVars
<1>9. ASSUME pc \in {"request", "push"}, rejected' = rejected,
             onTxOverflow' = onTxOverflow,
             \A r \in Frame : r = frame => InTheBuffer(r)' \/ InMailbox(r)'
      PROVE  Reported(f)'
  <2>1. CASE frame.report
    <3>1. frame \in Frame /\ frame.n > f.n
      <4>1. frame \in Frame /\ frame.n = calls /\ f.n < calls
        BY <1>9 DEF TypeInv, AtWork, Numbered, Undecided
      <4>2. frame.n \in Nat /\ f.n \in Nat
        BY <1>1, <1>9, <4>1, Facts DEF TypeOK, Frame
      <4> QED
        BY <4>1, <4>2
    <3>2. \E r \in Frame : r = frame
      BY <3>1
    <3>3. PICK r \in Frame : r = frame
      BY <3>2
    <3>4. r.report /\ r.n > f.n
      BY <2>1, <3>1, <3>3
    <3>5. InTheBuffer(r)' \/ InMailbox(r)'
      BY <1>9, <3>3
    <3> QED
      BY <3>4, <3>5 DEF Reported
  <2>2. CASE ~ frame.report
    BY <1>5, <1>9, <2>2
  <2> QED
    BY <2>1, <2>2
<1>10. CASE SentDirectly
  <2>1. /\ pc = "request" /\ RequestTransmission("drain")
        /\ rejected' = rejected /\ onTxOverflow' = onTxOverflow
        /\ adding.frame = frame
    BY <1>1, <1>10 DEF SentDirectly, RequestTransmission, historyVars, Undisturbed
  <2>2. ASSUME NEW r \in Frame, r = frame
        PROVE  InMailbox(r)'
    BY <1>1, <2>1, <2>2, RequestKeeps
  <2> QED
    BY <1>9, <2>1, <2>2
<1>11. CASE PushToBuffer
  <2>1. /\ pc = "push" /\ frame \in Frame /\ txBuffer' = Append(txBuffer, frame)
        /\ rejected' = rejected /\ onTxOverflow' = onTxOverflow
    BY <1>11 DEF PushToBuffer, GoTo, TypeInv, AtWork, historyVars
  <2>2. Len(txBuffer') \in Nat \ {0} /\ txBuffer'[Len(txBuffer')] = frame
    BY <1>1, <2>1, AppendProperties, LenProperties DEF TypeOK
  <2>3. ASSUME NEW r \in Frame, r = frame
        PROVE  InTheBuffer(r)'
    BY <2>2, <2>3 DEF InTheBuffer
  <2> QED
    BY <1>9, <2>1, <2>3
<1>12. CASE \/ FillData \/ EnableInterrupt \/ BeginRefill \/ TestRefill
            \/ SendFront \/ SentFront \/ PopFront \/ BufferIsGone \/ EndRefill
  BY <1>7, <1>12
  DEF FillData, EnableInterrupt, BeginRefill, TestRefill, SendFront, SentFront, PopFront,
      BufferIsGone, EndRefill, GoTo, PickMailbox, RequestTransmission, Undecided,
      historyVars
<1>13. CASE SendMessageReturns
  BY <1>5, <1>13 DEF SendMessageReturns, Undecided, historyVars
<1>14. CASE HardwareTransmits \/ HardwareFails \/ HAL_CAN_IRQHandler
  BY <1>7, <1>14
  DEF HardwareTransmits, HardwareFails, Transmit, TransmissionFails, HAL_CAN_IRQHandler,
      Undecided, programVars
<1>15. CASE UNCHANGED vars
  BY <1>7, <1>15 DEF vars, programVars, historyVars, Undecided
<1> QED
  BY <1>3, <1>4, <1>6, <1>8, <1>10, <1>11, <1>12, <1>13, <1>14, <1>15
  DEF Next, MainStep, TxInterrupt, RxInterrupt

LEMMA UndisturbedInvariant == Spec => [](TypeInv /\ Undisturbed)
<1>1. Init => Undisturbed
  BY DEF Init, Undisturbed
<1> QED
  BY <1>1, UndisturbedStep, TypeInvariant, PTL DEF Spec

(* A frame that canSendFrame has turned away is not forgotten: until the   *)
(* driver has taken a later report, the flag of                            *)
(* Stm32HalCanInterface.hpp:134 is set or sendMessage is bringing one,     *)
(* although a report may be turned away itself.                            *)
THEOREM OverflowIsRemembered == Spec => []OverflowRemembered
<1>1. Init => Numbered /\ Remembered
  BY DEF Init, Numbered, Remembered, Undecided
<1>2. TypeInv /\ Remembered => OverflowRemembered
  <2> SUFFICES ASSUME TypeInv, Remembered, ~ cutIn, NEW f \in rejected, Reported(f)
               PROVE  ReportedSince(f)
    BY DEF Remembered, OverflowRemembered
  <2>1. PICK r \in Frame :
          r.report /\ r.n > f.n /\ (InTheBuffer(r) \/ InMailbox(r) \/ Gone(r))
    BY DEF Reported
  <2>2. r \in TakenFrames
    BY <2>1, TakenFramesAre DEF TypeInv
  <2> QED
    BY <2>1, <2>2 DEF ReportedSince
<1> QED
  BY <1>1, <1>2, NumberedStep, RememberedStep, UndisturbedInvariant, PTL DEF Spec

-----------------------------------------------------------------------------
(* The places of a frame and how many frames are in them. *)
Occupied == Mailbox \ FreeMailboxes
Everywhere == InBuffer \cup InMailboxes \cup OnBus \cup Numbers(failed)
Count == Len(Waiting) + Cardinality(Occupied) + Len(bus) + Cardinality(failed)

OncePlaced == ~ cutIn => Everywhere = Accepted /\ Count = Cardinality(Accepted)

(* A set has at least as many elements as it has images. *)
LEMMA ImageBound ==
  ASSUME NEW S, IsFiniteSet(S), NEW f, f = [x \in S |-> f[x]]
  PROVE  /\ IsFiniteSet({f[x] : x \in S})
         /\ Cardinality({f[x] : x \in S}) <= Cardinality(S)
<1> DEFINE T == {f[x] : x \in S}
<1>1. f \in Surjection(S, T)
  BY DEF Surjection
<1> QED
  BY <1>1, FS_Surjection

LEMMA UpTo ==
  ASSUME NEW n \in Nat
  PROVE  IsFiniteSet(1 .. n) /\ Cardinality(1 .. n) = n
<1>1. 1 \in Int /\ n \in Int
  OBVIOUS
<1>2. Cardinality(1 .. n) = IF 1 > n THEN 0 ELSE n - 1 + 1
  BY <1>1, FS_Interval
<1>3. (IF 1 > n THEN 0 ELSE n - 1 + 1) = n
  OBVIOUS
<1> QED
  BY <1>1, <1>2, <1>3, FS_Interval

LEMMA WaitingFacts ==
  ASSUME TypeOK, Undisturbed, ~ cutIn
  PROVE  /\ Waiting \in Seq(Frame) /\ Len(Waiting) \in Nat
         /\ DOMAIN Waiting = 1 .. Len(Waiting)
         /\ InBuffer = {Waiting[i].n : i \in 1 .. Len(Waiting)}
<1>1. Waiting \in Seq(Frame)
  <2>1. CASE pc = "pop"
    BY <2>1, HeadTailProperties DEF Undisturbed, Waiting, TypeOK
  <2>2. CASE pc # "pop"
    BY <2>2 DEF Waiting, TypeOK
  <2> QED
    BY <2>1, <2>2
<1>2. Len(Waiting) \in Nat /\ DOMAIN Waiting = 1 .. Len(Waiting)
  BY <1>1, LenProperties
<1> QED
  BY <1>1, <1>2 DEF InBuffer, Numbers

LEMMA BusFacts ==
  ASSUME TypeOK
  PROVE  /\ Len(bus) \in Nat /\ DOMAIN bus = 1 .. Len(bus)
         /\ OnBus = {bus[i].n : i \in 1 .. Len(bus)}
<1>1. Len(bus) \in Nat /\ DOMAIN bus = 1 .. Len(bus)
  BY LenProperties DEF TypeOK
<1> QED
  BY <1>1 DEF OnBus, Numbers

LEMMA Finite ==
  ASSUME TypeOK
  PROVE  /\ IsFiniteSet(Mailbox) /\ IsFiniteSet(Occupied) /\ IsFiniteSet(failed)
         /\ IsFiniteSet(Accepted)
         /\ Cardinality(Occupied) \in Nat /\ Cardinality(failed) \in Nat
         /\ Cardinality(Accepted) \in Nat
<1>1. IsFiniteSet(Mailbox)
  BY Facts, FS_Interval DEF Mailbox
<1>2. IsFiniteSet(Occupied)
  BY <1>1, FS_Subset DEF Occupied
<1>3. IsFiniteSet(failed)
  <2>1. IsFiniteSet(1 .. MaxCalls) /\ IsFiniteSet(BOOLEAN)
    <3>1. IsFiniteSet({TRUE} \cup {FALSE})
      BY FS_Singleton, FS_Union
    <3>2. BOOLEAN = {TRUE} \cup {FALSE}
      OBVIOUS
    <3>3. IsFiniteSet(1 .. MaxCalls)
      BY Facts, FS_Interval
    <3> QED
      BY <3>1, <3>2, <3>3
  <2>2. IsFiniteSet((1 .. MaxCalls) \X BOOLEAN)
    BY <2>1, FS_Product
  <2> DEFINE of == [p \in (1 .. MaxCalls) \X BOOLEAN |-> [n |-> p[1], report |-> p[2]]]
  <2>3. ASSUME NEW f \in Frame
        PROVE  \E p \in (1 .. MaxCalls) \X BOOLEAN : of[p] = f
    <3>1. <<f.n, f.report>> \in (1 .. MaxCalls) \X BOOLEAN
      BY DEF Frame
    <3>2. of[<<f.n, f.report>>] = f
      BY <3>1 DEF Frame
    <3> QED
      BY <3>1, <3>2
  <2>4. of \in [(1 .. MaxCalls) \X BOOLEAN -> Frame]
    BY DEF Frame
  <2>5. of \in Surjection((1 .. MaxCalls) \X BOOLEAN, Frame)
    <3> HIDE DEF of
    <3> QED
      BY <2>3, <2>4 DEF Surjection
  <2>6. IsFiniteSet(Frame)
    <3> HIDE DEF of
    <3> QED
      BY <2>2, <2>5, FS_Surjection
  <2> QED
    BY <2>6, FS_Subset DEF TypeOK
<1>4. IsFiniteSet(Accepted)
  <2>1. calls \in Int
    BY Facts DEF TypeOK
  <2>2. IsFiniteSet(1 .. calls)
    BY <2>1, FS_Interval
  <2>3. Accepted \in SUBSET (1 .. calls)
    BY DEF Accepted
  <2> QED
    BY <2>2, <2>3, FS_Subset
<1> QED
  BY <1>1, <1>2, <1>3, <1>4, FS_CardinalityType

-----------------------------------------------------------------------------
(* A frame that fails is not among those that have failed before: if it    *)
(* were, the frames would be more than the numbers they have.              *)
LEMMA NumberCount ==
  ASSUME TypeInv, Undisturbed, ~ cutIn, NEW boxes \in SUBSET Occupied
  PROVE  LET numbers == InBuffer \cup {mailboxes[m].n : m \in boxes} \cup OnBus
                          \cup Numbers(failed)
         IN  /\ IsFiniteSet(numbers)
             /\ Cardinality(numbers)
                  <= Len(Waiting) + Cardinality(boxes) + Len(bus) + Cardinality(failed)
<1>0. TypeOK
  BY DEF TypeInv
<1>1. IsFiniteSet(InBuffer) /\ Cardinality(InBuffer) <= Len(Waiting)
  <2>1. Len(Waiting) \in Nat /\ InBuffer = {Waiting[i].n : i \in 1 .. Len(Waiting)}
    BY <1>0, WaitingFacts
  <2> DEFINE f == [i \in 1 .. Len(Waiting) |-> Waiting[i].n]
  <2>2. InBuffer = {f[i] : i \in 1 .. Len(Waiting)}
    BY <2>1
  <2>3. IsFiniteSet(1 .. Len(Waiting)) /\ Cardinality(1 .. Len(Waiting)) = Len(Waiting)
    BY <2>1, UpTo
  <2>4. f = [i \in 1 .. Len(Waiting) |-> f[i]]
    OBVIOUS
  <2> HIDE DEF f
  <2> QED
    BY <2>2, <2>3, <2>4, ImageBound
<1>2. IsFiniteSet(OnBus) /\ Cardinality(OnBus) <= Len(bus)
  <2>1. Len(bus) \in Nat /\ OnBus = {bus[i].n : i \in 1 .. Len(bus)}
    BY <1>0, BusFacts
  <2> DEFINE f == [i \in 1 .. Len(bus) |-> bus[i].n]
  <2>2. OnBus = {f[i] : i \in 1 .. Len(bus)}
    BY <2>1
  <2>3. IsFiniteSet(1 .. Len(bus)) /\ Cardinality(1 .. Len(bus)) = Len(bus)
    BY <2>1, UpTo
  <2>4. f = [i \in 1 .. Len(bus) |-> f[i]]
    OBVIOUS
  <2> HIDE DEF f
  <2> QED
    BY <2>2, <2>3, <2>4, ImageBound
<1> DEFINE inBoxes == {mailboxes[m].n : m \in boxes}
           inFailed == Numbers(failed)
<1>3. /\ IsFiniteSet(inBoxes) /\ Cardinality(inBoxes) <= Cardinality(boxes)
      /\ IsFiniteSet(boxes)
  <2>1. IsFiniteSet(boxes)
    BY <1>0, Finite, FS_Subset
  <2> DEFINE f == [m \in boxes |-> mailboxes[m].n]
  <2>2. inBoxes = {f[m] : m \in boxes} /\ f = [m \in boxes |-> f[m]]
    OBVIOUS
  <2> HIDE DEF f, inBoxes
  <2> QED
    BY <2>1, <2>2, ImageBound
<1>4. IsFiniteSet(inFailed) /\ Cardinality(inFailed) <= Cardinality(failed)
  <2> DEFINE f == [g \in failed |-> g.n]
  <2>1. inFailed = {f[g] : g \in failed} /\ f = [g \in failed |-> f[g]]
    BY DEF Numbers
  <2> HIDE DEF f, inFailed
  <2> QED
    BY <1>0, <2>1, Finite, ImageBound
<1> HIDE DEF inBoxes, inFailed
<1>5. ASSUME NEW S, NEW T, IsFiniteSet(S), IsFiniteSet(T),
             NEW a \in Nat, NEW b \in Nat, Cardinality(S) <= a, Cardinality(T) <= b
      PROVE  IsFiniteSet(S \cup T) /\ Cardinality(S \cup T) <= a + b
  <2>1. IsFiniteSet(S \cap T)
    BY <1>5, FS_Intersection
  <2>2. /\ Cardinality(S) \in Nat /\ Cardinality(T) \in Nat
        /\ Cardinality(S \cap T) \in Nat
    BY <1>5, <2>1, FS_CardinalityType
  <2>3. IsFiniteSet(S \cup T)
        /\ Cardinality(S \cup T) = Cardinality(S) + Cardinality(T) - Cardinality(S \cap T)
    BY <1>5, FS_Union
  <2> QED
    BY <1>5, <2>2, <2>3
<1>6. /\ Len(Waiting) \in Nat /\ Cardinality(boxes) \in Nat /\ Len(bus) \in Nat
      /\ Cardinality(failed) \in Nat
  BY <1>0, <1>3, WaitingFacts, BusFacts, Finite, FS_CardinalityType
<1>7. /\ IsFiniteSet(InBuffer \cup inBoxes)
      /\ Cardinality(InBuffer \cup inBoxes) <= Len(Waiting) + Cardinality(boxes)
  BY <1>1, <1>3, <1>5, <1>6
<1>8. /\ IsFiniteSet((InBuffer \cup inBoxes) \cup OnBus)
      /\ Cardinality((InBuffer \cup inBoxes) \cup OnBus)
           <= (Len(Waiting) + Cardinality(boxes)) + Len(bus)
  <2>1. Len(Waiting) + Cardinality(boxes) \in Nat
    BY <1>6
  <2> QED
    BY <1>2, <1>5, <1>6, <1>7, <2>1
<1>9. /\ IsFiniteSet(((InBuffer \cup inBoxes) \cup OnBus) \cup inFailed)
      /\ Cardinality(((InBuffer \cup inBoxes) \cup OnBus) \cup inFailed)
           <= ((Len(Waiting) + Cardinality(boxes)) + Len(bus)) + Cardinality(failed)
  <2>1. (Len(Waiting) + Cardinality(boxes)) + Len(bus) \in Nat
    BY <1>6
  <2> QED
    BY <1>4, <1>5, <1>6, <1>8, <2>1
<1> QED
  BY <1>9 DEF inBoxes, inFailed

LEMMA FailsAnew ==
  ASSUME TypeInv, Undisturbed, OncePlaced, ~ cutIn, NEW m \in Occupied
  PROVE  mailboxes[m] \notin failed
<1> SUFFICES ASSUME mailboxes[m] \in failed PROVE FALSE
  OBVIOUS
<1>0. TypeOK /\ Everywhere = Accepted /\ Count = Cardinality(Accepted)
  BY DEF TypeInv, OncePlaced
<1> DEFINE boxes == Occupied \ {m}
           numbers == InBuffer \cup {mailboxes[b].n : b \in boxes} \cup OnBus
                        \cup Numbers(failed)
<1>1. numbers = Everywhere
  <2>1. mailboxes[m].n \in Numbers(failed)
    BY DEF Numbers
  <2>2. InMailboxes = {mailboxes[b].n : b \in Occupied}
    BY DEF InMailboxes, Occupied
  <2>3. InMailboxes = {mailboxes[b].n : b \in boxes} \cup {mailboxes[m].n}
    BY <2>2
  <2> QED
    BY <2>1, <2>3 DEF Everywhere
<1>2. Cardinality(numbers)
        <= Len(Waiting) + Cardinality(boxes) + Len(bus) + Cardinality(failed)
  <2>1. boxes \in SUBSET Occupied
    OBVIOUS
  <2> HIDE DEF boxes
  <2> QED
    BY <2>1, NumberCount
<1>3. Cardinality(boxes) = Cardinality(Occupied) - 1
  BY <1>0, Finite, FS_RemoveElement
<1> HIDE DEF boxes, numbers
<1>4. /\ Len(Waiting) \in Nat /\ Len(bus) \in Nat /\ Cardinality(Occupied) \in Nat
      /\ Cardinality(failed) \in Nat
  BY <1>0, WaitingFacts, BusFacts, Finite
<1> QED
  BY <1>0, <1>1, <1>2, <1>3, <1>4 DEF Count

-----------------------------------------------------------------------------
(* How the steps change the places. *)

(* A frame comes into an empty mailbox. *)
LEMMA BoxFilled ==
  ASSUME TypeInv, Undisturbed, ~ cutIn, pc \in {"request", "request front"},
         NEW point, RequestTransmission(point)
  PROVE  /\ InMailboxes' = InMailboxes \cup {adding.frame.n}
         /\ Cardinality(Occupied') = Cardinality(Occupied) + 1
<1>0. TypeOK
  BY DEF TypeInv
<1>1. /\ adding.mailbox \in Mailbox /\ mailboxes[adding.mailbox] = NoFrame
      /\ adding.frame \in Frame
      /\ mailboxes' = [mailboxes EXCEPT ![adding.mailbox] = adding.frame]
  BY DEF TypeInv, AtWork, Undisturbed, RequestTransmission
<1>2. /\ mailboxes'[adding.mailbox] = adding.frame
      /\ \A b \in Mailbox : b # adding.mailbox => mailboxes'[b] = mailboxes[b]
  BY <1>0, <1>1 DEF TypeOK
<1>3. adding.frame # NoFrame
  BY <1>1, Facts
<1>4. Occupied' = Occupied \cup {adding.mailbox} /\ adding.mailbox \notin Occupied
  BY <1>1, <1>2, <1>3 DEF Occupied, FreeMailboxes
<1>5. InMailboxes = {mailboxes[b].n : b \in Occupied}
      /\ InMailboxes' = {mailboxes'[b].n : b \in Occupied'}
  BY DEF InMailboxes, Occupied
<1>6. {mailboxes'[b].n : b \in Occupied'}
        = {mailboxes[b].n : b \in Occupied} \cup {adding.frame.n}
  <2>1. \A b \in Occupied : b \in Mailbox /\ b # adding.mailbox
    BY <1>4 DEF Occupied
  <2>2. \A b \in Occupied : mailboxes'[b] = mailboxes[b]
    BY <1>2, <2>1
  <2> QED
    BY <1>2, <1>4, <2>2
<1>7. Cardinality(Occupied') = Cardinality(Occupied) + 1
  BY <1>0, <1>4, Finite, FS_AddElement
<1> QED
  BY <1>5, <1>6, <1>7

(* A mailbox is emptied. *)
LEMMA BoxEmptied ==
  ASSUME TypeOK, NEW m \in Mailbox, mailboxes[m] # NoFrame,
         mailboxes' = [mailboxes EXCEPT ![m] = NoFrame]
  PROVE  /\ InMailboxes = InMailboxes' \cup {mailboxes[m].n}
         /\ m \in Occupied
         /\ Cardinality(Occupied') = Cardinality(Occupied) - 1
<1>1. /\ mailboxes'[m] = NoFrame
      /\ \A b \in Mailbox : b # m => mailboxes'[b] = mailboxes[b]
  BY DEF TypeOK
<1>2. m \in Occupied /\ Occupied' = Occupied \ {m}
  BY <1>1 DEF Occupied, FreeMailboxes
<1>3. InMailboxes = {mailboxes[b].n : b \in Occupied}
      /\ InMailboxes' = {mailboxes'[b].n : b \in Occupied'}
  BY DEF InMailboxes, Occupied
<1>4. {mailboxes[b].n : b \in Occupied}
        = {mailboxes'[b].n : b \in Occupied'} \cup {mailboxes[m].n}
  <2>1. \A b \in Occupied' : b \in Mailbox /\ b # m
    BY <1>2 DEF Occupied
  <2>2. \A b \in Occupied' : mailboxes'[b] = mailboxes[b]
    BY <1>1, <2>1
  <2> QED
    BY <1>2, <2>2
<1>5. Cardinality(Occupied') = Cardinality(Occupied) - 1
  BY <1>2, Finite, FS_RemoveElement
<1> QED
  BY <1>2, <1>3, <1>4, <1>5

(* What the driver has taken depends on the calls and the rejections. *)
LEMMA AcceptedKept ==
  ASSUME TypeInv, Numbered, [Next]_vars
  PROVE  \/ Accepted' = Accepted
         \/ /\ SentDirectly \/ PushToBuffer
            /\ frame.n \notin Accepted /\ Accepted' = Accepted \cup {frame.n}
<1>1. calls \in Nat /\ \A f \in rejected : f.n \in Nat /\ f.n <= calls
  BY Facts DEF TypeInv, TypeOK, Frame, Numbered
<1>2. CASE SendMessage \/ ReportOverflow
  <2>1. /\ calls' = calls + 1 /\ frame'.n = calls + 1 /\ rejected' = rejected
        /\ ~ Undecided /\ Undecided'
    BY <1>2 DEF SendMessage, ReportOverflow, CallCanSendFrame, historyVars, Undecided
  <2>2. Accepted = (1 .. calls) \ {f.n : f \in rejected}
    BY <2>1 DEF Accepted
  <2>3. Accepted' = (1 .. (calls + 1)) \ ({f.n : f \in rejected} \cup {calls + 1})
    BY <2>1 DEF Accepted
  <2>4. Accepted' = Accepted
    BY <1>1, <2>2, <2>3
  <2> QED
    BY <2>4
<1>3. CASE Overflow
  <2>1. /\ Undecided /\ ~ Undecided' /\ calls' = calls
        /\ rejected' = rejected \cup {frame}
    BY <1>3 DEF Overflow, Undecided
  <2>2. Accepted = (1 .. calls) \ ({f.n : f \in rejected} \cup {frame.n})
    BY <2>1 DEF Accepted
  <2>3. Accepted' = (1 .. calls) \ {f.n : f \in rejected \cup {frame}}
    BY <2>1 DEF Accepted
  <2>4. {f.n : f \in rejected \cup {frame}} = {f.n : f \in rejected} \cup {frame.n}
    OBVIOUS
  <2> QED
    BY <2>2, <2>3, <2>4
<1>4. CASE SentDirectly \/ PushToBuffer
  <2>1. /\ Undecided /\ ~ Undecided' /\ calls' = calls /\ rejected' = rejected
        /\ frame' = frame
    BY <1>4 DEF SentDirectly, PushToBuffer, RequestTransmission, GoTo, Undecided, historyVars
  <2>2. /\ frame.n = calls /\ frame \in Frame
        /\ \A f \in rejected : f.n < calls
    BY <1>4, <2>1 DEF Numbered, TypeInv, AtWork, SentDirectly, PushToBuffer
  <2>3. frame.n \in 1 .. calls /\ frame.n \notin {f.n : f \in rejected}
    <3>1. frame.n \in 1 .. MaxCalls
      BY <2>2 DEF Frame
    <3> QED
      BY <1>1, <2>2, <3>1, Facts
  <2>4. Accepted = (1 .. calls) \ ({f.n : f \in rejected} \cup {frame.n})
    BY <2>1 DEF Accepted
  <2>5. Accepted' = (1 .. calls) \ {f.n : f \in rejected}
    BY <2>1 DEF Accepted
  <2> QED
    BY <1>4, <2>3, <2>4, <2>5
<1>5. CASE UNCHANGED <<calls, frame, rejected>> /\ (Undecided' <=> Undecided)
  BY <1>5 DEF Accepted
<1>6. CASE SendDirectly \/ QueueIsFull \/ DisableInterrupt
  BY <1>5, <1>6
  DEF SendDirectly, QueueIsFull, DisableInterrupt, GoTo, PickMailbox, Undecided,
      historyVars
<1>7. CASE \/ FillData \/ EnableInterrupt \/ BeginRefill \/ TestRefill
           \/ SendFront \/ SentFront \/ PopFront \/ BufferIsGone \/ EndRefill
  BY <1>5, <1>7
  DEF FillData, EnableInterrupt, BeginRefill, TestRefill, SendFront, SentFront, PopFront,
      BufferIsGone, EndRefill, GoTo, PickMailbox, RequestTransmission, Undecided,
      historyVars
<1>8. CASE SendMessageReturns
  BY <1>8 DEF SendMessageReturns, Undecided, Accepted, historyVars
<1>9. CASE HardwareTransmits \/ HardwareFails \/ HAL_CAN_IRQHandler
  BY <1>5, <1>9
  DEF HardwareTransmits, HardwareFails, Transmit, TransmissionFails, HAL_CAN_IRQHandler,
      Undecided, programVars
<1>10. CASE UNCHANGED vars
  BY <1>5, <1>10 DEF vars, programVars, historyVars, Undecided
<1> QED
  BY <1>2, <1>3, <1>4, <1>6, <1>7, <1>8, <1>9, <1>10
  DEF Next, MainStep, TxInterrupt, RxInterrupt

(* The handler at work on the first frames of the buffer. *)
LEMMA HandlerMoves ==
  ASSUME TypeInv, Undisturbed, HAL_CAN_IRQHandler, ~ cutIn'
  PROVE  Everywhere' = Everywhere /\ Count' = Count
<1>0. /\ TypeOK /\ ~ cutIn
      /\ UNCHANGED <<pc, bus, failed>>
  BY DEF TypeInv, HAL_CAN_IRQHandler, programVars
<1>1. OnBus' = OnBus /\ Numbers(failed)' = Numbers(failed)
  BY <1>0 DEF OnBus, Numbers
<1>2. CASE pc \in CriticalPoint
  <2>1. txBuffer' = txBuffer /\ mailboxes' = mailboxes
    BY <1>0, <1>2, HandlerCutsNotIn
  <2> QED
    BY <1>0, <2>1
    DEF Everywhere, Count, InBuffer, InMailboxes, OnBus, Numbers, Waiting, Occupied,
        FreeMailboxes
<1>3. CASE pc \notin CriticalPoint
  <2> DEFINE k == NextFrames
  <2>0. /\ k \in Nat /\ k <= Len(txBuffer)
        /\ Len(txBuffer) \in Nat /\ DOMAIN txBuffer = 1 .. Len(txBuffer)
        /\ \A i \in 1 .. Len(txBuffer) : txBuffer[i] \in Frame
        /\ txBuffer' \in Seq(Frame)
        /\ Len(txBuffer') = Len(txBuffer) - k
        /\ \A i \in 1 .. (Len(txBuffer) - k) : txBuffer'[i] = txBuffer[k + i]
    BY <1>0, NextFramesBounds DEF HAL_CAN_IRQHandler
  <2>1. PICK into \in [1 .. k -> FreeMailboxes] :
          /\ \A i, j \in 1 .. k : into[i] = into[j] => i = j
          /\ mailboxes' = [m \in Mailbox |->
               IF \E i \in 1 .. k : into[i] = m
                 THEN txBuffer[CHOOSE i \in 1 .. k : into[i] = m]
                 ELSE mailboxes[m]]
    BY DEF HAL_CAN_IRQHandler
  <2> HIDE DEF k
  <2>2. Waiting = txBuffer /\ Waiting' = txBuffer'
    BY <1>0, <1>3 DEF Waiting, CriticalPoint
  <2>3. InBuffer = {txBuffer[i].n : i \in 1 .. Len(txBuffer)}
    BY <2>0, <2>2 DEF InBuffer, Numbers
  <2>4. InBuffer' = {txBuffer'[i].n : i \in 1 .. Len(txBuffer')}
    <3>1. DOMAIN txBuffer' = 1 .. Len(txBuffer')
      BY <2>0, LenProperties
    <3> QED
      BY <2>2, <3>1 DEF InBuffer, Numbers
  <2> DEFINE filled == {into[i] : i \in 1 .. k}
  <2>5. ASSUME NEW i \in 1 .. k
        PROVE  into[i] \in Mailbox /\ mailboxes'[into[i]] = txBuffer[i]
               /\ txBuffer[i] # NoFrame
    <3>1. into[i] \in Mailbox
      BY <2>1 DEF FreeMailboxes
    <3>2. (CHOOSE j \in 1 .. k : into[j] = into[i]) = i
      BY <2>1
    <3>3. i \in 1 .. Len(txBuffer)
      BY <2>0
    <3> QED
      BY <2>0, <2>1, <3>1, <3>2, <3>3, Facts
  <2>6. ASSUME NEW m \in Mailbox, m \notin filled
        PROVE  mailboxes'[m] = mailboxes[m]
    BY <2>1, <2>6
  <2>7. Occupied' = Occupied \cup filled /\ Occupied \cap filled = {}
    <3>1. filled \subseteq FreeMailboxes
      BY <2>1
    <3>2. ASSUME NEW m \in Mailbox
          PROVE  m \in Occupied' <=> m \in Occupied \cup filled
      BY <2>5, <2>6 DEF Occupied, FreeMailboxes
    <3>3. Occupied \subseteq Mailbox /\ Occupied' \subseteq Mailbox /\ filled \subseteq Mailbox
      BY <3>1 DEF Occupied, FreeMailboxes
    <3> QED
      BY <3>1, <3>2, <3>3 DEF Occupied
  <2>8. Cardinality(filled) = k /\ IsFiniteSet(filled)
    <3>1. into \in Bijection(1 .. k, filled)
      <4>1. into \in [1 .. k -> filled]
        BY <2>1
      <4>2. into \in Surjection(1 .. k, filled)
        BY <4>1 DEF Surjection
      <4>3. into \in Injection(1 .. k, filled)
        BY <2>1, <4>1 DEF Injection, IsInjective
      <4> QED
        BY <4>2, <4>3 DEF Bijection
    <3>2. ExistsBijection(1 .. k, filled)
      BY <3>1 DEF ExistsBijection
    <3>3. IsFiniteSet(1 .. k) /\ Cardinality(1 .. k) = k
      BY <2>0, UpTo
    <3> HIDE DEF filled
    <3> QED
      BY <3>2, <3>3, FS_Bijection
  <2>9. InMailboxes = {mailboxes[m].n : m \in Occupied}
        /\ InMailboxes' = {mailboxes'[m].n : m \in Occupied'}
    BY DEF InMailboxes, Occupied
  <2>10. InMailboxes' = InMailboxes \cup {txBuffer[i].n : i \in 1 .. k}
    <3>1. \A m \in Occupied : mailboxes'[m] = mailboxes[m]
      BY <2>6, <2>7 DEF Occupied
    <3>2. {mailboxes'[m].n : m \in Occupied'}
            = {mailboxes'[m].n : m \in Occupied} \cup {mailboxes'[m].n : m \in filled}
      BY <2>7
    <3>3. {mailboxes'[m].n : m \in filled} = {txBuffer[i].n : i \in 1 .. k}
      BY <2>5
    <3>4. {mailboxes'[m].n : m \in Occupied} = {mailboxes[m].n : m \in Occupied}
      BY <3>1
    <3> QED
      BY <2>9, <3>2, <3>3, <3>4
  <2> HIDE DEF filled
  <2>11. InBuffer = {txBuffer[i].n : i \in 1 .. k} \cup InBuffer'
    <3>1. ASSUME NEW i \in 1 .. Len(txBuffer), i \notin 1 .. k
          PROVE  txBuffer[i].n \in InBuffer'
      <4>1. i - k \in 1 .. (Len(txBuffer) - k) /\ k + (i - k) = i
        BY <2>0, <3>1
      <4>2. txBuffer'[i - k] = txBuffer[i] /\ i - k \in 1 .. Len(txBuffer')
        BY <2>0, <4>1
      <4> QED
        BY <2>4, <4>2
    <3>2. ASSUME NEW i \in 1 .. Len(txBuffer')
          PROVE  txBuffer'[i].n \in InBuffer
      <4>1. i \in 1 .. (Len(txBuffer) - k) /\ k + i \in 1 .. Len(txBuffer)
        BY <2>0
      <4> QED
        BY <2>0, <2>3, <4>1
    <3>3. \A i \in 1 .. k : i \in 1 .. Len(txBuffer)
      BY <2>0
    <3>4. InBuffer' \subseteq InBuffer
      BY <2>4, <3>2
    <3>5. {txBuffer[i].n : i \in 1 .. k} \subseteq InBuffer
      BY <2>3, <3>3
    <3>6. InBuffer \subseteq {txBuffer[i].n : i \in 1 .. k} \cup InBuffer'
      BY <2>3, <3>1
    <3> QED
      BY <3>4, <3>5, <3>6
  <2>12. Everywhere' = Everywhere
    BY <1>1, <2>10, <2>11 DEF Everywhere
  <2>13. Cardinality(Occupied') = Cardinality(Occupied) + k
    <3>1. Cardinality(Occupied \cap filled) = 0
      BY <2>7, FS_EmptySet
    <3>2. IsFiniteSet(Occupied) /\ Cardinality(Occupied) \in Nat
      BY <1>0, Finite
    <3>3. Cardinality(Occupied \cup filled)
            = Cardinality(Occupied) + Cardinality(filled) - Cardinality(Occupied \cap filled)
      BY <2>8, <3>2, FS_Union
    <3> QED
      BY <2>0, <2>7, <2>8, <3>1, <3>2, <3>3
  <2>14. Len(Waiting') = Len(Waiting) - k /\ Len(Waiting) \in Nat
    BY <2>0, <2>2
  <2>15. Count' = Count
    <3>1. /\ Len(bus) \in Nat /\ Cardinality(failed) \in Nat
          /\ Cardinality(Occupied) \in Nat
      BY <1>0, BusFacts, Finite
    <3> QED
      BY <1>0, <2>0, <2>13, <2>14, <3>1 DEF Count
  <2> QED
    BY <2>12, <2>15
<1> QED
  BY <1>2, <1>3

(* The other steps: the places and their count grow by what is accepted.   *)
LEMMA PlacesKept ==
  ASSUME Quiet, Waiting' = Waiting
  PROVE  Everywhere' = Everywhere /\ Count' = Count
BY DEF Quiet, Everywhere, Count, InBuffer, InMailboxes, OnBus, Numbers, Occupied,
       FreeMailboxes

LEMMA OnceStep ==
  ASSUME TypeInv, Undisturbed, Numbered, OncePlaced, [Next]_vars
  PROVE  OncePlaced'
<1> SUFFICES ASSUME ~ cutIn'
             PROVE  (Everywhere = Accepted)' /\ (Count = Cardinality(Accepted))'
  BY DEF OncePlaced
<1>0. /\ TypeOK /\ ~ cutIn
      /\ Everywhere = Accepted /\ Count = Cardinality(Accepted)
  BY CutInStays DEF TypeInv, OncePlaced
<1>1. /\ Len(Waiting) \in Nat /\ Len(bus) \in Nat
      /\ Cardinality(Occupied) \in Nat /\ Cardinality(failed) \in Nat
      /\ txBuffer \in Seq(Frame) /\ Len(txBuffer) \in Nat
  BY <1>0, WaitingFacts, BusFacts, Finite, LenProperties DEF TypeOK
<1>2. ASSUME Everywhere' = Everywhere, Count' = Count, ~ SentDirectly, ~ PushToBuffer
      PROVE  (Everywhere = Accepted)' /\ (Count = Cardinality(Accepted))'
  BY <1>0, <1>2, AcceptedKept
<1>3. ASSUME SentDirectly \/ PushToBuffer, frame.n \notin Accepted,
             Everywhere' = Everywhere \cup {frame.n}, Count' = Count + 1
      PROVE  (Everywhere = Accepted)' /\ (Count = Cardinality(Accepted))'
  <2>1. Accepted' = Accepted \cup {frame.n}
    <3>1. Accepted' # Accepted
      <4>1. ASSUME Accepted' = Accepted PROVE FALSE
        <5>1. /\ Undecided /\ ~ Undecided' /\ calls' = calls /\ rejected' = rejected
          BY <1>3 DEF SentDirectly, PushToBuffer, RequestTransmission, GoTo, Undecided,
                      historyVars
        <5>2. /\ frame.n = calls /\ frame \in Frame /\ \A f \in rejected : f.n < calls
          BY <1>3, <5>1 DEF Numbered, TypeInv, AtWork, SentDirectly, PushToBuffer
        <5>3. frame.n \in 1 .. calls /\ frame.n \notin {f.n : f \in rejected}
          <6>1. frame.n \in 1 .. MaxCalls /\ \A f \in rejected : f.n \in Nat
            BY <1>0, <5>2 DEF Frame, TypeOK
          <6> QED
            BY <5>2, <6>1, Facts
        <5>4. Accepted' = (1 .. calls) \ {f.n : f \in rejected}
          BY <5>1 DEF Accepted
        <5> QED
          BY <1>3, <4>1, <5>3, <5>4
      <4> QED
        BY <4>1
    <3> QED
      BY <3>1, AcceptedKept
  <2>2. Cardinality(Accepted') = Cardinality(Accepted) + 1
    BY <1>0, <1>3, <2>1, Finite, FS_AddElement
  <2> QED
    BY <1>0, <1>3, <2>1, <2>2
<1>4. ASSUME SentDirectly \/ PushToBuffer
      PROVE  frame.n \notin Accepted
  BY <1>4 DEF Accepted, Undecided, SentDirectly, PushToBuffer
<1>5. CASE SentDirectly
  <2>1. /\ pc = "request" /\ pc' = "drain" /\ RequestTransmission("drain")
        /\ adding.frame = frame
        /\ UNCHANGED <<txBuffer, bus, failed>>
    BY <1>0, <1>5 DEF SentDirectly, RequestTransmission, Undisturbed, historyVars
  <2>2. /\ InMailboxes' = InMailboxes \cup {frame.n}
        /\ Cardinality(Occupied') = Cardinality(Occupied) + 1
    BY <1>0, <2>1, BoxFilled
  <2>3. Waiting' = Waiting
    BY <2>1 DEF Waiting
  <2>4. InBuffer' = InBuffer /\ OnBus' = OnBus /\ Numbers(failed)' = Numbers(failed)
    BY <2>1, <2>3 DEF InBuffer, OnBus, Numbers
  <2>5. Everywhere' = Everywhere \cup {frame.n}
    BY <2>2, <2>4 DEF Everywhere
  <2>6. Count' = Count + 1
    BY <1>1, <2>1, <2>2, <2>3 DEF Count
  <2> QED
    BY <1>3, <1>4, <1>5, <2>5, <2>6
<1>6. CASE PushToBuffer
  <2>1. /\ pc = "push" /\ pc' = "fill" /\ frame \in Frame
        /\ txBuffer' = Append(txBuffer, frame)
        /\ UNCHANGED <<mailboxes, bus, failed>>
    BY <1>6 DEF PushToBuffer, GoTo, TypeInv, AtWork, historyVars
  <2>2. Waiting = txBuffer /\ Waiting' = txBuffer'
    BY <2>1 DEF Waiting
  <2>3. /\ txBuffer' \in Seq(Frame) /\ Len(txBuffer') = Len(txBuffer) + 1
        /\ \A i \in 1 .. Len(txBuffer) : txBuffer'[i] = txBuffer[i]
        /\ txBuffer'[Len(txBuffer) + 1] = frame
    BY <1>1, <2>1, AppendProperties
  <2>4. DOMAIN txBuffer' = 1 .. (Len(txBuffer) + 1) /\ DOMAIN txBuffer = 1 .. Len(txBuffer)
    BY <1>1, <2>3, LenProperties
  <2>5. InBuffer' = {txBuffer'[i].n : i \in 1 .. (Len(txBuffer) + 1)}
        /\ InBuffer = {txBuffer[i].n : i \in 1 .. Len(txBuffer)}
    BY <2>2, <2>4 DEF InBuffer, Numbers
  <2>6. InBuffer' = InBuffer \cup {frame.n}
    <3>1. 1 .. (Len(txBuffer) + 1) = (1 .. Len(txBuffer)) \cup {Len(txBuffer) + 1}
      BY <1>1
    <3> QED
      BY <2>3, <2>5, <3>1
  <2>7. /\ InMailboxes' = InMailboxes /\ Occupied' = Occupied
        /\ OnBus' = OnBus /\ Numbers(failed)' = Numbers(failed)
    BY <2>1 DEF InMailboxes, Occupied, FreeMailboxes, OnBus, Numbers
  <2>8. Everywhere' = Everywhere \cup {frame.n}
    BY <2>6, <2>7 DEF Everywhere
  <2>9. Count' = Count + 1
    BY <1>1, <2>1, <2>2, <2>3, <2>7 DEF Count
  <2> QED
    BY <1>3, <1>4, <1>6, <2>8, <2>9
<1>7. CASE SentFront
  <2>1. /\ pc = "request front" /\ pc' = "pop" /\ RequestTransmission("pop")
        /\ txBuffer # << >> /\ adding.frame = Head(txBuffer)
        /\ UNCHANGED <<txBuffer, bus, failed>>
    BY <1>0, <1>7 DEF SentFront, RequestTransmission, Undisturbed, historyVars
  <2>2. /\ InMailboxes' = InMailboxes \cup {Head(txBuffer).n}
        /\ Cardinality(Occupied') = Cardinality(Occupied) + 1
    BY <1>0, <2>1, BoxFilled
  <2>3. Waiting = txBuffer /\ Waiting' = Tail(txBuffer)
    BY <2>1 DEF Waiting
  <2>4. /\ Tail(txBuffer) \in Seq(Frame) /\ Len(Tail(txBuffer)) = Len(txBuffer) - 1
        /\ txBuffer[1] = Head(txBuffer)
        /\ \A i \in 1 .. Len(Tail(txBuffer)) : Tail(txBuffer)[i] = txBuffer[i + 1]
        /\ Len(txBuffer) \in Nat \ {0}
    <3>1. txBuffer \in Seq(Frame) /\ txBuffer # << >>
      BY <1>1, <2>1
    <3>2. /\ Tail(txBuffer) \in Seq(Frame) /\ Len(Tail(txBuffer)) = Len(txBuffer) - 1
          /\ \A i \in 1 .. Len(Tail(txBuffer)) : Tail(txBuffer)[i] = txBuffer[i + 1]
      BY <3>1, HeadTailProperties
    <3>3. Len(txBuffer) \in Nat \ {0}
      BY <1>1, <3>1, EmptySeq
    <3>4. txBuffer[1] = Head(txBuffer)
      BY <3>1
    <3> QED
      BY <3>2, <3>3, <3>4
  <2>5. /\ DOMAIN txBuffer = 1 .. Len(txBuffer)
        /\ DOMAIN Tail(txBuffer) = 1 .. (Len(txBuffer) - 1)
    BY <1>1, <2>4, LenProperties
  <2>6. InBuffer = {txBuffer[i].n : i \in 1 .. Len(txBuffer)}
        /\ InBuffer' = {Tail(txBuffer)[i].n : i \in 1 .. (Len(txBuffer) - 1)}
    BY <2>3, <2>5 DEF InBuffer, Numbers
  <2>7. InBuffer = InBuffer' \cup {Head(txBuffer).n}
    <3>1. ASSUME NEW i \in 1 .. Len(txBuffer), i # 1
          PROVE  txBuffer[i].n \in InBuffer'
      <4>1. i - 1 \in 1 .. (Len(txBuffer) - 1) /\ (i - 1) + 1 = i
        BY <2>4, <3>1
      <4>2. Tail(txBuffer)[i - 1] = txBuffer[i]
        BY <2>4, <4>1
      <4> QED
        BY <2>6, <4>1, <4>2
    <3>2. ASSUME NEW i \in 1 .. (Len(txBuffer) - 1)
          PROVE  Tail(txBuffer)[i].n \in InBuffer
      <4>1. i + 1 \in 1 .. Len(txBuffer) /\ i \in 1 .. Len(Tail(txBuffer))
        BY <2>4
      <4> QED
        BY <2>4, <2>6, <4>1
    <3>3. 1 \in 1 .. Len(txBuffer)
      BY <2>4
    <3>4. InBuffer' \subseteq InBuffer
      BY <2>6, <3>2
    <3>5. Head(txBuffer).n \in InBuffer
      BY <2>4, <2>6, <3>3
    <3>6. InBuffer \subseteq InBuffer' \cup {Head(txBuffer).n}
      BY <2>4, <2>6, <3>1
    <3> QED
      BY <3>4, <3>5, <3>6
  <2>8. OnBus' = OnBus /\ Numbers(failed)' = Numbers(failed)
    BY <2>1 DEF OnBus, Numbers
  <2>9. Everywhere' = Everywhere
    BY <2>2, <2>7, <2>8 DEF Everywhere
  <2>10. Count' = Count
    <3>1. Len(Waiting') = Len(Waiting) - 1 /\ Len(Waiting) \in Nat
      BY <2>3, <2>4
    <3>2. Len(bus') = Len(bus) /\ Cardinality(failed') = Cardinality(failed)
      BY <2>1
    <3> QED
      BY <1>1, <2>2, <3>1, <3>2 DEF Count
  <2>11. ~ SentDirectly /\ ~ PushToBuffer
    BY <2>1 DEF SentDirectly, PushToBuffer
  <2> QED
    BY <1>2, <2>9, <2>10, <2>11
<1>8. CASE PopFront
  <2>1. /\ pc = "pop" /\ pc' = "refill" /\ txBuffer' = Tail(txBuffer)
        /\ UNCHANGED <<mailboxes, bus, failed>>
    BY <1>8 DEF PopFront, GoTo, historyVars
  <2>2. Waiting' = Waiting
    BY <2>1 DEF Waiting
  <2>3. Everywhere' = Everywhere /\ Count' = Count
    BY <2>1, <2>2
    DEF Everywhere, Count, InBuffer, InMailboxes, OnBus, Numbers, Occupied, FreeMailboxes
  <2>4. ~ SentDirectly /\ ~ PushToBuffer
    BY <2>1 DEF SentDirectly, PushToBuffer
  <2> QED
    BY <1>2, <2>3, <2>4
<1>9. CASE HardwareTransmits
  <2>1. PICK m \in Mailbox : Transmit(m)
    BY <1>9 DEF HardwareTransmits
  <2>2. /\ mailboxes[m] # NoFrame /\ mailboxes[m] \in Frame
        /\ mailboxes' = [mailboxes EXCEPT ![m] = NoFrame]
        /\ bus' = Append(bus, mailboxes[m])
        /\ UNCHANGED <<txBuffer, failed, pc>>
    BY <1>0, <2>1 DEF Transmit, TypeOK, programVars
  <2>3. /\ InMailboxes = InMailboxes' \cup {mailboxes[m].n}
        /\ Cardinality(Occupied') = Cardinality(Occupied) - 1
    BY <1>0, <2>2, BoxEmptied
  <2>4. /\ bus' \in Seq(Frame) /\ Len(bus') = Len(bus) + 1
        /\ \A i \in 1 .. Len(bus) : bus'[i] = bus[i]
        /\ bus'[Len(bus) + 1] = mailboxes[m]
    BY <1>0, <2>2, AppendProperties DEF TypeOK
  <2>5. OnBus = {bus[i].n : i \in 1 .. Len(bus)}
        /\ OnBus' = {bus'[i].n : i \in 1 .. (Len(bus) + 1)}
    <3>1. DOMAIN bus' = 1 .. (Len(bus) + 1)
      BY <2>4, LenProperties
    <3> QED
      BY <1>0, <3>1, BusFacts DEF OnBus, Numbers
  <2>6. OnBus' = OnBus \cup {mailboxes[m].n}
    <3>1. 1 .. (Len(bus) + 1) = (1 .. Len(bus)) \cup {Len(bus) + 1}
      BY <1>1
    <3> QED
      BY <2>4, <2>5, <3>1
  <2>7. Waiting' = Waiting
    BY <2>2 DEF Waiting
  <2>8. InBuffer' = InBuffer /\ Numbers(failed)' = Numbers(failed)
    BY <2>2, <2>7 DEF InBuffer, Numbers
  <2>9. Everywhere' = Everywhere
    BY <2>3, <2>6, <2>8 DEF Everywhere
  <2>10. Count' = Count
    <3>1. Len(Waiting') = Len(Waiting) /\ Cardinality(failed') = Cardinality(failed)
      BY <2>2, <2>7
    <3>2. Len(bus') = Len(bus) + 1 /\ Cardinality(Occupied') = Cardinality(Occupied) - 1
      BY <2>3, <2>4
    <3>3. /\ Len(Waiting) \in Nat /\ Len(bus) \in Nat
          /\ Cardinality(Occupied) \in Nat /\ Cardinality(failed) \in Nat
      BY <1>1
    <3> QED
      BY <3>1, <3>2, <3>3 DEF Count
  <2>11. ~ SentDirectly /\ ~ PushToBuffer
    BY <2>2 DEF SentDirectly, PushToBuffer, GoTo, RequestTransmission
  <2> QED
    BY <1>2, <2>9, <2>10, <2>11
<1>10. CASE HardwareFails
  <2>1. PICK m \in Mailbox : TransmissionFails(m)
    BY <1>10 DEF HardwareFails
  <2>2. /\ mailboxes[m] # NoFrame
        /\ mailboxes' = [mailboxes EXCEPT ![m] = NoFrame]
        /\ failed' = failed \cup {mailboxes[m]}
        /\ UNCHANGED <<txBuffer, bus, pc>>
    BY <2>1 DEF TransmissionFails, programVars
  <2>3. /\ InMailboxes = InMailboxes' \cup {mailboxes[m].n} /\ m \in Occupied
        /\ Cardinality(Occupied') = Cardinality(Occupied) - 1
    BY <1>0, <2>2, BoxEmptied
  <2>4. mailboxes[m] \notin failed
    BY <1>0, <2>3, FailsAnew
  <2>5. Cardinality(failed') = Cardinality(failed) + 1
    BY <1>0, <2>2, <2>4, Finite, FS_AddElement
  <2>6. Numbers(failed)' = Numbers(failed) \cup {mailboxes[m].n}
    BY <2>2 DEF Numbers
  <2>7. Waiting' = Waiting
    BY <2>2 DEF Waiting
  <2>8. InBuffer' = InBuffer /\ OnBus' = OnBus
    BY <2>2, <2>7 DEF InBuffer, OnBus, Numbers
  <2>9. Everywhere' = Everywhere
    BY <2>3, <2>6, <2>8 DEF Everywhere
  <2>10. Count' = Count
    BY <1>1, <2>2, <2>3, <2>5, <2>7 DEF Count
  <2>11. ~ SentDirectly /\ ~ PushToBuffer
    BY <2>2 DEF SentDirectly, PushToBuffer, GoTo, RequestTransmission
  <2> QED
    BY <1>2, <2>9, <2>10, <2>11
<1>11. CASE HAL_CAN_IRQHandler
  <2>1. ~ SentDirectly /\ ~ PushToBuffer
    BY <1>11 DEF HAL_CAN_IRQHandler, SentDirectly, PushToBuffer, GoTo,
                 RequestTransmission, programVars
  <2> QED
    BY <1>2, <1>11, <2>1, HandlerMoves
<1>12. CASE \/ SendMessage \/ SendDirectly \/ QueueIsFull \/ DisableInterrupt \/ FillData
            \/ Overflow \/ EnableInterrupt \/ BeginRefill \/ TestRefill \/ SendFront
            \/ BufferIsGone \/ EndRefill \/ ReportOverflow \/ SendMessageReturns
  <2>1. pc # "pop" /\ pc' # "pop"
    BY <1>0, <1>12
    DEF SendMessage, SendDirectly, QueueIsFull, DisableInterrupt, FillData, Overflow,
        EnableInterrupt, BeginRefill, TestRefill, SendFront, BufferIsGone, EndRefill,
        ReportOverflow, SendMessageReturns, CallCanSendFrame, PickMailbox, GoTo,
        Undisturbed
  <2>2. Quiet
    BY <1>12, QuietSteps
  <2>3. Waiting' = Waiting
    BY <2>1, <2>2 DEF Quiet, Waiting
  <2>4. ~ SentDirectly /\ ~ PushToBuffer
    BY <1>12
    DEF SendMessage, SendDirectly, QueueIsFull, DisableInterrupt, FillData, Overflow,
        EnableInterrupt, BeginRefill, TestRefill, SendFront, BufferIsGone, EndRefill,
        ReportOverflow, SendMessageReturns, CallCanSendFrame, PickMailbox, GoTo,
        SentDirectly, PushToBuffer, RequestTransmission
  <2> QED
    BY <1>2, <2>2, <2>3, <2>4, PlacesKept
<1>13. CASE UNCHANGED vars
  <2>1. Quiet /\ Waiting' = Waiting
    BY <1>13 DEF vars, Quiet, Waiting, programVars, driverVars, historyVars
  <2>2. Accepted' = Accepted
    BY <1>13 DEF vars, Accepted, Undecided, programVars, historyVars
  <2> QED
    BY <1>0, <2>1, <2>2, PlacesKept
<1> QED
  BY <1>5, <1>6, <1>7, <1>8, <1>9, <1>10, <1>11, <1>12, <1>13
  DEF Next, MainStep, TxInterrupt, RxInterrupt

LEMMA OnceInit == Init => OncePlaced
<1> SUFFICES ASSUME Init PROVE OncePlaced
  OBVIOUS
<1>1. /\ InBuffer = {} /\ OnBus = {} /\ Numbers(failed) = {}
      /\ Len(Waiting) = 0 /\ Len(bus) = 0
  BY EmptySeq DEF Init, InBuffer, OnBus, Numbers, Waiting
<1>2. Occupied = {} /\ InMailboxes = {}
  BY DEF Init, Occupied, FreeMailboxes, InMailboxes
<1>3. Accepted = {}
  <2>1. 1 .. calls = {}
    BY DEF Init
  <2> QED
    BY <2>1 DEF Accepted
<1>4. Cardinality(failed) = 0 /\ Cardinality(Occupied) = 0 /\ Cardinality(Accepted) = 0
  BY <1>2, <1>3, FS_EmptySet DEF Init
<1> QED
  BY <1>1, <1>2, <1>3, <1>4 DEF OncePlaced, Everywhere, Count

(* Every frame that canSendFrame has taken is in exactly one place, in the *)
(* buffer, in a mailbox, on the bus or among those that failed there: as   *)
(* long as the handler has sent nothing at a critical point, neither       *)
(* trySendAllTxFramesFromBuffer nor sendNextTxFrameFromBuffer loses or     *)
(* doubles a frame, for every number of mailboxes and length of buffer.    *)
THEOREM FramesArePlacedOnce == Spec => []EachFrameOnce
<1>1. Init => Numbered /\ OncePlaced
  BY OnceInit DEF Init, Numbered, Undecided
<1>2. OncePlaced => EachFrameOnce
  BY DEF OncePlaced, EachFrameOnce, Everywhere, Count, Occupied
<1> QED
  BY <1>1, <1>2, NumberedStep, OnceStep, UndisturbedInvariant, PTL DEF Spec
=============================================================================
