------------------------------- MODULE Stm32Rx -------------------------------
(***************************************************************************)
(* Receiving on a client with the STM32 driver: processCanFrames of        *)
(* SOTClient.h and SOTCanCommunication.h, getNextCanFrameReceived and      *)
(* putRxFrameInBuffer of Stm32HalCanInterface.hpp, and the event flag      *)
(* onRxOverflow that the receive interrupt sets and the program tests and  *)
(* resets in two steps.                                                    *)
(*                                                                         *)
(* The interrupt can come between any two steps: the vectors for reception *)
(* and for transmission call the same handler, so that disabling those for *)
(* reception does not keep it out while transmissions end.  A frame is the *)
(* number of its arrival.                                                  *)
(***************************************************************************)
EXTENDS Naturals, Sequences, FiniteSets

CONSTANTS
  RxBufferLen,   \* CAN_RX_BUFFER_LEN
  FifoLen,       \* receive FIFO of the hardware (3 on an STM32F1)
  MaxFrames,     \* bound: frames that arrive
  MaxTxErrors    \* bound: transmissions that fail

ASSUME RxAssumption ==
  /\ RxBufferLen \in Nat \ {0} /\ FifoLen \in Nat \ {0}
  /\ MaxFrames \in Nat /\ MaxTxErrors \in Nat

VARIABLES
  pc,            \* where the program is in processCanFrames
  seen,          \* the local variable v of EventFlag::checkAndReset
  onRxOverflow,  \* CanInterface::onRxOverflow
  fifo,          \* the hardware's receive FIFO
  receiveFrame,  \* the frame copied from the front of the buffer, or 0
  overrun,       \* the hardware lost a frame, its interrupt is pending
  errorCode,     \* the bit of an overrun in the handle's ErrorCode
  rxBuffer,      \* Stm32HalCanInterface::rxBuffer, front first
  processed,     \* the frames given to processCanFrameReceived, in order
  arrived,       \* frames that arrived so far
  lost,          \* the frames lost
  unreported,    \* a frame was lost after the last report was sent
  reports,       \* COMMUNICATION_ERROR frames sent
  txErrors,      \* transmissions that failed
  falseAlarms    \* those taken for an overrun

programVars == <<pc, seen, receiveFrame, processed, reports>>
frameVars == <<fifo, rxBuffer, arrived, lost>>
errorVars == <<overrun, errorCode, txErrors, falseAlarms>>
vars == <<programVars, frameVars, errorVars, onRxOverflow, unreported>>

Init ==
  /\ pc = "idle" /\ seen = FALSE /\ receiveFrame = 0
  /\ onRxOverflow = FALSE
  /\ fifo = << >> /\ rxBuffer = << >> /\ processed = << >>
  /\ arrived = 0 /\ lost = {}
  /\ overrun = FALSE /\ errorCode = FALSE
  /\ unreported = FALSE /\ reports = 0
  /\ txErrors = 0 /\ falseAlarms = 0

-----------------------------------------------------------------------------
(* The program: processCanFrames of SOTClient. *)

(* EventFlag::checkAndReset reads the flag ... *)
ReadFlag ==
  /\ pc = "idle"
  /\ seen' = onRxOverflow
  /\ pc' = "reset"
  /\ UNCHANGED <<receiveFrame, processed, reports, frameVars, errorVars, onRxOverflow, unreported>>

(* ... and resets it; a flag that was read set is reported to the master.  *)
(* (A bug's form: the flag is not reset.)                                  *)
FlagKept == onRxOverflow
FlagReset == FALSE

ResetFlagAndReport ==
  /\ pc = "reset"
  /\ onRxOverflow' = FlagReset
  /\ reports' = reports + (IF seen THEN 1 ELSE 0)
  /\ unreported' = (unreported /\ ~ seen)
  /\ seen' = FALSE
  /\ pc' = "take"
  /\ UNCHANGED <<receiveFrame, processed, frameVars, errorVars>>

(* getNextCanFrameReceived copies the frame at the front of the buffer ... *)
CopyFront ==
  /\ pc = "take"
  /\ rxBuffer # << >>
  /\ receiveFrame' = Head(rxBuffer)
  /\ pc' = "pop"
  /\ UNCHANGED <<seen, processed, reports, frameVars, errorVars, onRxOverflow, unreported>>

(* ... and pops it; processCanFrameReceived follows.  (A bug's form: the   *)
(* newest frame is popped.)                                                *)
WithoutNewest == SubSeq(rxBuffer, 1, Len(rxBuffer) - 1)
WithoutFront == Tail(rxBuffer)

PopAndProcess ==
  /\ pc = "pop"
  /\ rxBuffer' = WithoutFront
  /\ processed' = Append(processed, receiveFrame)
  /\ receiveFrame' = 0
  /\ pc' = "take"
  /\ UNCHANGED <<seen, reports, fifo, arrived, lost, errorVars, onRxOverflow, unreported>>

BufferIsEmpty ==
  /\ pc = "take"
  /\ rxBuffer = << >>
  /\ pc' = "idle"
  /\ UNCHANGED <<seen, receiveFrame, processed, reports, frameVars, errorVars, onRxOverflow, unreported>>

ProcessCanFrames ==
  ReadFlag \/ ResetFlagAndReport \/ CopyFront \/ PopAndProcess \/ BufferIsEmpty

-----------------------------------------------------------------------------
(* The hardware puts a frame in its FIFO. *)
FrameArrives ==
  /\ arrived < MaxFrames
  /\ Len(fifo) < FifoLen
  /\ arrived' = arrived + 1
  /\ fifo' = Append(fifo, arrived')
  /\ UNCHANGED <<programVars, rxBuffer, lost, errorVars, onRxOverflow, unreported>>

(* When the FIFO is full the frame replaces the newest one in it, as       *)
(* ReceiveFifoLocked is off, and the overrun interrupt is raised.          *)
FrameOverruns ==
  /\ arrived < MaxFrames
  /\ Len(fifo) = FifoLen
  /\ arrived' = arrived + 1
  /\ fifo' = [fifo EXCEPT ![FifoLen] = arrived']
  /\ lost' = lost \cup {fifo[FifoLen]}
  /\ overrun' = TRUE
  /\ unreported' = TRUE
  /\ UNCHANGED <<programVars, rxBuffer, errorCode, txErrors, falseAlarms, onRxOverflow>>

(* HAL_CAN_RxFifo0MsgPendingCallback, putRxFrameInBuffer: a frame that     *)
(* does not fit is read and dropped.  (A bug's form: off by one.)          *)
RxBufferBeyondFull == Len(rxBuffer) > RxBufferLen
RxBufferIsFull == Len(rxBuffer) >= RxBufferLen

RxInterruptStores ==
  /\ fifo # << >>
  /\ ~ RxBufferIsFull
  /\ rxBuffer' = Append(rxBuffer, Head(fifo))
  /\ fifo' = Tail(fifo)
  /\ UNCHANGED <<programVars, arrived, lost, errorVars, onRxOverflow, unreported>>

RxInterruptDrops ==
  /\ fifo # << >>
  /\ RxBufferIsFull
  /\ fifo' = Tail(fifo)
  /\ lost' = lost \cup {Head(fifo)}
  /\ onRxOverflow' = TRUE
  /\ unreported' = TRUE
  /\ UNCHANGED <<programVars, rxBuffer, arrived, errorVars>>

(* The handler adds the error to ErrorCode, which nothing resets, and      *)
(* calls HAL_CAN_ErrorCallback, which looks for the bit of an overrun.     *)
OverrunInterrupt ==
  /\ overrun
  /\ overrun' = FALSE
  /\ errorCode' = TRUE
  /\ onRxOverflow' = TRUE
  /\ UNCHANGED <<programVars, frameVars, txErrors, falseAlarms, unreported>>

(* A transmission that fails is an error as well.                          *)
TxErrorInterrupt ==
  /\ txErrors < MaxTxErrors
  /\ txErrors' = txErrors + 1
  /\ onRxOverflow' = (onRxOverflow \/ errorCode)
  /\ falseAlarms' = falseAlarms + (IF errorCode THEN 1 ELSE 0)
  /\ UNCHANGED <<programVars, frameVars, overrun, errorCode, unreported>>

RxInterrupt == RxInterruptStores \/ RxInterruptDrops \/ OverrunInterrupt

Next ==
  \/ ProcessCanFrames
  \/ FrameArrives \/ FrameOverruns
  \/ RxInterrupt \/ TxErrorInterrupt

Spec == Init /\ [][Next]_vars

(* The main loop keeps calling processCanFrames, and a pending interrupt   *)
(* is served.                                                              *)
FairSpec == Spec /\ WF_vars(ProcessCanFrames) /\ WF_vars(RxInterrupt)

-----------------------------------------------------------------------------
(* Types, and the capacities of the FIFO and of the buffer. *)
TypeOK ==
  /\ pc \in {"idle", "reset", "take", "pop"}
  /\ seen \in BOOLEAN /\ onRxOverflow \in BOOLEAN
  /\ overrun \in BOOLEAN /\ errorCode \in BOOLEAN /\ unreported \in BOOLEAN
  /\ fifo \in Seq(1 .. MaxFrames) /\ Len(fifo) <= FifoLen
  /\ rxBuffer \in Seq(1 .. MaxFrames) /\ Len(rxBuffer) <= RxBufferLen
  /\ processed \in Seq(1 .. MaxFrames)
  /\ receiveFrame \in 0 .. MaxFrames
  /\ arrived \in 0 .. MaxFrames
  /\ lost \subseteq 1 .. arrived
  /\ reports \in Nat
  /\ txErrors \in 0 .. MaxTxErrors /\ falseAlarms \in 0 .. txErrors

(* Every frame that arrived is lost or is, once and in the order of        *)
(* arrival, among the frames processed, buffered and in the FIFO, wherever *)
(* the interrupt cuts into the program.                                    *)
Kept == processed \o rxBuffer \o fifo
InOrderOrLost ==
  /\ \A i, j \in DOMAIN Kept : i < j => Kept[i] < Kept[j]
  /\ {Kept[i] : i \in DOMAIN Kept} = (1 .. arrived) \ lost

(* The master is never told of an overflow that did not happen, but for    *)
(* failed transmissions after an overrun: for every other report there is  *)
(* a lost frame.                                                           *)
NoFalseAlarm == reports <= Cardinality(lost) + falseAlarms

(* DriverTemplate.hpp:41 and :51: the flag "is set when the rx queue is    *)
(* full or [...] some are lost", and "the caller is expected to check      *)
(* onRxOverflow flag and add send an according package on overflow": after *)
(* a loss the master is told ...                                           *)
LossGetsReported == unreported ~> ~ unreported

(* ... and only then. *)
OnlyLossesReported == reports <= Cardinality(lost)
=============================================================================
