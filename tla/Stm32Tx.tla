------------------------------- MODULE Stm32Tx -------------------------------
(***************************************************************************)
(* Sending on a client with the STM32 driver: sendMessage of               *)
(* SOTCanCommunication.h on top of canSendFrame of                         *)
(* Stm32HalCanInterface.hpp, interleaved with the hardware's transmit      *)
(* mailboxes and with the HAL's interrupt handler.                         *)
(*                                                                         *)
(* The main program advances by the steps between which the interrupt can  *)
(* come; the handler itself is one step, as nothing of the main program    *)
(* runs during it.  The vectors for transmission and for reception call    *)
(* the same handler, so that disabling the transmit interrupt does not     *)
(* keep the handler out while frames are received.  A frame is the number  *)
(* of the canSendFrame call that brings it and whether it is an overflow   *)
(* report.                                                                 *)
(***************************************************************************)
EXTENDS Naturals, Sequences, FiniteSets

CONSTANTS
  Mailboxes,     \* transmit mailboxes of the hardware (3 on an STM32F1)
  TxBufferLen,   \* CAN_TX_BUFFER_LEN
  Reserved,      \* CAN_TX_BUFFER_RESERVED_SPACE_FOR_OVERFLOW_PACKAGES
  MaxCalls,      \* bound: calls of canSendFrame
  MaxFailures    \* bound: transmissions that fail

ASSUME TxAssumption ==
  /\ Mailboxes \in Nat \ {0} /\ TxBufferLen \in Nat
  /\ MaxCalls \in Nat /\ MaxFailures \in Nat
  /\ Reserved \in 0 .. TxBufferLen

VARIABLES
  pc,            \* where the main program is in sendMessage and canSendFrame
  frame,         \* the frame it was called with
  adding,        \* the frame and the mailbox HAL_CAN_AddTxMessage works on
  txBuffer,      \* Stm32HalCanInterface::txBuffer, front first
  mailboxes,     \* the frames in the hardware's mailboxes
  completed,     \* mailboxes emptied since the interrupt handler last ran
  irqEnabled,    \* the transmit interrupt is enabled in the NVIC
  onTxOverflow,  \* CanInterface::onTxOverflow
  calls,         \* calls of canSendFrame so far
  bus,           \* the frames sent, in order
  failed,        \* the frames whose transmission failed
  rejected,      \* the frames canSendFrame has returned false for
  cutIn          \* the handler has sent from the buffer at a critical point

programVars == <<pc, frame, adding>>
driverVars == <<txBuffer, mailboxes, completed, irqEnabled>>
historyVars == <<bus, failed, rejected, cutIn>>
vars == <<programVars, driverVars, onTxOverflow, calls, historyVars>>

Mailbox == 1 .. Mailboxes
Frame == [n : 1 .. MaxCalls, report : BOOLEAN]
NoFrame == [n |-> 0, report |-> FALSE]
Nothing == [frame |-> NoFrame, mailbox |-> 0]

(* The program is in the midst of adding a frame to the buffer or to a     *)
(* mailbox, or of moving one from the buffer to a mailbox.                 *)
CriticalPoint == {"request", "fill", "front", "request front", "pop"}
ProgramPoint ==
  CriticalPoint \cup
  {"idle", "try", "disable", "push", "enable", "drain", "refill", "check", "undefined"}

(* etl::circular_buffer::available and txBufferIsFull. *)
Available == TxBufferLen - Len(txBuffer)
FullBeyondReserve == Available < Reserved   \* a bug's form
TxBufferIsFull == Available <= Reserved

FreeMailboxes == {m \in Mailbox : mailboxes[m] = NoFrame}
CanSendQueueFull == FreeMailboxes = {}

Init ==
  /\ pc = "idle" /\ frame = NoFrame /\ adding = Nothing
  /\ txBuffer = << >>
  /\ mailboxes = [m \in Mailbox |-> NoFrame] /\ completed = {}
  /\ irqEnabled = TRUE /\ onTxOverflow = FALSE
  /\ calls = 0
  /\ bus = << >> /\ failed = {} /\ rejected = {} /\ cutIn = FALSE

-----------------------------------------------------------------------------
(* The main program. *)
GoTo(point) ==
  pc' = point /\ UNCHANGED <<frame, adding, onTxOverflow, calls, historyVars>>

(* canSendFrame is entered for a message or for an overflow report. *)
CallCanSendFrame(report) ==
  /\ calls' = calls + 1
  /\ frame' = [n |-> calls + 1, report |-> report]
  /\ pc' = "try"
  /\ UNCHANGED <<adding, driverVars, historyVars>>

SendMessage ==
  /\ pc = "idle"
  /\ calls + 2 <= MaxCalls    \* room for the report it may need
  /\ CallCanSendFrame(FALSE)
  /\ UNCHANGED onTxOverflow

(* sendTxFrame: HAL_CAN_AddTxMessage picks a free mailbox ... *)
PickMailbox(f, point) ==
  /\ \E m \in FreeMailboxes : adding' = [frame |-> f, mailbox |-> m]
  /\ pc' = point
  /\ UNCHANGED <<frame, driverVars, onTxOverflow, calls, historyVars>>

(* ... fills its registers and requests the transmission.                  *)
RequestTransmission(point) ==
  /\ mailboxes' = [mailboxes EXCEPT ![adding.mailbox] = adding.frame]
  /\ completed' = completed \ {adding.mailbox}
  /\ adding' = Nothing
  /\ pc' = point
  /\ UNCHANGED <<frame, txBuffer, irqEnabled, onTxOverflow, calls, historyVars>>

(* Straight into a free mailbox, past what is in the buffer. *)
SendDirectly == pc = "try" /\ PickMailbox(frame, "request")
SentDirectly == pc = "request" /\ RequestTransmission("drain")

QueueIsFull ==
  /\ pc = "try" /\ CanSendQueueFull
  /\ GoTo("disable") /\ UNCHANGED driverVars

DisableInterrupt ==
  /\ pc = "disable"
  /\ irqEnabled' = FALSE
  /\ GoTo("push") /\ UNCHANGED <<txBuffer, mailboxes, completed>>

PushToBuffer ==
  /\ pc = "push" /\ ~ TxBufferIsFull
  /\ txBuffer' = Append(txBuffer, frame)
  /\ GoTo("fill") /\ UNCHANGED <<mailboxes, completed, irqEnabled>>

(* The data is copied into the back of the buffer, if that is still there. *)
FillData ==
  /\ pc = "fill"
  /\ GoTo(IF txBuffer = << >> THEN "undefined" ELSE "enable")
  /\ UNCHANGED driverVars

(* sendMessage never passes frameIsOverflowError on, so that a report that *)
(* does not fit sets the flag like a message.  (A bug's form: it does not.)*)
FlagOnlyMessages(f) == ~ f.report
SetsOverflow(f) == TRUE

Overflow ==
  /\ pc = "push" /\ TxBufferIsFull
  /\ onTxOverflow' = (onTxOverflow \/ SetsOverflow(frame))
  /\ rejected' = rejected \cup {frame}
  /\ pc' = "check"
  /\ UNCHANGED <<frame, adding, driverVars, calls, bus, failed, cutIn>>

(* onCanTxReadyInterruptEnable.  (A bug's form: it is left out.) *)
EnableLeftOut == irqEnabled
Enabled == TRUE

EnableInterrupt ==
  /\ pc = "enable"
  /\ irqEnabled' = Enabled
  /\ GoTo("check") /\ UNCHANGED <<txBuffer, mailboxes, completed>>

(* trySendAllTxFramesFromBuffer: the loop's test, the front of the buffer  *)
(* into a mailbox, the front out of the buffer.  The last two are not      *)
(* defined for an empty buffer.                                            *)
BeginRefill ==
  /\ pc = "drain"
  /\ irqEnabled' = FALSE
  /\ GoTo("refill") /\ UNCHANGED <<txBuffer, mailboxes, completed>>

TestRefill ==
  /\ pc = "refill" /\ ~ CanSendQueueFull /\ txBuffer # << >>
  /\ GoTo("front") /\ UNCHANGED driverVars

SendFront ==
  /\ pc = "front" /\ txBuffer # << >>
  /\ PickMailbox(Head(txBuffer), "request front")
SentFront == pc = "request front" /\ RequestTransmission("pop")

PopFront ==
  /\ pc = "pop" /\ txBuffer # << >>
  /\ txBuffer' = Tail(txBuffer)
  /\ GoTo("refill") /\ UNCHANGED <<mailboxes, completed, irqEnabled>>

BufferIsGone ==
  /\ pc \in {"front", "pop"} /\ txBuffer = << >>
  /\ GoTo("undefined") /\ UNCHANGED driverVars

EndRefill ==
  /\ \/ pc = "refill" /\ (CanSendQueueFull \/ txBuffer = << >>)
     \/ pc = "front" /\ CanSendQueueFull /\ txBuffer # << >>
  /\ irqEnabled' = Enabled
  /\ GoTo("check") /\ UNCHANGED <<txBuffer, mailboxes, completed>>

(* Back in sendMessage: an overflow is reported with a frame of its own,   *)
(* unless the frame just sent was such a report.  (A bug's form: reports   *)
(* check the flag as well.)                                                *)
ChecksAlways(f) == TRUE
ChecksOverflow(f) == ~ f.report

ReportOverflow ==
  /\ pc = "check"
  /\ ChecksOverflow(frame) /\ onTxOverflow
  /\ calls < MaxCalls
  /\ onTxOverflow' = FALSE
  /\ CallCanSendFrame(TRUE)

SendMessageReturns ==
  /\ pc = "check"
  /\ ~ ChecksOverflow(frame) \/ ~ onTxOverflow
  /\ pc' = "idle" /\ frame' = NoFrame
  /\ UNCHANGED <<adding, driverVars, onTxOverflow, calls, historyVars>>

MainStep ==
  \/ SendDirectly \/ SentDirectly \/ QueueIsFull
  \/ DisableInterrupt \/ PushToBuffer \/ FillData \/ Overflow \/ EnableInterrupt
  \/ BeginRefill \/ TestRefill \/ SendFront \/ SentFront \/ PopFront
  \/ BufferIsGone \/ EndRefill
  \/ ReportOverflow \/ SendMessageReturns

-----------------------------------------------------------------------------
(* The hardware sends the frame of one of the mailboxes: by identifier,    *)
(* not by age, as TransmitFifoPriority is off.                             *)
Transmit(m) ==
  /\ mailboxes[m] # NoFrame
  /\ mailboxes' = [mailboxes EXCEPT ![m] = NoFrame]
  /\ completed' = completed \cup {m}
  /\ bus' = Append(bus, mailboxes[m])
  /\ UNCHANGED <<programVars, txBuffer, irqEnabled, onTxOverflow, calls, failed, rejected, cutIn>>

(* A transmission that fails is not tried again, as AutoRetransmission is  *)
(* off: the mailbox is empty, but none of the completion callbacks, the    *)
(* only ones of a transmission the driver implements, is called for it.    *)
TransmissionFails(m) ==
  /\ mailboxes[m] # NoFrame
  /\ Cardinality(failed) < MaxFailures
  /\ mailboxes' = [mailboxes EXCEPT ![m] = NoFrame]
  /\ failed' = failed \cup {mailboxes[m]}
  /\ UNCHANGED <<programVars, txBuffer, completed, irqEnabled, onTxOverflow, calls, bus, rejected, cutIn>>

(* The handler: sendNextTxFrameFromBuffer once for every mailbox that has  *)
(* been emptied, which enables the transmit interrupt at its end.  (A      *)
(* bug's form: the frame stays in the buffer.)                             *)
NextFrames ==
  IF Len(txBuffer) <= Cardinality(completed) THEN Len(txBuffer) ELSE Cardinality(completed)
BufferNotPopped(k) == txBuffer
BufferWithout(k) == SubSeq(txBuffer, k + 1, Len(txBuffer))

HAL_CAN_IRQHandler ==
  /\ completed # {}
  /\ \E into \in [1 .. NextFrames -> FreeMailboxes] :
       /\ \A i, j \in 1 .. NextFrames : into[i] = into[j] => i = j
       /\ mailboxes' = [m \in Mailbox |->
            IF \E i \in 1 .. NextFrames : into[i] = m
              THEN txBuffer[CHOOSE i \in 1 .. NextFrames : into[i] = m]
              ELSE mailboxes[m]]
  /\ txBuffer' = BufferWithout(NextFrames)
  /\ completed' = {}
  /\ irqEnabled' = TRUE
  /\ cutIn' = (cutIn \/ (NextFrames > 0 /\ pc \in CriticalPoint))
  /\ UNCHANGED <<programVars, onTxOverflow, calls, bus, failed, rejected>>

(* It is called for transmissions, and for frames received at any time. *)
TxInterrupt == irqEnabled /\ HAL_CAN_IRQHandler
RxInterrupt == HAL_CAN_IRQHandler

HardwareTransmits == \E m \in Mailbox : Transmit(m)
HardwareFails == \E m \in Mailbox : TransmissionFails(m)

Next ==
  \/ SendMessage \/ MainStep
  \/ HardwareTransmits \/ HardwareFails
  \/ TxInterrupt \/ RxInterrupt

Spec == Init /\ [][Next]_vars

(* The program returns from sendMessage, the bus takes frames and a        *)
(* pending, enabled interrupt is served; whether the application sends     *)
(* again, and whether frames are received, is not for the driver to say.   *)
FairSpec ==
  /\ Spec
  /\ WF_vars(MainStep)
  /\ WF_vars(HardwareTransmits)
  /\ WF_vars(TxInterrupt)

-----------------------------------------------------------------------------
(* Types, and the capacity of the buffer: messages never take the reserve  *)
(* (etl's push on a full buffer would overwrite the oldest frame).         *)
TypeOK ==
  /\ pc \in ProgramPoint
  /\ frame \in Frame \cup {NoFrame}
  /\ adding \in [frame : Frame, mailbox : Mailbox] \cup {Nothing}
  /\ txBuffer \in Seq(Frame) /\ Len(txBuffer) + Reserved <= TxBufferLen
  /\ mailboxes \in [Mailbox -> Frame \cup {NoFrame}]
  /\ completed \subseteq {m \in Mailbox : mailboxes[m] = NoFrame}
  /\ irqEnabled \in BOOLEAN /\ onTxOverflow \in BOOLEAN /\ cutIn \in BOOLEAN
  /\ calls \in 0 .. MaxCalls
  /\ bus \in Seq(Frame)
  /\ failed \subseteq Frame
  /\ rejected \subseteq Frame

(* The calls whose frame the driver has taken: all but the rejected ones   *)
(* and the one it is working on.                                           *)
Undecided == pc \in {"try", "request", "disable", "push"}
Accepted ==
  (1 .. calls) \ ({f.n : f \in rejected} \cup (IF Undecided THEN {frame.n} ELSE {}))

(* The frames that wait in the buffer; the front that has just been put    *)
(* into a mailbox does not.                                                *)
Waiting == IF pc = "pop" THEN Tail(txBuffer) ELSE txBuffer

Numbers(frames) == {f.n : f \in frames}
InBuffer == Numbers({Waiting[i] : i \in DOMAIN Waiting})
InMailboxes == {mailboxes[m].n : m \in Mailbox \ FreeMailboxes}
OnBus == Numbers({bus[i] : i \in DOMAIN bus})

(* Every frame taken is in exactly one place: buffer, mailbox or bus, or   *)
(* among those that failed on the bus.  Neither the handler nor the        *)
(* refill, wherever they cut into each other, lose a frame or send one     *)
(* twice, unless the handler has sent from the buffer at a critical point  *)
(* (NoFrameTwice, below, is about that).                                   *)
EachFrameOnce ==
  ~ cutIn =>
    /\ InBuffer \cup InMailboxes \cup OnBus \cup Numbers(failed) = Accepted
    /\ Len(Waiting) + Cardinality(Mailbox \ FreeMailboxes) + Len(bus) + Cardinality(failed)
         = Cardinality(Accepted)

(* A message that did not fit is not forgotten: until a report has been    *)
(* taken by the driver, the flag that asks for one stays set or a report   *)
(* is on its way (SOTCanCommunication.h:183-190 with                       *)
(* Stm32HalCanInterface.hpp:131-136).                                      *)
TakenFrames ==
  {txBuffer[i] : i \in DOMAIN txBuffer} \cup {mailboxes[m] : m \in Mailbox}
    \cup {bus[i] : i \in DOMAIN bus} \cup failed
ReportedSince(f) == \E r \in TakenFrames : r.report /\ r.n > f.n

OverflowRemembered ==
  ~ cutIn =>
    \A f \in rejected :
      \/ ReportedSince(f)
      \/ onTxOverflow
      \/ frame.report /\ Undecided

(* Between calls the transmit interrupt is off only when an overflow has   *)
(* left the buffer full: then, and only then, buffered frames wait for the *)
(* next call of canSendFrame (the early return at                          *)
(* Stm32HalCanInterface.hpp:135).                                          *)
InterruptOffOnlyWhenFull ==
  pc = "idle" /\ ~ irqEnabled => TxBufferIsFull /\ rejected # {}

(* sendMessage returns, although it calls itself to report an overflow and *)
(* the report may overflow the buffer too.                                 *)
SendingTerminates == pc = "try" ~> pc \in {"idle", "undefined"}

(* Stm32HalCanInterface.hpp:128: "protect queue from concurrent access":   *)
(* whatever the handler cuts into, no frame is sent twice.                 *)
NoFrameTwice == \A i, j \in DOMAIN bus : bus[i] = bus[j] => i = j

(* Stm32HalCanInterface.hpp:320-322: "react when a tx mailbox is available *)
(* again": with frames in the buffer, an emptied mailbox gets served.      *)
MailboxServed ==
  (completed # {} /\ txBuffer # << >>) ~> (completed = {} \/ txBuffer = << >>)

(* Stm32HalCanInterface.hpp:120-123: "Put can frame into the send buffer.  *)
(* @return true if was successfully": a frame taken leaves the driver some *)
(* time, as long as nothing overflows and nothing cuts in.                 *)
AcceptedGetsSent ==
  \A k \in 1 .. MaxCalls :
    k \in Accepted ~> (k \in OnBus \cup Numbers(failed) \/ rejected # {} \/ cutIn)

(* doc/protocol_can_frames.md:47-48: an accepted init request is answered  *)
(* with all _meta values first and with the response after them.  The      *)
(* response is the last frame of the answer: on the bus it comes last.     *)
SentInOrder ==
  \A i, j \in DOMAIN bus : i < j => bus[i].n < bus[j].n

(* Stm32HalCanInterface.hpp:70-73: the "reserved space is for sending      *)
(* overflow packages": no report is turned away while there is space.      *)
ReserveServesReports ==
  pc = "push" /\ frame.report /\ Available > 0 => ~ TxBufferIsFull
=============================================================================
