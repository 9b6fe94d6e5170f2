---------------------------- MODULE SOTLinkFaults ----------------------------
(***************************************************************************)
(* The link of SOTLink when frames get lost and devices restart.           *)
(*                                                                         *)
(* Frames do get lost: the STM32 examples switch automatic retransmission  *)
(* off, a full buffer drops frames on either side, and a failed write of   *)
(* the SocketCAN driver is not repeated.  Nothing in the library notices:  *)
(* there is no timeout, no keep-alive and no acknowledgement.              *)
(***************************************************************************)
EXTENDS SOTLink

CONSTANTS
  FaultKinds,   \* which of the faults below happen
  MaxFaults     \* bound: faults that happen

ASSUME FaultAssumption ==
  /\ FaultKinds \subseteq {"loss", "client restart", "master restart"}
  /\ MaxFaults \in Nat

Fault(kind) ==
  /\ kind \in FaultKinds
  /\ faults < MaxFaults
  /\ faults' = faults + 1
  /\ attempted' = {}

-----------------------------------------------------------------------------
(* A frame never arrives. *)
FrameToClientLost(c) ==
  /\ Fault("loss")
  /\ toClient[c] # << >>
  /\ ConsumeAtClient(c)
  /\ UNCHANGED <<masterVars, clientVars, toMaster, reconnects, sends>>

FrameToMasterLost(c) ==
  /\ Fault("loss")
  /\ toMaster[c] # << >>
  /\ ConsumeAtMaster(c)
  /\ UNCHANGED <<masterVars, clientVars, toClient, reconnects, sends>>

(* A client starts anew, its members as their initialisers set them.  What *)
(* its receive buffer and its transmit buffer held is gone, frames still   *)
(* on the bus are not.                                                     *)
ClientRestarts(c) ==
  /\ Fault("client restart")
  /\ cState' = [cState EXCEPT ![c] = "UNINITIALIZED"]
  /\ cEvent' = [cEvent EXCEPT ![c] = FALSE]
  /\ masterKnown' = [masterKnown EXCEPT ![c] = FALSE]
  /\ \E k \in 1 .. Len(toClient[c]) + 1 :
       toClient' = [toClient EXCEPT ![c] = SubSeq(@, k, Len(@))]
  /\ \E k \in 0 .. Len(toMaster[c]) :
       toMaster' = [toMaster EXCEPT ![c] = SubSeq(@, 1, k)]
  /\ UNCHANGED <<masterVars, reconnects, sends>>

(* The master's process ends and a new one starts with an empty map.  The  *)
(* frames the old socket held are gone; those on the bus are not, and the  *)
(* kernel still sends the requests it was given.                           *)
MasterForgets ==
  /\ clients' = {}
  /\ mState' = [c \in Client |-> "UNINITIALIZED"]
  /\ mEvent' = [c \in Client |-> FALSE]
  /\ received' = [c \in Client |-> {}]
  /\ \E lost \in [Client -> UNION {0 .. Len(toMaster[c]) : c \in Client}] :
       /\ \A c \in Client : lost[c] <= Len(toMaster[c])
       /\ toMaster' = [c \in Client |->
                         SubSeq(toMaster[c], lost[c] + 1, Len(toMaster[c]))]
  /\ UNCHANGED clientVars

MasterRestarts ==
  /\ Fault("master restart")
  /\ MasterForgets
  /\ UNCHANGED <<toClient, reconnects, sends>>

(* It ends between the two requests of reconnectToClient. *)
MasterDiesReconnecting(c) ==
  /\ Fault("master restart")
  /\ c \in clients
  /\ reconnects < MaxReconnect
  /\ MasterForgets
  /\ toClient' = [toClient EXCEPT ![c] = Append(@, Disconnect)]
  /\ reconnects' = reconnects + 1
  /\ UNCHANGED sends

FaultStep(c) ==
  \/ FrameToClientLost(c)
  \/ FrameToMasterLost(c)
  \/ ClientRestarts(c)
  \/ MasterRestarts
  \/ MasterDiesReconnecting(c)

-----------------------------------------------------------------------------
(* The application of a new master adds its clients before it processes    *)
(* frames: a frame of a client outside the map waits (see SendersAreKnown).*)
FaultNext == Next \/ \E c \in Client : FaultStep(c)

FaultSpec == Init /\ [][FaultNext]_vars

FaultFairSpec == FaultSpec /\ Fairness

-----------------------------------------------------------------------------
(* An attempt to connect that no fault hits settles with both sides        *)
(* connected, whatever earlier losses and restarts have left in the        *)
(* channels and in the two states: a single addAndConnectToClient or       *)
(* reconnectToClient repairs every half-open connection.                   *)
AttemptSettlesConnected ==
  \A c \in attempted :
    toClient[c] = << >> /\ toMaster[c] = << >>
      => mState[c] = "INITIALIZED" /\ cState[c] = "INITIALIZED"

(* ... and it gets there: stale answers of earlier connections, each of    *)
(* which may start a reconnect of its own, cannot keep it going for ever.  *)
AttemptConnects ==
  \A c \in Client :
    c \in attempted ~> ConnectedBothSides(c) \/ c \notin attempted

(* SOTMaster.h:58-62: isConnected() returns "true if currently connected   *)
(* to client"; a connection only one side of which is left does not stay   *)
(* unnoticed.                                                              *)
HalfOpenIsNoticed ==
  \A c \in Client :
    (mState[c] = "INITIALIZED" /\ cState[c] # "INITIALIZED")
      ~> (mState[c] = "INITIALIZED" <=> cState[c] = "INITIALIZED")

(* SOTMaster.h:293-303: looking up a client that does not exist throws.    *)
(* The lookup of processCanFrameReceived does not: it dereferences the     *)
(* map's end, so a frame of a client outside the map must not come first.  *)
SendersAreKnown ==
  \A c \in Client : toMaster[c] # << >> => c \in clients
=============================================================================
