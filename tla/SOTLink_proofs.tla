--------------------------- MODULE SOTLink_proofs ---------------------------
(* The connection of clients to the master.  First SOTLink: type           *)
(* correctness and the safety of the handshake, for every set of clients   *)
(* and nodes and every bound.  Then SOTLinkFaults: a new attempt to        *)
(* connect repairs whatever losses and restarts have left, for any         *)
(* clients, trees and numbers of faults.                                   *)
EXTENDS SOTLinkFaults, SequenceTheorems, TLAPS

-----------------------------------------------------------------------------
(* Facts about the frames. *)

(* The named frames are frames of their direction, and no two are equal;   *)
(* neither is one of them a frame that carries a value.                    *)
LEMMA FramesDistinct ==
  /\ InitRequest \in MasterFrame /\ Disconnect \in MasterFrame
  /\ Accept \in ClientFrame /\ NotAccept \in ClientFrame
  /\ InitRequest # Disconnect /\ Accept # NotAccept
  /\ \A n : Frame("WRITE", n) \notin {InitRequest, Disconnect, Accept, NotAccept}
  /\ \A n : Frame("READ_REQUEST", n) \notin {InitRequest, Disconnect}
  /\ \A n : Frame("READ_RESPONSE", n) \notin {Accept, NotAccept}
BY DEF InitRequest, Disconnect, Accept, NotAccept, Frame, MasterFrame, ClientFrame

(* What the type of a frame for a client says about it. *)
LEMMA MasterFrameTypes ==
  ASSUME NEW f \in MasterFrame
  PROVE  /\ f.type \in MasterFrameType
         /\ f.type = "INIT_REQUEST" <=> f = InitRequest
         /\ f.type = "DISCONNECT" <=> f = Disconnect
         /\ f.type \in {"WRITE", "READ_REQUEST"} => f.node \in Node
BY DEF InitRequest, Disconnect, Frame, MasterFrame, MasterFrameType

(* What the type of a frame for the master says about it. *)
LEMMA ClientFrameTypes ==
  ASSUME NEW f \in ClientFrame
  PROVE  /\ f.type = "ACCEPT" <=> f = Accept
         /\ f.type = "NOT_ACCEPT" <=> f = NotAccept
         /\ f.type \in {"WRITE", "READ_RESPONSE"} =>
              f = Frame(f.type, f.node) /\ f.node \in Node
BY DEF Accept, NotAccept, Frame, ClientFrame

(* A frame with a value is a frame of the direction it travels in. *)
LEMMA ValueFrames ==
  ASSUME NEW n \in Node
  PROVE  /\ Frame("WRITE", n) \in MasterFrame /\ Frame("WRITE", n) \in ClientFrame
         /\ Frame("READ_REQUEST", n) \in MasterFrame
         /\ Frame("READ_RESPONSE", n) \in ClientFrame
BY DEF Frame, MasterFrame, ClientFrame

(* The answer to an accepted request: the _meta values, then the accept. *)
LEMMA AcceptanceFramesShape ==
  /\ AcceptanceFrames \in Seq(ClientFrame)
  /\ Len(AcceptanceFrames) = Len(MetaNodes) + 1
  /\ AcceptanceFrames[Len(MetaNodes) + 1] = Accept
  /\ \A k \in 1 .. Len(MetaNodes) :
       AcceptanceFrames[k] = Frame("WRITE", MetaNodes[k])
<1>1. Len(MetaNodes) \in Nat /\ DOMAIN MetaNodes = 1 .. Len(MetaNodes)
      /\ \A k \in 1 .. Len(MetaNodes) : MetaNodes[k] \in Node
  BY MetaAssumption, LenProperties, ElementOfSeq
<1>2. \A k \in 1 .. Len(MetaNodes) : Frame("WRITE", MetaNodes[k]) \in ClientFrame
  BY <1>1, ValueFrames
<1>3. MetaFrames \in [1 .. Len(MetaNodes) -> ClientFrame]
  BY <1>1, <1>2 DEF MetaFrames
<1>4. MetaFrames \in Seq(ClientFrame) /\ Len(MetaFrames) = Len(MetaNodes)
  BY <1>1, <1>3, SeqDef
<1> QED
  BY <1>1, <1>4, AppendProperties, FramesDistinct DEF AcceptanceFrames, MetaFrames

(* The pair reconnectToClient sends. *)
LEMMA ReconnectFramesShape ==
  /\ ReconnectFrames \in Seq(MasterFrame)
  /\ Len(ReconnectFrames) = 2
  /\ ReconnectFrames[1] = Disconnect
  /\ ReconnectFrames[2] = InitRequest
BY FramesDistinct DEF ReconnectFrames

-----------------------------------------------------------------------------
(* How the parts of the invariant that speak of one channel change with it.*)

(* An added value frame keeps requests paired. *)
LEMMA PairedAppend ==
  ASSUME NEW q \in Seq(MasterFrame), NEW s, NEW f \in MasterFrame,
         RequestsPaired(q, s), f # Disconnect, f # InitRequest
  PROVE  RequestsPaired(Append(q, f), s)
<1>1. DOMAIN q = 1 .. Len(q) /\ Len(q) \in Nat
  BY LenProperties
<1>2. /\ Append(q, f) \in Seq(MasterFrame)
      /\ Len(Append(q, f)) = Len(q) + 1
      /\ \A i \in 1 .. Len(q) : Append(q, f)[i] = q[i]
      /\ Append(q, f)[Len(q) + 1] = f
  BY AppendProperties
<1>3. DOMAIN Append(q, f) = 1 .. (Len(q) + 1)
  BY <1>2, LenProperties
<1> QED
  BY <1>1, <1>2, <1>3 DEF RequestsPaired

(* The pair of a reconnect keeps requests paired. *)
LEMMA PairedReconnect ==
  ASSUME NEW q \in Seq(MasterFrame), NEW s, RequestsPaired(q, s)
  PROVE  RequestsPaired(q \o ReconnectFrames, s)
<1> DEFINE r == q \o ReconnectFrames
<1>1. DOMAIN q = 1 .. Len(q) /\ Len(q) \in Nat
  BY LenProperties
<1>2. /\ r \in Seq(MasterFrame)
      /\ Len(r) = Len(q) + 2
      /\ \A i \in 1 .. Len(q) : r[i] = q[i]
      /\ r[Len(q) + 1] = Disconnect
      /\ r[Len(q) + 2] = InitRequest
  <2>1. /\ r \in Seq(MasterFrame)
        /\ Len(r) = Len(q) + Len(ReconnectFrames)
        /\ \A i \in 1 .. Len(q) + Len(ReconnectFrames) :
             r[i] = IF i <= Len(q) THEN q[i] ELSE ReconnectFrames[i - Len(q)]
    BY ReconnectFramesShape, ConcatProperties, Zenon
  <2>2. (Len(q) + 1) - Len(q) = 1 /\ (Len(q) + 2) - Len(q) = 2
    BY <1>1
  <2> HIDE DEF r
  <2>3. Len(r) = Len(q) + 2
    BY <2>1, ReconnectFramesShape
  <2>4. ASSUME NEW i \in 1 .. Len(q) PROVE r[i] = q[i]
    <3>1. i \in 1 .. Len(q) + Len(ReconnectFrames) /\ i <= Len(q)
      BY <1>1, ReconnectFramesShape
    <3> QED
      BY <2>1, <3>1
  <2>5. r[Len(q) + 1] = ReconnectFrames[1]
    <3>1. Len(q) + 1 \in 1 .. Len(q) + Len(ReconnectFrames) /\ ~ (Len(q) + 1 <= Len(q))
      BY <1>1, ReconnectFramesShape
    <3> QED
      BY <2>1, <2>2, <3>1
  <2>6. r[Len(q) + 2] = ReconnectFrames[2]
    <3>1. Len(q) + 2 \in 1 .. Len(q) + Len(ReconnectFrames) /\ ~ (Len(q) + 2 <= Len(q))
      BY <1>1, ReconnectFramesShape
    <3> QED
      BY <2>1, <2>2, <3>1
  <2> QED
    BY <2>1, <2>3, <2>4, <2>5, <2>6, ReconnectFramesShape
<1>3. DOMAIN r = 1 .. (Len(q) + 2)
  BY <1>2, LenProperties
<1> HIDE DEF r
<1>4. RequestsPaired(r, s)
  BY <1>1, <1>2, <1>3, FramesDistinct DEF RequestsPaired
<1> QED
  BY <1>4 DEF r

(* A consumed frame keeps requests paired: an init request now at the head *)
(* was preceded by the disconnect that has just been consumed.             *)
LEMMA PairedTail ==
  ASSUME NEW q \in Seq(MasterFrame), NEW s, NEW t, q # << >>,
         RequestsPaired(q, s), q[1] = Disconnect => t = "UNINITIALIZED"
  PROVE  RequestsPaired(Tail(q), t)
<1>1. DOMAIN q = 1 .. Len(q) /\ Len(q) \in Nat /\ Len(q) # 0
  BY LenProperties, EmptySeq
<1>2. /\ Tail(q) \in Seq(MasterFrame)
      /\ Len(Tail(q)) = Len(q) - 1
      /\ \A i \in 1 .. Len(Tail(q)) : Tail(q)[i] = q[i + 1]
  BY HeadTailProperties
<1>3. DOMAIN Tail(q) = 1 .. (Len(q) - 1)
  BY <1>2, LenProperties
<1>4. SUFFICES ASSUME NEW i \in 1 .. (Len(q) - 1)
      PROVE /\ q[i + 1] = Disconnect
                 => i < Len(q) - 1 /\ Tail(q)[i + 1] = InitRequest
            /\ q[i + 1] = InitRequest
                 => IF i = 1 THEN t = "UNINITIALIZED" ELSE Tail(q)[i - 1] = Disconnect
  BY <1>1, <1>2, <1>3 DEF RequestsPaired
<1>5. i + 1 \in DOMAIN q /\ i + 1 # 1 /\ (i + 1) - 1 = i
  BY <1>1
<1>6. /\ q[i + 1] = Disconnect
           => i + 1 < Len(q) /\ q[(i + 1) + 1] = InitRequest
      /\ q[i + 1] = InitRequest => q[i] = Disconnect
  BY <1>5 DEF RequestsPaired
<1>7. i + 1 < Len(q) => Tail(q)[i + 1] = q[(i + 1) + 1]
  BY <1>1, <1>2
<1>8. i # 1 => Tail(q)[i - 1] = q[i]
  BY <1>1, <1>2
<1> QED
  BY <1>1, <1>6, <1>7, <1>8

(* An added frame that is no acceptance keeps the _meta values ahead. *)
LEMMA MetaAppend ==
  ASSUME NEW p \in Seq(ClientFrame), NEW got, NEW f \in ClientFrame,
         MetaAhead(p, got), f # Accept
  PROVE  MetaAhead(Append(p, f), got)
<1>1. DOMAIN p = 1 .. Len(p) /\ Len(p) \in Nat
  BY LenProperties
<1>2. /\ Append(p, f) \in Seq(ClientFrame)
      /\ Len(Append(p, f)) = Len(p) + 1
      /\ \A i \in 1 .. Len(p) : Append(p, f)[i] = p[i]
      /\ Append(p, f)[Len(p) + 1] = f
  BY AppendProperties
<1>3. DOMAIN Append(p, f) = 1 .. (Len(p) + 1)
  BY <1>2, LenProperties
<1> QED
  BY <1>1, <1>2, <1>3 DEF MetaAhead

(* An acceptance brings its own _meta values. *)
LEMMA MetaAcceptance ==
  ASSUME NEW p \in Seq(ClientFrame), NEW got, MetaAhead(p, got)
  PROVE  MetaAhead(p \o AcceptanceFrames, got)
<1> DEFINE r == p \o AcceptanceFrames
           m == Len(MetaNodes)
<1>1. DOMAIN p = 1 .. Len(p) /\ Len(p) \in Nat /\ m \in Nat /\ DOMAIN MetaNodes = 1 .. m
  BY LenProperties, MetaAssumption
<1>2. /\ r \in Seq(ClientFrame)
      /\ Len(r) = Len(p) + (m + 1)
      /\ \A i \in 1 .. (Len(p) + (m + 1)) :
           r[i] = IF i <= Len(p) THEN p[i] ELSE AcceptanceFrames[i - Len(p)]
  BY <1>1, AcceptanceFramesShape, ConcatProperties
<1>3. DOMAIN r = 1 .. (Len(p) + (m + 1))
  BY <1>2, LenProperties
<1>4. \A k \in 1 .. m : r[Len(p) + k] = Frame("WRITE", MetaNodes[k])
  <2>1. TAKE k \in 1 .. m
  <2>2. Len(p) + k \in 1 .. (Len(p) + (m + 1)) /\ ~ (Len(p) + k <= Len(p))
        /\ (Len(p) + k) - Len(p) = k
    BY <1>1
  <2> QED
    BY <1>2, <2>2, AcceptanceFramesShape
<1> HIDE DEF r
<1>5. ASSUME NEW i \in DOMAIN r, r[i] = Accept, NEW k \in 1 .. m
      PROVE  \/ MetaNodes[k] \in got
             \/ \E j \in 1 .. (i - 1) : r[j] = Frame("WRITE", MetaNodes[k])
  <2>1. CASE i <= Len(p)
    <3>1. i \in DOMAIN p /\ p[i] = Accept /\ \A j \in 1 .. (i - 1) : r[j] = p[j]
      BY <1>1, <1>2, <1>3, <1>5, <2>1
    <3> QED
      BY <1>1, <1>5, <3>1 DEF MetaAhead
  <2>2. CASE i > Len(p)
    <3>1. i - Len(p) \in 1 .. (m + 1) /\ r[i] = AcceptanceFrames[i - Len(p)]
      BY <1>1, <1>2, <1>3, <2>2
    <3>2. i - Len(p) \notin 1 .. m
      BY <1>5, <3>1, AcceptanceFramesShape, FramesDistinct
    <3>3. Len(p) + k \in 1 .. (i - 1)
      BY <1>1, <3>1, <3>2, <1>3, <1>5
    <3> QED
      BY <1>4, <1>5, <3>3
  <2> QED
    BY <1>1, <1>3, <2>1, <2>2
<1>6. MetaAhead(r, got)
  BY <1>1, <1>5 DEF MetaAhead
<1> QED
  BY <1>6 DEF r

(* A consumed frame keeps the _meta values ahead, or has delivered one. *)
LEMMA MetaTail ==
  ASSUME NEW p \in Seq(ClientFrame), NEW got, NEW got2, p # << >>,
         MetaAhead(p, got), got \subseteq got2,
         \A n \in Node : p[1] = Frame("WRITE", n) => n \in got2
  PROVE  MetaAhead(Tail(p), got2)
<1>1. DOMAIN p = 1 .. Len(p) /\ Len(p) \in Nat /\ Len(p) # 0
  BY LenProperties, EmptySeq
<1>2. /\ Tail(p) \in Seq(ClientFrame)
      /\ Len(Tail(p)) = Len(p) - 1
      /\ \A i \in 1 .. Len(Tail(p)) : Tail(p)[i] = p[i + 1]
  BY HeadTailProperties
<1>3. DOMAIN Tail(p) = 1 .. (Len(p) - 1)
  BY <1>2, LenProperties
<1>4. SUFFICES ASSUME NEW i \in 1 .. (Len(p) - 1), p[i + 1] = Accept,
                      NEW k \in DOMAIN MetaNodes, MetaNodes[k] \notin got2
               PROVE  \E j \in 1 .. (i - 1) : Tail(p)[j] = Frame("WRITE", MetaNodes[k])
  BY <1>1, <1>2, <1>3 DEF MetaAhead
<1>5. MetaNodes[k] \in Node
  BY MetaAssumption, LenProperties, ElementOfSeq
<1>6. PICK j \in 1 .. ((i + 1) - 1) : p[j] = Frame("WRITE", MetaNodes[k])
  BY <1>1, <1>4 DEF MetaAhead
<1>7. j # 1
  BY <1>4, <1>5, <1>6
<1>8. j - 1 \in 1 .. (i - 1) /\ Tail(p)[j - 1] = p[j]
  BY <1>1, <1>2, <1>6, <1>7
<1> QED
  BY <1>6, <1>8

-----------------------------------------------------------------------------
(* Type correctness. *)

(* The initial values have their types. *)
LEMMA TypeInit == Init => TypeOK
BY EmptySeq, BoundAssumption DEF Init, TypeOK, CommunicationState

(* Every step keeps the types. *)
LEMMA TypeStep == TypeOK /\ [Next]_vars => TypeOK'
<1> SUFFICES ASSUME TypeOK, [Next]_vars PROVE TypeOK'
  OBVIOUS
<1> USE DEF TypeOK
<1>f. /\ InitRequest \in MasterFrame /\ Accept \in ClientFrame /\ NotAccept \in ClientFrame
  BY FramesDistinct
<1>s. ASSUME NEW c \in Client
      PROVE  /\ toClient[c] # << >> => Head(toClient[c]) \in MasterFrame
                                       /\ Tail(toClient[c]) \in Seq(MasterFrame)
             /\ toMaster[c] # << >> => Head(toMaster[c]) \in ClientFrame
                                       /\ Tail(toMaster[c]) \in Seq(ClientFrame)
             /\ \A f \in MasterFrame : Append(toClient[c], f) \in Seq(MasterFrame)
             /\ \A f \in ClientFrame : Append(toMaster[c], f) \in Seq(ClientFrame)
             /\ toClient[c] \o ReconnectFrames \in Seq(MasterFrame)
             /\ toMaster[c] \o AcceptanceFrames \in Seq(ClientFrame)
  <2>1. toClient[c] \in Seq(MasterFrame) /\ toMaster[c] \in Seq(ClientFrame)
    OBVIOUS
  <2> QED
    BY <2>1, HeadTailProperties, AppendProperties, ConcatProperties,
       ReconnectFramesShape, AcceptanceFramesShape
<1>1. ASSUME NEW c \in Client, AddAndConnectToClient(c) PROVE TypeOK'
  BY <1>f, <1>s, <1>1 DEF AddAndConnectToClient, clientVars, budgetVars, CommunicationState
<1>2. ASSUME NEW c \in Client, ApplicationReconnects(c) PROVE TypeOK'
  BY <1>s, <1>2, BoundAssumption
  DEF ApplicationReconnects, reconnectToClient, clientVars, CommunicationState
<1>3. ASSUME NEW c \in Client, NEW t \in {"WRITE", "READ_REQUEST"}, NEW n \in Node,
             MasterSends(c, t, n)
      PROVE  TypeOK'
  BY <1>s, <1>3, ValueFrames, BoundAssumption DEF MasterSends, masterVars, clientVars
<1>4. ASSUME NEW c \in Client, NEW n \in Node, ClientSends(c, n) PROVE TypeOK'
  BY <1>s, <1>4, ValueFrames, BoundAssumption DEF ClientSends, masterVars, clientVars
<1>5. ASSUME NEW c \in Client, MasterTakesEvent(c) PROVE TypeOK'
  BY <1>5 DEF MasterTakesEvent, clientVars, budgetVars
<1>6. ASSUME NEW c \in Client, ClientTakesEvent(c) PROVE TypeOK'
  BY <1>6 DEF ClientTakesEvent, masterVars, budgetVars
<1>7. ASSUME NEW c \in Client, ClientIgnores(c) PROVE TypeOK'
  BY <1>s, <1>7
  DEF ClientIgnores, NextForClient, ConsumeAtClient, masterVars, clientVars, budgetVars
<1>8. ASSUME NEW c \in Client, ClientAccepts(c) PROVE TypeOK'
  BY <1>s, <1>8
  DEF ClientAccepts, NextForClient, ConsumeAtClient, masterVars, budgetVars, CommunicationState
<1>9. ASSUME NEW c \in Client, ClientRefuses(c) PROVE TypeOK'
  BY <1>f, <1>s, <1>9
  DEF ClientRefuses, NextForClient, ConsumeAtClient, masterVars, clientVars, budgetVars
<1>10. ASSUME NEW c \in Client, ClientDisconnects(c) PROVE TypeOK'
  BY <1>s, <1>10
  DEF ClientDisconnects, EventCleared, NextForClient, ConsumeAtClient, masterVars, budgetVars, CommunicationState
<1>11. ASSUME NEW c \in Client, ClientHandlesValue(c) PROVE TypeOK'
  <2>1. toClient[c] # << >> /\ Head(toClient[c]) \in MasterFrame
        /\ Head(toClient[c]).type \in {"WRITE", "READ_REQUEST"}
    BY <1>s, <1>11 DEF ClientHandlesValue, NextForClient
  <2>2. ReadResponse(Head(toClient[c])) \in ClientFrame
    BY <2>1, MasterFrameTypes, ValueFrames DEF ReadResponse
  <2> QED
    BY <1>s, <1>11, <2>1, <2>2
    DEF ClientHandlesValue, ConsumeAtClient, masterVars, clientVars, budgetVars
<1>12. ASSUME NEW c \in Client, MasterGetsAccept(c) PROVE TypeOK'
  BY <1>s, <1>12
  DEF MasterGetsAccept, NextForMaster, ConsumeAtMaster, clientVars, budgetVars, CommunicationState
<1>13. ASSUME NEW c \in Client, MasterGetsRefusal(c) PROVE TypeOK'
  BY <1>s, <1>13
  DEF MasterGetsRefusal, NextForMaster, ConsumeAtMaster, reconnectToClient, clientVars,
      budgetVars, CommunicationState
<1>14. ASSUME NEW c \in Client, MasterIgnoresResponse(c) PROVE TypeOK'
  BY <1>s, <1>14
  DEF MasterIgnoresResponse, NextForMaster, ConsumeAtMaster, masterVars, clientVars, budgetVars
<1>15. ASSUME NEW c \in Client, MasterHandlesValue(c) PROVE TypeOK'
  <2>1. toMaster[c] # << >> /\ Head(toMaster[c]).node \in Node
    BY <1>s, <1>15, ClientFrameTypes DEF MasterHandlesValue, NextForMaster
  <2> QED
    BY <1>s, <1>15, <2>1 DEF MasterHandlesValue, ConsumeAtMaster, clientVars, budgetVars
<1>16. CASE UNCHANGED vars
  BY <1>16 DEF vars, masterVars, clientVars, budgetVars
<1> QED
  BY <1>1, <1>2, <1>3, <1>4, <1>5, <1>6, <1>7, <1>8, <1>9, <1>10, <1>11, <1>12, <1>13,
     <1>14, <1>15, <1>16
  DEF Next, ApplicationConnects, ApplicationUses, LinkStep, ClientProcessesFrame, MasterProcessesFrame

(* Every variable of the link keeps its type in every behaviour. *)
THEOREM TypeCorrect == Spec => []TypeOK
BY TypeInit, TypeStep, PTL DEF Spec

-----------------------------------------------------------------------------
(* The inductive invariant. *)

(* What holds of an empty channel. *)
LEMMA EmptyChannel ==
  /\ \A s : RequestsPaired(<< >>, s)
  /\ \A got : MetaAhead(<< >>, got)
  /\ \A f : ~ Carries(<< >>, f)
<1>1. DOMAIN << >> = {}
  OBVIOUS
<1> QED
  BY <1>1 DEF RequestsPaired, MetaAhead, Carries

(* With empty channels and no client added, the invariant holds. *)
LEMMA InvInit == Init => LinkInv
<1> SUFFICES ASSUME Init, NEW c \in Client PROVE ClientInv(c)
  BY DEF LinkInv
<1>1. /\ c \notin clients /\ cState[c] = "UNINITIALIZED" /\ cEvent[c] = FALSE
      /\ toClient[c] = << >> /\ toMaster[c] = << >> /\ masterKnown[c] = FALSE
  BY DEF Init
<1> QED
  BY <1>1, EmptyChannel DEF ClientInv

(* A step that leaves a client's part of the state alone. *)
LEMMA Unaffected ==
  ASSUME LinkInv, NEW d \in Client,
         d \in clients' <=> d \in clients,
         mState'[d] = mState[d], received'[d] = received[d],
         cState'[d] = cState[d], cEvent'[d] = cEvent[d], masterKnown'[d] = masterKnown[d],
         toClient'[d] = toClient[d], toMaster'[d] = toMaster[d]
  PROVE  ClientInv(d)'
BY Zenon DEF LinkInv, ClientInv, JustifiedWait, MetaHeld

(* What a channel carries after a frame is added to it or taken from it. *)
LEMMA CarriesAppend ==
  ASSUME NEW S, NEW q \in Seq(S), NEW f \in S, NEW g
  PROVE  Carries(Append(q, f), g) <=> Carries(q, g) \/ f = g
<1>1. DOMAIN q = 1 .. Len(q) /\ Len(q) \in Nat
  BY LenProperties
<1>2. /\ Append(q, f) \in Seq(S)
      /\ Len(Append(q, f)) = Len(q) + 1
      /\ \A i \in 1 .. Len(q) : Append(q, f)[i] = q[i]
      /\ Append(q, f)[Len(q) + 1] = f
  BY AppendProperties
<1>3. DOMAIN Append(q, f) = 1 .. (Len(q) + 1)
  BY <1>2, LenProperties
<1> QED
  BY <1>1, <1>2, <1>3 DEF Carries

(* What a channel carries after several frames are added to it. *)
LEMMA CarriesConcat ==
  ASSUME NEW S, NEW q \in Seq(S), NEW r \in Seq(S), NEW g
  PROVE  Carries(q \o r, g) <=> Carries(q, g) \/ Carries(r, g)
<1> DEFINE t == q \o r
<1>1. DOMAIN q = 1 .. Len(q) /\ Len(q) \in Nat /\ DOMAIN r = 1 .. Len(r) /\ Len(r) \in Nat
  BY LenProperties
<1>2. /\ t \in Seq(S)
      /\ Len(t) = Len(q) + Len(r)
      /\ \A i \in 1 .. Len(q) + Len(r) : t[i] = IF i <= Len(q) THEN q[i] ELSE r[i - Len(q)]
  BY ConcatProperties
<1>3. DOMAIN t = 1 .. (Len(q) + Len(r))
  BY <1>2, LenProperties
<1> HIDE DEF t
<1>4. ASSUME NEW i \in DOMAIN q PROVE i \in DOMAIN t /\ t[i] = q[i]
  BY <1>1, <1>2, <1>3, <1>4
<1>5. ASSUME NEW i \in DOMAIN r PROVE Len(q) + i \in DOMAIN t /\ t[Len(q) + i] = r[i]
  <2>1. Len(q) + i \in 1 .. Len(q) + Len(r) /\ ~ (Len(q) + i <= Len(q)) /\ (Len(q) + i) - Len(q) = i
    BY <1>1, <1>5
  <2> QED
    BY <1>2, <1>3, <2>1
<1>6. ASSUME NEW i \in DOMAIN t
      PROVE  \/ i \in DOMAIN q /\ t[i] = q[i]
             \/ i - Len(q) \in DOMAIN r /\ t[i] = r[i - Len(q)]
  BY <1>1, <1>2, <1>3, <1>6
<1> QED
  BY <1>4, <1>5, <1>6 DEF Carries, t

(* What a channel still carries once its first frame is taken from it. *)
LEMMA CarriesTail ==
  ASSUME NEW S, NEW q \in Seq(S), q # << >>, NEW g
  PROVE  /\ Carries(Tail(q), g) => Carries(q, g)
         /\ Carries(q, g) => Carries(Tail(q), g) \/ q[1] = g
<1>1. DOMAIN q = 1 .. Len(q) /\ Len(q) \in Nat /\ Len(q) # 0
  BY LenProperties, EmptySeq
<1>2. /\ Tail(q) \in Seq(S)
      /\ Len(Tail(q)) = Len(q) - 1
      /\ \A i \in 1 .. Len(Tail(q)) : Tail(q)[i] = q[i + 1]
  BY HeadTailProperties
<1>3. DOMAIN Tail(q) = 1 .. (Len(q) - 1)
  BY <1>2, LenProperties
<1>4. ASSUME NEW i \in DOMAIN Tail(q) PROVE i + 1 \in DOMAIN q /\ Tail(q)[i] = q[i + 1]
  BY <1>1, <1>2, <1>3, <1>4
<1>5. ASSUME NEW i \in DOMAIN q, i # 1 PROVE i - 1 \in DOMAIN Tail(q) /\ Tail(q)[i - 1] = q[i]
  BY <1>1, <1>2, <1>3, <1>5
<1> QED
  BY <1>4, <1>5 DEF Carries

(* The head of a non-empty channel is its first frame. *)
LEMMA HeadIsFirst ==
  ASSUME NEW S, NEW q \in Seq(S), q # << >>
  PROVE  Head(q) = q[1] /\ 1 \in DOMAIN q /\ q[1] \in S
BY LenProperties, EmptySeq, ElementOfSeq

(* An init request that is awaited stays at the head of a growing channel. *)
LEMMA AwaitedAppend ==
  ASSUME NEW q \in Seq(MasterFrame), NEW f \in MasterFrame, NEW s, RequestAwaited(q, s)
  PROVE  RequestAwaited(Append(q, f), s)
<1>1. q # << >> => Len(q) \in Nat \ {0}
  BY EmptySeq
<1>2. /\ Append(q, f) # << >>
      /\ \A i \in 1 .. Len(q) : Append(q, f)[i] = q[i]
  BY AppendProperties
<1> QED
  BY <1>1, <1>2 DEF RequestAwaited

(* It stays there when a reconnect adds its pair. *)
LEMMA AwaitedReconnect ==
  ASSUME NEW q \in Seq(MasterFrame), NEW s, RequestAwaited(q, s)
  PROVE  RequestAwaited(q \o ReconnectFrames, s)
<1> DEFINE r == q \o ReconnectFrames
<1>1. SUFFICES ASSUME q # << >>, q[1] = InitRequest PROVE r # << >> /\ r[1] = InitRequest
  BY DEF RequestAwaited
<1>2. Len(q) \in Nat \ {0}
  BY <1>1, EmptySeq
<1>3. /\ r \in Seq(MasterFrame)
      /\ Len(r) = Len(q) + Len(ReconnectFrames)
      /\ \A i \in 1 .. Len(q) + Len(ReconnectFrames) :
           r[i] = IF i <= Len(q) THEN q[i] ELSE ReconnectFrames[i - Len(q)]
  BY ReconnectFramesShape, ConcatProperties, Zenon
<1> HIDE DEF r
<1>4. Len(r) # 0 /\ r[1] = q[1]
  BY <1>2, <1>3, ReconnectFramesShape
<1>5. r # << >>
  BY <1>4
<1>6. r # << >> /\ r[1] = InitRequest
  BY <1>1, <1>4, <1>5
<1> QED
  BY <1>6 DEF r

(* Every step preserves the invariant.  Each case first sets the clients   *)
(* it does not concern aside, then says how the two channels change.       *)
LEMMA InvStep == TypeOK /\ LinkInv /\ [Next]_vars => LinkInv'
<1> SUFFICES ASSUME TypeOK, LinkInv, [Next]_vars PROVE LinkInv'
  OBVIOUS
<1>t. ASSUME NEW c \in Client
      PROVE  /\ toClient[c] \in Seq(MasterFrame) /\ toMaster[c] \in Seq(ClientFrame)
             /\ cState[c] \in CommunicationState /\ mState[c] \in CommunicationState
             /\ ClientInv(c)
  BY DEF TypeOK, LinkInv
<1>1. ASSUME NEW c \in Client, AddAndConnectToClient(c), NEW d \in Client
      PROVE  ClientInv(d)'
  <2>1. CASE d # c
    BY <1>1, <2>1, Unaffected DEF AddAndConnectToClient, TypeOK, clientVars
  <2>2. CASE d = c
    <3>1. /\ c \in clients' /\ mState'[c] = "INITIALIZING" /\ cState'[c] = "UNINITIALIZED"
          /\ cEvent'[c] = cEvent[c] /\ toMaster'[c] = << >> /\ received'[c] = received[c]
          /\ toClient'[c] = Append(<< >>, InitRequest) /\ cEvent[c] = FALSE
      BY <1>1, <1>t DEF AddAndConnectToClient, TypeOK, clientVars, ClientInv
    <3>2. /\ toClient'[c] = << InitRequest >>
          /\ toClient'[c][1] = InitRequest /\ DOMAIN toClient'[c] = {1}
      BY <3>1, FramesDistinct
    <3>3. RequestsPaired(toClient'[c], "UNINITIALIZED") /\ Carries(toClient'[c], InitRequest)
      BY <3>2, FramesDistinct DEF RequestsPaired, Carries
    <3>4. RequestAwaited(toClient'[c], cState'[c])
      BY <3>2 DEF RequestAwaited
    <3> QED
      BY <2>2, <3>1, <3>3, <3>4, EmptyChannel DEF ClientInv, JustifiedWait, MetaHeld
  <2> QED
    BY <2>1, <2>2
<1>2. ASSUME NEW c \in Client, ApplicationReconnects(c), NEW d \in Client
      PROVE  ClientInv(d)'
  <2>1. CASE d # c
    BY <1>2, <2>1, Unaffected DEF ApplicationReconnects, reconnectToClient, TypeOK, clientVars
  <2>2. CASE d = c
    <3>1. /\ c \in clients /\ clients' = clients /\ mState'[c] = "INITIALIZING"
          /\ cState' = cState /\ cEvent' = cEvent /\ received' = received
          /\ toMaster' = toMaster /\ toClient'[c] = toClient[c] \o ReconnectFrames
      BY <1>2 DEF ApplicationReconnects, reconnectToClient, TypeOK, clientVars
    <3>2. RequestsPaired(toClient'[c], cState'[c]) /\ RequestAwaited(toClient'[c], cState'[c])
      BY <1>t, <3>1, PairedReconnect, AwaitedReconnect DEF ClientInv
    <3>3. Carries(ReconnectFrames, InitRequest)
      BY ReconnectFramesShape DEF ReconnectFrames, Carries
    <3>4. Carries(toClient'[c], InitRequest)
      BY <1>t, <3>1, <3>3, ReconnectFramesShape, CarriesConcat
    <3> QED
      BY <1>t, <2>2, <3>1, <3>2, <3>4 DEF ClientInv, JustifiedWait, MetaHeld
  <2> QED
    BY <2>1, <2>2
<1>3. ASSUME NEW c \in Client, NEW t \in {"WRITE", "READ_REQUEST"}, NEW n \in Node,
             MasterSends(c, t, n), NEW d \in Client
      PROVE  ClientInv(d)'
  <2>1. CASE d # c
    BY <1>3, <2>1, Unaffected DEF MasterSends, TypeOK, masterVars, clientVars
  <2>2. CASE d = c
    <3> DEFINE f == Frame(t, n)
    <3>1. f \in MasterFrame /\ f # InitRequest /\ f # Disconnect
      BY ValueFrames, FramesDistinct
    <3>2. /\ c \in clients /\ clients' = clients /\ mState' = mState
          /\ cState' = cState /\ cEvent' = cEvent /\ received' = received
          /\ toMaster' = toMaster /\ toClient'[c] = Append(toClient[c], f)
      BY <1>3 DEF MasterSends, TypeOK, masterVars, clientVars
    <3> HIDE DEF f
    <3>3. RequestsPaired(toClient'[c], cState'[c]) /\ RequestAwaited(toClient'[c], cState'[c])
      BY <1>t, <3>1, <3>2, PairedAppend, AwaitedAppend DEF ClientInv
    <3>4. Carries(toClient[c], InitRequest) => Carries(toClient'[c], InitRequest)
      BY <1>t, <3>1, <3>2, CarriesAppend
    <3> QED
      BY <1>t, <2>2, <3>2, <3>3, <3>4 DEF ClientInv, JustifiedWait, MetaHeld
  <2> QED
    BY <2>1, <2>2
<1>p. ASSUME NEW c \in Client, NEW f \in ClientFrame, f # Accept, f # NotAccept
      PROVE  /\ MetaAhead(Append(toMaster[c], f), received[c])
             /\ ~ Carries(Append(toMaster[c], f), NotAccept)
             /\ Carries(toMaster[c], Accept) => Carries(Append(toMaster[c], f), Accept)
  BY <1>t, <1>p, MetaAppend, CarriesAppend DEF ClientInv
<1>4. ASSUME NEW c \in Client, NEW n \in Node, ClientSends(c, n), NEW d \in Client
      PROVE  ClientInv(d)'
  <2>1. CASE d # c \/ ~ masterKnown[c]
    BY <1>4, <2>1, Unaffected DEF ClientSends, TypeOK, masterVars, clientVars
  <2>2. CASE d = c /\ masterKnown[c]
    <3> DEFINE f == Frame("WRITE", n)
    <3>1. f \in ClientFrame /\ f # Accept /\ f # NotAccept
      BY ValueFrames, FramesDistinct
    <3>2. /\ clients' = clients /\ mState' = mState /\ masterKnown' = masterKnown
          /\ cState' = cState /\ cEvent' = cEvent /\ received' = received
          /\ toClient' = toClient /\ toMaster'[c] = Append(toMaster[c], f)
      BY <1>4, <2>2 DEF ClientSends, TypeOK, masterVars, clientVars
    <3> HIDE DEF f
    <3> QED
      BY <1>t, <1>p, <2>2, <3>1, <3>2 DEF ClientInv, JustifiedWait, MetaHeld
  <2> QED
    BY <2>1, <2>2
<1>5. ASSUME NEW c \in Client, MasterTakesEvent(c), NEW d \in Client
      PROVE  ClientInv(d)'
  BY <1>5, Unaffected DEF MasterTakesEvent, clientVars, budgetVars
<1>6. ASSUME NEW c \in Client, ClientTakesEvent(c), NEW d \in Client
      PROVE  ClientInv(d)'
  <2>1. CASE d # c
    BY <1>6, <2>1, Unaffected DEF ClientTakesEvent, TypeOK, masterVars
  <2>2. CASE d = c
    BY <1>t, <1>6, <2>2 DEF ClientTakesEvent, TypeOK, masterVars, ClientInv, JustifiedWait, MetaHeld
  <2> QED
    BY <2>1, <2>2
<1>h. ASSUME NEW c \in Client, toClient[c] # << >>
      PROVE  /\ c \in clients
             /\ Head(toClient[c]) = toClient[c][1] /\ 1 \in DOMAIN toClient[c]
             /\ toClient[c][1] \in MasterFrame
             /\ toClient[c][1] = InitRequest => cState[c] = "UNINITIALIZED"
             /\ cState[c] # "INITIALIZED" => toClient[c][1] = InitRequest
             /\ \A s : (toClient[c][1] = Disconnect => s = "UNINITIALIZED")
                     => RequestsPaired(Tail(toClient[c]), s)
             /\ toClient[c][1] # InitRequest /\ Carries(toClient[c], InitRequest)
                  => Carries(Tail(toClient[c]), InitRequest)
  <2>1. Head(toClient[c]) = toClient[c][1] /\ 1 \in DOMAIN toClient[c]
        /\ toClient[c][1] \in MasterFrame
    BY <1>t, <1>h, HeadIsFirst
  <2>2. c \in clients /\ RequestsPaired(toClient[c], cState[c])
        /\ RequestAwaited(toClient[c], cState[c])
    BY <1>t, <1>h DEF ClientInv
  <2>3. /\ toClient[c][1] = InitRequest => cState[c] = "UNINITIALIZED"
        /\ cState[c] # "INITIALIZED" => toClient[c][1] = InitRequest
    BY <2>1, <2>2 DEF RequestsPaired, RequestAwaited
  <2>4. \A s : (toClient[c][1] = Disconnect => s = "UNINITIALIZED")
               => RequestsPaired(Tail(toClient[c]), s)
    BY <1>t, <1>h, <2>2, PairedTail
  <2>5. toClient[c][1] # InitRequest /\ Carries(toClient[c], InitRequest)
          => Carries(Tail(toClient[c]), InitRequest)
    BY <1>t, <1>h, CarriesTail
  <2> QED
    BY <2>1, <2>2, <2>3, <2>4, <2>5
<1>7. ASSUME NEW c \in Client, ClientIgnores(c) PROVE FALSE
  BY <1>7, <1>h, FramesDistinct DEF ClientIgnores, NextForClient, InitRequest, Frame
<1>8. ASSUME NEW c \in Client, ClientAccepts(c), NEW d \in Client
      PROVE  ClientInv(d)'
  <2>1. CASE d # c
    BY <1>8, <2>1, Unaffected
    DEF ClientAccepts, ConsumeAtClient, TypeOK, masterVars
  <2>2. CASE d = c
    <3>1. /\ toClient[c] # << >> /\ Head(toClient[c]).type = "INIT_REQUEST"
          /\ clients' = clients /\ mState' = mState /\ received' = received
          /\ cState'[c] = "INITIALIZED"
          /\ toClient'[c] = Tail(toClient[c])
          /\ toMaster'[c] = toMaster[c] \o AcceptanceFrames
      BY <1>8 DEF ClientAccepts, NextForClient, ConsumeAtClient, TypeOK, masterVars
    <3>2. toClient[c][1] = InitRequest
      BY <1>h, <3>1, MasterFrameTypes
    <3>3. RequestsPaired(toClient'[c], cState'[c])
      BY <1>h, <3>1, <3>2, FramesDistinct
    <3>4. RequestAwaited(toClient'[c], cState'[c])
      BY <3>1 DEF RequestAwaited
    <3>5. MetaAhead(toMaster'[c], received'[c])
      BY <1>t, <3>1, MetaAcceptance DEF ClientInv
    <3>6. Carries(AcceptanceFrames, Accept) /\ ~ Carries(AcceptanceFrames, NotAccept)
      <4>1. DOMAIN AcceptanceFrames = 1 .. (Len(MetaNodes) + 1) /\ Len(MetaNodes) \in Nat
        BY AcceptanceFramesShape, LenProperties, MetaAssumption
      <4> QED
        BY <4>1, AcceptanceFramesShape, FramesDistinct DEF Carries
    <3>7. Carries(toMaster'[c], Accept) /\ ~ Carries(toMaster'[c], NotAccept)
      BY <1>t, <3>1, <3>6, AcceptanceFramesShape, CarriesConcat DEF ClientInv
    <3> QED
      BY <1>t, <1>h, <2>2, <3>1, <3>3, <3>4, <3>5, <3>7 DEF ClientInv, JustifiedWait, MetaHeld
  <2> QED
    BY <2>1, <2>2
<1>9. ASSUME NEW c \in Client, ClientRefuses(c) PROVE FALSE
  BY <1>9, <1>h, MasterFrameTypes DEF ClientRefuses, NextForClient
<1>10. ASSUME NEW c \in Client, ClientDisconnects(c), NEW d \in Client
       PROVE  ClientInv(d)'
  <2>1. CASE d # c
    BY <1>10, <2>1, Unaffected
    DEF ClientDisconnects, EventCleared, ConsumeAtClient, TypeOK, masterVars
  <2>2. CASE d = c
    <3>1. /\ toClient[c] # << >> /\ Head(toClient[c]).type = "DISCONNECT"
          /\ clients' = clients /\ mState' = mState /\ received' = received
          /\ cState'[c] = "UNINITIALIZED" /\ cEvent'[c] = FALSE
          /\ toClient'[c] = Tail(toClient[c]) /\ toMaster' = toMaster
      BY <1>10 DEF ClientDisconnects, EventCleared, NextForClient, ConsumeAtClient, TypeOK, masterVars
    <3>2. toClient[c][1] = Disconnect
      BY <1>h, <3>1, MasterFrameTypes
    <3>3. RequestsPaired(toClient'[c], cState'[c])
      BY <1>h, <3>1
    <3>4. 1 < Len(toClient[c]) /\ toClient[c][2] = InitRequest
      <4>1. RequestsPaired(toClient[c], cState[c])
        BY <1>t DEF ClientInv
      <4>2. 1 < Len(toClient[c]) /\ toClient[c][1 + 1] = InitRequest
        BY <1>h, <3>1, <3>2, <4>1 DEF RequestsPaired
      <4> QED
        BY <4>2
    <3>5. /\ Len(Tail(toClient[c])) = Len(toClient[c]) - 1
          /\ Tail(toClient[c]) \in Seq(MasterFrame)
          /\ \A i \in 1 .. Len(Tail(toClient[c])) : Tail(toClient[c])[i] = toClient[c][i + 1]
          /\ Len(toClient[c]) \in Nat
      BY <1>t, <3>1, HeadTailProperties, LenProperties
    <3>6. Tail(toClient[c])[1] = InitRequest /\ Tail(toClient[c]) # << >>
      <4>1. Len(Tail(toClient[c])) # 0 /\ 1 \in 1 .. Len(Tail(toClient[c])) /\ 1 + 1 = 2
        BY <3>4, <3>5
      <4>2. Tail(toClient[c])[1] = toClient[c][2]
        BY <3>5, <4>1
      <4>3. Tail(toClient[c]) # << >>
        BY <4>1, EmptySeq
      <4> QED
        BY <3>4, <4>2, <4>3
    <3>7. 1 \in DOMAIN Tail(toClient[c])
      BY <3>5, <3>6, HeadIsFirst
    <3>8. RequestAwaited(toClient'[c], cState'[c]) /\ Carries(toClient'[c], InitRequest)
      BY <3>1, <3>6, <3>7 DEF RequestAwaited, Carries
    <3> QED
      BY <1>t, <1>h, <2>2, <3>1, <3>3, <3>8 DEF ClientInv, JustifiedWait, MetaHeld
  <2> QED
    BY <2>1, <2>2
<1>11. ASSUME NEW c \in Client, ClientHandlesValue(c), NEW d \in Client
       PROVE  ClientInv(d)'
  <2>1. CASE d # c
    BY <1>11, <2>1, Unaffected
    DEF ClientHandlesValue, ConsumeAtClient, TypeOK, masterVars, clientVars
  <2>2. CASE d = c
    <3> DEFINE f == ReadResponse(Head(toClient[c]))
    <3>1. /\ toClient[c] # << >> /\ Head(toClient[c]).type \in {"WRITE", "READ_REQUEST"}
          /\ clients' = clients /\ mState' = mState /\ received' = received
          /\ cState' = cState /\ cEvent' = cEvent /\ cState[c] = "INITIALIZED"
          /\ toClient'[c] = Tail(toClient[c])
          /\ toMaster'[c] = toMaster[c] \/ toMaster'[c] = Append(toMaster[c], f)
      BY <1>11
      DEF ClientHandlesValue, NextForClient, ConsumeAtClient, TypeOK, masterVars, clientVars
    <3>2. /\ toClient[c][1] # InitRequest /\ toClient[c][1] # Disconnect
          /\ f \in ClientFrame /\ f # Accept /\ f # NotAccept
      BY <1>h, <3>1, MasterFrameTypes, ValueFrames, FramesDistinct DEF ReadResponse
    <3> HIDE DEF f
    <3>3. /\ RequestsPaired(toClient'[c], cState'[c])
          /\ Carries(toClient[c], InitRequest) => Carries(toClient'[c], InitRequest)
      BY <1>h, <3>1, <3>2
    <3>4. RequestAwaited(toClient'[c], cState'[c])
      BY <3>1 DEF RequestAwaited
    <3>5. /\ MetaAhead(toMaster'[c], received[c])
          /\ ~ Carries(toMaster'[c], NotAccept)
          /\ Carries(toMaster[c], Accept) => Carries(toMaster'[c], Accept)
      BY <1>t, <1>p, <3>1, <3>2 DEF ClientInv
    <3> QED
      BY <1>t, <1>h, <2>2, <3>1, <3>3, <3>4, <3>5 DEF ClientInv, JustifiedWait, MetaHeld
  <2> QED
    BY <2>1, <2>2
<1>m. ASSUME NEW c \in Client, toMaster[c] # << >>
      PROVE  /\ Head(toMaster[c]) = toMaster[c][1] /\ toMaster[c][1] \in ClientFrame
             /\ toMaster[c][1] # NotAccept /\ ~ Carries(Tail(toMaster[c]), NotAccept)
             /\ toMaster[c][1] # Accept /\ Carries(toMaster[c], Accept)
                  => Carries(Tail(toMaster[c]), Accept)
             /\ toMaster[c][1] = Accept
                  => \A k \in DOMAIN MetaNodes : MetaNodes[k] \in received[c]
  <2>1. Head(toMaster[c]) = toMaster[c][1] /\ 1 \in DOMAIN toMaster[c]
        /\ toMaster[c][1] \in ClientFrame
    BY <1>t, <1>m, HeadIsFirst
  <2>2. ~ Carries(toMaster[c], NotAccept) /\ MetaAhead(toMaster[c], received[c])
    BY <1>t DEF ClientInv
  <2>3. toMaster[c][1] # NotAccept /\ ~ Carries(Tail(toMaster[c]), NotAccept)
    BY <1>t, <1>m, <2>1, <2>2, CarriesTail DEF Carries
  <2>4. toMaster[c][1] # Accept /\ Carries(toMaster[c], Accept)
          => Carries(Tail(toMaster[c]), Accept)
    BY <1>t, <1>m, CarriesTail
  <2>5. toMaster[c][1] = Accept
          => \A k \in DOMAIN MetaNodes : MetaNodes[k] \in received[c]
    BY <2>1, <2>2 DEF MetaAhead
  <2> QED
    BY <2>1, <2>3, <2>4, <2>5
<1>12. ASSUME NEW c \in Client, MasterGetsAccept(c), NEW d \in Client
       PROVE  ClientInv(d)'
  <2>1. CASE d # c
    BY <1>12, <2>1, Unaffected
    DEF MasterGetsAccept, ConsumeAtMaster, TypeOK, clientVars
  <2>2. CASE d = c
    <3>1. /\ c \in clients /\ toMaster[c] # << >> /\ Head(toMaster[c]).type = "ACCEPT"
          /\ clients' = clients /\ received' = received /\ cState' = cState /\ cEvent' = cEvent
          /\ toClient' = toClient /\ mState'[c] = "INITIALIZED"
          /\ toMaster'[c] = Tail(toMaster[c])
      BY <1>12 DEF MasterGetsAccept, NextForMaster, ConsumeAtMaster, TypeOK, clientVars
    <3>2. toMaster[c][1] = Accept
      BY <1>m, <3>1, ClientFrameTypes
    <3>3. MetaAhead(toMaster'[c], received[c])
      BY <1>t, <3>1, <3>2, MetaTail, FramesDistinct DEF ClientInv
    <3> QED
      BY <1>t, <1>m, <2>2, <3>1, <3>2, <3>3 DEF ClientInv, JustifiedWait, MetaHeld
  <2> QED
    BY <2>1, <2>2
<1>13. ASSUME NEW c \in Client, MasterGetsRefusal(c) PROVE FALSE
  BY <1>13, <1>m, ClientFrameTypes DEF MasterGetsRefusal, NextForMaster
<1>14. ASSUME NEW c \in Client, MasterIgnoresResponse(c), NEW d \in Client
       PROVE  ClientInv(d)'
  <2>1. CASE d # c
    BY <1>14, <2>1, Unaffected
    DEF MasterIgnoresResponse, ConsumeAtMaster, TypeOK, masterVars, clientVars
  <2>2. CASE d = c
    <3>1. /\ c \in clients /\ toMaster[c] # << >>
          /\ Head(toMaster[c]).type \in {"ACCEPT", "NOT_ACCEPT"}
          /\ clients' = clients /\ received' = received /\ cState' = cState /\ cEvent' = cEvent
          /\ toClient' = toClient /\ mState' = mState /\ mState[c] # "INITIALIZING"
          /\ toMaster'[c] = Tail(toMaster[c])
      BY <1>14
      DEF MasterIgnoresResponse, NextForMaster, ConsumeAtMaster, TypeOK, masterVars, clientVars
    <3>2. toMaster[c][1] = Accept
      BY <1>m, <3>1, ClientFrameTypes
    <3>3. MetaAhead(toMaster'[c], received[c])
      BY <1>t, <3>1, <3>2, MetaTail, FramesDistinct DEF ClientInv
    <3> QED
      BY <1>t, <1>m, <2>2, <3>1, <3>3 DEF ClientInv, JustifiedWait, MetaHeld
  <2> QED
    BY <2>1, <2>2
<1>15. ASSUME NEW c \in Client, MasterHandlesValue(c), NEW d \in Client
       PROVE  ClientInv(d)'
  <2>1. CASE d # c
    BY <1>15, <2>1, Unaffected
    DEF MasterHandlesValue, ConsumeAtMaster, TypeOK, clientVars
  <2>2. CASE d = c
    <3>1. /\ c \in clients /\ toMaster[c] # << >>
          /\ Head(toMaster[c]).type \in {"WRITE", "READ_RESPONSE"}
          /\ clients' = clients /\ cState' = cState /\ cEvent' = cEvent
          /\ toClient' = toClient /\ mState' = mState
          /\ received'[c] = received[c] \cup {Head(toMaster[c]).node}
          /\ toMaster'[c] = Tail(toMaster[c])
      BY <1>15 DEF MasterHandlesValue, NextForMaster, ConsumeAtMaster, TypeOK, clientVars
    <3>2. toMaster[c][1] # Accept
      BY <1>m, <3>1, ClientFrameTypes
    <3>3. \A n \in Node : toMaster[c][1] = Frame("WRITE", n) => n \in received'[c]
      BY <1>m, <3>1 DEF Frame
    <3>4. MetaAhead(toMaster'[c], received'[c])
      BY <1>t, <3>1, <3>3, MetaTail DEF ClientInv
    <3> QED
      BY <1>t, <1>m, <2>2, <3>1, <3>2, <3>4 DEF ClientInv, JustifiedWait, MetaHeld
  <2> QED
    BY <2>1, <2>2
<1>16. ASSUME UNCHANGED vars, NEW d \in Client PROVE ClientInv(d)'
  BY <1>16, Unaffected DEF vars, masterVars, clientVars
<1>17. ASSUME NEW d \in Client PROVE ClientInv(d)'
  BY <1>1, <1>2, <1>3, <1>4, <1>5, <1>6, <1>7, <1>8, <1>9, <1>10, <1>11, <1>12, <1>13,
     <1>14, <1>15, <1>16
  DEF Next, ApplicationConnects, ApplicationUses, LinkStep, ClientProcessesFrame, MasterProcessesFrame
<1> QED
  BY <1>17 DEF LinkInv

(* The invariant of the handshake holds in every behaviour. *)
THEOREM LinkInvariant == Spec => []LinkInv
<1>1. Spec => [](TypeOK /\ LinkInv)
  BY TypeInit, TypeStep, InvInit, InvStep, PTL DEF Spec
<1> QED
  BY <1>1, PTL

-----------------------------------------------------------------------------
(* What follows from the invariant.                                        *)

(* The handshake leaves no half-open connection: when a client's channels *)
(* are empty, master and client both are connected.                        *)
THEOREM QuietLinkIsConnected == Spec => []QuietMeansConnected
<1>1. TypeOK /\ LinkInv => QuietMeansConnected
  <2> SUFFICES ASSUME TypeOK, LinkInv, NEW c \in clients,
                      toClient[c] = << >>, toMaster[c] = << >>
               PROVE  mState[c] = "INITIALIZED" /\ cState[c] = "INITIALIZED"
    BY DEF QuietMeansConnected
  <2>1. c \in Client /\ mState[c] \in CommunicationState /\ ClientInv(c)
    BY DEF TypeOK, LinkInv
  <2>2. mState[c] # "UNINITIALIZED" /\ RequestAwaited(toClient[c], cState[c]) /\ JustifiedWait(c)
    BY <2>1 DEF ClientInv
  <2>3. mState[c] # "INITIALIZING"
    BY <2>2, EmptyChannel DEF JustifiedWait
  <2>4. cState[c] = "INITIALIZED"
    BY <2>2 DEF RequestAwaited
  <2> QED
    BY <2>1, <2>2, <2>3, <2>4 DEF CommunicationState
<1> QED
  BY <1>1, TypeCorrect, LinkInvariant, PTL

(* The client's guard against frames outside a connection never discards  *)
(* a frame of its master.                                                  *)
THEOREM MasterIsNeverIgnored == Spec => []NothingIgnored
<1>1. TypeOK /\ LinkInv => NothingIgnored
  <2> SUFFICES ASSUME TypeOK, LinkInv, NEW c \in Client,
                      toClient[c] # << >>, Head(toClient[c]) # InitRequest
               PROVE  cState[c] = "INITIALIZED"
    BY DEF NothingIgnored
  <2>1. toClient[c] \in Seq(MasterFrame) /\ ClientInv(c)
    BY DEF TypeOK, LinkInv
  <2>2. Head(toClient[c]) = toClient[c][1]
    BY <2>1, HeadIsFirst
  <2> QED
    BY <2>1, <2>2 DEF ClientInv, RequestAwaited
<1> QED
  BY <1>1, TypeCorrect, LinkInvariant, PTL

(* A master that takes a client for connected holds all its _meta values. *)
THEOREM MetaArrivesFirst == Spec => []MetaBeforeConnected
<1>1. TypeOK /\ LinkInv => MetaBeforeConnected
  BY DEF TypeOK, LinkInv, ClientInv, MetaBeforeConnected
<1> QED
  BY <1>1, TypeCorrect, LinkInvariant, PTL

(* The client's gotConnectedEvent never outlives its connection. *)
THEOREM ClientEventIsFresh == Spec => []ClientEventFresh
<1>1. LinkInv => ClientEventFresh
  BY DEF LinkInv, ClientInv, ClientEventFresh
<1> QED
  BY <1>1, LinkInvariant, PTL

-----------------------------------------------------------------------------
(* The invariant under faults.  Of what was in the channels before the     *)
(* attempt nothing is known; but the attempt put an init request behind    *)
(* it, and ever since disconnects have come with one behind them.          *)
InitBehind(channel) ==
  \A i \in DOMAIN channel : channel[i] = Disconnect
    => \E j \in DOMAIN channel : j > i /\ channel[j] = InitRequest

(* A client that is not connected will get an init request. *)
WillConnect(channel, state) == state = "INITIALIZED" \/ Carries(channel, InitRequest)

(* A master that waits will get an answer of either kind. *)
Awaits(state, toC, toM) ==
  state = "INITIALIZING"
    => Carries(toC, InitRequest) \/ Carries(toM, Accept) \/ Carries(toM, NotAccept)

Underway(c) ==
  /\ c \in clients
  /\ InitBehind(toClient[c])
  /\ WillConnect(toClient[c], cState[c])
  /\ Awaits(mState[c], toClient[c], toMaster[c])

FaultInv ==
  /\ TypeOK
  /\ \A c \in Client :
       /\ cState[c] # "INITIALIZING"
       /\ c \in clients => mState[c] # "UNINITIALIZED"
       /\ c \in attempted => Underway(c)

-----------------------------------------------------------------------------
(* How its parts change with the channels. *)

(* The init request of an attempt, behind any frames. *)
LEMMA BehindAppendedInit ==
  ASSUME NEW q \in Seq(MasterFrame)
  PROVE  InitBehind(Append(q, InitRequest)) /\ Carries(Append(q, InitRequest), InitRequest)
<1> DEFINE r == Append(q, InitRequest)
<1>1. DOMAIN q = 1 .. Len(q) /\ Len(q) \in Nat
  BY LenProperties
<1>2. /\ r \in Seq(MasterFrame) /\ Len(r) = Len(q) + 1
      /\ r[Len(q) + 1] = InitRequest
  BY AppendProperties, FramesDistinct
<1>3. DOMAIN r = 1 .. (Len(q) + 1)
  BY <1>2, LenProperties
<1> HIDE DEF r
<1>4. InitBehind(r) /\ Carries(r, InitRequest)
  BY <1>1, <1>2, <1>3, FramesDistinct DEF InitBehind, Carries
<1> QED
  BY <1>4 DEF r

(* The pair of a reconnect, behind any frames. *)
LEMMA BehindReconnect ==
  ASSUME NEW q \in Seq(MasterFrame)
  PROVE  /\ InitBehind(q \o ReconnectFrames)
         /\ Carries(q \o ReconnectFrames, InitRequest)
<1> DEFINE p == Append(q, Disconnect)
<1>1. p \in Seq(MasterFrame)
  BY AppendProperties, FramesDistinct
<1>2. q \o ReconnectFrames = Append(p, InitRequest)
  BY FramesDistinct DEF ReconnectFrames
<1> HIDE DEF p
<1> QED
  BY <1>1, <1>2, BehindAppendedInit

(* A frame with a value changes nothing. *)
LEMMA BehindAppend ==
  ASSUME NEW q \in Seq(MasterFrame), NEW f \in MasterFrame, InitBehind(q), f # Disconnect
  PROVE  InitBehind(Append(q, f))
<1>1. DOMAIN q = 1 .. Len(q) /\ Len(q) \in Nat
  BY LenProperties
<1>2. /\ Append(q, f) \in Seq(MasterFrame)
      /\ Len(Append(q, f)) = Len(q) + 1
      /\ \A i \in 1 .. Len(q) : Append(q, f)[i] = q[i]
      /\ Append(q, f)[Len(q) + 1] = f
  BY AppendProperties
<1>3. DOMAIN Append(q, f) = 1 .. (Len(q) + 1)
  BY <1>2, LenProperties
<1> QED
  BY <1>1, <1>2, <1>3 DEF InitBehind

(* A frame taken: behind a disconnect there is an init request. *)
LEMMA BehindTail ==
  ASSUME NEW q \in Seq(MasterFrame), q # << >>, InitBehind(q)
  PROVE  /\ InitBehind(Tail(q))
         /\ q[1] = Disconnect => Carries(Tail(q), InitRequest)
<1>1. DOMAIN q = 1 .. Len(q) /\ Len(q) \in Nat /\ Len(q) # 0
  BY LenProperties, EmptySeq
<1>2. /\ Tail(q) \in Seq(MasterFrame)
      /\ Len(Tail(q)) = Len(q) - 1
      /\ \A i \in 1 .. Len(Tail(q)) : Tail(q)[i] = q[i + 1]
  BY HeadTailProperties
<1>3. DOMAIN Tail(q) = 1 .. (Len(q) - 1)
  BY <1>2, LenProperties
<1>4. ASSUME NEW i \in DOMAIN Tail(q) PROVE i + 1 \in DOMAIN q /\ Tail(q)[i] = q[i + 1]
  BY <1>1, <1>2, <1>3, <1>4
<1>5. ASSUME NEW j \in DOMAIN q, j > 1 PROVE j - 1 \in DOMAIN Tail(q) /\ Tail(q)[j - 1] = q[j]
  BY <1>1, <1>2, <1>3, <1>5
<1>6. ASSUME NEW i \in DOMAIN Tail(q), Tail(q)[i] = Disconnect
      PROVE  \E j \in DOMAIN Tail(q) : j > i /\ Tail(q)[j] = InitRequest
  <2>1. PICK j \in DOMAIN q : j > i + 1 /\ q[j] = InitRequest
    BY <1>4, <1>6 DEF InitBehind
  <2>2. j > 1 /\ j - 1 > i
    BY <1>1, <1>3, <1>6, <2>1
  <2> QED
    BY <1>5, <2>1, <2>2
<1>7. ASSUME q[1] = Disconnect PROVE Carries(Tail(q), InitRequest)
  <2>1. PICK j \in DOMAIN q : j > 1 /\ q[j] = InitRequest
    BY <1>1, <1>7 DEF InitBehind
  <2> QED
    BY <1>5, <2>1 DEF Carries
<1> QED
  BY <1>6, <1>7 DEF InitBehind

-----------------------------------------------------------------------------
(* The initial state, and the steps of the link without faults. *)
LEMMA FaultInit == Init => FaultInv
<1> SUFFICES ASSUME Init PROVE FaultInv
  OBVIOUS
<1> QED
  BY TypeInit DEF Init, FaultInv

(* A step that leaves a client's part of the state alone. *)
LEMMA OthersUnderway ==
  ASSUME NEW d \in Client, Underway(d), clients \subseteq clients',
         mState'[d] = mState[d], cState'[d] = cState[d],
         toClient'[d] = toClient[d], toMaster'[d] = toMaster[d]
  PROVE  Underway(d)'
BY DEF Underway, Awaits

(* The attempts themselves. *)
LEMMA AttemptStep ==
  ASSUME FaultInv, NEW c \in Client, ApplicationConnects(c), NEW d \in Client
  PROVE  /\ cState'[d] # "INITIALIZING"
         /\ d \in clients' => mState'[d] # "UNINITIALIZED"
         /\ d \in attempted' => Underway(d)'
<1>1. /\ cState' = cState /\ toMaster' = toMaster /\ clients' = clients \cup {c}
      /\ mState' = [mState EXCEPT ![c] = "INITIALIZING"]
      /\ attempted' = attempted \cup {c}
      /\ \/ toClient' = [toClient EXCEPT ![c] = Append(@, InitRequest)]
         \/ toClient' = [toClient EXCEPT ![c] = @ \o ReconnectFrames]
  BY DEF ApplicationConnects, AddAndConnectToClient, ApplicationReconnects,
         reconnectToClient, clientVars
<1>2. mState \in [Client -> CommunicationState] /\ toClient \in [Client -> Seq(MasterFrame)]
  BY DEF FaultInv, TypeOK
<1>3. InitBehind(toClient'[c]) /\ Carries(toClient'[c], InitRequest)
  BY <1>1, <1>2, BehindAppendedInit, BehindReconnect
<1>4. CASE d = c
  BY <1>1, <1>2, <1>3, <1>4 DEF FaultInv, Underway, WillConnect, Awaits
<1>5. CASE d # c
  <2>1. d \in attempted => Underway(d)'
    BY <1>1, <1>2, <1>5, OthersUnderway DEF FaultInv
  <2> QED
    BY <1>1, <1>2, <1>5, <2>1 DEF FaultInv
<1> QED
  BY <1>4, <1>5

(* What the applications send and take. *)
LEMMA UseStep ==
  ASSUME FaultInv, NEW c \in Client, ApplicationUses(c), NEW d \in Client,
         d \in attempted, Underway(d)
  PROVE  Underway(d)'
<1> USE DEF FaultInv, TypeOK
<1>1. /\ clients' = clients /\ mState' = mState /\ cState' = cState
      /\ \/ toClient' = toClient
         \/ \E f \in MasterFrame \ {Disconnect, InitRequest} :
              toClient' = [toClient EXCEPT ![c] = Append(@, f)]
      /\ \/ toMaster' = toMaster
         \/ \E f \in ClientFrame : toMaster' = [toMaster EXCEPT ![c] = Append(@, f)]
  BY ValueFrames, FramesDistinct
     DEF ApplicationUses, MasterSends, ClientSends, MasterTakesEvent, ClientTakesEvent,
         masterVars, clientVars
<1>2. CASE d # c
  BY <1>1, <1>2, OthersUnderway
<1>3. CASE d = c
  <2>1. toClient[c] \in Seq(MasterFrame) /\ toMaster[c] \in Seq(ClientFrame)
    OBVIOUS
  <2>2. /\ InitBehind(toClient'[c])
        /\ Carries(toClient[c], InitRequest) => Carries(toClient'[c], InitRequest)
    <3>1. CASE toClient' = toClient
      BY <1>3, <3>1 DEF Underway
    <3>2. ASSUME NEW f \in MasterFrame \ {Disconnect, InitRequest},
                 toClient' = [toClient EXCEPT ![c] = Append(@, f)]
          PROVE  /\ InitBehind(toClient'[c])
                 /\ Carries(toClient[c], InitRequest) => Carries(toClient'[c], InitRequest)
      <4>1. toClient'[c] = Append(toClient[c], f)
        BY <3>2
      <4> QED
        BY <1>3, <2>1, <4>1, BehindAppend, CarriesAppend DEF Underway
    <3> QED
      BY <1>1, <3>1, <3>2
  <2>3. \A g : Carries(toMaster[c], g) => Carries(toMaster'[c], g)
    <3>1. ASSUME NEW f \in ClientFrame, toMaster' = [toMaster EXCEPT ![c] = Append(@, f)]
          PROVE  \A g : Carries(toMaster[c], g) => Carries(toMaster'[c], g)
      BY <2>1, <3>1, CarriesAppend
    <3> QED
      BY <1>1, <3>1
  <2> QED
    BY <1>1, <1>3, <2>2, <2>3 DEF Underway, WillConnect, Awaits
<1> QED
  BY <1>2, <1>3

(* An acceptance accepts, behind any frames. *)
LEMMA CarriesAcceptance ==
  ASSUME NEW p \in Seq(ClientFrame)
  PROVE  Carries(p \o AcceptanceFrames, Accept)
<1>1. Len(MetaNodes) \in Nat /\ DOMAIN AcceptanceFrames = 1 .. (Len(MetaNodes) + 1)
  BY AcceptanceFramesShape, LenProperties, MetaAssumption
<1>2. Len(MetaNodes) + 1 \in DOMAIN AcceptanceFrames
  BY <1>1
<1>3. Carries(AcceptanceFrames, Accept)
  BY <1>2, AcceptanceFramesShape DEF Carries
<1> QED
  BY <1>3, AcceptanceFramesShape, CarriesConcat

(* A client's processing of a frame. *)
LEMMA ClientStep ==
  ASSUME FaultInv, NEW c \in Client, ClientProcessesFrame(c)
  PROVE  /\ clients' = clients /\ mState' = mState /\ attempted' = attempted
         /\ \A d \in Client \ {c} : /\ cState'[d] = cState[d]
                                    /\ toClient'[d] = toClient[d] /\ toMaster'[d] = toMaster[d]
         /\ cState'[c] # "INITIALIZING"
         /\ Underway(c) => Underway(c)'
<1> USE DEF FaultInv, TypeOK
<1> DEFINE q == toClient[c]
           p == toMaster[c]
<1>1. /\ q \in Seq(MasterFrame) /\ p \in Seq(ClientFrame) /\ q # << >>
      /\ Head(q) = q[1] /\ q[1] \in MasterFrame
  BY HeadIsFirst
     DEF ClientProcessesFrame, ClientIgnores, ClientAccepts, ClientRefuses,
         ClientDisconnects, ClientHandlesValue, NextForClient
<1>2. /\ clients' = clients /\ mState' = mState /\ attempted' = attempted
      /\ toClient' = [toClient EXCEPT ![c] = Tail(q)]
  BY DEF ClientProcessesFrame, ClientIgnores, ClientAccepts, ClientRefuses,
         ClientDisconnects, ClientHandlesValue, ConsumeAtClient,
         masterVars, clientVars, budgetVars
<1>3. \/ /\ q[1] = InitRequest
         /\ cState'[c] = "INITIALIZED"
         /\ toMaster'[c] = p \o AcceptanceFrames
      \/ /\ q[1] = InitRequest
         /\ cState'[c] = cState[c] /\ cState[c] = "INITIALIZED"
         /\ toMaster'[c] = Append(p, NotAccept)
      \/ /\ q[1] = Disconnect
         /\ cState'[c] \in {cState[c], "UNINITIALIZED"}
         /\ toMaster'[c] = p
      \/ /\ q[1] # InitRequest /\ cState'[c] = cState[c]
         /\ \/ toMaster'[c] = p
            \/ \E f \in ClientFrame : toMaster'[c] = Append(p, f)
  <2>1. CASE ClientIgnores(c)
    BY <1>1, <2>1, MasterFrameTypes
       DEF ClientIgnores, NextForClient, MasterFrameType, clientVars
  <2>2. CASE ClientAccepts(c)
    BY <1>1, <2>2, MasterFrameTypes DEF ClientAccepts, NextForClient
  <2>3. CASE ClientRefuses(c)
    BY <1>1, <2>3, MasterFrameTypes
       DEF ClientRefuses, NextForClient, clientVars, CommunicationState
  <2>4. CASE ClientDisconnects(c)
    BY <1>1, <2>4, MasterFrameTypes DEF ClientDisconnects, NextForClient
  <2>5. CASE ClientHandlesValue(c)
    <3>1. q[1] # InitRequest /\ ReadResponse(q[1]) \in ClientFrame
      BY <1>1, <2>5, MasterFrameTypes, ValueFrames
         DEF ClientHandlesValue, NextForClient, ReadResponse
    <3> QED
      BY <1>1, <2>5, <3>1 DEF ClientHandlesValue, clientVars
  <2> QED
    BY <2>1, <2>2, <2>3, <2>4, <2>5 DEF ClientProcessesFrame
<1>4. \A d \in Client \ {c} : /\ cState'[d] = cState[d] /\ toClient'[d] = toClient[d]
                              /\ toMaster'[d] = toMaster[d]
  BY DEF ClientProcessesFrame, ClientIgnores, ClientAccepts, ClientRefuses,
         ClientDisconnects, ClientHandlesValue, ConsumeAtClient, clientVars
<1>5. cState'[c] # "INITIALIZING"
  BY <1>3
<1>6. ASSUME Underway(c) PROVE Underway(c)'
  <2>1. toClient'[c] = Tail(q) /\ InitBehind(q)
    BY <1>2, <1>6 DEF Underway
  <2>2. InitBehind(Tail(q)) /\ (q[1] = Disconnect => Carries(Tail(q), InitRequest))
    BY <1>1, <2>1, BehindTail
  <2>3. q[1] # InitRequest /\ Carries(q, InitRequest) => Carries(Tail(q), InitRequest)
    BY <1>1, CarriesTail
  <2>4. WillConnect(Tail(q), cState'[c])
    BY <1>3, <1>6, <2>2, <2>3 DEF Underway, WillConnect
  <2>5. q[1] = InitRequest => Carries(toMaster'[c], Accept) \/ Carries(toMaster'[c], NotAccept)
    <3>1. Carries(p \o AcceptanceFrames, Accept)
      BY <1>1, CarriesAcceptance
    <3>2. Carries(Append(p, NotAccept), NotAccept)
      BY <1>1, FramesDistinct, CarriesAppend
    <3> QED
      BY <1>3, <3>1, <3>2, FramesDistinct
  <2>6. q[1] # InitRequest => \A g : Carries(p, g) => Carries(toMaster'[c], g)
    <3>1. \A f \in ClientFrame : \A g : Carries(p, g) => Carries(Append(p, f), g)
      BY <1>1, CarriesAppend
    <3> QED
      BY <1>3, <3>1
  <2>7. Awaits(mState'[c], toClient'[c], toMaster'[c])
    BY <1>2, <1>6, <2>1, <2>3, <2>5, <2>6 DEF Underway, Awaits
  <2> QED
    BY <1>2, <1>6, <2>1, <2>2, <2>4, <2>7 DEF Underway
<1> QED
  BY <1>2, <1>4, <1>5, <1>6

(* The master's processing of a frame. *)
LEMMA MasterStep ==
  ASSUME FaultInv, NEW c \in Client, MasterProcessesFrame(c)
  PROVE  /\ clients' = clients /\ cState' = cState /\ attempted' = attempted
         /\ \A d \in Client \ {c} : /\ mState'[d] = mState[d]
                                    /\ toClient'[d] = toClient[d] /\ toMaster'[d] = toMaster[d]
         /\ c \in clients /\ mState'[c] # "UNINITIALIZED"
         /\ Underway(c) => Underway(c)'
<1> USE DEF FaultInv, TypeOK
<1> DEFINE q == toClient[c]
           p == toMaster[c]
<1>1. /\ q \in Seq(MasterFrame) /\ p \in Seq(ClientFrame) /\ p # << >>
      /\ Head(p) = p[1] /\ p[1] \in ClientFrame /\ c \in clients
  BY HeadIsFirst
     DEF MasterProcessesFrame, MasterGetsAccept, MasterGetsRefusal, MasterIgnoresResponse,
         MasterHandlesValue, NextForMaster
<1>2. /\ clients' = clients /\ cState' = cState /\ attempted' = attempted
      /\ toMaster' = [toMaster EXCEPT ![c] = Tail(p)]
  BY DEF MasterProcessesFrame, MasterGetsAccept, MasterGetsRefusal, MasterIgnoresResponse,
         MasterHandlesValue, ConsumeAtMaster, masterVars, clientVars, budgetVars
<1>3. \/ /\ mState'[c] = "INITIALIZED" /\ toClient'[c] = q
      \/ /\ mState'[c] = "INITIALIZING" /\ toClient'[c] = q \o ReconnectFrames
      \/ /\ mState[c] # "INITIALIZING" /\ mState'[c] = mState[c] /\ toClient'[c] = q
      \/ /\ p[1] # Accept /\ p[1] # NotAccept /\ mState'[c] = mState[c] /\ toClient'[c] = q
  BY <1>1, ClientFrameTypes
     DEF MasterProcessesFrame, MasterGetsAccept, MasterGetsRefusal, MasterIgnoresResponse,
         MasterHandlesValue, NextForMaster, reconnectToClient, masterVars
<1>4. \A d \in Client \ {c} : /\ mState'[d] = mState[d] /\ toClient'[d] = toClient[d]
                              /\ toMaster'[d] = toMaster[d]
  BY DEF MasterProcessesFrame, MasterGetsAccept, MasterGetsRefusal, MasterIgnoresResponse,
         MasterHandlesValue, ConsumeAtMaster, reconnectToClient, masterVars
<1>5. mState'[c] # "UNINITIALIZED"
  BY <1>1, <1>3
<1>6. ASSUME Underway(c) PROVE Underway(c)'
  <2>1. CASE toClient'[c] = q \o ReconnectFrames
    BY <1>1, <1>2, <2>1, BehindReconnect DEF Underway, WillConnect, Awaits
  <2>2. CASE toClient'[c] = q /\ mState'[c] # "INITIALIZING"
    BY <1>1, <1>2, <1>6, <2>2 DEF Underway, WillConnect, Awaits
  <2>3. CASE /\ p[1] # Accept /\ p[1] # NotAccept
             /\ mState'[c] = mState[c] /\ toClient'[c] = q
    <3>1. \A g \in {Accept, NotAccept} : Carries(p, g) => Carries(Tail(p), g)
      BY <1>1, <2>3, CarriesTail
    <3> QED
      BY <1>1, <1>2, <1>6, <2>3, <3>1 DEF Underway, WillConnect, Awaits
  <2> QED
    BY <1>3, <2>1, <2>2, <2>3
<1> QED
  BY <1>1, <1>2, <1>4, <1>5, <1>6

(* Every step of the link without faults. *)
LEMMA LinkStepKeeps ==
  ASSUME FaultInv, Next
  PROVE  FaultInv'
<1>1. TypeOK'
  BY TypeStep DEF FaultInv
<1>2. PICK c \in Client : ApplicationConnects(c) \/ LinkStep(c)
  BY DEF Next
<1>3. ASSUME NEW d \in Client
      PROVE  /\ cState'[d] # "INITIALIZING"
             /\ d \in clients' => mState'[d] # "UNINITIALIZED"
             /\ d \in attempted' => Underway(d)'
  <2>1. CASE ApplicationConnects(c)
    BY <2>1, AttemptStep
  <2>2. CASE ApplicationUses(c)
    <3>1. /\ clients' = clients /\ mState' = mState /\ cState' = cState
          /\ attempted' = attempted
      BY <2>2 DEF ApplicationUses, MasterSends, ClientSends, MasterTakesEvent,
                  ClientTakesEvent, masterVars, clientVars, budgetVars
    <3> QED
      BY <2>2, <3>1, UseStep DEF FaultInv
  <2>3. CASE ClientProcessesFrame(c)
    <3>1. /\ clients' = clients /\ mState' = mState /\ attempted' = attempted
          /\ \A e \in Client \ {c} : /\ cState'[e] = cState[e]
                                     /\ toClient'[e] = toClient[e] /\ toMaster'[e] = toMaster[e]
          /\ cState'[c] # "INITIALIZING"
          /\ Underway(c) => Underway(c)'
      BY <2>3, ClientStep
    <3>2. d # c /\ Underway(d) => Underway(d)'
      BY <3>1, OthersUnderway
    <3> QED
      BY <3>1, <3>2 DEF FaultInv
  <2>4. CASE MasterProcessesFrame(c)
    <3>1. /\ clients' = clients /\ cState' = cState /\ attempted' = attempted
          /\ \A e \in Client \ {c} : /\ mState'[e] = mState[e]
                                     /\ toClient'[e] = toClient[e] /\ toMaster'[e] = toMaster[e]
          /\ mState'[c] # "UNINITIALIZED"
          /\ Underway(c) => Underway(c)'
      BY <2>4, MasterStep
    <3>2. d # c /\ Underway(d) => Underway(d)'
      BY <3>1, OthersUnderway
    <3> QED
      BY <3>1, <3>2 DEF FaultInv
  <2> QED
    BY <1>2, <2>1, <2>2, <2>3, <2>4 DEF LinkStep
<1> QED
  BY <1>1, <1>3 DEF FaultInv

-----------------------------------------------------------------------------
(* Faults end every attempt; only the types are left to show. *)
LEMMA Pieces ==
  ASSUME NEW S, NEW q \in Seq(S), NEW k \in Nat, NEW m \in 0 .. Len(q), k # 0
  PROVE  SubSeq(q, k, m) \in Seq(S)
<1>1. \A i \in k .. m : q[i] \in S
  BY ElementOfSeq, LenProperties
<1> QED
  BY <1>1, LenProperties, SubSeqProperties

LEMMA Forgotten ==
  ASSUME TypeOK, MasterForgets
  PROVE  /\ clients' = {} /\ mState' = [c \in Client |-> "UNINITIALIZED"]
         /\ mEvent' \in [Client -> BOOLEAN] /\ received' \in [Client -> SUBSET Node]
         /\ toMaster' \in [Client -> Seq(ClientFrame)]
         /\ UNCHANGED clientVars
<1>1. PICK lost \in [Client -> UNION {0 .. Len(toMaster[c]) : c \in Client}] :
        /\ \A c \in Client : lost[c] <= Len(toMaster[c])
        /\ toMaster' = [c \in Client |-> SubSeq(toMaster[c], lost[c] + 1, Len(toMaster[c]))]
  BY DEF MasterForgets
<1>2. ASSUME NEW c \in Client
      PROVE  SubSeq(toMaster[c], lost[c] + 1, Len(toMaster[c])) \in Seq(ClientFrame)
  <2>1. toMaster[c] \in Seq(ClientFrame) /\ Len(toMaster[c]) \in Nat
    BY LenProperties DEF TypeOK
  <2>2. lost[c] \in Nat
    <3>1. PICK e \in Client : lost[c] \in 0 .. Len(toMaster[e])
      OBVIOUS
    <3> QED
      BY <3>1
  <2>3. lost[c] + 1 \in Nat /\ lost[c] + 1 # 0 /\ Len(toMaster[c]) \in 0 .. Len(toMaster[c])
    BY <2>1, <2>2
  <2> QED
    BY <2>1, <2>3, Pieces
<1>3. toMaster' \in [Client -> Seq(ClientFrame)]
  BY <1>1, <1>2
<1> QED
  BY <1>3 DEF MasterForgets

LEMMA FaultKeeps ==
  ASSUME FaultInv, NEW c \in Client, FaultStep(c)
  PROVE  FaultInv'
<1> USE DEF FaultInv, TypeOK
<1>1. attempted' = {} /\ faults' \in Nat
  <2>1. \E kind \in FaultKinds : Fault(kind)
    BY DEF FaultStep, FrameToClientLost, FrameToMasterLost, ClientRestarts, MasterRestarts,
           MasterDiesReconnecting, Fault
  <2> QED
    BY <2>1 DEF Fault
<1>2. toClient[c] \in Seq(MasterFrame) /\ toMaster[c] \in Seq(ClientFrame)
  OBVIOUS
<1>3. CASE FrameToClientLost(c)
  <2>1. Tail(toClient[c]) \in Seq(MasterFrame)
    BY <1>2, <1>3, HeadTailProperties DEF FrameToClientLost
  <2> QED
    BY <1>1, <1>3, <2>1 DEF FrameToClientLost, ConsumeAtClient, masterVars, clientVars
<1>4. CASE FrameToMasterLost(c)
  <2>1. Tail(toMaster[c]) \in Seq(ClientFrame)
    BY <1>2, <1>4, HeadTailProperties DEF FrameToMasterLost
  <2> QED
    BY <1>1, <1>4, <2>1 DEF FrameToMasterLost, ConsumeAtMaster, masterVars, clientVars
<1>5. CASE ClientRestarts(c)
  <2>1. \A k \in 1 .. Len(toClient[c]) + 1 :
          SubSeq(toClient[c], k, Len(toClient[c])) \in Seq(MasterFrame)
    BY <1>2, LenProperties, Pieces
  <2>2. \A k \in 0 .. Len(toMaster[c]) : SubSeq(toMaster[c], 1, k) \in Seq(ClientFrame)
    BY <1>2, Pieces
  <2>3. toClient' \in [Client -> Seq(MasterFrame)] /\ toMaster' \in [Client -> Seq(ClientFrame)]
    BY <1>5, <2>1, <2>2 DEF ClientRestarts
  <2> QED
    BY <1>1, <1>5, <2>3 DEF ClientRestarts, masterVars, CommunicationState
<1>6. CASE MasterRestarts
  BY <1>1, <1>6, Forgotten DEF MasterRestarts, clientVars, CommunicationState
<1>7. CASE MasterDiesReconnecting(c)
  <2>1. Append(toClient[c], Disconnect) \in Seq(MasterFrame)
    BY <1>2, FramesDistinct, AppendProperties
  <2>2. toClient' \in [Client -> Seq(MasterFrame)]
    BY <1>7, <2>1 DEF MasterDiesReconnecting
  <2>3. reconnects' \in 0 .. MaxReconnect /\ sends' = sends /\ MasterForgets
    <3>1. /\ reconnects < MaxReconnect /\ reconnects' = reconnects + 1
          /\ sends' = sends /\ MasterForgets
      BY <1>7, Zenon DEF MasterDiesReconnecting
    <3>2. reconnects' \in 0 .. MaxReconnect
      BY <3>1, BoundAssumption
    <3> QED
      BY <3>1, <3>2, Zenon
  <2>4. /\ clients' = {} /\ mState' = [d \in Client |-> "UNINITIALIZED"]
        /\ mEvent' \in [Client -> BOOLEAN] /\ received' \in [Client -> SUBSET Node]
        /\ toMaster' \in [Client -> Seq(ClientFrame)]
        /\ cState' = cState /\ cEvent' = cEvent /\ masterKnown' = masterKnown
    BY <2>3, Forgotten DEF clientVars
  <2>5. mState' \in [Client -> CommunicationState]
    BY <2>4 DEF CommunicationState
  <2> QED
    BY <1>1, <2>2, <2>3, <2>4, <2>5
<1> QED
  BY <1>3, <1>4, <1>5, <1>6, <1>7 DEF FaultStep

-----------------------------------------------------------------------------
(* The invariant of a link with losses and restarts. *)
THEOREM FaultInvariant == FaultSpec => []FaultInv
<1>1. FaultInv /\ [FaultNext]_vars => FaultInv'
  <2> SUFFICES ASSUME FaultInv, [FaultNext]_vars PROVE FaultInv'
    OBVIOUS
  <2>1. CASE UNCHANGED vars
    BY <2>1, TypeStep
       DEF FaultInv, Underway, Awaits, vars, masterVars, clientVars, budgetVars
  <2> QED
    BY <2>1, LinkStepKeeps, FaultKeeps DEF FaultNext
<1> QED
  BY <1>1, FaultInit, PTL DEF FaultSpec

(* SOTMaster.h:57, 274-281 against SOTClient.h:76-101: however many frames *)
(* were lost and devices restarted before, a client that the application   *)
(* adds or reconnects to is connected on both sides when its channels are  *)
(* empty, unless another fault came since.                                 *)
THEOREM AttemptsSettle == FaultSpec => []AttemptSettlesConnected
<1>1. FaultInv => AttemptSettlesConnected
  <2> SUFFICES ASSUME FaultInv, NEW c \in attempted,
                      toClient[c] = << >>, toMaster[c] = << >>
               PROVE  mState[c] = "INITIALIZED" /\ cState[c] = "INITIALIZED"
    BY DEF AttemptSettlesConnected
  <2>1. /\ c \in Client /\ c \in clients /\ mState[c] \in CommunicationState
        /\ mState[c] # "UNINITIALIZED" /\ Underway(c)
    BY DEF FaultInv, TypeOK, Underway
  <2>2. cState[c] = "INITIALIZED" /\ mState[c] # "INITIALIZING"
    BY <2>1, EmptyChannel DEF Underway, WillConnect, Awaits
  <2> QED
    BY <2>1, <2>2 DEF CommunicationState
<1> QED
  BY <1>1, FaultInvariant, PTL
=============================================================================
