---------------------------- MODULE Stm32Rx_proofs ----------------------------
(* Receiving with the STM32 driver, for buffers and FIFOs of every length  *)
(* and any number of frames: types, the order of the frames processed, and *)
(* overflow reports.                                                       *)
EXTENDS Stm32Rx, SequenceTheorems, FiniteSetTheorems, TLAPS

FrameNumber == 1 .. MaxFrames

-----------------------------------------------------------------------------
(* Sequences: the first element of q moved to the end of p, an element     *)
(* appended to p \o q, and the first element of q taken out of p \o q.     *)
LEMMA HeadMoves ==
  ASSUME NEW S, NEW p \in Seq(S), NEW q \in Seq(S), q # << >>
  PROVE  Append(p, Head(q)) \o Tail(q) = p \o q
<1>1. /\ Head(q) \in S /\ Tail(q) \in Seq(S) /\ Head(q) = q[1]
      /\ Len(Tail(q)) = Len(q) - 1
      /\ \A i \in 1 .. Len(Tail(q)) : Tail(q)[i] = q[i + 1]
      /\ Len(p) \in Nat /\ Len(q) \in Nat \ {0}
  BY HeadTailProperties, EmptySeq, LenProperties
<1> DEFINE a == Append(p, Head(q))
<1>2. /\ a \in Seq(S) /\ Len(a) = Len(p) + 1
      /\ \A i \in 1 .. Len(p) : a[i] = p[i]
      /\ a[Len(p) + 1] = q[1]
  BY <1>1, AppendProperties
<1> HIDE DEF a
<1>3. /\ a \o Tail(q) \in Seq(S) /\ p \o q \in Seq(S)
      /\ Len(a \o Tail(q)) = Len(a) + Len(Tail(q))
      /\ Len(p \o q) = Len(p) + Len(q)
  BY <1>1, <1>2, ConcatProperties
<1>4. ASSUME NEW i \in 1 .. (Len(p) + Len(q))
      PROVE  (a \o Tail(q))[i] = (p \o q)[i]
  <2>1. (p \o q)[i] = IF i <= Len(p) THEN p[i] ELSE q[i - Len(p)]
    BY <1>1, ConcatProperties
  <2>2. i \in 1 .. (Len(a) + Len(Tail(q)))
    BY <1>1, <1>2
  <2>3. (a \o Tail(q))[i] = IF i <= Len(a) THEN a[i] ELSE Tail(q)[i - Len(a)]
    BY <1>1, <1>2, <2>2, ConcatProperties
  <2>4. CASE i <= Len(p)
    BY <1>1, <1>2, <2>1, <2>3, <2>4
  <2>5. CASE i = Len(p) + 1
    BY <1>1, <1>2, <2>1, <2>3, <2>5
  <2>6. CASE i > Len(p) + 1
    <3>1. i - Len(a) \in 1 .. Len(Tail(q)) /\ (i - Len(a)) + 1 = i - Len(p)
      BY <1>1, <1>2, <2>6
    <3> QED
      BY <1>1, <1>2, <2>1, <2>3, <2>6, <3>1
  <2> QED
    <3>1. Len(p) \in Nat /\ i \in Nat
      BY <1>1
    <3>2. i <= Len(p) \/ i = Len(p) + 1 \/ i > Len(p) + 1
      BY <3>1
    <3> QED
      BY <2>4, <2>5, <2>6, <3>2
<1>5. Len(a \o Tail(q)) = Len(p \o q) /\ Len(p \o q) = Len(p) + Len(q)
  BY <1>1, <1>2, <1>3
<1>6. a \o Tail(q) = p \o q
  BY <1>3, <1>4, <1>5, SeqEqual
<1> QED
  BY <1>6 DEF a

LEMMA ConcatAppend ==
  ASSUME NEW S, NEW p \in Seq(S), NEW q \in Seq(S), NEW e \in S
  PROVE  p \o Append(q, e) = Append(p \o q, e)
<1>1. <<e>> \in Seq(S)
  OBVIOUS
<1>2. Append(q, e) = q \o <<e>> /\ Append(p \o q, e) = (p \o q) \o <<e>>
  BY AppendIsConcat, ConcatProperties
<1> QED
  BY <1>1, <1>2, ConcatAssociative

LEMMA HeadTakenOut ==
  ASSUME NEW S, NEW p \in Seq(S), NEW q \in Seq(S), q # << >>
  PROVE  /\ Len(p) \in Nat /\ Len(p \o q) \in Nat
         /\ Len(p) + 1 \in DOMAIN (p \o q)
         /\ (p \o q)[Len(p) + 1] = Head(q)
         /\ DOMAIN (p \o q) = 1 .. Len(p \o q)
         /\ DOMAIN (p \o Tail(q)) = 1 .. (Len(p \o q) - 1)
         /\ \A i \in 1 .. (Len(p \o q) - 1) :
              (p \o Tail(q))[i] = (p \o q)[IF i <= Len(p) THEN i ELSE i + 1]
<1>1. /\ Head(q) \in S /\ Tail(q) \in Seq(S) /\ Head(q) = q[1]
      /\ Len(Tail(q)) = Len(q) - 1
      /\ \A i \in 1 .. Len(Tail(q)) : Tail(q)[i] = q[i + 1]
      /\ Len(p) \in Nat /\ Len(q) \in Nat \ {0}
  BY HeadTailProperties, EmptySeq, LenProperties
<1>2. /\ p \o Tail(q) \in Seq(S) /\ p \o q \in Seq(S)
      /\ Len(p \o Tail(q)) = Len(p) + Len(Tail(q))
      /\ Len(p \o q) = Len(p) + Len(q)
  BY <1>1, ConcatProperties
<1>3. ASSUME NEW i \in 1 .. (Len(p) + Len(q))
      PROVE  (p \o q)[i] = IF i <= Len(p) THEN p[i] ELSE q[i - Len(p)]
  BY ConcatProperties
<1>4. ASSUME NEW i \in 1 .. (Len(p) + Len(Tail(q)))
      PROVE  (p \o Tail(q))[i] = IF i <= Len(p) THEN p[i] ELSE Tail(q)[i - Len(p)]
  BY <1>1, ConcatProperties
<1>5. DOMAIN (p \o q) = 1 .. Len(p \o q) /\ DOMAIN (p \o Tail(q)) = 1 .. Len(p \o Tail(q))
  BY <1>2, LenProperties
<1>6. ASSUME NEW i \in 1 .. (Len(p \o q) - 1)
      PROVE  (p \o Tail(q))[i] = (p \o q)[IF i <= Len(p) THEN i ELSE i + 1]
  <2>0. i \in 1 .. (Len(p) + Len(Tail(q)))
    BY <1>1, <1>2
  <2>1. CASE i <= Len(p)
    <3>1. i \in 1 .. (Len(p) + Len(q))
      BY <1>1, <1>2
    <3> QED
      BY <1>3, <1>4, <2>0, <2>1, <3>1
  <2>2. CASE ~ (i <= Len(p))
    <3>1. /\ i + 1 \in 1 .. (Len(p) + Len(q)) /\ ~ (i + 1 <= Len(p))
          /\ i - Len(p) \in 1 .. Len(Tail(q))
          /\ (i + 1) - Len(p) = (i - Len(p)) + 1
      BY <1>1, <1>2, <2>2
    <3>2. (p \o q)[i + 1] = q[(i + 1) - Len(p)]
      BY <1>3, <3>1
    <3>3. (p \o Tail(q))[i] = Tail(q)[i - Len(p)]
      BY <1>4, <2>0, <2>2
    <3> QED
      BY <1>1, <2>2, <3>1, <3>2, <3>3
  <2> QED
    BY <2>1, <2>2
<1>7. /\ Len(p) + 1 \in 1 .. (Len(p) + Len(q)) /\ ~ (Len(p) + 1 <= Len(p))
      /\ (Len(p) + 1) - Len(p) = 1
  BY <1>1
<1> QED
  BY <1>1, <1>2, <1>3, <1>5, <1>6, <1>7

-----------------------------------------------------------------------------
(* A sequence of frames that is in order and without those lost. *)
Ordered(q) == \A i, j \in DOMAIN q : i < j => q[i] < q[j]
Elements(q) == {q[i] : i \in DOMAIN q}
AllBut(q, n, gone) == Ordered(q) /\ Elements(q) = (1 .. n) \ gone

(* It stays so when the next frame is appended ... *)
LEMMA AppendNext ==
  ASSUME NEW q \in Seq(Nat), NEW n \in Nat, NEW gone \in SUBSET (1 .. n),
         AllBut(q, n, gone)
  PROVE  AllBut(Append(q, n + 1), n + 1, gone)
<1> DEFINE a == Append(q, n + 1)
<1>1. /\ Len(q) \in Nat /\ DOMAIN q = 1 .. Len(q)
      /\ DOMAIN a = 1 .. (Len(q) + 1)
      /\ \A i \in 1 .. Len(q) : a[i] = q[i]
      /\ a[Len(q) + 1] = n + 1
  BY AppendProperties, LenProperties
<1>2. \A i \in DOMAIN q : q[i] \in 1 .. n
  BY DEF AllBut, Elements
<1> HIDE DEF a
<1>3. Ordered(a)
  BY <1>1, <1>2 DEF AllBut, Ordered
<1>4. Elements(a) = Elements(q) \cup {n + 1}
  BY <1>1 DEF Elements
<1>5. Elements(a) = (1 .. (n + 1)) \ gone
  BY <1>4 DEF AllBut
<1>6. AllBut(a, n + 1, gone)
  BY <1>3, <1>5 DEF AllBut
<1> QED
  BY <1>6 DEF a

(* ... and when one of them is taken out and lost; that one was not lost   *)
(* before.                                                                 *)
LEMMA TakeOut ==
  ASSUME NEW p \in Seq(Nat), NEW q \in Seq(Nat), q # << >>,
         NEW n \in Nat, NEW gone,
         AllBut(p \o q, n, gone)
  PROVE  /\ AllBut(p \o Tail(q), n, gone \cup {Head(q)})
         /\ Head(q) \in (1 .. n) \ gone
<1> DEFINE k == p \o q
           t == p \o Tail(q)
           at == Len(p) + 1
<1>1. /\ Len(p) \in Nat /\ Len(k) \in Nat
      /\ at \in DOMAIN k /\ k[at] = Head(q)
      /\ DOMAIN k = 1 .. Len(k)
      /\ DOMAIN t = 1 .. (Len(k) - 1)
      /\ \A i \in 1 .. (Len(k) - 1) : t[i] = k[IF i < at THEN i ELSE i + 1]
  <2>1. \A i \in Int : i <= Len(p) <=> i < at
    BY HeadTakenOut
  <2> QED
    BY <2>1, HeadTakenOut
<1>2. AllBut(k, n, gone)
  OBVIOUS
<1> HIDE DEF k, t
<1>3. Ordered(k) /\ Elements(k) = (1 .. n) \ gone
  BY <1>2 DEF AllBut
<1>4. \A i \in DOMAIN k : k[i] \in (1 .. n) \ gone
  BY <1>3 DEF Elements
<1>5. at \in 1 .. Len(k)
  BY <1>1
<1> HIDE DEF at
<1>6. Ordered(t)
  <2> SUFFICES ASSUME NEW i \in DOMAIN t, NEW j \in DOMAIN t, i < j
               PROVE  t[i] < t[j]
    BY DEF Ordered
  <2> DEFINE up(m) == IF m < at THEN m ELSE m + 1
  <2>1. up(i) \in DOMAIN k /\ up(j) \in DOMAIN k /\ up(i) < up(j)
    BY <1>1, <1>5
  <2>2. t[i] = k[up(i)] /\ t[j] = k[up(j)]
    BY <1>1
  <2> HIDE DEF up
  <2> QED
    BY <1>3, <2>1, <2>2 DEF Ordered
<1>7. Elements(t) = Elements(k) \ {k[at]}
  <2>1. ASSUME NEW i \in DOMAIN t
        PROVE  t[i] \in Elements(k) \ {k[at]}
    <3> DEFINE m == IF i < at THEN i ELSE i + 1
    <3>1. m \in DOMAIN k /\ (m < at \/ at < m)
      BY <1>1, <1>5
    <3>2. t[i] = k[m]
      BY <1>1
    <3> HIDE DEF m
    <3>3. k[m] # k[at]
      BY <1>1, <1>3, <1>4, <3>1 DEF Ordered
    <3> QED
      BY <3>1, <3>2, <3>3 DEF Elements
  <2>2. ASSUME NEW m \in DOMAIN k, m # at
        PROVE  k[m] \in Elements(t)
    <3> DEFINE i == IF m < at THEN m ELSE m - 1
    <3>1. i \in 1 .. (Len(k) - 1) /\ (IF i < at THEN i ELSE i + 1) = m
      BY <1>1, <1>5, <2>2
    <3> HIDE DEF i
    <3>2. i \in DOMAIN t /\ t[i] = k[m]
      BY <1>1, <3>1
    <3> QED
      BY <3>2 DEF Elements
  <2> QED
    BY <2>1, <2>2 DEF Elements
<1>8. /\ AllBut(t, n, gone \cup {k[at]})
      /\ k[at] \in (1 .. n) \ gone
  BY <1>1, <1>3, <1>4, <1>6, <1>7 DEF AllBut
<1> QED
  BY <1>1, <1>8 DEF t

-----------------------------------------------------------------------------
(* Every frame is where it belongs: InOrderOrLost is AllBut of the frames  *)
(* kept, and the frame that is about to be popped is the one copied.       *)
FrameAtHand == pc = "pop" => rxBuffer # << >> /\ receiveFrame = Head(rxBuffer)
RxInv == TypeOK /\ AllBut(Kept, arrived, lost) /\ FrameAtHand

LEMMA RxInit == Init => RxInv
<1> SUFFICES ASSUME Init PROVE RxInv
  OBVIOUS
<1>1. /\ << >> \in Seq(FrameNumber) /\ Len(<< >>) = 0
  BY EmptySeq
<1>2. RxBufferLen \in Nat /\ FifoLen \in Nat /\ MaxFrames \in Nat /\ MaxTxErrors \in Nat
  BY RxAssumption
<1>3. TypeOK
  <2>1. arrived \in 0 .. MaxFrames /\ lost \subseteq 1 .. arrived
    BY <1>2 DEF Init
  <2>2. receiveFrame \in 0 .. MaxFrames
    BY <1>2 DEF Init
  <2>3. txErrors \in 0 .. MaxTxErrors /\ falseAlarms \in 0 .. txErrors
    BY <1>2 DEF Init
  <2>4. /\ fifo \in Seq(FrameNumber) /\ Len(fifo) <= FifoLen
        /\ rxBuffer \in Seq(FrameNumber) /\ Len(rxBuffer) <= RxBufferLen
        /\ processed \in Seq(FrameNumber)
    BY <1>1, <1>2 DEF Init
  <2> QED
    BY <2>1, <2>2, <2>3, <2>4 DEF Init, TypeOK, FrameNumber
<1>4. Kept = << >>
  BY ConcatEmptySeq, <1>1 DEF Kept, Init
<1>5. AllBut(Kept, arrived, lost)
  BY <1>4 DEF AllBut, Ordered, Elements, Init
<1> QED
  BY <1>3, <1>5 DEF RxInv, FrameAtHand, Init

(* The frames of the state, and the sequence of those kept. *)
LEMMA Sequences ==
  ASSUME TypeOK
  PROVE  /\ processed \in Seq(FrameNumber) /\ processed \in Seq(Nat)
         /\ rxBuffer \in Seq(FrameNumber) /\ rxBuffer \in Seq(Nat)
         /\ fifo \in Seq(FrameNumber) /\ fifo \in Seq(Nat)
         /\ processed \o rxBuffer \in Seq(FrameNumber)
         /\ processed \o rxBuffer \in Seq(Nat)
         /\ Kept = (processed \o rxBuffer) \o fifo
         /\ Kept = processed \o (rxBuffer \o fifo)
         /\ Kept \in Seq(Nat)
         /\ Len(fifo) \in Nat /\ Len(rxBuffer) \in Nat
<1>1. FrameNumber \subseteq Nat
  BY DEF FrameNumber
<1>2. /\ processed \in Seq(FrameNumber) /\ rxBuffer \in Seq(FrameNumber)
      /\ fifo \in Seq(FrameNumber)
  BY DEF TypeOK, FrameNumber
<1>3. processed \in Seq(Nat) /\ rxBuffer \in Seq(Nat) /\ fifo \in Seq(Nat)
  BY <1>1, <1>2, SeqMonotonic
<1>4. processed \o rxBuffer \in Seq(Nat) /\ (processed \o rxBuffer) \o fifo \in Seq(Nat)
  BY <1>3, ConcatProperties
<1>6. processed \o rxBuffer \in Seq(FrameNumber)
  BY <1>2, ConcatProperties
<1>5. (processed \o rxBuffer) \o fifo = processed \o (rxBuffer \o fifo)
  BY <1>3, ConcatAssociative
<1> QED
  BY <1>2, <1>3, <1>4, <1>5, <1>6, LenProperties DEF Kept

(* The program: a frame goes from the front of the buffer to those         *)
(* processed.                                                              *)
LEMMA PopStep == RxInv /\ PopAndProcess => RxInv'
<1> SUFFICES ASSUME RxInv, PopAndProcess PROVE RxInv'
  OBVIOUS
<1>1. /\ TypeOK /\ AllBut(Kept, arrived, lost)
      /\ rxBuffer # << >> /\ receiveFrame = Head(rxBuffer)
      /\ rxBuffer' = Tail(rxBuffer)
      /\ processed' = Append(processed, Head(rxBuffer))
      /\ UNCHANGED <<fifo, arrived, lost>>
  BY DEF RxInv, FrameAtHand, PopAndProcess, WithoutFront
<1>2. /\ Head(rxBuffer) \in FrameNumber
      /\ rxBuffer' \in Seq(FrameNumber) /\ Len(rxBuffer') = Len(rxBuffer) - 1
      /\ processed' \in Seq(FrameNumber)
  BY <1>1, Sequences, HeadTailProperties, AppendProperties
<1>3. Len(rxBuffer') <= RxBufferLen
  <2>1. RxBufferLen \in Nat
    BY RxAssumption
  <2>2. Len(rxBuffer) \in Nat /\ Len(rxBuffer) <= RxBufferLen
    BY <1>1, Sequences DEF TypeOK
  <2> QED
    BY <1>2, <2>1, <2>2
<1>4. 0 \in 0 .. MaxFrames
  BY RxAssumption
<1>5. TypeOK'
  BY <1>1, <1>2, <1>3, <1>4 DEF PopAndProcess, TypeOK, FrameNumber, errorVars
<1>6. Kept' = Kept
  BY <1>1, Sequences, HeadMoves DEF Kept
<1> QED
  BY <1>1, <1>5, <1>6 DEF RxInv, FrameAtHand, PopAndProcess

(* The other steps of the program leave the frames where they are. *)
LEMMA ProgramStep ==
  RxInv /\ (ReadFlag \/ ResetFlagAndReport \/ CopyFront \/ BufferIsEmpty) => RxInv'
<1> SUFFICES ASSUME RxInv,
                    ReadFlag \/ ResetFlagAndReport \/ CopyFront \/ BufferIsEmpty
             PROVE  RxInv'
  OBVIOUS
<1>1. UNCHANGED frameVars /\ processed' = processed /\ UNCHANGED errorVars
  BY DEF ReadFlag, ResetFlagAndReport, CopyFront, BufferIsEmpty
<1>2. AllBut(Kept, arrived, lost)'
  BY <1>1 DEF RxInv, AllBut, Ordered, Elements, Kept, frameVars
<1>3. CASE ReadFlag
  BY <1>1, <1>2, <1>3 DEF ReadFlag, RxInv, TypeOK, FrameAtHand, frameVars, errorVars
<1>4. CASE ResetFlagAndReport
  <2>1. reports' \in Nat
    BY <1>4 DEF ResetFlagAndReport, RxInv, TypeOK
  <2>2. unreported' \in BOOLEAN
    BY <1>4 DEF ResetFlagAndReport, RxInv, TypeOK
  <2> QED
    BY <1>1, <1>2, <1>4, <2>1, <2>2
    DEF ResetFlagAndReport, FlagReset, RxInv, TypeOK, FrameAtHand, frameVars, errorVars
<1>5. CASE CopyFront
  <2>1. Head(rxBuffer) \in FrameNumber
    BY <1>5, Sequences, HeadTailProperties DEF CopyFront, RxInv
  <2>2. receiveFrame' \in 0 .. MaxFrames
    BY <1>5, <2>1 DEF CopyFront, FrameNumber
  <2> QED
    BY <1>1, <1>2, <1>5, <2>2
    DEF CopyFront, RxInv, TypeOK, FrameAtHand, frameVars, errorVars
<1>6. CASE BufferIsEmpty
  BY <1>1, <1>2, <1>6 DEF BufferIsEmpty, RxInv, TypeOK, FrameAtHand, frameVars, errorVars
<1> QED
  BY <1>3, <1>4, <1>5, <1>6

(* The hardware: a frame arrives behind those in the FIFO. *)
LEMMA ArrivesStep == RxInv /\ FrameArrives => RxInv'
<1> SUFFICES ASSUME RxInv, FrameArrives PROVE RxInv'
  OBVIOUS
<1>1. TypeOK /\ AllBut(Kept, arrived, lost) /\ FrameAtHand
  BY DEF RxInv
<1>2. /\ arrived \in Nat /\ arrived' = arrived + 1 /\ arrived' \in FrameNumber
      /\ arrived' \in 0 .. MaxFrames /\ lost \subseteq 1 .. arrived
      /\ lost' = lost /\ lost' \subseteq 1 .. arrived'
  BY <1>1, RxAssumption DEF FrameArrives, TypeOK, FrameNumber
<1>3. /\ fifo' = Append(fifo, arrived')
      /\ fifo' \in Seq(FrameNumber) /\ Len(fifo') = Len(fifo) + 1
  BY <1>1, <1>2, Sequences, AppendProperties DEF FrameArrives
<1>4. Len(fifo') <= FifoLen
  <2>1. FifoLen \in Nat
    BY RxAssumption
  <2> QED
    BY <1>1, <1>3, <2>1, Sequences DEF FrameArrives
<1>5. TypeOK'
  BY <1>1, <1>2, <1>3, <1>4
  DEF FrameArrives, TypeOK, FrameNumber, programVars, errorVars
<1>6. Kept' = Append(Kept, arrived + 1)
  <2>1. /\ processed' = processed /\ rxBuffer' = rxBuffer
        /\ arrived + 1 \in Nat
    BY <1>2 DEF FrameArrives, programVars
  <2>2. processed \o rxBuffer \in Seq(Nat) /\ fifo \in Seq(Nat)
    BY <1>1, Sequences
  <2>3. (processed \o rxBuffer) \o Append(fifo, arrived + 1)
          = Append((processed \o rxBuffer) \o fifo, arrived + 1)
    BY <2>1, <2>2, ConcatAppend
  <2> QED
    BY <1>2, <1>3, <2>1, <2>3 DEF Kept
<1>7. AllBut(Kept', arrived', lost')
  BY <1>1, <1>2, <1>6, Sequences, AppendNext
<1>8. AllBut(Kept, arrived, lost)'
  BY <1>7 DEF AllBut, Ordered, Elements
<1> QED
  BY <1>1, <1>5, <1>8 DEF RxInv, FrameAtHand, FrameArrives, programVars

(* The hardware: the newest frame of a full FIFO is lost to the next one.  *)
LEMMA OverrunsStep == RxInv /\ FrameOverruns => RxInv'
<1> SUFFICES ASSUME RxInv, FrameOverruns PROVE RxInv'
  OBVIOUS
<1>1. TypeOK /\ AllBut(Kept, arrived, lost) /\ FrameAtHand
  BY DEF RxInv
<1>2. /\ arrived \in Nat /\ arrived' = arrived + 1 /\ arrived' \in FrameNumber
      /\ arrived' \in 0 .. MaxFrames /\ lost \subseteq 1 .. arrived
  BY <1>1, RxAssumption DEF FrameOverruns, TypeOK, FrameNumber
<1>3. /\ FifoLen \in Nat \ {0} /\ Len(fifo) = FifoLen
      /\ fifo' = [fifo EXCEPT ![FifoLen] = arrived']
      /\ lost' = lost \cup {fifo[FifoLen]}
      /\ rxBuffer' = rxBuffer /\ processed' = processed /\ pc' = pc
      /\ receiveFrame' = receiveFrame
  BY RxAssumption DEF FrameOverruns, programVars
<1>4. fifo # << >>
  BY <1>3, EmptySeq
<1> DEFINE older == SubSeq(fifo, 1, FifoLen - 1)
           newest == fifo[FifoLen]
<1>5. /\ older \in Seq(FrameNumber) /\ older \in Seq(Nat)
      /\ Len(older) = FifoLen - 1
      /\ \A i \in 1 .. (FifoLen - 1) : older[i] = fifo[i]
      /\ newest \in FrameNumber /\ newest \in Nat
  <2>1. \A i \in 1 .. FifoLen : fifo[i] \in FrameNumber
    BY <1>1, <1>3, Sequences, ElementOfSeq
  <2>2. FrameNumber \subseteq Nat
    BY DEF FrameNumber
  <2>3. /\ 1 \in Int /\ FifoLen - 1 \in Int
        /\ \A i \in 1 .. (FifoLen - 1) : fifo[i] \in FrameNumber
    <3>1. \A i \in 1 .. (FifoLen - 1) : i \in 1 .. FifoLen
      BY <1>3
    <3> QED
      BY <1>3, <2>1, <3>1
  <2>4. /\ older \in Seq(FrameNumber)
        /\ Len(older) = IF 1 <= FifoLen - 1 THEN (FifoLen - 1) - 1 + 1 ELSE 0
        /\ \A i \in 1 .. ((FifoLen - 1) - 1 + 1) : older[i] = fifo[1 + i - 1]
    BY <2>3, SubSeqProperties
  <2> HIDE DEF older
  <2>5. Len(older) = FifoLen - 1
    BY <1>3, <2>4
  <2>6. ASSUME NEW i \in 1 .. (FifoLen - 1)
        PROVE  older[i] = fifo[i]
    <3>1. i \in 1 .. ((FifoLen - 1) - 1 + 1) /\ 1 + i - 1 = i
      BY <1>3
    <3> QED
      BY <2>4, <3>1
  <2>7. newest \in FrameNumber
    BY <1>3, <2>1
  <2> QED
    BY <2>2, <2>4, <2>5, <2>6, <2>7, SeqMonotonic
<1>6. fifo = Append(older, newest)
  <2>1. /\ Append(older, newest) \in Seq(Nat)
        /\ Len(Append(older, newest)) = FifoLen
        /\ \A i \in 1 .. (FifoLen - 1) : Append(older, newest)[i] = fifo[i]
        /\ Append(older, newest)[FifoLen] = fifo[FifoLen]
    BY <1>3, <1>5, AppendProperties
  <2>2. \A i \in 1 .. Len(fifo) : fifo[i] = Append(older, newest)[i]
    BY <1>3, <2>1
  <2> QED
    BY <1>1, <1>3, <2>1, <2>2, Sequences, SeqEqual
<1>7. /\ fifo' \in Seq(FrameNumber) /\ Len(fifo') = FifoLen
      /\ \A i \in 1 .. FifoLen : fifo'[i] = IF i = FifoLen THEN arrived' ELSE fifo[i]
  BY <1>1, <1>2, <1>3, Sequences, ExceptSeq
<1>8. fifo' = Append(older, arrived + 1)
  <2>1. /\ Append(older, arrived + 1) \in Seq(Nat)
        /\ Len(Append(older, arrived + 1)) = FifoLen
        /\ \A i \in 1 .. (FifoLen - 1) : Append(older, arrived + 1)[i] = fifo[i]
        /\ Append(older, arrived + 1)[FifoLen] = arrived + 1
    BY <1>2, <1>3, <1>5, AppendProperties
  <2>2. \A i \in 1 .. Len(fifo') : fifo'[i] = Append(older, arrived + 1)[i]
    BY <1>2, <1>3, <1>7, <2>1
  <2>3. fifo' \in Seq(Nat)
    <3>1. FrameNumber \subseteq Nat
      BY DEF FrameNumber
    <3> QED
      BY <1>7, <3>1, SeqMonotonic
  <2> QED
    BY <1>7, <2>1, <2>2, <2>3, SeqEqual
<1> HIDE DEF older, newest
<1> DEFINE before == (processed \o rxBuffer) \o older
<1>9. /\ before \in Seq(Nat)
      /\ Kept = Append(before, newest)
      /\ Kept' = Append(before, arrived + 1)
  <2>1. /\ processed \o rxBuffer \in Seq(FrameNumber)
        /\ processed \o rxBuffer \in Seq(Nat)
        /\ arrived + 1 \in FrameNumber
    BY <1>1, <1>2, Sequences
  <2>2. ASSUME NEW e \in FrameNumber
        PROVE  (processed \o rxBuffer) \o Append(older, e) = Append(before, e)
    <3>1. older \in Seq(FrameNumber)
      BY <1>5
    <3> QED
      BY <2>1, <3>1, ConcatAppend
  <2>3. before \in Seq(Nat)
    BY <1>5, <2>1, ConcatProperties
  <2> QED
    BY <1>3, <1>5, <1>6, <1>8, <2>1, <2>2, <2>3 DEF Kept
<1> HIDE DEF before
<1>10. /\ AllBut(before, arrived, lost \cup {newest})
       /\ newest \in (1 .. arrived) \ lost
  <2>1. <<newest>> \in Seq(Nat) /\ <<newest>> # << >>
    BY <1>5
  <2>2. Head(<<newest>>) = newest /\ Tail(<<newest>>) = << >>
    OBVIOUS
  <2>3. Kept = before \o <<newest>>
    BY <1>5, <1>9, AppendIsConcat
  <2>4. AllBut(before \o <<newest>>, arrived, lost)
    BY <1>1, <2>3
  <2>5. /\ AllBut(before \o Tail(<<newest>>), arrived, lost \cup {Head(<<newest>>)})
        /\ Head(<<newest>>) \in (1 .. arrived) \ lost
    BY <1>2, <1>9, <2>1, <2>4, TakeOut
  <2>6. before \o << >> = before
    BY <1>9, ConcatEmptySeq
  <2> QED
    BY <2>2, <2>5, <2>6
<1>11. AllBut(Kept', arrived', lost')
  <2>1. lost \cup {newest} \in SUBSET (1 .. arrived)
    BY <1>2, <1>10
  <2>2. AllBut(Append(before, arrived + 1), arrived + 1, lost \cup {newest})
    BY <1>2, <1>9, <1>10, <2>1, AppendNext
  <2> QED
    BY <1>2, <1>3, <1>9, <2>2 DEF newest
<1>12. AllBut(Kept, arrived, lost)'
  BY <1>11 DEF AllBut, Ordered, Elements
<1>13. lost' \subseteq 1 .. arrived'
  <2>1. lost' = lost \cup {newest} /\ newest \in 1 .. arrived
    BY <1>3, <1>10 DEF newest
  <2>2. 1 .. arrived \subseteq 1 .. arrived'
    BY <1>2
  <2> QED
    BY <1>2, <2>1, <2>2
<1>14. TypeOK'
  BY <1>1, <1>2, <1>3, <1>7, <1>13
  DEF FrameOverruns, TypeOK, FrameNumber, programVars
<1> QED
  BY <1>1, <1>3, <1>12, <1>14 DEF RxInv, FrameAtHand

(* The interrupt: a frame goes from the FIFO to the back of the buffer ... *)
LEMMA StoresStep == RxInv /\ RxInterruptStores => RxInv'
<1> SUFFICES ASSUME RxInv, RxInterruptStores PROVE RxInv'
  OBVIOUS
<1>1. TypeOK /\ AllBut(Kept, arrived, lost) /\ FrameAtHand
  BY DEF RxInv
<1>2. /\ fifo # << >> /\ fifo' = Tail(fifo)
      /\ rxBuffer' = Append(rxBuffer, Head(fifo))
      /\ processed' = processed /\ pc' = pc /\ receiveFrame' = receiveFrame
      /\ arrived' = arrived /\ lost' = lost
      /\ Len(rxBuffer) < RxBufferLen
  <2>1. Len(rxBuffer) \in Nat /\ RxBufferLen \in Nat
    BY <1>1, RxAssumption, Sequences
  <2> QED
    BY <2>1 DEF RxInterruptStores, RxBufferIsFull, programVars
<1>3. /\ fifo' \in Seq(FrameNumber) /\ Len(fifo') = Len(fifo) - 1
      /\ Head(fifo) \in FrameNumber
  BY <1>1, <1>2, Sequences, HeadTailProperties
<1>4. rxBuffer' \in Seq(FrameNumber) /\ Len(rxBuffer') = Len(rxBuffer) + 1
  BY <1>1, <1>2, <1>3, Sequences, AppendProperties
<1>5. Len(fifo') <= FifoLen /\ Len(rxBuffer') <= RxBufferLen
  <2>1. Len(fifo) <= FifoLen
    BY <1>1 DEF TypeOK
  <2> QED
    BY <1>1, <1>2, <1>3, <1>4, <2>1, RxAssumption, Sequences
<1>6. TypeOK'
  BY <1>1, <1>2, <1>3, <1>4, <1>5
  DEF RxInterruptStores, TypeOK, FrameNumber, programVars, errorVars
<1>7. Kept' = Kept
  <2>1. processed \o rxBuffer' = Append(processed \o rxBuffer, Head(fifo))
    <3>1. /\ processed \in Seq(FrameNumber) /\ rxBuffer \in Seq(FrameNumber)
      BY <1>1, Sequences
    <3> QED
      BY <1>2, <1>3, <3>1, ConcatAppend
  <2>2. Append(processed \o rxBuffer, Head(fifo)) \o Tail(fifo)
          = (processed \o rxBuffer) \o fifo
    <3>1. /\ processed \o rxBuffer \in Seq(Nat) /\ fifo \in Seq(Nat) /\ fifo # << >>
      BY <1>1, <1>2, Sequences
    <3> QED
      BY <3>1, HeadMoves
  <2> QED
    BY <1>2, <2>1, <2>2 DEF Kept
<1>8. AllBut(Kept, arrived, lost)'
  BY <1>1, <1>2, <1>7 DEF AllBut, Ordered, Elements
<1>9. FrameAtHand'
  <2>1. rxBuffer # << >> => rxBuffer' # << >> /\ Head(rxBuffer') = Head(rxBuffer)
    <3>1. rxBuffer \in Seq(FrameNumber)
      BY <1>1, Sequences
    <3> QED
      BY <1>2, <1>3, <3>1, HeadTailAppend, AppendProperties
  <2> QED
    BY <1>1, <1>2, <2>1 DEF FrameAtHand
<1> QED
  BY <1>6, <1>8, <1>9 DEF RxInv

(* ... or is lost. *)
LEMMA DropsStep == RxInv /\ RxInterruptDrops => RxInv'
<1> SUFFICES ASSUME RxInv, RxInterruptDrops PROVE RxInv'
  OBVIOUS
<1>1. TypeOK /\ AllBut(Kept, arrived, lost) /\ FrameAtHand
  BY DEF RxInv
<1>2. /\ fifo # << >> /\ fifo' = Tail(fifo) /\ lost' = lost \cup {Head(fifo)}
      /\ rxBuffer' = rxBuffer /\ processed' = processed /\ pc' = pc
      /\ receiveFrame' = receiveFrame /\ arrived' = arrived
  BY DEF RxInterruptDrops, programVars
<1>3. fifo' \in Seq(FrameNumber) /\ Len(fifo') = Len(fifo) - 1
  BY <1>1, <1>2, Sequences, HeadTailProperties
<1>4. Len(fifo') <= FifoLen
  <2>1. Len(fifo) <= FifoLen
    BY <1>1 DEF TypeOK
  <2> QED
    BY <1>1, <1>3, <2>1, RxAssumption, Sequences
<1>5. /\ AllBut((processed \o rxBuffer) \o Tail(fifo), arrived, lost \cup {Head(fifo)})
      /\ Head(fifo) \in (1 .. arrived) \ lost
  <2>1. /\ processed \o rxBuffer \in Seq(Nat) /\ fifo \in Seq(Nat)
        /\ AllBut((processed \o rxBuffer) \o fifo, arrived, lost)
    BY <1>1, Sequences
  <2>2. arrived \in Nat
    BY <1>1, RxAssumption DEF TypeOK
  <2> QED
    BY <1>2, <2>1, <2>2, TakeOut
<1>6. AllBut(Kept', arrived', lost')
  BY <1>2, <1>5 DEF Kept
<1>7. AllBut(Kept, arrived, lost)'
  BY <1>6 DEF AllBut, Ordered, Elements
<1>8. TypeOK'
  <2>1. lost' \subseteq 1 .. arrived'
    BY <1>1, <1>2, <1>5 DEF TypeOK
  <2> QED
    BY <1>1, <1>2, <1>3, <1>4, <2>1
    DEF RxInterruptDrops, TypeOK, FrameNumber, programVars, errorVars
<1> QED
  BY <1>1, <1>2, <1>7, <1>8 DEF RxInv, FrameAtHand

(* Errors move no frame. *)
LEMMA ErrorStep == RxInv /\ (OverrunInterrupt \/ TxErrorInterrupt) => RxInv'
<1> SUFFICES ASSUME RxInv, OverrunInterrupt \/ TxErrorInterrupt PROVE RxInv'
  OBVIOUS
<1>1. UNCHANGED <<programVars, frameVars>>
  BY DEF OverrunInterrupt, TxErrorInterrupt
<1>2. AllBut(Kept, arrived, lost)' /\ FrameAtHand'
  BY <1>1
  DEF RxInv, AllBut, Ordered, Elements, Kept, FrameAtHand, programVars, frameVars
<1>3. CASE OverrunInterrupt
  BY <1>1, <1>2, <1>3 DEF OverrunInterrupt, RxInv, TypeOK, programVars, frameVars
<1>4. CASE TxErrorInterrupt
  <2>1. /\ txErrors' \in 0 .. MaxTxErrors /\ falseAlarms' \in 0 .. txErrors'
        /\ onRxOverflow' \in BOOLEAN
    BY <1>4, RxAssumption DEF TxErrorInterrupt, RxInv, TypeOK
  <2> QED
    BY <1>1, <1>2, <1>4, <2>1
    DEF TxErrorInterrupt, RxInv, TypeOK, programVars, frameVars
<1> QED
  BY <1>3, <1>4

LEMMA RxStep == RxInv /\ [Next]_vars => RxInv'
<1> SUFFICES ASSUME RxInv, [Next]_vars PROVE RxInv'
  OBVIOUS
<1>1. CASE UNCHANGED vars
  BY <1>1 DEF vars, programVars, frameVars, errorVars, RxInv, TypeOK, FrameAtHand,
              AllBut, Ordered, Elements, Kept
<1> QED
  BY <1>1, PopStep, ProgramStep, ArrivesStep, OverrunsStep, StoresStep, DropsStep,
     ErrorStep
  DEF Next, ProcessCanFrames, RxInterrupt

LEMMA RxInvariant == Spec => []RxInv
<1> QED
  BY RxInit, RxStep, PTL DEF Spec

(* The FIFO and the receive buffer of Stm32HalCanInterface.hpp never hold  *)
(* more than their lengths, and the variables keep their types.            *)
THEOREM TypesCorrect == Spec => []TypeOK
<1>1. RxInv => TypeOK
  BY DEF RxInv
<1> QED
  BY <1>1, RxInvariant, PTL

(* However the receive interrupt cuts into getNextCanFrameReceived, each   *)
(* frame that arrived is processed, buffered or in the FIFO exactly once   *)
(* and in the order of arrival, or lost.                                   *)
THEOREM FramesInOrderOrLost == Spec => []InOrderOrLost
<1>1. RxInv => InOrderOrLost
  BY DEF RxInv, AllBut, Ordered, Elements, InOrderOrLost
<1> QED
  BY <1>1, RxInvariant, PTL

-----------------------------------------------------------------------------
(* Overflow reports: a report already sent, the one that the flag read or  *)
(* the flag set will cause and the one that a pending overrun will cause   *)
(* stand for different losses, or for false alarms.                        *)
One(b) == IF b THEN 1 ELSE 0

ReportsEarned ==
  /\ seen => pc = "reset"
  /\ reports + One(seen \/ onRxOverflow) + One(overrun) <= Cardinality(lost) + falseAlarms

LEMMA LostIsFinite ==
  ASSUME TypeOK
  PROVE  /\ IsFiniteSet(lost) /\ Cardinality(lost) \in Nat
         /\ reports \in Nat /\ falseAlarms \in Nat /\ txErrors \in Nat
<1>1. arrived \in Nat
  BY RxAssumption DEF TypeOK
<1>2. IsFiniteSet(1 .. arrived)
  BY <1>1, FS_Interval
<1>3. IsFiniteSet(lost)
  BY <1>2, FS_Subset DEF TypeOK
<1>4. Cardinality(lost) \in Nat
  BY <1>3, FS_CardinalityType
<1> QED
  BY <1>3, <1>4, RxAssumption DEF TypeOK

(* A frame kept is not among those lost. *)
LEMMA KeptIsNotLost ==
  ASSUME RxInv, fifo # << >>, NEW i \in 1 .. Len(fifo)
  PROVE  fifo[i] \notin lost
<1>1. TypeOK /\ AllBut(Kept, arrived, lost)
  BY DEF RxInv
<1> DEFINE p == processed \o rxBuffer
<1>2. p \in Seq(Nat) /\ fifo \in Seq(Nat) /\ Kept = p \o fifo
  BY <1>1, Sequences
<1> HIDE DEF p
<1>3. /\ Len(p) \in Nat /\ Len(fifo) \in Nat
      /\ p \o fifo \in Seq(Nat) /\ Len(p \o fifo) = Len(p) + Len(fifo)
  BY <1>2, ConcatProperties, LenProperties
<1>4. Len(p) + i \in 1 .. (Len(p) + Len(fifo)) /\ ~ (Len(p) + i <= Len(p))
      /\ (Len(p) + i) - Len(p) = i
  BY <1>3
<1>5. (p \o fifo)[Len(p) + i] = fifo[i]
  BY <1>2, <1>4, ConcatProperties
<1>6. Len(p) + i \in DOMAIN Kept
  BY <1>2, <1>3, <1>4, LenProperties
<1> QED
  BY <1>1, <1>2, <1>5, <1>6 DEF AllBut, Elements

LEMMA ReportStep == RxInv /\ ReportsEarned /\ [Next]_vars => ReportsEarned'
<1> SUFFICES ASSUME RxInv, ReportsEarned, [Next]_vars PROVE ReportsEarned'
  OBVIOUS
<1>1. /\ IsFiniteSet(lost) /\ Cardinality(lost) \in Nat
      /\ reports \in Nat /\ falseAlarms \in Nat
      /\ {seen, onRxOverflow, overrun, errorCode} \subseteq BOOLEAN
  BY LostIsFinite DEF RxInv, TypeOK
<1>2. CASE ReadFlag
  BY <1>1, <1>2 DEF ReadFlag, ReportsEarned, One, frameVars, errorVars
<1>3. CASE ResetFlagAndReport
  BY <1>1, <1>3 DEF ResetFlagAndReport, FlagReset, ReportsEarned, One, frameVars, errorVars
<1>4. CASE CopyFront \/ PopAndProcess \/ BufferIsEmpty
  BY <1>1, <1>4
  DEF CopyFront, PopAndProcess, BufferIsEmpty, ReportsEarned, One, frameVars, errorVars
<1>5. CASE FrameArrives \/ RxInterruptStores
  BY <1>1, <1>5
  DEF FrameArrives, RxInterruptStores, ReportsEarned, One, programVars, errorVars
<1>6. CASE FrameOverruns
  <2>1. FifoLen \in 1 .. Len(fifo) /\ fifo # << >>
    BY <1>6, RxAssumption, EmptySeq DEF FrameOverruns
  <2>2. Cardinality(lost') = Cardinality(lost) + 1
    BY <1>1, <1>6, <2>1, KeptIsNotLost, FS_AddElement DEF FrameOverruns
  <2> QED
    BY <1>1, <1>6, <2>2 DEF FrameOverruns, ReportsEarned, One, programVars
<1>7. CASE RxInterruptDrops
  <2>1. fifo # << >> /\ lost' = lost \cup {Head(fifo)}
    BY <1>7 DEF RxInterruptDrops
  <2>2. Head(fifo) = fifo[1] /\ 1 \in 1 .. Len(fifo)
    BY <2>1, Sequences, EmptySeq DEF RxInv
  <2>3. Cardinality(lost') = Cardinality(lost) + 1
    BY <1>1, <2>1, <2>2, KeptIsNotLost, FS_AddElement
  <2> QED
    BY <1>1, <1>7, <2>3 DEF RxInterruptDrops, ReportsEarned, One, programVars, errorVars
<1>8. CASE OverrunInterrupt
  BY <1>1, <1>8 DEF OverrunInterrupt, ReportsEarned, One, programVars, frameVars
<1>9. CASE TxErrorInterrupt
  BY <1>1, <1>9 DEF TxErrorInterrupt, ReportsEarned, One, programVars, frameVars
<1>10. CASE UNCHANGED vars
  BY <1>10 DEF vars, ReportsEarned, programVars, frameVars, errorVars
<1> QED
  BY <1>2, <1>3, <1>4, <1>5, <1>6, <1>7, <1>8, <1>9, <1>10
  DEF Next, ProcessCanFrames, RxInterrupt

(* EventFlag::checkAndReset in two steps, with the receive interrupt in    *)
(* between, never makes one loss two reports: there is a lost frame for    *)
(* every overflow report, but for the false alarms of                      *)
(* HAL_CAN_ErrorCallback.                                                  *)
THEOREM ReportsAreEarned == Spec => []NoFalseAlarm
<1>1. Init => ReportsEarned
  BY FS_EmptySet DEF Init, ReportsEarned, One
<1>2. RxInv /\ ReportsEarned => NoFalseAlarm
  BY LostIsFinite DEF RxInv, ReportsEarned, NoFalseAlarm, One
<1> QED
  BY <1>1, <1>2, ReportStep, RxInvariant, PTL DEF Spec
=============================================================================
