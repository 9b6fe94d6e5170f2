------------------------- MODULE MasterThreaded_proofs -------------------------
(* The background thread and the blocking read, for every set of           *)
(* application threads: who holds the mutex, whose lock a read finds, and  *)
(* that no wake-up is missed.                                              *)
EXTENDS MasterThreaded, SequenceTheorems, TLAPS

(* The names of threads differ from those that stand for none and for the  *)
(* background thread.                                                      *)
LEMMA Names == /\ \A t \in Thread : t # NoThread /\ t # MainThread
               /\ MainThread # NoThread
BY ThreadAssumption

(* The bounds are numbers. *)
LEMMA Bounds == ReadsPerLock \in Nat /\ MaxLocks \in Nat /\ MaxVersion \in Nat
BY ThreadAssumption

-----------------------------------------------------------------------------
(* The variables keep their types, and the mutex is held by whom the       *)
(* program counters of SOTMasterThreaded.h and SOTMasterLockable.h say.    *)
LEMMA TypeInit == Init => TypeOK
<1> SUFFICES ASSUME Init PROVE TypeOK
  OBVIOUS
<1> USE Bounds
<1>1. arriving \in Seq(Version)
  BY EmptySeq DEF Init
<1>2. 0 \in Version
  BY DEF Version
<1>3. usesUnlock \in UsesUnlock /\ resets \in Resets
  BY DEF Init
<1>4. /\ pc \in [Thread -> ThreadPoint]
      /\ \A t \in Thread : ~ (pc[t] = "holding") /\ ~ (owner = t)
  BY Names DEF Init, ThreadPoint
<1>5. reads \in [Thread -> 0 .. ReadsPerLock] /\ locks \in 0 .. MaxLocks
  BY DEF Init
<1>6. askedAt \in [Thread -> Version] /\ answer \in [Thread -> Version]
  BY <1>2 DEF Init
<1> QED
  BY <1>1, <1>2, <1>3, <1>4, <1>5, <1>6, Names DEF Init, TypeOK, MainPoint

(* The steps of one application thread. *)
LEMMA TypeThreadStep ==
  ASSUME TypeOK, UNCHANGED program, NEW t \in Thread,
         UsesLock(t) \/ WakesSpuriously(t) \/ Rechecks(t) \/ stopMainThread(t) \/ FinishesStop(t)
  PROVE  TypeOK'
<1> USE Names, Bounds
    DEF TypeOK, program, Goto, ThreadPoint, MainPoint, stopVars
<1>a. ASSUME BeginsRead(t)
      PROVE  /\ reads' \in [Thread -> 0 .. ReadsPerLock]
             /\ askedAt' \in [Thread -> Version]
  <2>1. reads[t] + 1 \in 0 .. ReadsPerLock
    BY <1>a DEF BeginsRead
  <2>2. clientVersion \in Version
    BY DEF TypeOK
  <2> QED
    BY <1>a, <2>1, <2>2 DEF BeginsRead
<1>b. value \in Version
  OBVIOUS
<1>1. CASE acquireLock(t)
  <2>1. locks' \in 0 .. MaxLocks
    BY <1>1 DEF acquireLock
  <2>2. reads' \in [Thread -> 0 .. ReadsPerLock]
    BY <1>1 DEF acquireLock
  <2> QED
    BY <1>1, <2>1, <2>2 DEF acquireLock, PointerSet, mainVars, stopVars, nodeVars, linkVars
<1>2. CASE unlock(t)
  BY <1>2 DEF unlock, mainVars, stopVars, nodeVars, linkVars
<1>3. CASE DestroyLock(t)
  BY <1>3 DEF DestroyLock, OwnerAfterDestroy, mainVars, stopVars, nodeVars, linkVars
<1>4. CASE ReadFails(t)
  BY <1>4, <1>a DEF ReadFails, BeginsRead, mainVars, stopVars, nodeVars, linkVars
<1>5. CASE ReadReturnsAtOnce(t)
  <2>1. answer' \in [Thread -> Version]
    BY <1>5, <1>b DEF ReadReturnsAtOnce
  <2>2. receivedValueUpdate' \in BOOLEAN
    BY <1>5 DEF ReadReturnsAtOnce, FlagAfterRead
  <2>3. asks' \in Nat
    BY <1>5 DEF ReadReturnsAtOnce
  <2> QED
    BY <1>5, <1>a, <2>1, <2>2, <2>3 DEF ReadReturnsAtOnce, lockVars, mainVars
<1>6. CASE ReadWaits(t)
  <2>1. pc[t] = "holding"
    BY <1>6 DEF ReadWaits, BeginsRead
  <2>2. asks' \in Nat
    BY <1>6 DEF ReadWaits
  <2> QED
    BY <1>6, <1>a, <2>1, <2>2 DEF ReadWaits, mainVars
<1>7. CASE WakesSpuriously(t)
  BY <1>7 DEF WakesSpuriously, lockVars, mainVars, stopVars, nodeVars, linkVars
<1>8. CASE ReadReturns(t)
  BY <1>8 DEF ReadReturns, FlagAfterRead, mainVars, linkVars
<1>9. CASE ReadWaitsAgain(t)
  BY <1>9 DEF ReadWaitsAgain, lockVars, mainVars, stopVars, nodeVars, linkVars
<1>10. CASE stopMainThread(t)
  BY <1>10 DEF stopMainThread, lockVars, mainVars, stopVars, nodeVars, linkVars
<1>11. CASE FinishesStop(t)
  BY <1>11 DEF FinishesStop, ClearsRunning, Joined, JoinsTwice, lockVars, mainVars,
               stopVars, nodeVars, linkVars
<1> QED
  BY <1>1, <1>2, <1>3, <1>4, <1>5, <1>6, <1>7, <1>8, <1>9, <1>10, <1>11
  DEF UsesLock, Rechecks

(* The steps of the background thread. *)
LEMMA TypeMainStep ==
  ASSUME TypeOK, UNCHANGED program, MainStep \/ MainLocks
  PROVE  TypeOK'
<1> USE Names, Bounds DEF program, stopVars
<1>1. CASE MainTestsRunning
  BY <1>1 DEF MainTestsRunning, Continues, TypeOK, MainPoint, lockVars, threadVars,
              nodeVars, linkVars
<1>2. CASE MainLocks
  BY <1>2 DEF MainLocks, MutexIsFree, TypeOK, MainPoint, threadVars, nodeVars, linkVars
<1>3. CASE MainProcesses
  <2>1. ASSUME arriving # << >>
        PROVE  arriving[Len(arriving)] \in Version
    <3>1. arriving \in Seq(Version)
      BY DEF TypeOK
    <3>2. Len(arriving) \in 1 .. Len(arriving)
      BY <2>1, <3>1, EmptySeq
    <3> QED
      BY <3>1, <3>2, ElementOfSeq
  <2>2. value' \in Version /\ receivedValueUpdate' \in BOOLEAN
    BY <1>3, <2>1 DEF MainProcesses, TypeOK, nodeVars
  <2>3. arriving' \in Seq(Version)
    BY <1>3, EmptySeq DEF MainProcesses
  <2> QED
    BY <1>3, <2>2, <2>3
    DEF MainProcesses, AfterProcessing, TypeOK, MainPoint, threadVars
<1>4. CASE MainNotifies
  BY <1>4 DEF MainNotifies, AllWoken, TypeOK, MainPoint, ThreadPoint, lockVars,
              nodeVars, linkVars
<1> QED
  BY <1>1, <1>2, <1>3, <1>4 DEF MainStep

(* The client's steps. *)
LEMMA TypeClientStep ==
  ASSUME TypeOK, UNCHANGED program, ClientWrites \/ ClientAnswers
  PROVE  TypeOK'
<1> USE Bounds DEF program, stopVars
<1>1. CASE ClientWrites
  <2>1. clientVersion' \in Version
    BY <1>1 DEF ClientWrites, TypeOK, Version
  <2>2. Append(arriving, clientVersion') \in Seq(Version)
    BY <2>1, AppendProperties DEF TypeOK
  <2>3. arriving' \in Seq(Version)
    BY <1>1, <2>2 DEF ClientWrites, TypeOK
  <2> QED
    BY <1>1, <2>1, <2>3 DEF ClientWrites, TypeOK, lockVars, threadVars, mainVars, nodeVars
<1>2. CASE ClientAnswers
  <2>1. arriving' \in Seq(Version)
    BY <1>2, AppendProperties DEF ClientAnswers, TypeOK
  <2>2. asks' \in Nat
    BY <1>2 DEF ClientAnswers, TypeOK
  <2> QED
    BY <1>2, <2>1, <2>2 DEF ClientAnswers, TypeOK, lockVars, threadVars, mainVars, nodeVars
<1> QED
  BY <1>1, <1>2

LEMMA TypeStep == TypeOK /\ [Next]_<<program, vars>> => TypeOK'
<1> SUFFICES ASSUME TypeOK, [Next]_<<program, vars>>
             PROVE  TypeOK'
  OBVIOUS
<1>1. CASE Next
  BY <1>1, TypeThreadStep, TypeMainStep, TypeClientStep DEF Next
<1>2. CASE UNCHANGED <<program, vars>>
  BY <1>2 DEF TypeOK, program, vars, lockVars, threadVars, mainVars, stopVars, nodeVars, linkVars
<1> QED
  BY <1>1, <1>2

(* At every time the variables have their types, and the mutex of          *)
(* SOTMasterThreaded.h is held by the one thread whose program counter     *)
(* says so, if any.                                                        *)
THEOREM TypesCorrect == Spec => []TypeOK
<1>1. Init => TypeOK
  BY TypeInit
<1>2. TypeOK /\ [Next]_<<program, vars>> => TypeOK'
  BY TypeStep
<1> QED
  BY <1>1, <1>2, PTL DEF Spec

-----------------------------------------------------------------------------
(* What a thread has read under its lock stays as it is: processCanFrames  *)
(* of the background thread is the only step that writes the tree, and     *)
(* takes the mutex for it (SOTMasterThreaded.h:105-112).                   *)
THEOREM TreeIsFrozen == Spec => HeldLockFreezesTree
<1> DEFINE Frozen ==
      \A t \in Thread : pc[t] = "holding" /\ pc'[t] = "holding" => value' = value
<1>1. TypeOK /\ [Next]_<<program, vars>> => [Frozen]_vars
  <2> SUFFICES ASSUME TypeOK, [Next]_<<program, vars>>, value' # value,
                      NEW t \in Thread, pc[t] = "holding"
               PROVE  FALSE
    BY DEF Frozen
  <2>1. owner = t
    BY DEF TypeOK
  <2>2. MainProcesses
    BY DEF Next, UsesLock, acquireLock, unlock, DestroyLock, ReadFails,
           ReadReturnsAtOnce, ReadWaits, Rechecks, ReadReturns, ReadWaitsAgain,
           WakesSpuriously, stopMainThread, FinishesStop, ClearsRunning, Joined,
           JoinsTwice, MainStep, MainTestsRunning,
           MainLocks, MainNotifies, ClientWrites, ClientAnswers, nodeVars, vars
  <2>3. owner = MainThread
    BY <2>2 DEF MainProcesses, TypeOK
  <2> QED
    BY <2>1, <2>3, Names
<1> QED
  BY <1>1, TypesCorrect, PTL DEF Spec, HeldLockFreezesTree, Frozen

-----------------------------------------------------------------------------
(* The steps under which a wait begins or ends, or the flag changes. *)
LEMMA WakeUpStep ==
  TypeOK /\ WakeUpIsComing /\ [Next]_<<program, vars>> => WakeUpIsComing'
<1> SUFFICES ASSUME TypeOK, WakeUpIsComing, [Next]_<<program, vars>>
             PROVE  WakeUpIsComing'
  OBVIOUS
<1>1. ASSUME NEW t \in Thread,
             UsesLock(t) \/ WakesSpuriously(t) \/ Rechecks(t) \/ stopMainThread(t) \/ FinishesStop(t)
      PROVE  WakeUpIsComing'
  <2> USE <1>1 DEF WakeUpIsComing, TypeOK, Goto
  <2>1. CASE acquireLock(t)
    BY <2>1 DEF acquireLock, mainVars, nodeVars
  <2>2. CASE unlock(t)
    BY <2>2 DEF unlock, mainVars, nodeVars
  <2>3. CASE DestroyLock(t)
    BY <2>3 DEF DestroyLock, mainVars, nodeVars
  <2>4. CASE ReadFails(t)
    BY <2>4 DEF ReadFails, mainVars, nodeVars
  <2>5. CASE ReadReturnsAtOnce(t)
    BY <2>5 DEF ReadReturnsAtOnce, FlagBeforeRead, mainVars
  <2>6. CASE ReadWaits(t)
    BY <2>6 DEF ReadWaits
  <2>7. CASE WakesSpuriously(t)
    BY <2>7 DEF WakesSpuriously, mainVars, nodeVars
  <2>8. CASE ReadReturns(t)
    BY <2>8 DEF ReadReturns, mainVars
  <2>9. CASE ReadWaitsAgain(t)
    BY <2>9 DEF ReadWaitsAgain, mainVars, nodeVars
  <2>10. CASE stopMainThread(t)
    BY <2>10 DEF stopMainThread, mainVars, nodeVars
  <2>11. CASE FinishesStop(t)
    BY <2>11 DEF FinishesStop, ClearsRunning, Joined, JoinsTwice, mainVars, nodeVars
  <2> QED
    BY <2>1, <2>2, <2>3, <2>4, <2>5, <2>6, <2>7, <2>8, <2>9, <2>10, <2>11
    DEF UsesLock, Rechecks
<1>2. CASE MainTestsRunning
  BY <1>2 DEF MainTestsRunning, WakeUpIsComing, threadVars, nodeVars
<1>3. CASE MainLocks
  BY <1>3 DEF MainLocks, WakeUpIsComing, threadVars, nodeVars
<1>4. CASE MainProcesses
  BY <1>4 DEF MainProcesses, AfterProcessing, WakeUpIsComing
<1>5. CASE MainNotifies
  BY <1>5 DEF MainNotifies, AllWoken, WakeUpIsComing, TypeOK
<1>6. CASE ClientWrites \/ ClientAnswers
  BY <1>6 DEF ClientWrites, ClientAnswers, WakeUpIsComing, threadVars, mainVars, nodeVars
<1>7. CASE UNCHANGED <<program, vars>>
  BY <1>7 DEF vars, WakeUpIsComing, threadVars, mainVars, nodeVars
<1> QED
  BY <1>1, <1>2, <1>3, <1>4, <1>5, <1>6, <1>7 DEF Next, MainStep

(* No wake-up is missed: when the value has arrived while a thread blocks  *)
(* in sendReadValueReqBlocking, the background thread's notify_all is      *)
(* still to come (SOTMasterThreaded.h, mainThreadFunc).                    *)
THEOREM NoWakeUpMissed == Spec => []WakeUpIsComing
<1>1. Init => WakeUpIsComing
  BY DEF Init, WakeUpIsComing
<1> QED
  BY <1>1, WakeUpStep, TypesCorrect, PTL DEF Spec

-----------------------------------------------------------------------------
(* Programs that read once per lock and never unlock: a thread that blocks *)
(* or is about to go on has read, and no lock is without the mutex.        *)
ReadOnce ==
  ~ usesUnlock =>
    \A t \in Thread :
      /\ pc[t] # "unlocked"
      /\ pc[t] \in {"waiting", "woken"} => reads[t] = 1
      /\ pc[t] = "holding" /\ reads[t] = 0 => lockPtr = t

LEMMA ReadOnceStep ==
  ASSUME ReadsPerLock = 1, TypeOK, ReadOnce, [Next]_<<program, vars>>
  PROVE  ReadOnce'
<1>0. usesUnlock' = usesUnlock
  BY DEF Next, program
<1> SUFFICES ASSUME ~ usesUnlock PROVE ReadOnce'
  BY <1>0 DEF ReadOnce
<1>1. ASSUME NEW t \in Thread,
             UsesLock(t) \/ WakesSpuriously(t) \/ Rechecks(t) \/ stopMainThread(t) \/ FinishesStop(t)
      PROVE  ReadOnce'
  <2> USE <1>0, <1>1, Names DEF ReadOnce, TypeOK, Goto
  <2>1. CASE acquireLock(t)
    BY <2>1 DEF acquireLock, PointerSet
  <2>2. CASE unlock(t)
    BY <2>2 DEF unlock
  <2>3. CASE DestroyLock(t)
    BY <2>3 DEF DestroyLock
  <2>4. CASE ReadFails(t)
    BY <2>4 DEF ReadFails, BeginsRead
  <2>5. CASE ReadReturnsAtOnce(t)
    BY <2>5 DEF ReadReturnsAtOnce, BeginsRead, lockVars
  <2>6. CASE ReadWaits(t)
    BY <2>6 DEF ReadWaits, BeginsRead
  <2>7. CASE WakesSpuriously(t)
    BY <2>7 DEF WakesSpuriously, lockVars
  <2>8. CASE ReadReturns(t)
    BY <2>8 DEF ReadReturns
  <2>9. CASE ReadWaitsAgain(t)
    BY <2>9 DEF ReadWaitsAgain, lockVars
  <2>10. CASE stopMainThread(t)
    BY <2>10 DEF stopMainThread, lockVars
  <2>11. CASE FinishesStop(t)
    BY <2>11 DEF FinishesStop, ClearsRunning, Joined, JoinsTwice, lockVars
  <2> QED
    BY <2>1, <2>2, <2>3, <2>4, <2>5, <2>6, <2>7, <2>8, <2>9, <2>10, <2>11
    DEF UsesLock, Rechecks
<1>2. CASE MainTestsRunning \/ MainLocks \/ MainProcesses
  BY <1>0, <1>2
  DEF MainTestsRunning, MainLocks, MainProcesses, ReadOnce, lockVars, threadVars
<1>3. CASE MainNotifies
  BY <1>0, <1>3 DEF MainNotifies, AllWoken, ReadOnce, TypeOK, lockVars
<1>4. CASE ClientWrites \/ ClientAnswers
  BY <1>0, <1>4 DEF ClientWrites, ClientAnswers, ReadOnce, lockVars, threadVars
<1>5. CASE UNCHANGED <<program, vars>>
  BY <1>0, <1>5 DEF vars, ReadOnce, lockVars, threadVars
<1> QED
  BY <1>1, <1>2, <1>3, <1>4, <1>5 DEF Next, MainStep

(* In a program that never calls CanMasterLock::unlock and reads once per  *)
(* lock, a thread that may read finds its own lock behind                  *)
(* canCommunicationMutexLockPtr, however many threads there are            *)
(* (SOTMasterLockable.h:23).                                               *)
THEOREM OwnLockFound ==
  ASSUME ReadsPerLock = 1
  PROVE  Spec => []HolderFindsItsLock
<1>1. Init => ReadOnce
  BY DEF Init, ReadOnce
<1>2. TypeOK /\ ReadOnce /\ [Next]_<<program, vars>> => ReadOnce'
  BY ReadOnceStep
<1>3. TypeOK /\ ReadOnce => HolderFindsItsLock
  BY DEF TypeOK, ReadOnce, HolderFindsItsLock
<1> QED
  BY <1>1, <1>2, <1>3, TypesCorrect, PTL DEF Spec

-----------------------------------------------------------------------------
(* Where only one thread ever stops the background thread: it is the only  *)
(* one in stopMainThread, and not any more once it has joined.             *)
StopsAlone(s) ==
  /\ \A t \in Thread : pc[t] \in {"stopping", "joining"} => t = s /\ joiner = NoThread
  /\ \A t \in Thread : pc[t] = "joining" => ~ mainThreadRunning
  /\ joiner # NoThread => ~ mainThreadRunning
  /\ JoinedOnce

LEMMA StopsAloneStep ==
  ASSUME NEW s, Stopper \subseteq {s}, TypeOK, StopsAlone(s), [Next]_<<program, vars>>
  PROVE  StopsAlone(s)'
<1> USE DEF StopsAlone, JoinedOnce, stopVars
<1>1. ASSUME NEW t \in Thread, UsesLock(t) \/ WakesSpuriously(t) \/ Rechecks(t)
      PROVE  StopsAlone(s)'
  <2>1. UNCHANGED stopVars
    BY <1>1 DEF UsesLock, acquireLock, unlock, DestroyLock, ReadFails, ReadReturnsAtOnce,
                ReadWaits, Rechecks, ReadReturns, ReadWaitsAgain, WakesSpuriously, mainVars
  <2>2. PICK point \in {"idle", "holding", "unlocked", "waiting", "woken", "failed"} :
          pc' = [pc EXCEPT ![t] = point] \/ pc' = pc
    BY <1>1 DEF UsesLock, acquireLock, unlock, DestroyLock, ReadFails, ReadReturnsAtOnce,
                ReadWaits, Rechecks, ReadReturns, ReadWaitsAgain, WakesSpuriously, Goto
  <2> QED
    BY <2>1, <2>2 DEF TypeOK
<1>2. ASSUME NEW t \in Thread, stopMainThread(t)
      PROVE  StopsAlone(s)'
  BY <1>2 DEF stopMainThread, mainVars, Goto, TypeOK
<1>3. ASSUME NEW t \in Thread, FinishesStop(t)
      PROVE  StopsAlone(s)'
  <2>1. CASE ClearsRunning(t)
    BY <2>1 DEF ClearsRunning, Goto, TypeOK
  <2>2. CASE Joined(t)
    BY <2>2 DEF Joined, Goto, TypeOK
  <2>3. CASE JoinsTwice(t)
    BY <2>3 DEF JoinsTwice
  <2> QED
    BY <1>3, <2>1, <2>2, <2>3 DEF FinishesStop
<1>4. CASE MainTestsRunning \/ MainLocks \/ MainProcesses
  BY <1>4 DEF MainTestsRunning, MainLocks, MainProcesses, threadVars
<1>5. CASE MainNotifies
  BY <1>5 DEF MainNotifies, AllWoken, TypeOK
<1>6. CASE ClientWrites \/ ClientAnswers
  BY <1>6 DEF ClientWrites, ClientAnswers, threadVars, mainVars
<1>7. CASE UNCHANGED <<program, vars>>
  BY <1>7 DEF vars, threadVars, mainVars
<1> QED
  BY <1>1, <1>2, <1>3, <1>4, <1>5, <1>6, <1>7 DEF Next, MainStep

(* stopMainThread tests mainThreadRunning and clears it in two accesses    *)
(* (SOTMasterThreaded.h:98-99).  As long as one thread only ever calls it, *)
(* however often, the background thread is joined once; with two threads   *)
(* threads_two_stops.cfg shows that it is not.                             *)
THEOREM OneStopperJoinsOnce ==
  ASSUME NEW s, Stopper \subseteq {s}
  PROVE  Spec => []JoinedOnce
<1>1. Init => StopsAlone(s)
  BY DEF Init, StopsAlone, JoinedOnce
<1>2. TypeOK /\ StopsAlone(s) /\ [Next]_<<program, vars>> => StopsAlone(s)'
  BY StopsAloneStep
<1>3. StopsAlone(s) => JoinedOnce
  BY DEF StopsAlone
<1> QED
  BY <1>1, <1>2, <1>3, TypesCorrect, PTL DEF Spec
=============================================================================
