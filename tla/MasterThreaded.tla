--------------------------- MODULE MasterThreaded ---------------------------
(***************************************************************************)
(* A master with a background thread, SOTMasterThreaded.h, and the         *)
(* blocking read of SOTMasterLockable.h: one mutex, one condition          *)
(* variable, and the pointer through which a blocking read finds the lock  *)
(* its caller holds.                                                       *)
(*                                                                         *)
(* Application threads use one value node of one connected client.  A      *)
(* value is a version number of the node in the client.  A program may use *)
(* CanMasterLock::unlock or not, and reset receivedValueUpdate or not.     *)
(***************************************************************************)
EXTENDS Naturals, Sequences

CONSTANTS
  Thread,        \* application threads
  NoThread,      \* no thread: the mutex is free, the pointer is null
  MainThread,    \* the background thread
  ReadsPerLock,  \* blocking reads under one CanMasterLock
  UsesUnlock,    \* whether programs call CanMasterLock::unlock
  Resets,        \* when they reset receivedValueUpdate, if ever
  Stopper,       \* threads that may call stopMainThread
  MaxLocks,      \* bound: calls of acquireLock
  MaxVersion     \* bound: versions of the value in the client

ASSUME ThreadAssumption ==
  /\ NoThread \notin Thread /\ MainThread \notin Thread /\ NoThread # MainThread
  /\ ReadsPerLock \in Nat /\ MaxLocks \in Nat /\ MaxVersion \in Nat
  /\ UsesUnlock \subseteq BOOLEAN /\ Stopper \subseteq Thread
  /\ Resets \subseteq {"never", "before a read", "after a read"}

VARIABLES
  usesUnlock,    \* what the program does, of UsesUnlock
  resets,        \* ... and of Resets
  owner,         \* who holds canCommunicationMutex
  lockPtr,       \* canCommunicationMutexLockPtr, as the thread whose lock it is
  pc,            \* where each application thread is
  reads,         \* blocking reads of each thread under its present lock
  locks,         \* calls of acquireLock so far
  mainPc,        \* where the background thread is in mainThreadFunc
  mainThreadRunning,
  joiner,        \* whose join of mainThread has returned, after which no other can
  asks,          \* read requests on their way to the client
  arriving,      \* versions on their way to the master
  clientVersion, \* the node's value in the client
  value,         \* ... and in the master's copy of the client's tree
  receivedValueUpdate,  \* the node's event flag in that copy
  askedAt,       \* clientVersion when each thread called its last read
  answer         \* what that read returned

program == <<usesUnlock, resets>>
lockVars == <<owner, lockPtr, locks>>
threadVars == <<pc, reads, askedAt, answer>>
stopVars == <<mainThreadRunning, joiner>>
mainVars == <<mainPc, stopVars>>
nodeVars == <<value, receivedValueUpdate>>
linkVars == <<asks, arriving, clientVersion>>
vars == <<lockVars, threadVars, mainVars, nodeVars, linkVars>>

(* holding: has a CanMasterLock; unlocked: has one that was unlocked;      *)
(* waiting and woken: inside condition_variable::wait; failed: its read    *)
(* threw an exception; stopping and joining: in stopMainThread, before it  *)
(* clears the flag and after; joinThrew: its join threw an exception.      *)
ThreadPoint == {"idle", "holding", "unlocked", "waiting", "woken", "failed",
                "stopping", "joining", "joinThrew"}
MainPoint == {"test", "lock", "process", "notify", "ended"}
Version == 0 .. MaxVersion

(* The program has called startMainThread. *)
Init ==
  /\ usesUnlock \in UsesUnlock
  /\ resets \in Resets
  /\ owner = NoThread
  /\ lockPtr = NoThread
  /\ pc = [t \in Thread |-> "idle"]
  /\ reads = [t \in Thread |-> 0]
  /\ locks = 0
  /\ mainPc = "test"
  /\ mainThreadRunning = TRUE
  /\ joiner = NoThread
  /\ asks = 0
  /\ arriving = << >>
  /\ clientVersion = 0
  /\ value = 0
  /\ receivedValueUpdate = FALSE
  /\ askedAt = [t \in Thread |-> 0]
  /\ answer = [t \in Thread |-> 0]

Goto(t, point) == pc' = [pc EXCEPT ![t] = point]

-----------------------------------------------------------------------------
(* CanMasterLock.  (Bugs' forms: the constructor does not set the pointer; *)
(* the destructor releases a mutex the lock no longer owns.)               *)
PointerKept(t) == lockPtr
PointerSet(t) == t

OwnerReleased(t) == NoThread
OwnerAfterDestroy(t) == IF pc[t] = "holding" THEN NoThread ELSE owner

acquireLock(t) ==
  /\ pc[t] = "idle"
  /\ locks < MaxLocks
  /\ owner = NoThread
  /\ owner' = t
  /\ lockPtr' = PointerSet(t)
  /\ locks' = locks + 1
  /\ Goto(t, "holding")
  /\ reads' = [reads EXCEPT ![t] = 0]
  /\ UNCHANGED <<askedAt, answer, mainVars, nodeVars, linkVars>>

(* The mutex is released, the pointer stays. *)
unlock(t) ==
  /\ usesUnlock
  /\ pc[t] = "holding"
  /\ owner' = NoThread
  /\ Goto(t, "unlocked")
  /\ UNCHANGED <<lockPtr, locks, reads, askedAt, answer, mainVars, nodeVars, linkVars>>

(* The destructor sets the pointer to null, whoever's lock it points to,   *)
(* and releases the mutex if the lock still owns it.                       *)
DestroyLock(t) ==
  /\ pc[t] \in {"holding", "unlocked"}
  /\ lockPtr' = NoThread
  /\ owner' = OwnerAfterDestroy(t)
  /\ Goto(t, "idle")
  /\ UNCHANGED <<locks, reads, askedAt, answer, mainVars, nodeVars, linkVars>>

-----------------------------------------------------------------------------
(* sendReadValueReqBlocking. *)

BeginsRead(t) ==
  /\ pc[t] = "holding"
  /\ reads[t] < ReadsPerLock
  /\ reads' = [reads EXCEPT ![t] = @ + 1]
  /\ askedAt' = [askedAt EXCEPT ![t] = clientVersion]

(* A null pointer is an exception, which destroys the thread's lock. *)
ReadFails(t) ==
  /\ BeginsRead(t)
  /\ lockPtr = NoThread
  /\ owner' = NoThread
  /\ Goto(t, "failed")
  /\ UNCHANGED <<lockPtr, locks, answer, mainVars, nodeVars, linkVars>>

FlagBeforeRead == receivedValueUpdate /\ resets # "before a read"
FlagAfterRead == resets # "after a read"

(* The request is sent.  A flag that is set ends the wait at once.  The    *)
(* lock found may be another thread's, which does not own the mutex: the   *)
(* standard leaves that wait undefined; libstdc++ only uses the mutex.     *)
ReadReturnsAtOnce(t) ==
  /\ BeginsRead(t)
  /\ lockPtr # NoThread
  /\ FlagBeforeRead
  /\ asks' = asks + 1
  /\ answer' = [answer EXCEPT ![t] = value]
  /\ receivedValueUpdate' = FlagAfterRead
  /\ UNCHANGED <<lockVars, pc, mainVars, value, arriving, clientVersion>>

ReadWaits(t) ==
  /\ BeginsRead(t)
  /\ lockPtr # NoThread
  /\ ~ FlagBeforeRead
  /\ receivedValueUpdate' = FALSE
  /\ asks' = asks + 1
  /\ owner' = NoThread
  /\ Goto(t, "waiting")
  /\ UNCHANGED <<lockPtr, locks, answer, mainVars, value, arriving, clientVersion>>

(* A woken thread gets the mutex back and looks at the flag. *)
ReadReturns(t) ==
  /\ pc[t] = "woken"
  /\ owner = NoThread
  /\ receivedValueUpdate
  /\ owner' = t
  /\ answer' = [answer EXCEPT ![t] = value]
  /\ receivedValueUpdate' = FlagAfterRead
  /\ Goto(t, "holding")
  /\ UNCHANGED <<lockPtr, locks, reads, askedAt, mainVars, value, linkVars>>

ReadWaitsAgain(t) ==
  /\ pc[t] = "woken"
  /\ owner = NoThread
  /\ ~ receivedValueUpdate
  /\ Goto(t, "waiting")
  /\ UNCHANGED <<lockVars, reads, askedAt, answer, mainVars, nodeVars, linkVars>>

(* condition_variable::wait may return without a notification. *)
WakesSpuriously(t) ==
  /\ pc[t] = "waiting"
  /\ Goto(t, "woken")
  /\ UNCHANGED <<lockVars, reads, askedAt, answer, mainVars, nodeVars, linkVars>>

-----------------------------------------------------------------------------
(* mainThreadFunc and stopMainThread.  (Bugs' forms: the loop does not     *)
(* look at mainThreadRunning; it does not wait for the mutex; it does not  *)
(* notify after processing.)                                               *)
KeepsLooping == TRUE
Continues == mainThreadRunning

MutexIgnored == TRUE
MutexIsFree == owner = NoThread

NotificationSkipped == "test"
AfterProcessing == "notify"

MainTestsRunning ==
  /\ mainPc = "test"
  /\ mainPc' = IF Continues THEN "lock" ELSE "ended"
  /\ UNCHANGED <<lockVars, threadVars, stopVars, nodeVars, linkVars>>

MainLocks ==
  /\ mainPc = "lock"
  /\ MutexIsFree
  /\ owner' = MainThread
  /\ mainPc' = "process"
  /\ UNCHANGED <<lockPtr, locks, threadVars, stopVars, nodeVars, linkVars>>

(* processCanFrames: every frame that has arrived; then the mutex is       *)
(* released.                                                               *)
MainProcesses ==
  /\ mainPc = "process"
  /\ IF arriving = << >>
       THEN UNCHANGED nodeVars
       ELSE value' = arriving[Len(arriving)] /\ receivedValueUpdate' = TRUE
  /\ arriving' = << >>
  /\ owner' = NoThread
  /\ mainPc' = AfterProcessing
  /\ UNCHANGED <<lockPtr, locks, threadVars, stopVars, asks, clientVersion>>

(* notify_all.  (A bug's form: it wakes nobody.) *)
NobodyWoken == pc
AllWoken == [t \in Thread |-> IF pc[t] = "waiting" THEN "woken" ELSE pc[t]]

MainNotifies ==
  /\ mainPc = "notify"
  /\ pc' = AllWoken
  /\ mainPc' = "test"
  /\ UNCHANGED <<lockVars, reads, askedAt, answer, stopVars, nodeVars, linkVars>>

MainStep == MainTestsRunning \/ MainProcesses \/ MainNotifies

(* The flag is tested here, and cleared in a later step: another thread    *)
(* may pass the test in between.                                           *)
stopMainThread(t) ==
  /\ t \in Stopper
  /\ pc[t] = "idle"
  /\ mainThreadRunning
  /\ Goto(t, "stopping")
  /\ UNCHANGED <<lockVars, reads, askedAt, answer, mainVars, nodeVars, linkVars>>

ClearsRunning(t) ==
  /\ pc[t] = "stopping"
  /\ mainThreadRunning' = FALSE
  /\ Goto(t, "joining")
  /\ UNCHANGED <<lockVars, reads, askedAt, answer, mainPc, joiner, nodeVars, linkVars>>

Joined(t) ==
  /\ pc[t] = "joining"
  /\ mainPc = "ended"
  /\ joiner = NoThread
  /\ joiner' = t
  /\ Goto(t, "idle")
  /\ UNCHANGED <<lockVars, reads, askedAt, answer, mainPc, mainThreadRunning, nodeVars, linkVars>>

(* A thread that has been joined is no longer joinable, and the join       *)
(* throws.  Two joins at once are undefined; with glibc one of them fails, *)
(* and libstdc++ makes an exception of it.                                 *)
JoinsTwice(t) ==
  /\ pc[t] = "joining"
  /\ joiner # NoThread \/ \E u \in Thread \ {t} : pc[u] = "joining"
  /\ Goto(t, "joinThrew")
  /\ UNCHANGED <<lockVars, reads, askedAt, answer, mainVars, nodeVars, linkVars>>

FinishesStop(t) == ClearsRunning(t) \/ Joined(t) \/ JoinsTwice(t)

-----------------------------------------------------------------------------
(* The client: its application writes the node, and may send the value;    *)
(* its main loop answers read requests.                                    *)
ClientWrites ==
  /\ clientVersion < MaxVersion
  /\ clientVersion' = clientVersion + 1
  /\ arriving' \in {arriving, Append(arriving, clientVersion')}
  /\ UNCHANGED <<lockVars, threadVars, mainVars, nodeVars, asks>>

ClientAnswers ==
  /\ asks > 0
  /\ asks' = asks - 1
  /\ arriving' = Append(arriving, clientVersion)
  /\ UNCHANGED <<lockVars, threadVars, mainVars, nodeVars, clientVersion>>

-----------------------------------------------------------------------------
UsesLock(t) ==
  \/ acquireLock(t)
  \/ unlock(t)
  \/ DestroyLock(t)
  \/ ReadFails(t)
  \/ ReadReturnsAtOnce(t)
  \/ ReadWaits(t)

Rechecks(t) == ReadReturns(t) \/ ReadWaitsAgain(t)

Next ==
  /\ \/ \E t \in Thread :
          UsesLock(t) \/ WakesSpuriously(t) \/ Rechecks(t) \/ stopMainThread(t) \/ FinishesStop(t)
     \/ MainStep
     \/ MainLocks
     \/ ClientWrites
     \/ ClientAnswers
  /\ UNCHANGED program

Spec == Init /\ [][Next]_<<program, vars>>

(* Locks are held for a short time only, as acquireLock asks for, and the  *)
(* background thread sleeps after each release, so that whoever waits for  *)
(* the mutex gets it some time; the client answers.                        *)
FairSpec ==
  /\ Spec
  /\ WF_vars(MainStep)
  /\ SF_vars(MainLocks)
  /\ WF_vars(ClientAnswers)
  /\ \A t \in Thread :
       /\ SF_vars(Rechecks(t))
       /\ WF_vars(DestroyLock(t))
       /\ WF_vars(FinishesStop(t))

-----------------------------------------------------------------------------
(* Types; the mutex is held by whom the program counters say. *)
TypeOK ==
  /\ usesUnlock \in UsesUnlock /\ resets \in Resets
  /\ owner \in Thread \cup {NoThread, MainThread}
  /\ lockPtr \in Thread \cup {NoThread}
  /\ pc \in [Thread -> ThreadPoint]
  /\ reads \in [Thread -> 0 .. ReadsPerLock]
  /\ locks \in 0 .. MaxLocks
  /\ mainPc \in MainPoint
  /\ mainThreadRunning \in BOOLEAN
  /\ joiner \in Thread \cup {NoThread}
  /\ asks \in Nat
  /\ arriving \in Seq(Version)
  /\ {clientVersion, value} \subseteq Version
  /\ receivedValueUpdate \in BOOLEAN
  /\ askedAt \in [Thread -> Version] /\ answer \in [Thread -> Version]
  /\ (owner = MainThread) <=> (mainPc = "process")
  /\ \A t \in Thread : (owner = t) <=> (pc[t] = "holding")

(* SOTMasterLockable.h:23 looks for the caller's lock ("check if already   *)
(* locked"): a thread that holds the mutex and may still read finds its    *)
(* own lock behind the pointer, as condition_variable::wait requires, in a *)
(* program without unlock that reads once per lock.                        *)
HolderFindsItsLock ==
  ~ usesUnlock =>
    \A t \in Thread :
      pc[t] = "holding" /\ reads[t] < ReadsPerLock => lockPtr = t

(* SOTMasterThreaded.h:106-107: "To access ANY functionality of the        *)
(* CanMaster or clients [...] first acquire this lock": a blocking read    *)
(* under the lock does not fail for want of one.                           *)
NoReadThrows == \A t \in Thread : pc[t] # "failed"

(* SOTMasterThreaded.h:105-112: "While holding this lock the background    *)
(* thread [...] will be blocked": what a thread has read stays as it is    *)
(* until it lets go of the lock or blocks.                                 *)
HeldLockFreezesTree ==
  [][\A t \in Thread : pc[t] = "holding" /\ pc'[t] = "holding"
       => value' = value]_vars

(* A value that arrives while a thread blocks is not missed: the flag is   *)
(* set under the mutex, and a notification follows that is still to come.  *)
WakeUpIsComing ==
  \A t \in Thread :
    pc[t] = "waiting" /\ receivedValueUpdate => mainPc = "notify"

(* OTNode.h:202-203: a blocking read "will block until the new value has   *)
(* arrived and will return": it returns, as long as nobody stops the       *)
(* background thread.                                                      *)
BlockingReadReturns ==
  \A t \in Thread :
    pc[t] = "waiting" ~> (pc[t] = "holding" \/ ~ mainThreadRunning)

(* ... and so it would if stopMainThread woke the threads that wait. *)
BlockingReadSurvivesStop ==
  \A t \in Thread : pc[t] = "waiting" ~> pc[t] = "holding"

(* OTNode.h:202: it "will return the new value": one that is not older     *)
(* than the call.                                                          *)
BlockingReadIsFresh ==
  \A t \in Thread : pc[t] = "holding" /\ reads[t] > 0 => answer[t] >= askedAt[t]

(* SOTMasterThreaded.h:97-103: stopMainThread ends the background thread,  *)
(* whoever contends for the mutex or stops it meanwhile, and returns; only *)
(* where another thread has passed the test too may it be that the other's *)
(* call returns and this one throws.                                       *)
StopReturns ==
  \A t \in Thread :
    pc[t] = "stopping" ~> /\ mainPc = "ended"
                          /\ \/ pc[t] = "idle" /\ joiner = t
                             \/ pc[t] = "joinThrew" /\ joiner \notin {t, NoThread}

(* The test of SOTMasterThreaded.h:98 lets the thread be joined once: it   *)
(* would, if one access tested the flag and cleared it.                    *)
JoinedOnce == \A t \in Thread : pc[t] # "joinThrew"
=============================================================================
