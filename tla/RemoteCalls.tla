----------------------------- MODULE RemoteCalls -----------------------------
(***************************************************************************)
(* The remote calls of one call id: RemoteCallCaller in the master and     *)
(* RemoteCallCallable in a connected client (RemoteCalls.h), with the      *)
(* frames that processCanFrameReceived of SOTClient.h and SOTMaster.h      *)
(* handle for them.                                                        *)
(*                                                                         *)
(* Neither side queues anything: arguments and results are single          *)
(* variables that the next frame overwrites, and an event flag says that   *)
(* they are new.  An argument is the number of its call; a result is the   *)
(* number of the call it answers.                                          *)
(***************************************************************************)
EXTENDS Naturals, Sequences

CONSTANTS
  MaxCalls,    \* bound: calls made
  MaxLosses    \* bound: frames lost

ASSUME CallsAssumption == MaxCalls \in Nat /\ MaxLosses \in Nat

VARIABLES
  sent,               \* calls made so far
  requests,           \* REMOTE_CALL_REQUEST frames to the client
  argumentsData,      \* RemoteCallCallable::argumentsData, 0 before any call
  remoteCallCalled,   \* RemoteCallCallable::remoteCallCalled
  answers,            \* REMOTE_CALL_RETURN frames to the master
  callReturnData,     \* RemoteCallCaller::callReturnData
  remoteCallReturned, \* RemoteCallCaller::remoteCallReturned
  executed,           \* what the callee's handler returned, in order
  got,                \* what the caller's handler was given, in order
  losses              \* frames lost so far

calleeVars == <<argumentsData, remoteCallCalled, executed>>
callerVars == <<sent, callReturnData, remoteCallReturned, got>>
vars == <<requests, answers, calleeVars, callerVars, losses>>

CallNumber == 1 .. MaxCalls
Result == [call : CallNumber, isError : BOOLEAN]

(* RemoteCallReturn: both alternatives have a place of their own. *)
ReturnData ==
  [isError : BOOLEAN, returnData : 0 .. MaxCalls, returnError : 0 .. MaxCalls]

(* EventFlag::isSet starts out false.  (A bug's form: it starts out true.) *)
FlagSetInitially == TRUE
FlagInitially == FALSE

Init ==
  /\ sent = 0
  /\ requests = << >>
  /\ argumentsData = 0
  /\ remoteCallCalled = FlagInitially
  /\ answers = << >>
  /\ callReturnData = [isError |-> FALSE, returnData |-> 0, returnError |-> 0]
  /\ remoteCallReturned = FlagInitially
  /\ executed = << >>
  /\ got = << >>
  /\ losses = 0

-----------------------------------------------------------------------------
(* The caller's application; nothing makes it wait for an answer. *)
sendCall ==
  /\ sent < MaxCalls
  /\ sent' = sent + 1
  /\ requests' = Append(requests, sent')
  /\ UNCHANGED <<answers, calleeVars, callReturnData, remoteCallReturned, got, losses>>

(* SOTClient::processCanFrameReceived. *)
ClientGetsRequest ==
  /\ requests # << >>
  /\ requests' = Tail(requests)
  /\ argumentsData' = Head(requests)
  /\ remoteCallCalled' = TRUE
  /\ UNCHANGED <<answers, callerVars, executed, losses>>

(* checkAndReset of an event flag.  (A bug's form: it does not reset.) *)
AfterCheckKept(flag) == flag
AfterCheck(flag) == FALSE

(* handleCallCalled: the handler returns a value or an error of its enum.  *)
handleCallCalled(isError) ==
  /\ remoteCallCalled
  /\ remoteCallCalled' = AfterCheck(remoteCallCalled)
  /\ executed' = Append(executed, [call |-> argumentsData, isError |-> isError])
  /\ answers' = Append(answers, [call |-> argumentsData, isError |-> isError])
  /\ UNCHANGED <<requests, argumentsData, callerVars, losses>>

(* What an answer leaves of callReturnData.  (Bugs' forms: a value does    *)
(* not clear isError; an error does not set it.)                           *)
WrittenErrorSticks(data, r) ==
  IF r.isError THEN [data EXCEPT !.returnError = r.call, !.isError = TRUE]
               ELSE [data EXCEPT !.returnData = r.call]
WrittenErrorUnmarked(data, r) ==
  IF r.isError THEN [data EXCEPT !.returnError = r.call]
               ELSE [data EXCEPT !.returnData = r.call, !.isError = FALSE]
Written(data, r) ==
  IF r.isError THEN [data EXCEPT !.returnError = r.call, !.isError = TRUE]
               ELSE [data EXCEPT !.returnData = r.call, !.isError = FALSE]

(* SOTMasterGeneric::processCanFrameReceived. *)
MasterGetsAnswer ==
  /\ answers # << >>
  /\ answers' = Tail(answers)
  /\ callReturnData' = Written(callReturnData, Head(answers))
  /\ remoteCallReturned' = TRUE
  /\ UNCHANGED <<requests, calleeVars, sent, got, losses>>

(* The result as the caller's handler sees it: isError says which. *)
ReturnedCall ==
  IF callReturnData.isError THEN callReturnData.returnError
                            ELSE callReturnData.returnData
ReturnedResult == [call |-> ReturnedCall, isError |-> callReturnData.isError]

handleCallReturned ==
  /\ remoteCallReturned
  /\ remoteCallReturned' = AfterCheck(remoteCallReturned)
  /\ got' = Append(got, ReturnedResult)
  /\ UNCHANGED <<requests, answers, calleeVars, sent, callReturnData, losses>>

(* Either frame may not get through; nothing repeats it. *)
FrameLost ==
  /\ losses < MaxLosses
  /\ losses' = losses + 1
  /\ \/ requests # << >> /\ requests' = Tail(requests) /\ UNCHANGED answers
     \/ answers # << >> /\ answers' = Tail(answers) /\ UNCHANGED requests
  /\ UNCHANGED <<calleeVars, callerVars>>

CalleeHandles == \E isError \in BOOLEAN : handleCallCalled(isError)

Next ==
  \/ sendCall
  \/ ClientGetsRequest
  \/ CalleeHandles
  \/ MasterGetsAnswer
  \/ handleCallReturned
  \/ FrameLost

Spec == Init /\ [][Next]_vars

(* Both main loops process frames and check their flags again and again. *)
FairSpec ==
  /\ Spec
  /\ WF_vars(ClientGetsRequest)
  /\ WF_vars(CalleeHandles)
  /\ WF_vars(MasterGetsAnswer)
  /\ WF_vars(handleCallReturned)

-----------------------------------------------------------------------------
(* Types of the variables; call numbers stay within the bound. *)
TypeOK ==
  /\ sent \in 0 .. MaxCalls
  /\ requests \in Seq(CallNumber)
  /\ argumentsData \in 0 .. MaxCalls
  /\ remoteCallCalled \in BOOLEAN
  /\ answers \in Seq(Result)
  /\ callReturnData \in ReturnData
  /\ remoteCallReturned \in BOOLEAN
  /\ executed \in Seq(Result)
  /\ got \in Seq(Result)
  /\ losses \in 0 .. MaxLosses

Increasing(results) ==
  \A i, j \in DOMAIN results : i < j => results[i].call < results[j].call

(* No call is executed twice and no result is given to the caller twice or *)
(* after a newer one, although arguments and results are overwritten while *)
(* they wait and a lost frame leaves no trace.                             *)
InOrderOnce == Increasing(executed) /\ Increasing(got)

(* What the caller is given is what the callee's handler returned for that *)
(* call: no result is put together from an old value and a new error.      *)
Occurs(r, results) == \E j \in DOMAIN results : r = results[j]
ResultsGenuine == \A i \in DOMAIN got : Occurs(got[i], executed)

(* The order of what is under way, as an inductive invariant: from the     *)
(* requests over the arguments, the answers and the stored result to what  *)
(* the caller has been given, call numbers only decrease, and they do so   *)
(* strictly where a flag marks the place as new.                           *)
RequestsAhead ==
  /\ argumentsData <= sent
  /\ \A i \in DOMAIN requests : argumentsData < requests[i] /\ requests[i] <= sent
  /\ \A i, j \in DOMAIN requests : i < j => requests[i] < requests[j]

ArgumentsAhead ==
  /\ remoteCallCalled => 0 < argumentsData
  /\ ReturnedCall <= argumentsData
  /\ remoteCallCalled => ReturnedCall < argumentsData
  /\ \A i \in DOMAIN answers :
       /\ answers[i].call <= argumentsData
       /\ remoteCallCalled => answers[i].call < argumentsData
  /\ \A i \in DOMAIN executed :
       /\ executed[i].call <= argumentsData
       /\ remoteCallCalled => executed[i].call < argumentsData

AnswersAhead ==
  /\ Increasing(answers)
  /\ \A i \in DOMAIN answers : ReturnedCall < answers[i].call

ResultAhead ==
  /\ remoteCallReturned => 0 < ReturnedCall
  /\ \A i \in DOMAIN got :
       /\ got[i].call <= ReturnedCall
       /\ remoteCallReturned => got[i].call < ReturnedCall

AnswersGenuine ==
  /\ \A i \in DOMAIN answers : Occurs(answers[i], executed)
  /\ remoteCallReturned => Occurs(ReturnedResult, executed)

CallsInv ==
  /\ ResultsGenuine
  /\ AnswersGenuine
  /\ RequestsAhead
  /\ ArgumentsAhead
  /\ AnswersAhead
  /\ ResultAhead
  /\ InOrderOnce

(* The service the caller's application can count on: whatever is lost or  *)
(* overwritten, RemoteCallService is implemented (RemoteCalls.h with the   *)
(* handlers of its two frames in SOTClient.h and SOTMaster.h).             *)
Service == INSTANCE RemoteCallService WITH
             given <- [i \in DOMAIN got |-> got[i].call]
ImplementsService == Service!ServiceSpec

(* As long as no frame is lost the service is a live one: while a result   *)
(* newer than the last one given is missing, one will be given; the newest *)
(* call is always answered, although older ones may be passed over.        *)
LosslessServiceIsLive == [](losses = 0) => Service!ServiceFairness

(* doc/protocol_can_frames.md:144: "The Remote Call will allways lead to   *)
(* Remote Call Return back to the caller."                                 *)
EveryCallReturns ==
  \A n \in CallNumber :
    n <= sent ~> \E i \in DOMAIN got : got[i].call = n
=============================================================================
