------------------------- MODULE RemoteCalls_proofs -------------------------
(* The remote calls of one call id, for every number of calls and losses:  *)
(* types, the order and genuineness of results, and the service they       *)
(* implement.                                                              *)
EXTENDS RemoteCalls, SequenceTheorems, TLAPS

-----------------------------------------------------------------------------
(* Elements of a sequence after an Append. *)
LEMMA AppendElements ==
  ASSUME NEW S, NEW q \in Seq(S), NEW e \in S
  PROVE  /\ Append(q, e) \in Seq(S)
         /\ Append(q, e) # << >>
         /\ Len(q) \in Nat
         /\ DOMAIN q = 1 .. Len(q)
         /\ DOMAIN Append(q, e) = 1 .. (Len(q) + 1)
         /\ \A i \in 1 .. Len(q) : Append(q, e)[i] = q[i]
         /\ Append(q, e)[Len(q) + 1] = e
<1>1. Append(q, e) \in Seq(S) /\ Len(Append(q, e)) = Len(q) + 1
  BY AppendProperties
<1> QED
  BY <1>1, AppendProperties, LenProperties

(* Elements of a sequence after a Tail: each has moved up by one. *)
LEMMA TailElements ==
  ASSUME NEW S, NEW q \in Seq(S), q # << >>
  PROVE  /\ Tail(q) \in Seq(S)
         /\ Head(q) \in S
         /\ Head(q) = q[1]
         /\ Len(q) \in Nat \ {0}
         /\ DOMAIN q = 1 .. Len(q)
         /\ DOMAIN Tail(q) = 1 .. (Len(q) - 1)
         /\ \A i \in 1 .. (Len(q) - 1) : Tail(q)[i] = q[i + 1]
<1>1. Tail(q) \in Seq(S) /\ Len(Tail(q)) = Len(q) - 1
  BY HeadTailProperties
<1> QED
  BY <1>1, HeadTailProperties, LenProperties, EmptySeq

(* The call numbers in the state, as numbers. *)
LEMMA CallsAreNumbers ==
  ASSUME TypeOK
  PROVE  /\ \A i \in DOMAIN requests : requests[i] \in Nat
         /\ \A i \in DOMAIN answers : answers[i].call \in Nat
         /\ \A i \in DOMAIN executed : executed[i].call \in Nat
         /\ \A i \in DOMAIN got : got[i].call \in Nat
         /\ sent \in Nat /\ argumentsData \in Nat /\ ReturnedCall \in Nat
<1>1. \A i \in DOMAIN requests : requests[i] \in CallNumber
  BY ElementOfSeq, LenProperties DEF TypeOK
<1>2. \A q \in Seq(Result) : \A i \in DOMAIN q : q[i].call \in CallNumber
  <2>1. \A q \in Seq(Result) : \A i \in DOMAIN q : q[i] \in Result
    BY ElementOfSeq, LenProperties
  <2> QED
    BY <2>1 DEF Result
<1>3. ReturnedCall \in Nat
  BY CallsAssumption DEF TypeOK, ReturnedCall, ReturnData
<1> QED
  BY <1>1, <1>2, <1>3, CallsAssumption DEF TypeOK, CallNumber

(* What an answer leaves in callReturnData: its call and its outcome. *)
LEMMA WrittenShape ==
  ASSUME NEW data \in ReturnData, NEW r \in Result
  PROVE  /\ Written(data, r) \in ReturnData
         /\ Written(data, r).isError = r.isError
         /\ r.isError => Written(data, r).returnError = r.call
         /\ ~ r.isError => Written(data, r).returnData = r.call
<1>1. /\ r.isError \in BOOLEAN /\ r.call \in 0 .. MaxCalls
      /\ data.returnData \in 0 .. MaxCalls /\ data.returnError \in 0 .. MaxCalls
  BY CallsAssumption DEF Result, ReturnData, CallNumber
<1>2. CASE r.isError
  <2>1. Written(data, r) = [isError |-> TRUE, returnData |-> data.returnData,
                            returnError |-> r.call]
    BY <1>2 DEF Written, ReturnData
  <2> QED
    BY <1>1, <1>2, <2>1 DEF ReturnData
<1>3. CASE ~ r.isError
  <2>1. Written(data, r) = [isError |-> FALSE, returnData |-> r.call,
                            returnError |-> data.returnError]
    BY <1>3 DEF Written, ReturnData
  <2>2. r.isError = FALSE
    BY <1>1, <1>3
  <2>3. Written(data, r) \in ReturnData
    BY <1>1, <2>1 DEF ReturnData
  <2>4. Written(data, r).isError = FALSE /\ Written(data, r).returnData = r.call
    BY <2>1
  <2> QED
    BY <1>3, <2>2, <2>3, <2>4, Zenon
<1> QED
  BY <1>2, <1>3

-----------------------------------------------------------------------------
(* The variables keep their types (the frames and the two stored results   *)
(* of RemoteCalls.h stay numbers of calls that were made or could be).     *)
LEMMA TypeStep == TypeOK /\ (remoteCallCalled => 0 < argumentsData)
                    /\ (remoteCallReturned => 0 < ReturnedCall) /\ [Next]_vars => TypeOK'
<1> SUFFICES ASSUME TypeOK, remoteCallCalled => 0 < argumentsData,
                    remoteCallReturned => 0 < ReturnedCall, [Next]_vars
             PROVE  TypeOK'
  OBVIOUS
<1> USE CallsAssumption
<1>1. CASE sendCall
  <2>1. sent' \in CallNumber
    BY <1>1 DEF sendCall, TypeOK, CallNumber
  <2>2. requests' \in Seq(CallNumber)
    BY <1>1, <2>1, AppendElements DEF sendCall, TypeOK
  <2> QED
    BY <1>1, <2>1, <2>2 DEF sendCall, TypeOK, calleeVars, CallNumber
<1>2. CASE ClientGetsRequest
  <2>1. requests' \in Seq(CallNumber) /\ argumentsData' \in CallNumber
    BY <1>2, TailElements DEF ClientGetsRequest, TypeOK
  <2> QED
    BY <1>2, <2>1 DEF ClientGetsRequest, TypeOK, callerVars, CallNumber
<1>3. ASSUME NEW isError \in BOOLEAN, handleCallCalled(isError)
      PROVE  TypeOK'
  <2>1. [call |-> argumentsData, isError |-> isError] \in Result
    BY <1>3 DEF handleCallCalled, TypeOK, Result, CallNumber
  <2>2. executed' \in Seq(Result) /\ answers' \in Seq(Result)
    BY <1>3, <2>1, AppendElements DEF handleCallCalled, TypeOK
  <2> QED
    BY <1>3, <2>2 DEF handleCallCalled, TypeOK, AfterCheck, callerVars
<1>4. CASE MasterGetsAnswer
  <2>1. answers' \in Seq(Result) /\ Head(answers) \in Result
    BY <1>4, TailElements DEF MasterGetsAnswer, TypeOK
  <2>2. callReturnData' \in ReturnData
    BY <1>4, <2>1, WrittenShape DEF MasterGetsAnswer, TypeOK
  <2> QED
    BY <1>4, <2>1, <2>2 DEF MasterGetsAnswer, TypeOK, calleeVars
<1>5. CASE handleCallReturned
  <2>1. ReturnedResult \in Result
    BY <1>5 DEF handleCallReturned, TypeOK, ReturnedResult, ReturnedCall, Result,
                ReturnData, CallNumber
  <2>2. got' \in Seq(Result)
    BY <1>5, <2>1, AppendElements DEF handleCallReturned, TypeOK
  <2> QED
    BY <1>5, <2>2 DEF handleCallReturned, TypeOK, AfterCheck, calleeVars
<1>6. CASE FrameLost
  <2>1. ASSUME requests # << >>, requests' = Tail(requests), UNCHANGED answers
        PROVE  requests' \in Seq(CallNumber) /\ answers' \in Seq(Result)
    <3>1. requests' \in Seq(CallNumber)
      BY <2>1, TailElements DEF TypeOK
    <3> QED
      BY <2>1, <3>1 DEF TypeOK
  <2>2. ASSUME answers # << >>, answers' = Tail(answers), UNCHANGED requests
        PROVE  requests' \in Seq(CallNumber) /\ answers' \in Seq(Result)
    <3>1. answers' \in Seq(Result)
      BY <2>2, TailElements DEF TypeOK
    <3> QED
      BY <2>2, <3>1 DEF TypeOK
  <2>3. requests' \in Seq(CallNumber) /\ answers' \in Seq(Result)
    BY <1>6, <2>1, <2>2 DEF FrameLost, TypeOK
  <2> QED
    BY <1>6, <2>3 DEF FrameLost, TypeOK, calleeVars, callerVars
<1>7. CASE UNCHANGED vars
  BY <1>7 DEF vars, calleeVars, callerVars, TypeOK
<1> QED
  BY <1>1, <1>2, <1>3, <1>4, <1>5, <1>6, <1>7 DEF Next, CalleeHandles

-----------------------------------------------------------------------------
(* The invariant is preserved: one lemma per action. *)

IInv == TypeOK /\ CallsInv

(* A call gets a number above all others and goes to the end of the queue. *)
LEMMA SendCallStep == IInv /\ sendCall => CallsInv'
<1> SUFFICES ASSUME TypeOK, CallsInv, sendCall
             PROVE  CallsInv'
  BY DEF IInv
<1> USE CallsAssumption
<1>1. /\ requests \in Seq(CallNumber) /\ sent \in Nat /\ argumentsData \in Nat
      /\ sent' = sent + 1 /\ sent' \in CallNumber
      /\ requests' = Append(requests, sent')
  BY DEF sendCall, TypeOK, CallNumber
<1>2. RequestsAhead'
  <2>1. \A i \in DOMAIN requests : requests[i] \in Nat /\ requests[i] <= sent
    BY <1>1, ElementOfSeq, LenProperties DEF CallsInv, RequestsAhead, CallNumber
  <2>2. argumentsData' = argumentsData
    BY DEF sendCall, calleeVars
  <2> QED
    BY <1>1, <2>1, <2>2, AppendElements DEF CallsInv, RequestsAhead
<1> QED
  BY <1>2 DEF sendCall, calleeVars, CallsInv, ArgumentsAhead, AnswersAhead,
              ResultAhead, AnswersGenuine, ResultsGenuine, InOrderOnce, Increasing,
              Occurs, ReturnedCall, ReturnedResult

(* The arguments of the oldest request replace older ones. *)
LEMMA RequestStep == IInv /\ ClientGetsRequest => CallsInv'
<1> SUFFICES ASSUME TypeOK, CallsInv, ClientGetsRequest
             PROVE  CallsInv'
  BY DEF IInv
<1> USE CallsAssumption
<1>1. /\ requests \in Seq(CallNumber) /\ requests # << >>
      /\ requests' = Tail(requests) /\ argumentsData' = Head(requests)
      /\ sent' = sent /\ sent \in Nat
  BY DEF ClientGetsRequest, TypeOK, callerVars
<1>2. /\ argumentsData \in Nat /\ argumentsData' \in CallNumber
      /\ argumentsData < argumentsData'
  BY <1>1, TailElements DEF CallsInv, RequestsAhead, TypeOK, CallNumber
<1>3. RequestsAhead'
  <2>1. /\ \A i \in DOMAIN requests : requests[i] <= sent
        /\ \A i, j \in DOMAIN requests : i < j => requests[i] < requests[j]
    BY DEF CallsInv, RequestsAhead
  <2>2. /\ Len(requests) \in Nat \ {0} /\ DOMAIN requests = 1 .. Len(requests)
        /\ DOMAIN requests' = 1 .. (Len(requests) - 1)
        /\ \A i \in 1 .. (Len(requests) - 1) : requests'[i] = requests[i + 1]
        /\ argumentsData' = requests[1]
    BY <1>1, TailElements
  <2> QED
    BY <1>1, <2>1, <2>2, CallsAreNumbers DEF RequestsAhead
<1>4. ArgumentsAhead'
  <2>1. /\ ReturnedCall' = ReturnedCall /\ ReturnedCall \in Nat
        /\ answers' = answers /\ executed' = executed
    BY DEF ClientGetsRequest, callerVars, ReturnedCall, TypeOK, ReturnData
  <2> QED
    BY <1>2, <2>1, CallsAreNumbers DEF CallsInv, ArgumentsAhead, CallNumber
<1> QED
  BY <1>3, <1>4 DEF ClientGetsRequest, callerVars, CallsInv, AnswersAhead,
              ResultAhead, AnswersGenuine, ResultsGenuine, InOrderOnce, Increasing,
              Occurs, ReturnedCall, ReturnedResult

(* The answer and the execution of the arguments are newer than all others.*)
LEMMA CalleeStep ==
  ASSUME NEW isError \in BOOLEAN, IInv, handleCallCalled(isError)
  PROVE  CallsInv'
<1> DEFINE r == [call |-> argumentsData, isError |-> isError]
<1> USE CallsAssumption
<1>1. /\ TypeOK /\ CallsInv /\ remoteCallCalled /\ ~ remoteCallCalled'
      /\ argumentsData' = argumentsData /\ argumentsData \in Nat
      /\ 0 < argumentsData /\ sent' = sent /\ requests' = requests
      /\ callReturnData' = callReturnData /\ got' = got
      /\ remoteCallReturned' = remoteCallReturned
  BY DEF IInv, handleCallCalled, CallsInv, ArgumentsAhead, TypeOK, callerVars, AfterCheck
<1>2. r \in Result /\ r.call = argumentsData
  BY <1>1 DEF TypeOK, Result, CallNumber
<1>3. /\ executed \in Seq(Result) /\ answers \in Seq(Result)
      /\ executed' = Append(executed, r) /\ answers' = Append(answers, r)
  BY <1>1 DEF handleCallCalled, TypeOK
<1>4. ReturnedCall' = ReturnedCall /\ ReturnedResult' = ReturnedResult
  BY <1>1 DEF ReturnedCall, ReturnedResult
<1>5. /\ ReturnedCall < argumentsData
      /\ \A i \in DOMAIN answers : answers[i].call < argumentsData
      /\ \A i \in DOMAIN executed : executed[i].call < argumentsData
  BY <1>1 DEF CallsInv, ArgumentsAhead
<1> HIDE DEF r
<1>6. RequestsAhead'
  BY <1>1 DEF CallsInv, RequestsAhead
<1>7. ArgumentsAhead'
  BY <1>1, <1>2, <1>3, <1>4, <1>5, AppendElements DEF ArgumentsAhead, CallsInv
<1>8. AnswersAhead'
  BY <1>1, <1>2, <1>3, <1>4, <1>5, AppendElements DEF AnswersAhead, CallsInv, Increasing
<1>9. ResultAhead'
  BY <1>1, <1>4 DEF ResultAhead, CallsInv
<1>10. InOrderOnce'
  BY <1>1, <1>2, <1>3, <1>5, AppendElements DEF InOrderOnce, CallsInv, Increasing
<1>11. \A x : Occurs(x, executed) => Occurs(x, executed')
  BY <1>3, AppendElements DEF Occurs
<1>12. Occurs(r, executed')
  <2>1. Len(executed) + 1 \in DOMAIN executed' /\ r = executed'[Len(executed) + 1]
    BY <1>2, <1>3, AppendElements
  <2> QED
    BY <2>1 DEF Occurs
<1>13. AnswersGenuine'
  <2>1. \A i \in DOMAIN answers' : Occurs(answers'[i], executed')
    <3>1. \A i \in DOMAIN answers : Occurs(answers[i], executed)
      BY <1>1 DEF CallsInv, AnswersGenuine
    <3>2. \A i \in DOMAIN answers' :
            \/ i \in DOMAIN answers /\ answers'[i] = answers[i]
            \/ answers'[i] = r
      BY <1>2, <1>3, AppendElements
    <3> QED
      BY <1>11, <1>12, <3>1, <3>2, Zenon
  <2>2. remoteCallReturned' => Occurs(ReturnedResult', executed')
    BY <1>1, <1>4, <1>11 DEF CallsInv, AnswersGenuine, Occurs
  <2> QED
    BY <2>1, <2>2 DEF AnswersGenuine, Occurs
<1>14. ResultsGenuine'
  BY <1>1, <1>11 DEF CallsInv, ResultsGenuine, Occurs
<1> QED
  BY <1>6, <1>7, <1>8, <1>9, <1>10, <1>13, <1>14 DEF CallsInv

(* The oldest answer is newer than the stored result and replaces it. *)
LEMMA AnswerStep == IInv /\ MasterGetsAnswer => CallsInv'
<1> SUFFICES ASSUME IInv, MasterGetsAnswer
             PROVE  CallsInv'
  OBVIOUS
<1>1. /\ TypeOK /\ CallsInv /\ answers \in Seq(Result) /\ answers # << >>
      /\ answers' = Tail(answers) /\ callReturnData \in ReturnData
      /\ callReturnData' = Written(callReturnData, Head(answers))
      /\ remoteCallReturned' /\ got' = got /\ executed' = executed
      /\ sent' = sent /\ requests' = requests /\ argumentsData' = argumentsData
      /\ remoteCallCalled' = remoteCallCalled
  BY DEF IInv, MasterGetsAnswer, TypeOK, calleeVars
<1>2. /\ Len(answers) \in Nat \ {0} /\ DOMAIN answers = 1 .. Len(answers)
      /\ DOMAIN answers' = 1 .. (Len(answers) - 1)
      /\ \A i \in 1 .. (Len(answers) - 1) : answers'[i] = answers[i + 1]
      /\ Head(answers) = answers[1] /\ answers[1] \in Result /\ 1 \in DOMAIN answers
  BY <1>1, TailElements
<1>20. \A i \in DOMAIN answers' :
         i \in Nat \ {0} /\ i + 1 \in DOMAIN answers /\ answers'[i] = answers[i + 1]
  BY <1>2
<1>3. ReturnedCall' = answers[1].call /\ ReturnedResult' = answers[1]
  <2>1. /\ callReturnData'.isError = answers[1].isError
        /\ answers[1].isError => callReturnData'.returnError = answers[1].call
        /\ ~ answers[1].isError => callReturnData'.returnData = answers[1].call
    BY <1>1, <1>2, WrittenShape
  <2>2. ReturnedCall' = answers[1].call
    BY <2>1 DEF ReturnedCall
  <2> QED
    BY <1>2, <2>1, <2>2 DEF ReturnedResult, Result
<1>4. ReturnedCall < answers[1].call
  BY <1>1, <1>2 DEF CallsInv, AnswersAhead
<1>5. /\ \A i, j \in DOMAIN answers : i < j => answers[i].call < answers[j].call
      /\ \A i \in DOMAIN answers : answers[i].call <= argumentsData
      /\ remoteCallCalled => \A i \in DOMAIN answers : answers[i].call < argumentsData
  BY <1>1 DEF CallsInv, AnswersAhead, ArgumentsAhead, Increasing
<1>6. RequestsAhead' /\ InOrderOnce' /\ ResultsGenuine'
  BY <1>1 DEF CallsInv, RequestsAhead, InOrderOnce, Increasing, ResultsGenuine, Occurs
<1>7. ArgumentsAhead'
  BY <1>1, <1>2, <1>3, <1>5 DEF CallsInv, ArgumentsAhead
<1>8. AnswersAhead'
  <2>1. Increasing(answers')
    BY <1>5, <1>20 DEF Increasing
  <2>2. \A i \in DOMAIN answers' : 1 < i + 1
    BY <1>20
  <2>3. \A i \in DOMAIN answers' : ReturnedCall' < answers'[i].call
    BY <1>2, <1>3, <1>5, <1>20, <2>2
  <2> QED
    BY <2>1, <2>3 DEF AnswersAhead, Increasing
<1>9. ResultAhead'
  <2>1. \A i \in DOMAIN got : got[i].call <= ReturnedCall
    BY <1>1 DEF CallsInv, ResultAhead
  <2>2. answers[1].call \in Nat /\ answers[1].call # 0
    BY <1>2, CallsAssumption DEF Result, CallNumber
  <2> QED
    BY <1>1, <1>3, <1>4, <2>1, <2>2, CallsAreNumbers DEF ResultAhead
<1>10. AnswersGenuine'
  <2>1. \A i \in DOMAIN answers : Occurs(answers[i], executed)
    BY <1>1 DEF CallsInv, AnswersGenuine
  <2>2. \A x : Occurs(x, executed) <=> Occurs(x, executed')
    BY <1>1 DEF Occurs
  <2> QED
    BY <1>2, <1>3, <1>20, <2>1, <2>2 DEF AnswersGenuine
<1> QED
  BY <1>6, <1>7, <1>8, <1>9, <1>10 DEF CallsInv

(* The handler is given a result that is newer than those before it. *)
LEMMA ReturnStep == IInv /\ handleCallReturned => CallsInv'
<1> SUFFICES ASSUME IInv, handleCallReturned
             PROVE  CallsInv'
  OBVIOUS
<1>1. /\ TypeOK /\ CallsInv /\ remoteCallReturned /\ ~ remoteCallReturned'
      /\ got \in Seq(Result) /\ got' = Append(got, ReturnedResult)
      /\ ReturnedResult.call = ReturnedCall
      /\ ReturnedCall' = ReturnedCall /\ ReturnedResult' = ReturnedResult
      /\ UNCHANGED <<requests, answers, argumentsData, remoteCallCalled, executed, sent>>
  BY DEF IInv, handleCallReturned, TypeOK, calleeVars, AfterCheck, ReturnedCall,
         ReturnedResult
<1>2. /\ 0 < ReturnedCall /\ Occurs(ReturnedResult, executed)
      /\ \A i \in DOMAIN got : got[i].call < ReturnedCall
  BY <1>1 DEF CallsInv, ResultAhead, AnswersGenuine
<1>3. ReturnedResult \in Result
  BY <1>1, <1>2, CallsAssumption
     DEF TypeOK, ReturnedResult, ReturnedCall, Result, ReturnData, CallNumber
<1>4. /\ Len(got) \in Nat /\ DOMAIN got = 1 .. Len(got)
      /\ DOMAIN got' = 1 .. (Len(got) + 1)
      /\ \A i \in 1 .. Len(got) : got'[i] = got[i]
      /\ got'[Len(got) + 1] = ReturnedResult
  BY <1>1, <1>3, AppendElements
<1>5. RequestsAhead' /\ ArgumentsAhead' /\ AnswersAhead' /\ AnswersGenuine'
  BY <1>1 DEF CallsInv, RequestsAhead, ArgumentsAhead, AnswersAhead, AnswersGenuine,
              Increasing, Occurs
<1>6. ResultAhead'
  BY <1>1, <1>2, <1>4, CallsAreNumbers DEF ResultAhead
<1>7. InOrderOnce'
  <2>1. \A i, j \in DOMAIN got : i < j => got[i].call < got[j].call
    BY <1>1 DEF CallsInv, InOrderOnce, Increasing
  <2>2. Increasing(got')
    BY <1>1, <1>2, <1>4, <2>1 DEF Increasing
  <2> QED
    BY <1>1, <2>2 DEF CallsInv, InOrderOnce, Increasing
<1>8. ResultsGenuine'
  <2>1. \A i \in DOMAIN got : Occurs(got[i], executed)
    BY <1>1 DEF CallsInv, ResultsGenuine
  <2>2. \A x : Occurs(x, executed) <=> Occurs(x, executed')
    BY <1>1 DEF Occurs
  <2>3. \A i \in DOMAIN got' :
          (i \in DOMAIN got /\ got'[i] = got[i]) \/ got'[i] = ReturnedResult
    BY <1>4
  <2> QED
    BY <1>2, <2>1, <2>2, <2>3 DEF ResultsGenuine
<1> QED
  BY <1>5, <1>6, <1>7, <1>8 DEF CallsInv

(* A lost frame leaves a gap and no disorder. *)
LEMMA LossStep == IInv /\ FrameLost => CallsInv'
<1> SUFFICES ASSUME IInv, FrameLost
             PROVE  CallsInv'
  OBVIOUS
<1>1. /\ TypeOK /\ CallsInv /\ UNCHANGED <<calleeVars, callerVars>>
      /\ ReturnedCall' = ReturnedCall /\ ReturnedResult' = ReturnedResult
  BY DEF IInv, FrameLost, ReturnedCall, ReturnedResult, callerVars
<1>2. InOrderOnce' /\ ResultsGenuine' /\ ResultAhead'
  BY <1>1 DEF CallsInv, InOrderOnce, Increasing, ResultsGenuine, Occurs, ResultAhead,
              calleeVars, callerVars
<1>3. CASE requests # << >> /\ requests' = Tail(requests) /\ UNCHANGED answers
  <2>1. RequestsAhead'
    <3>1. /\ Len(requests) \in Nat \ {0} /\ DOMAIN requests = 1 .. Len(requests)
          /\ DOMAIN requests' = 1 .. (Len(requests) - 1)
          /\ \A i \in 1 .. (Len(requests) - 1) : requests'[i] = requests[i + 1]
      BY <1>1, <1>3, TailElements DEF TypeOK
    <3>2. \A i \in DOMAIN requests' :
            i \in Nat /\ i + 1 \in DOMAIN requests /\ requests'[i] = requests[i + 1]
      BY <3>1
    <3>3. argumentsData' = argumentsData /\ sent' = sent
      BY <1>1 DEF calleeVars, callerVars
    <3> QED
      BY <1>1, <3>2, <3>3 DEF CallsInv, RequestsAhead
  <2> QED
    BY <1>1, <1>2, <1>3, <2>1
       DEF CallsInv, ArgumentsAhead, AnswersAhead, AnswersGenuine, Increasing,
           Occurs, calleeVars, callerVars
<1>4. CASE answers # << >> /\ answers' = Tail(answers) /\ UNCHANGED requests
  <2>1. /\ Len(answers) \in Nat \ {0} /\ DOMAIN answers = 1 .. Len(answers)
        /\ DOMAIN answers' = 1 .. (Len(answers) - 1)
        /\ \A i \in 1 .. (Len(answers) - 1) : answers'[i] = answers[i + 1]
    BY <1>1, <1>4, TailElements DEF TypeOK
  <2>4. \A i \in DOMAIN answers' :
          i \in Nat /\ i + 1 \in DOMAIN answers /\ answers'[i] = answers[i + 1]
    BY <2>1
  <2>5. /\ argumentsData' = argumentsData /\ remoteCallCalled' = remoteCallCalled
        /\ executed' = executed /\ remoteCallReturned' = remoteCallReturned
    BY <1>1 DEF calleeVars, callerVars
  <2>2. ArgumentsAhead' /\ AnswersAhead'
    <3>1. ArgumentsAhead'
      BY <1>1, <2>4, <2>5 DEF CallsInv, ArgumentsAhead
    <3> QED
      BY <1>1, <2>4, <3>1 DEF CallsInv, AnswersAhead, Increasing
  <2>3. AnswersGenuine'
    BY <1>1, <2>4, <2>5 DEF CallsInv, AnswersGenuine
  <2> QED
    BY <1>1, <1>2, <1>4, <2>2, <2>3 DEF CallsInv, RequestsAhead, calleeVars, callerVars
<1> QED
  BY <1>3, <1>4 DEF FrameLost

-----------------------------------------------------------------------------
(* The invariant holds in every reachable state. *)

(* Nothing has been called, so there is no order to violate. *)
LEMMA InvInit == Init => IInv
<1> SUFFICES ASSUME Init PROVE IInv
  OBVIOUS
<1>1. << >> \in Seq(CallNumber) /\ << >> \in Seq(Result) /\ DOMAIN << >> = {}
  BY EmptySeq
<1>2. TypeOK
  <2>1. 0 \in 0 .. MaxCalls /\ 0 \in 0 .. MaxLosses
    BY CallsAssumption
  <2>2. [isError |-> FALSE, returnData |-> 0, returnError |-> 0] \in ReturnData
    BY <2>1 DEF ReturnData
  <2> QED
    BY <1>1, <2>1, <2>2 DEF Init, TypeOK, FlagInitially
<1>3. ReturnedCall = 0
  BY DEF Init, ReturnedCall
<1>4. RequestsAhead /\ ArgumentsAhead /\ ResultAhead
  BY <1>1, <1>3 DEF Init, FlagInitially, RequestsAhead, ArgumentsAhead, ResultAhead
<1>5. AnswersAhead /\ AnswersGenuine /\ ResultsGenuine /\ InOrderOnce
  BY <1>1 DEF Init, FlagInitially, AnswersAhead, AnswersGenuine, ResultsGenuine,
              InOrderOnce, Increasing
<1> QED
  BY <1>2, <1>4, <1>5 DEF IInv, CallsInv

(* Every step keeps types and order. *)
LEMMA InvStep == IInv /\ [Next]_vars => IInv'
<1> SUFFICES ASSUME IInv, [Next]_vars PROVE IInv'
  OBVIOUS
<1>1. TypeOK'
  BY TypeStep DEF IInv, CallsInv, ArgumentsAhead, ResultAhead
<1>2. CallsInv'
  <2>1. CASE UNCHANGED vars
    BY <2>1 DEF vars, calleeVars, callerVars, IInv, CallsInv, RequestsAhead,
                ArgumentsAhead, AnswersAhead, ResultAhead, AnswersGenuine,
                ResultsGenuine, InOrderOnce, Increasing, Occurs, ReturnedCall,
                ReturnedResult
  <2> QED
    BY <2>1, SendCallStep, RequestStep, CalleeStep, AnswerStep, ReturnStep, LossStep
       DEF Next, CalleeHandles
<1> QED
  BY <1>1, <1>2 DEF IInv

(* Types and order hold in every behaviour. *)
LEMMA Invariance == Spec => []IInv
BY InvInit, InvStep, PTL DEF Spec

(* Types, for every number of calls and losses. *)
THEOREM CallsTypeCorrect == Spec => []TypeOK
<1>1. IInv => TypeOK
  BY DEF IInv
<1> QED
  BY <1>1, Invariance, PTL

(* The order of all that is under way (RemoteCalls.h keeps no queue; the   *)
(* frames, the arguments and the result are ordered all the same).         *)
THEOREM CallsInvariant == Spec => []CallsInv
<1>1. IInv => CallsInv
  BY DEF IInv
<1> QED
  BY <1>1, Invariance, PTL

(* Overwriting and losses never make a call run twice, nor give a result   *)
(* twice or after a newer one.                                             *)
THEOREM ResultsInOrderOnce == Spec => []InOrderOnce
<1>1. IInv => InOrderOnce
  BY DEF IInv, CallsInv
<1> QED
  BY <1>1, Invariance, PTL

(* A result given to the caller is what the callee returned for that call. *)
THEOREM ResultsAreGenuine == Spec => []ResultsGenuine
<1>1. IInv => ResultsGenuine
  BY DEF IInv, CallsInv
<1> QED
  BY <1>1, Invariance, PTL

-----------------------------------------------------------------------------
(* The service.  The refinement maps the results given to their calls. *)

Calls(results) == [i \in DOMAIN results |-> results[i].call]

(* The calls of a list of results are a list of numbers as long. *)
LEMMA CallsOfResults ==
  ASSUME NEW q \in Seq(Result)
  PROVE  /\ Calls(q) \in Seq(Nat) /\ Len(Calls(q)) = Len(q)
         /\ DOMAIN q = 1 .. Len(q) /\ Len(q) \in Nat
         /\ \A i \in 1 .. Len(q) : Calls(q)[i] = q[i].call
<1>1. DOMAIN q = 1 .. Len(q) /\ Len(q) \in Nat
  BY LenProperties
<1>2. \A i \in 1 .. Len(q) : q[i] \in Result
  BY ElementOfSeq
<1>3. \A i \in 1 .. Len(q) : q[i].call \in Nat
  BY <1>2 DEF Result, CallNumber
<1>4. Calls(q) \in [1 .. Len(q) -> Nat]
  BY <1>1, <1>3 DEF Calls
<1>5. Calls(q) \in Seq(Nat) /\ Len(Calls(q)) = Len(q)
  BY <1>1, <1>4, SeqDef
<1> QED
  BY <1>1, <1>5 DEF Calls

(* The calls of a list of results to which one is appended. *)
LEMMA CallsOfAppend ==
  ASSUME NEW q \in Seq(Result), NEW r \in Result
  PROVE  Calls(Append(q, r)) = Append(Calls(q), r.call)
<1>1. r.call \in Nat
  BY DEF Result, CallNumber
<1>2. Append(q, r) \in Seq(Result)
  BY AppendElements
<1>3. /\ Append(Calls(q), r.call) \in Seq(Nat)
      /\ Len(Append(Calls(q), r.call)) = Len(q) + 1
      /\ \A i \in 1 .. Len(q) : Append(Calls(q), r.call)[i] = q[i].call
      /\ Append(Calls(q), r.call)[Len(q) + 1] = r.call
  BY <1>1, CallsOfResults, AppendProperties
<1>4. /\ Calls(Append(q, r)) \in Seq(Nat)
      /\ Len(Calls(Append(q, r))) = Len(q) + 1
      /\ \A i \in 1 .. (Len(q) + 1) : Calls(Append(q, r))[i] = Append(q, r)[i].call
  <2>1. Len(Append(q, r)) = Len(q) + 1
    BY AppendProperties
  <2> QED
    BY <1>2, <2>1, CallsOfResults
<1>5. \A i \in 1 .. (Len(q) + 1) :
        Calls(Append(q, r))[i] = Append(Calls(q), r.call)[i]
  BY <1>3, <1>4, AppendElements, CallsOfResults
<1> QED
  BY <1>3, <1>4, <1>5, SeqEqual

(* Every step of the remote calls is a step of the service or stutters. *)
LEMMA ServiceStep ==
  IInv /\ [Next]_vars => [Service!ServiceNext]_(Service!serviceVars)
<1> SUFFICES ASSUME IInv, [Next]_vars
             PROVE  [Service!ServiceNext]_(Service!serviceVars)
  OBVIOUS
<1>1. TypeOK /\ CallsInv /\ got \in Seq(Result)
  BY DEF IInv, TypeOK
<1>2. CASE sendCall
  BY <1>2 DEF sendCall, Service!ServiceNext, Service!Call
<1>3. CASE handleCallReturned
  <2>1. /\ remoteCallReturned /\ got' = Append(got, ReturnedResult)
        /\ ReturnedResult.call = ReturnedCall /\ sent' = sent
    BY <1>3 DEF handleCallReturned, ReturnedResult
  <2>2. /\ 0 < ReturnedCall /\ ReturnedCall <= sent
        /\ \A i \in DOMAIN got : got[i].call < ReturnedCall
    BY <1>1, <2>1, CallsAreNumbers DEF CallsInv, ResultAhead, ArgumentsAhead, RequestsAhead
  <2>3. sent \in 0 .. MaxCalls /\ ReturnedCall \in Nat /\ sent \in Nat
    BY <1>1, CallsAreNumbers, CallsAssumption DEF TypeOK
  <2>4. ReturnedCall \in CallNumber /\ ReturnedResult \in Result
    BY <1>1, <2>2, <2>3, CallsAssumption
       DEF TypeOK, ReturnedResult, Result, ReturnData, CallNumber
  <2>5. Calls(got') = Append(Calls(got), ReturnedCall)
    BY <1>1, <2>1, <2>4, CallsOfAppend
  <2>6. Service!Newest \in Nat /\ Service!Newest < ReturnedCall
    <3>1. Service!Newest = IF Calls(got) = << >> THEN 0 ELSE Calls(got)[Len(Calls(got))]
      BY DEF Service!Newest, Calls
    <3>2. CASE Calls(got) = << >>
      BY <2>2, <3>1, <3>2
    <3>3. CASE Calls(got) # << >>
      <4>1. Len(got) \in DOMAIN got /\ Calls(got)[Len(Calls(got))] = got[Len(got)].call
        BY <1>1, <3>3, CallsOfResults, EmptySeq
      <4> QED
        BY <1>1, <2>2, <3>1, <3>3, <4>1, CallsAreNumbers
    <3> QED
      BY <3>2, <3>3
  <2>7. PICK n \in 1 .. MaxCalls : n = ReturnedCall
    BY <2>4 DEF CallNumber
  <2>8. Service!GiveResult(n)
    BY <2>1, <2>2, <2>3, <2>5, <2>6, <2>7 DEF Service!GiveResult, Calls
  <2>9. Service!GiveSomeResult
    BY <2>8, Zenon DEF Service!GiveSomeResult
  <2> QED
    BY <2>9, Zenon DEF Service!ServiceNext
<1>4. CASE UNCHANGED <<sent, got>>
  BY <1>4 DEF Service!serviceVars
<1> QED
  BY <1>2, <1>3, <1>4 DEF Next, vars, calleeVars, callerVars, ClientGetsRequest,
     CalleeHandles, handleCallCalled, MasterGetsAnswer, FrameLost

(* The remote calls implement the service, whatever frames are lost. *)
THEOREM CallsImplementService == Spec => ImplementsService
<1>1. Init => Service!ServiceInit
  BY EmptySeq DEF Init, Service!ServiceInit
<1> QED
  BY <1>1, Invariance, ServiceStep, PTL DEF Spec, ImplementsService, Service!ServiceSpec
=============================================================================
