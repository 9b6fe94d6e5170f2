-------------------------- MODULE RemoteCallService --------------------------
(***************************************************************************)
(* What the remote calls of one call id promise the calling application,   *)
(* whatever carries them: calls are numbered in the order they are made;   *)
(* results are given to the application in that order, each of them once,  *)
(* and calls may be passed over.  As long as a result is missing that is   *)
(* newer than the last one given, one will be given.                       *)
(***************************************************************************)
EXTENDS Naturals, Sequences

CONSTANT MaxCalls   \* bound: calls made

VARIABLES
  sent,    \* calls made so far
  given    \* the calls whose results the application has been given

serviceVars == <<sent, given>>

ServiceInit == sent = 0 /\ given = << >>

Newest == IF given = << >> THEN 0 ELSE given[Len(given)]

Call ==
  /\ sent < MaxCalls
  /\ sent' = sent + 1
  /\ UNCHANGED given

GiveResult(n) ==
  /\ n \in (Newest + 1) .. sent
  /\ given' = Append(given, n)
  /\ UNCHANGED sent

GiveSomeResult == \E n \in 1 .. MaxCalls : GiveResult(n)

ServiceNext == Call \/ GiveSomeResult

ServiceSpec == ServiceInit /\ [][ServiceNext]_serviceVars

ServiceFairness == WF_serviceVars(GiveSomeResult)
=============================================================================
