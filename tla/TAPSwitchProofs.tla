-------------------------- MODULE TAPSwitchProofs --------------------------
(***************************************************************************)
(* Proofs about the D-Bus handlers, for any number of sources, players and *)
(* calls that overlap.                                                     *)
(*                                                                         *)
(* The invariant of the switch (AudioPathSwitchProofs) holds here as well, *)
(* because a handler takes the steps of the switch.  PolicyInv adds what   *)
(* the handlers and the switch know of the state of the appliance, and     *)
(* HandlerInv which invocation is being handled.  Together they give that  *)
(* no caller is forgotten.                                                 *)
(***************************************************************************)
EXTENDS TAPSwitch, AudioPathSwitchProofs, Integers

USE NoneIsNothing, NoneIsNoInvocation

---------------------------------------------------------------------------
(* The switch's side.                                                      *)

\* Every step of the handlers is a step of the switch, or one it does not see.
LEMMA TapStepIsSwitchStep == [Next]_vars => [SwitchNext]_switchAllVars
<1> SUFFICES ASSUME [Next]_vars PROVE SwitchNext \/ UNCHANGED switchAllVars
  OBVIOUS
<1>1. ASSUME NEW i \in Invocation, NEW data \in RequestData, NEW s \in SourceOrNone,
             RequestSource(i, s, data)
      PROVE  SwitchNext
  <2>1. Allowed \in BOOLEAN
    BY DEF Allowed, EnableAllowed
  <2> QED BY <1>1, <2>1 DEF RequestSource, SwitchNext, Enter
<1>2. ASSUME NEW i \in Invocation, NEW data \in RequestData, NEW kill_player \in BOOLEAN,
             RequestRelease(i, kill_player, data)
      PROVE  SwitchNext
  BY <1>2 DEF RequestRelease, SwitchNext, Enter
<1>3. ASSUME NEW i \in Invocation, NEW power \in Maybe, NEW audio \in Maybe,
             SetReadyState(i, power, audio)
      PROVE  SwitchNext \/ UNCHANGED switchAllVars
  BY <1>3 DEF SetReadyState, SetReady, SetSuspended, SetNotReady, SwitchNext, Enter
<1>4. CASE HandlerStep
  BY <1>4 DEF HandlerStep, HandlerFinishes, FinishRequestSource, FinishReleasePath,
              FinishComplete, FinishCancel, Finish, SwitchNext
<1>5. CASE Register /\ UNCHANGED tapVars
  BY <1>5 DEF SwitchNext
<1>6. CASE UNCHANGED vars
  BY <1>6 DEF vars
<1> QED BY <1>1, <1>2, <1>3, <1>4, <1>5, <1>6 DEF Next, Request

(* Whatever the handlers do, the switch they share works as it does alone. *)
THEOREM TapImplementsSwitch == Spec => SwitchSpec
<1>1. Init => SwitchInit
  BY DEF Init
<1> QED BY <1>1, TapStepIsSwitchStep, PTL DEF Spec, SwitchSpec

(* So the daemon as a whole implements the route, too: at no point of any  *)
(* handler do the selected source, the source on hold and the active       *)
(* player go another way than AudioRoute allows.                           *)
THEOREM TapImplementsRoute == Spec => ImplementsRoute
  BY TapImplementsSwitch, SwitchImplementsRoute

---------------------------------------------------------------------------
(* Types.                                                                  *)

\* Answers to a set of calls have the type of an answer.
LEMMA AnswerAllType ==
  ASSUME calls \in [Invocation -> OpenCall \cup AnsweredCall], NEW invocations,
         NEW answer \in AnsweredCall
  PROVE  AnswerAll(invocations, answer) \in [Invocation -> OpenCall \cup AnsweredCall]
  BY DEF AnswerAll

\* One more answer.
LEMMA AnswerOneType ==
  ASSUME NEW i \in Invocation, NEW answer \in OpenCall \cup AnsweredCall,
         NEW answers \in [Invocation -> OpenCall \cup AnsweredCall]
  PROVE  [answers EXCEPT ![i] = answer] \in [Invocation -> OpenCall \cup AnsweredCall]
  OBVIOUS

\* The two kinds of answers.
LEMMA AnswerTypes ==
  /\ Error \in AnsweredCall
  /\ \A p \in PlayerOrNone : Success(p) \in AnsweredCall
  BY DEF Error, Success, AnsweredCall, PlayerOrNone

\* A signal has the type of a signal.
LEMMA EmitType ==
  ASSUME NEW kind \in {"deferred", "activated", "reactivated"},
         NEW s \in SourceOrNone, NEW p \in PlayerOrNone, Emit(kind, s, p)
  PROVE  signal' \in Signal
  BY DEF Emit, Signal

\* A request hands on the data of its caller.
RequestHasData == frame.op = "activate" => frame.request_data \in RequestData

MethodOf(op) ==
    IF op = "activate" THEN "RequestSource"
    ELSE IF op = "release" THEN "ReleasePath" ELSE "SetReadyState"

\* While the switch works, the invocation it works for is open.
HandlerInv ==
    /\ pc = "idle" <=> handler = None
    /\ handler # None => IsOpen(handler) /\ calls[handler].method = MethodOf(frame.op)

TapInv == Inv /\ TypeOK /\ RequestHasData /\ HandlerInv

\* Nothing has been called, and nothing is known of the appliance.
LEMMA TapInit == Init => TapInv
<1> SUFFICES ASSUME Init PROVE TapInv
  OBVIOUS
<1>1. Inv /\ SwitchTypeOK /\ RequestHasData /\ HandlerInv
  BY InitInv DEF Init, Inv, SwitchInit, NoFrame, RequestHasData, HandlerInv
<1> QED BY <1>1 DEF Init, TapInv, TypeOK, Maybe, Unused, AnsweredCall, Signal,
                    SourceOrNone, PlayerOrNone

\* What a handler has after the switch has returned.
LEMMA ReturnedFrame ==
  ASSUME TapInv, pc = "return"
  PROVE  /\ frame \in Frame
         /\ frame.source_id \in SourceOrNone /\ frame.player_id \in PlayerOrNone
         /\ frame.op = "activate" => frame.request_data \in RequestData
  BY DEF TapInv, Inv, SwitchInv, SwitchTypeOK, Frame, RequestHasData

\* An arriving call has the type of an open call.
LEMMA ArriveType ==
  ASSUME TypeOK, NEW i \in Invocation, NEW method \in Method, NEW s \in SourceOrNone,
         Arrive(i, method, s)
  PROVE  /\ handler' \in Invocation
         /\ calls' \in [Invocation -> OpenCall \cup AnsweredCall]
         /\ calls'[handler'].status = "open" /\ calls'[handler'].method = method
  BY DEF TypeOK, Arrive, OpenCall

\* While a member function of the switch runs, its data stay what they are.
LEMMA ContinueKeeps ==
  ASSUME Inv, Continue
  PROVE  /\ pc # "idle" /\ pc' # "idle"
         /\ frame' # NoFrame
         /\ frame'.op = frame.op
         /\ frame'.source_id = frame.source_id
         /\ frame'.player_id = frame.player_id
         /\ frame'.request_data = frame.request_data
         /\ frame'.select_now = frame.select_now
         /\ frame'.affected = frame.affected
         /\ \/ frame'.result = frame.result
            \/ frame'.result = "ERROR_PLAYER_FAILED" /\ pc = "activate" /\ pc' = "return"
            \/ frame'.result = "ERROR_SOURCE_FAILED" /\ pc \in {"select", "cancel"}
               /\ pc' = "return"
<1> USE DEF Returned
<1>1. pc # "idle" /\ frame # NoFrame
  BY InFunction DEF Continue, SkipDeactivate, MakeCall, CallDeselected, CallDeactivate,
         CallActivate, CallSelected, CallCanceled, CallReturns, DeselectedReturned,
         DeactivateReturned, ActivateReturned, SelectedReturned, CanceledReturned,
         Inv, SwitchInv
<1>2. frame \in Frame
  BY <1>1, InFunction
<1>3. CASE MakeCall
  BY <1>1, <1>2, <1>3 DEF MakeCall, CallDeselected, CallDeactivate,
         CallActivate, CallSelected, CallCanceled, CallPeer
<1>4. CASE SkipDeactivate
  BY <1>1, <1>2, <1>4 DEF SkipDeactivate, AfterPlayers
<1>5. ASSUME NEW ok \in BOOLEAN, CallReturns(ok)
      PROVE  /\ pc' # "idle"
             /\ \/ frame' = frame
                \/ \E d : frame' = [frame EXCEPT !.deselected = d]
                \/ /\ frame' = [frame EXCEPT !.result = "ERROR_PLAYER_FAILED"]
                   /\ pc = "activate" /\ pc' = "return"
                \/ /\ frame' = [frame EXCEPT !.result = "ERROR_SOURCE_FAILED"]
                   /\ pc \in {"select", "cancel"} /\ pc' = "return"
  BY <1>5 DEF CallReturns, DeselectedReturned, DeactivateReturned, ActivateReturned,
         SelectedReturned, CanceledReturned, AfterPlayers
<1>6. CASE \E ok \in BOOLEAN : CallReturns(ok)
  <2>1. frame' # NoFrame
    BY <1>2, <1>5, <1>6 DEF Frame, NoFrame
  <2> QED BY <1>1, <1>2, <1>5, <1>6, <2>1 DEF Frame
<1> QED BY <1>1, <1>3, <1>4, <1>6 DEF Continue

\* Where the switch begins to work for a request.
LEMMA ActivateEnters ==
  ASSUME NEW s, NEW now, NEW data, ActivateSource(s, now, data)
  PROVE  /\ pc = "idle" /\ pc' # "idle"
         /\ frame'.op = "activate"
         /\ frame'.source_id = s /\ frame'.request_data = data /\ frame'.select_now = now
         /\ pending' \in {pending, NoPending}
  BY DEF ActivateSource, RejectSource, KeepSource, BeginSwitch, ActivateFrame, AfterEntry

\* Where it begins to release, to complete or to cancel.
LEMMA OthersEnter ==
  /\ \A kill_player, data : ReleasePath(kill_player, data) =>
        pc = "idle" /\ pc' # "idle" /\ frame'.op = "release" /\ pending' = pending
  /\ CompletePending => pc = "idle" /\ pc' # "idle" /\ frame'.op = "complete"
  /\ CancelPending => pc = "idle" /\ pc' # "idle" /\ frame'.op = "cancel"
  /\ CompletePending \/ CancelPending => pending'.source_id = None
  BY DEF ReleasePath, AfterEntry, CompletePending, CancelPending, NothingPending,
         BeginComplete, BeginCancel, PendingFrame, HavePending, NoPending

\* What a handler does when the switch has returned.
LEMMA FinishKeepsTypes ==
  ASSUME TapInv, HandlerFinishes
  PROVE  /\ pc' = "idle" /\ frame' = NoFrame /\ handler' = None
         /\ UNCHANGED applianceVars
         /\ calls' \in [Invocation -> OpenCall \cup AnsweredCall]
         /\ queue' \in Seq(QueueEntry)
         /\ signal' \in Signal
<1> USE DEF TapInv
<1>1. /\ pc = "return" /\ pc' = "idle" /\ frame' = NoFrame /\ handler' = None
      /\ UNCHANGED applianceVars
  BY DEF HandlerFinishes, FinishRequestSource, FinishReleasePath, FinishComplete,
         FinishCancel, Finish, Return
<1>2. /\ handler \in Invocation
      /\ frame.player_id \in PlayerOrNone /\ frame.source_id \in SourceOrNone
      /\ current_player_id \in PlayerOrNone /\ None \in SourceOrNone
  BY <1>1, ReturnedFrame DEF HandlerInv, TypeOK, SwitchTypeOK, SourceOrNone
<1>3. /\ Error \in AnsweredCall
      /\ Success(None) \in AnsweredCall /\ Success(frame.player_id) \in AnsweredCall
      /\ Success(current_player_id) \in AnsweredCall
  BY <1>2, AnswerTypes DEF PlayerOrNone
<1>a. AnswerAll(Dropped, Error) \in [Invocation -> OpenCall \cup AnsweredCall]
  BY <1>3, AnswerAllType DEF TypeOK
<1>4. CASE FinishRequestSource
  <2>1. calls[handler].method = "RequestSource"
    BY <1>4 DEF FinishRequestSource, Finish
  <2>2. frame.op = "activate"
    BY <1>1, <1>2, <2>1 DEF HandlerInv, MethodOf
  <2>3. frame.request_data \in RequestData
    BY <1>1, <2>2, ReturnedFrame
  <2>4. KeptQueue \in Seq(QueueEntry)
    BY DEF KeptQueue, TypeOK
  <2>5. queue' \in Seq(QueueEntry)
    <3>1. [invocation |-> handler, request_data |-> frame.request_data] \in QueueEntry
      BY <1>2, <2>3 DEF QueueEntry
    <3>2. \/ queue' = KeptQueue
          \/ queue' = Append(KeptQueue, [invocation |-> handler,
                                         request_data |-> frame.request_data])
      BY <1>4 DEF FinishRequestSource
    <3> QED BY <2>4, <3>1, <3>2
  <2>6. calls' \in [Invocation -> OpenCall \cup AnsweredCall]
    <3>1. PICK answer \in OpenCall \cup AnsweredCall :
              calls' = [AnswerAll(Dropped, Error) EXCEPT ![handler] = answer]
      BY <1>2, <1>3, <1>a, <1>4 DEF FinishRequestSource
    <3> QED BY <1>2, <1>a, <3>1, AnswerOneType
  <2>7. signal' \in Signal
    BY <1>2, <1>4, EmitType DEF FinishRequestSource, EmitPathSwitch, TypeOK
  <2> QED BY <1>1, <2>5, <2>6, <2>7
<1>5. CASE FinishReleasePath
  <2>1. calls' \in [Invocation -> OpenCall \cup AnsweredCall]
    BY <1>2, <1>3, <1>a, <1>5, AnswerOneType DEF FinishReleasePath
  <2>2. queue' \in Seq(QueueEntry)
    BY <1>5 DEF FinishReleasePath, KeptQueue, TypeOK
  <2>3. signal' \in Signal
    BY <1>2, <1>5, EmitType DEF FinishReleasePath, TypeOK
  <2> QED BY <1>1, <2>1, <2>2, <2>3
<1>6. CASE FinishComplete
  <2>1. calls' \in [Invocation -> OpenCall \cup AnsweredCall]
    <3> DEFINE all == IF Succeeded THEN Success(current_player_id) ELSE Error
               invocations == IF frame.result # "ERROR_SOURCE_UNKNOWN" THEN Queued ELSE {}
               answers == AnswerAll(invocations, all)
               one == IF frame.result = "ERROR_SOURCE_FAILED" THEN answers[handler]
                      ELSE IF frame.result # "ERROR_SOURCE_UNKNOWN" /\ ~Succeeded
                           THEN Error ELSE Success(None)
    <3>1. all \in AnsweredCall
      BY <1>3
    <3>2. answers \in [Invocation -> OpenCall \cup AnsweredCall]
      BY <3>1, AnswerAllType DEF TypeOK
    <3>3. calls' = [answers EXCEPT ![handler] = one]
      BY <1>6 DEF FinishComplete
    <3>4. one \in OpenCall \cup AnsweredCall
      BY <1>2, <1>3, <3>2
    <3> HIDE DEF answers, one
    <3> QED BY <1>2, <3>2, <3>3, <3>4, AnswerOneType
  <2>2. queue' \in Seq(QueueEntry)
    BY <1>6 DEF FinishComplete, TypeOK
  <2>3. signal' \in Signal
    BY <1>2, <1>6, EmitType DEF FinishComplete, TypeOK
  <2> QED BY <1>1, <2>1, <2>2, <2>3
<1>7. CASE FinishCancel
  <2>1. calls' \in [Invocation -> OpenCall \cup AnsweredCall]
    <3>1. PICK invocations :
              calls' = [AnswerAll(invocations, Error) EXCEPT ![handler] = Success(None)]
      BY <1>7 DEF FinishCancel
    <3>2. AnswerAll(invocations, Error) \in [Invocation -> OpenCall \cup AnsweredCall]
      BY <1>3, AnswerAllType DEF TypeOK
    <3> QED BY <1>2, <1>3, <3>1, <3>2, AnswerOneType
  <2> QED BY <1>1, <1>7, <2>1 DEF FinishCancel, TypeOK
<1> QED BY <1>4, <1>5, <1>6, <1>7 DEF HandlerFinishes

\* Every step preserves the types.
LEMMA TapNext == TapInv /\ [Next]_vars => TapInv'
<1> SUFFICES ASSUME TapInv, [Next]_vars PROVE TapInv'
  OBVIOUS
<1> USE DEF TapInv
<1>0. Inv' /\ SwitchTypeOK'
  BY TapStepIsSwitchStep, NextInv DEF Inv
<1>1. ASSUME NEW i \in Invocation, NEW data \in RequestData, NEW s \in SourceOrNone,
             RequestSource(i, s, data)
      PROVE  TapInv'
  <2>1. RequestHasData' /\ pc' # "idle" /\ MethodOf(frame.op)' = "RequestSource"
    BY <1>1, ActivateEnters DEF RequestSource, RequestHasData, MethodOf
  <2>2. Arrive(i, "RequestSource", s)
    BY <1>1 DEF RequestSource
  <2>3. HandlerInv'
    BY <2>1, <2>2, ArriveType DEF HandlerInv, IsOpen, Method
  <2> QED BY <1>0, <1>1, <2>1, <2>2, <2>3, ArriveType
          DEF RequestSource, TypeOK, applianceVars, Method
<1>2. ASSUME NEW i \in Invocation, NEW data \in RequestData, NEW kill_player \in BOOLEAN,
             RequestRelease(i, kill_player, data)
      PROVE  TapInv'
  <2>1. RequestHasData' /\ pc' # "idle" /\ MethodOf(frame.op)' = "ReleasePath"
    BY <1>2, OthersEnter DEF RequestRelease, RequestHasData, MethodOf
  <2>2. Arrive(i, "ReleasePath", None) /\ None \in SourceOrNone
    BY <1>2 DEF RequestRelease, SourceOrNone
  <2>3. HandlerInv'
    BY <2>1, <2>2, ArriveType DEF HandlerInv, IsOpen, Method
  <2> QED BY <1>0, <1>2, <2>1, <2>2, <2>3, ArriveType
          DEF RequestRelease, TypeOK, applianceVars, Method
<1>3. ASSUME NEW i \in Invocation, NEW power \in Maybe, NEW audio \in Maybe,
             SetReady(i, power, audio) \/ SetSuspended(i, power, audio)
      PROVE  TapInv'
  <2>1. RequestHasData' /\ pc' # "idle" /\ MethodOf(frame.op)' = "SetReadyState"
    BY <1>3, OthersEnter DEF SetReady, SetSuspended, RequestHasData, MethodOf
  <2>2. Arrive(i, "SetReadyState", None) /\ None \in SourceOrNone
    BY <1>3 DEF SetReady, SetSuspended, SourceOrNone
  <2>3. HandlerInv'
    BY <2>1, <2>2, ArriveType DEF HandlerInv, IsOpen, Method
  <2> QED BY <1>0, <1>3, <2>1, <2>2, <2>3, ArriveType
          DEF SetReady, SetSuspended, SetAppliance, TypeOK, Method
<1>4. ASSUME NEW i \in Invocation, NEW power \in Maybe, NEW audio \in Maybe,
             SetNotReady(i, power, audio)
      PROVE  TapInv'
  <2>1. calls' \in [Invocation -> OpenCall \cup AnsweredCall]
    BY <1>4, AnswerTypes DEF SetNotReady, TypeOK, PlayerOrNone
  <2>2. HandlerInv'
    BY <1>4 DEF SetNotReady, HandlerInv, switchAllVars, switchVars
  <2> QED BY <1>0, <1>4, <2>1, <2>2
          DEF SetNotReady, SetAppliance, TypeOK, RequestHasData, switchAllVars, switchVars
<1>5. CASE Continue /\ UNCHANGED tapVars
  <2>1. RequestHasData' /\ HandlerInv'
    BY <1>5, ContinueKeeps DEF RequestHasData, HandlerInv, MethodOf, IsOpen, tapVars
  <2> QED BY <1>0, <1>5, <2>1 DEF TypeOK, tapVars, applianceVars
<1>6. CASE HandlerFinishes
  <2>1. RequestHasData' /\ HandlerInv'
    BY <1>6, FinishKeepsTypes DEF NoFrame, RequestHasData, HandlerInv
  <2> QED BY <1>0, <1>6, <2>1, FinishKeepsTypes DEF TypeOK, applianceVars
<1>7. CASE Register /\ UNCHANGED tapVars
  BY <1>0, <1>7 DEF Register, RegisterPlayer, RegisterSource, TypeOK, tapVars, applianceVars,
                    RequestHasData, HandlerInv, IsOpen, switchVars
<1>8. CASE UNCHANGED vars
  BY <1>0, <1>8 DEF vars, TypeOK, tapVars, applianceVars, RequestHasData, HandlerInv,
                    IsOpen, switchAllVars, switchVars
<1> QED BY <1>1, <1>2, <1>3, <1>4, <1>5, <1>6, <1>7, <1>8
        DEF Next, Request, SetReadyState, HandlerStep

\* The invariant holds in every state.
LEMMA TapInvAlways == Spec => []TapInv
  BY TapInit, TapNext, PTL DEF Spec

(* The variables of the handlers always have their types.                  *)
THEOREM TypeCorrect == Spec => []TypeOK
<1>1. TapInv => TypeOK
  BY DEF TapInv
<1> QED BY <1>1, TapInvAlways, PTL

(* What HandlersFinish needs besides steps that are taken: a handler that  *)
(* has not finished is in a member function of the switch, or has to       *)
(* finish when that has returned, and has fewer steps left after each.     *)
THEOREM HandlersRunOut ==
  Spec => [][handler # None => /\ StepsLeft' \in Nat
                               /\ StepsLeft' < StepsLeft /\ StepsLeft <= 9]_switchAllVars
<1> DEFINE FewerLeft == /\ StepsLeft' \in Nat
                        /\ StepsLeft' < StepsLeft /\ StepsLeft <= 9
<1>1. TapInv /\ [pc # "idle" => FewerLeft]_switchAllVars
        => [handler # None => FewerLeft]_switchAllVars
  BY DEF TapInv, HandlerInv
<1>2. Spec => [][pc # "idle" => FewerLeft]_switchAllVars
  BY TapImplementsSwitch, StepsRunOut
<1> QED BY <1>1, <1>2, TapInvAlways, PTL

---------------------------------------------------------------------------
(* The appliance.  What is on hold was put there by a request that found   *)
(* the appliance not to be ready, and is dealt with in the step that makes *)
(* it ready; the result of that request is handed on until then.           *)

DeferredResult == {"OK_PLAYER_SAME_SOURCE_DEFERRED", "OK_PLAYER_SWITCHED_SOURCE_DEFERRED"}

\* What is known of the result a member function is going to return.
ResultInv ==
    /\ frame.op = "activate" /\ Deferred => ~frame.select_now
    /\ frame.op = "activate" /\ pc \in {"deselect", "players", "activate", "select"}
          => frame.result = SwitchResult(frame.affected, frame.select_now)
    /\ HavePending => pending.phase_one_result \in DeferredResult
    /\ frame.op = "complete" => frame.result \in DeferredResult \cup
          {"ERROR_SOURCE_UNKNOWN", "ERROR_SOURCE_FAILED"}
    /\ frame.op = "cancel" => frame.result \in
          {"ERROR_SOURCE_UNKNOWN", "ERROR_SOURCE_FAILED", "OK_PLAYER_SWITCHED"}

PolicyInv ==
    /\ HavePending => ~Allowed
    /\ frame.op = "activate" => (frame.select_now <=> Allowed)
    /\ ResultInv

\* Suspended or blocked, as the appliance is seen from outside.
LEMMA BlockedSeen == (power_state = "no" \/ GetState = 0) <=> ~Allowed
  BY DEF GetState, Allowed, EnableAllowed

\* Nothing is on hold.
LEMMA PolicyInit == Init => PolicyInv
  BY DEF Init, SwitchInit, NoFrame, NoPending, HavePending, PolicyInv, ResultInv

\* Only a request that must not select its source puts it on hold.
LEMMA ContinuePending ==
  ASSUME Inv, Continue
  PROVE  \/ pending' \in {pending, NoPending}
         \/ /\ pc = "select" /\ frame.op = "activate" /\ ~frame.select_now
            /\ pending'.phase_one_result = frame.result
  BY DEF Continue, SkipDeactivate, MakeCall, CallDeselected, CallDeactivate, CallActivate,
         CallSelected, CallCanceled, CallPeer, CallReturns, DeselectedReturned,
         DeactivateReturned, ActivateReturned, SelectedReturned, CanceledReturned, Returned,
         Inv, SwitchInv, AtSelect

\* A function goes from one of its four places to the next, or returns.
LEMMA ContinuePlaces ==
  ASSUME Inv, Continue, frame.op = "activate",
         pc' \in {"deselect", "players", "activate", "select"}
  PROVE  pc \in {"deselect", "players", "activate", "select"}
  BY DEF Continue, SkipDeactivate, MakeCall, CallDeselected, CallDeactivate, CallActivate,
         CallSelected, CallCanceled, CallPeer, CallReturns, DeselectedReturned,
         DeactivateReturned, ActivateReturned, SelectedReturned, CanceledReturned, Returned

\* While a function runs, what is known of it stays known.
LEMMA ContinuePolicy ==
  ASSUME TapInv, PolicyInv, Continue, UNCHANGED tapVars
  PROVE  PolicyInv'
<1> USE DEF TapInv, PolicyInv
<1>1. Allowed' = Allowed
  BY DEF tapVars, applianceVars, Allowed, EnableAllowed
<1>2. /\ frame'.op = frame.op /\ frame'.select_now = frame.select_now
      /\ frame'.affected = frame.affected
  BY ContinueKeeps
<1>3. HavePending' => ~Allowed' /\ pending'.phase_one_result \in DeferredResult
  <2>1. CASE pending' \in {pending, NoPending}
    BY <1>1, <2>1 DEF HavePending, NoPending, ResultInv
  <2>2. CASE /\ pc = "select" /\ frame.op = "activate" /\ ~frame.select_now
             /\ pending'.phase_one_result = frame.result
    <3>1. frame.result = SwitchResult(frame.affected, FALSE)
      BY <2>2 DEF ResultInv, SwitchResult
    <3> QED BY <1>1, <2>2, <3>1 DEF SwitchResult, DeferredResult
  <2> QED BY <2>1, <2>2, ContinuePending
<1>4. frame.op = "activate" /\ Deferred' => ~frame.select_now
  BY ContinueKeeps DEF Deferred, ResultInv
<1>5. frame.op = "activate" /\ pc' \in {"deselect", "players", "activate", "select"}
          => frame'.result = SwitchResult(frame.affected, frame.select_now)
  BY ContinueKeeps, ContinuePlaces DEF ResultInv
<1>6. frame.op = "complete" => frame'.result \in DeferredResult \cup
          {"ERROR_SOURCE_UNKNOWN", "ERROR_SOURCE_FAILED"}
  BY ContinueKeeps DEF ResultInv, Inv, SwitchInv, AtActivate
<1>7. frame.op = "cancel" => frame'.result \in
          {"ERROR_SOURCE_UNKNOWN", "ERROR_SOURCE_FAILED", "OK_PLAYER_SWITCHED"}
  BY ContinueKeeps DEF ResultInv, Inv, SwitchInv, AtActivate
<1>8. ResultInv'
  BY <1>2, <1>3, <1>4, <1>5, <1>6, <1>7 DEF ResultInv
<1> QED BY <1>1, <1>2, <1>3, <1>8

\* A request knows whether the appliance is ready; it returns a deferred
\* result for a source that is on hold only because that is not so.
LEMMA RequestPolicy ==
  ASSUME TapInv, PolicyInv, NEW i \in Invocation, NEW data \in RequestData,
         NEW s \in SourceOrNone, RequestSource(i, s, data)
  PROVE  PolicyInv'
<1> USE DEF PolicyInv
<1>1. Allowed' = Allowed /\ Allowed \in BOOLEAN
  BY DEF RequestSource, applianceVars, Allowed, EnableAllowed
<1>2. ActivateSource(s, Allowed, data)
  BY DEF RequestSource
<1>3. /\ frame'.op = "activate" /\ frame'.select_now = Allowed
      /\ pending' \in {pending, NoPending}
  BY <1>2, ActivateEnters
<1>4. HavePending' => ~Allowed' /\ pending'.phase_one_result \in DeferredResult
  BY <1>1, <1>3 DEF HavePending, NoPending, ResultInv
<1>5. CASE RejectSource(s, Allowed, data)
  BY <1>1, <1>3, <1>4, <1>5 DEF RejectSource, ActivateFrame, ResultInv, Deferred
<1>6. CASE KeepSource(s, Allowed, data)
  BY <1>1, <1>3, <1>4, <1>6 DEF KeepSource, ActivateFrame, ResultInv, Deferred, HavePending
<1>7. CASE BeginSwitch(s, Allowed, data)
  <2>1. frame'.result = SwitchResult(frame'.affected, Allowed)
    BY <1>7 DEF BeginSwitch, ActivateFrame
  <2>2. Deferred' => ~Allowed
    BY <2>1 DEF Deferred, SwitchResult
  <2> QED BY <1>1, <1>3, <1>4, <2>1, <2>2 DEF ResultInv
<1> QED BY <1>2, <1>5, <1>6, <1>7 DEF ActivateSource

\* The appliance gets ready only together with completing what is on hold.
LEMMA ReadyPolicy ==
  ASSUME TapInv, PolicyInv, NEW i, NEW power, NEW audio, SetReadyState(i, power, audio)
  PROVE  PolicyInv'
<1> USE DEF PolicyInv
<1>1. CASE SetReady(i, power, audio)
  <2>1. CompletePending /\ frame'.op = "complete" /\ ~HavePending'
    BY <1>1, OthersEnter DEF SetReady, HavePending
  <2>2. frame'.result \in DeferredResult \cup {"ERROR_SOURCE_UNKNOWN", "ERROR_SOURCE_FAILED"}
    BY <2>1 DEF CompletePending, NothingPending, BeginComplete, PendingFrame, ResultInv
  <2> QED BY <2>1, <2>2 DEF ResultInv
<1>2. CASE SetSuspended(i, power, audio)
  <2>1. CancelPending /\ frame'.op = "cancel" /\ ~HavePending'
    BY <1>2, OthersEnter DEF SetSuspended, HavePending
  <2>2. frame'.result \in {"ERROR_SOURCE_UNKNOWN", "OK_PLAYER_SWITCHED"}
    BY <2>1 DEF CancelPending, NothingPending, BeginCancel, PendingFrame
  <2> QED BY <2>1, <2>2 DEF ResultInv
<1>3. CASE SetNotReady(i, power, audio)
  <2>1. frame = NoFrame /\ UNCHANGED <<frame, pending, pc>> /\ ~Allowed'
    BY <1>3 DEF SetNotReady, SetAppliance, switchAllVars, switchVars, TapInv, Inv, SwitchInv,
                Allowed
  <2> QED BY <2>1 DEF NoFrame, ResultInv, HavePending
<1> QED BY <1>1, <1>2, <1>3 DEF SetReadyState

\* Every step preserves PolicyInv.
LEMMA PolicyNext == TapInv /\ PolicyInv /\ [Next]_vars => PolicyInv'
<1> SUFFICES ASSUME TapInv, PolicyInv, [Next]_vars PROVE PolicyInv'
  OBVIOUS
<1>1. ASSUME NEW i \in Invocation, NEW data \in RequestData, NEW kill_player \in BOOLEAN,
             RequestRelease(i, kill_player, data)
      PROVE  PolicyInv'
  BY <1>1, OthersEnter DEF RequestRelease, applianceVars, PolicyInv, ResultInv, HavePending,
                           Allowed, EnableAllowed
<1>2. CASE HandlerFinishes
  <2>1. UNCHANGED applianceVars /\ frame' = NoFrame
    BY <1>2, FinishKeepsTypes
  <2>2. pending' = pending
    BY <1>2 DEF HandlerFinishes, FinishRequestSource, FinishReleasePath, FinishComplete,
                FinishCancel, Finish, Return
  <2> QED BY <2>1, <2>2 DEF applianceVars, NoFrame, PolicyInv, ResultInv, HavePending,
                            Allowed, EnableAllowed
<1>3. CASE (Register /\ UNCHANGED tapVars) \/ UNCHANGED vars
  <2>1. UNCHANGED <<frame, pending, pc, power_state, audio_state>>
    BY <1>3 DEF Register, RegisterPlayer, RegisterSource, vars, tapVars, applianceVars,
                switchAllVars, switchVars
  <2> QED BY <2>1 DEF PolicyInv, ResultInv, HavePending, Allowed, EnableAllowed, Deferred
<1> QED BY <1>1, <1>2, <1>3, RequestPolicy, ReadyPolicy, ContinuePolicy
        DEF Next, Request, HandlerStep

\* The invariant holds in every state.
LEMMA PolicyAlways == Spec => []PolicyInv
  BY TapInvAlways, PolicyInit, PolicyNext, PTL DEF Spec

(* Nothing is on hold when the appliance may play.                         *)
THEOREM PendingOnlyWhileBlockedAlways == Spec => []PendingOnlyWhileBlocked
<1>1. PolicyInv => PendingOnlyWhileBlocked
  BY BlockedSeen DEF PolicyInv, PendingOnlyWhileBlocked
<1> QED BY <1>1, PolicyAlways, PTL

(* The results the handlers of SetReadyState() call unexpected never occur.*)
THEOREM NoUnexpectedResultEver == Spec => []NoUnexpectedResult
<1>1. PolicyInv => NoUnexpectedResult
  BY DEF PolicyInv, ResultInv, NoUnexpectedResult, DeferredResult
<1> QED BY <1>1, PolicyAlways, PTL

---------------------------------------------------------------------------
(* The callers.  A handler that does not answer its own call puts it into  *)
(* the queue: a deferred result is returned only to a request that was not *)
(* to select its source (PolicyInv), and such a request is queued.         *)

\* A call that nobody answers is at least kept by a longer queue.
LEMMA AppendQueues ==
  ASSUME NEW q \in Seq(QueueEntry), NEW entry
  PROVE  /\ entry.invocation \in
               {Append(q, entry)[k].invocation : k \in DOMAIN Append(q, entry)}
         /\ {q[k].invocation : k \in DOMAIN q} \subseteq
               {Append(q, entry)[k].invocation : k \in DOMAIN Append(q, entry)}
<1>1. /\ DOMAIN Append(q, entry) = 1..(Len(q) + 1) /\ DOMAIN q = 1..Len(q) /\ Len(q) \in Nat
      /\ Append(q, entry)[Len(q) + 1] = entry
      /\ \A k \in 1..Len(q) : Append(q, entry)[k] = q[k]
  OBVIOUS
<1>2. Len(q) + 1 \in 1..(Len(q) + 1) /\ 1..Len(q) \subseteq 1..(Len(q) + 1)
  BY <1>1
<1> QED BY <1>1, <1>2

\* A call arrives; the others are none of its business.
LEMMA ArriveLosesNone ==
  ASSUME TapInv, NoRequestLost, pc = "idle", NEW i \in Invocation, queue' = queue,
         \/ \E method \in Method, s \in SourceOrNone : Arrive(i, method, s)
         \/ calls' = [calls EXCEPT ![i] = Success(None)] /\ handler' = handler
  PROVE  NoRequestLost'
<1>1. Queued' = Queued /\ handler = None
  BY DEF Queued, TapInv, HandlerInv
<1>2. \A j \in Invocation : j # i => calls'[j] = calls[j] /\ j # handler
  BY <1>1 DEF Arrive, TapInv, TypeOK
<1>3. i = handler' \/ ~IsOpen(i)'
  BY DEF Arrive, Success, IsOpen, TapInv, TypeOK
<1> QED BY <1>1, <1>2, <1>3 DEF NoRequestLost, IsOpen

\* A request answers its caller, or queues it, and fails those it displaces.
LEMMA RequestLosesNone ==
  ASSUME TapInv, PolicyInv, NoRequestLost, FinishRequestSource
  PROVE  NoRequestLost'
<1> USE DEF TapInv, IsOpen
<1> DEFINE answers == AnswerAll(Dropped, Error)
           entry == [invocation |-> handler, request_data |-> frame.request_data]
<1>1. /\ pc = "return" /\ handler' = None /\ handler \in Invocation
      /\ calls[handler].method = "RequestSource" /\ frame.op = "activate"
  BY DEF FinishRequestSource, Finish, Return, HandlerInv, MethodOf, TypeOK
<1>2. /\ answers \in [Invocation -> OpenCall \cup AnsweredCall]
      /\ Error.status # "open" /\ Success(frame.player_id).status # "open"
  BY AnswerTypes, AnswerAllType DEF TypeOK, Error, Success
<1>3. /\ \A j \in Invocation \ {handler} : calls'[j] = answers[j]
      /\ calls'[handler].status = "open" => Deferred
  BY <1>1, <1>2 DEF FinishRequestSource
<1>4. Deferred => queue' = Append(KeptQueue, entry)
  BY <1>1 DEF FinishRequestSource, PolicyInv, ResultInv, Succeeded, Deferred
<1>5. KeptQueue \in Seq(QueueEntry) /\ (queue' = KeptQueue \/ queue' = Append(KeptQueue, entry))
  BY DEF FinishRequestSource, KeptQueue, TypeOK
<1>6. Deferred => handler \in Queued'
  BY <1>4, <1>5, AppendQueues DEF Queued
<1>7. ASSUME NEW j \in Invocation \ {handler}, answers[j].status = "open",
             answers[j].method # "SetReadyState"
      PROVE  j \in Queued'
  <2>1. j \notin Dropped /\ answers[j] = calls[j]
    BY <1>2, <1>7 DEF AnswerAll
  <2>2. j \in Queued
    BY <1>7, <2>1 DEF NoRequestLost
  <2>3. KeptQueue = queue
    BY <2>1, <2>2 DEF Dropped, KeptQueue
  <2>4. CASE queue' = KeptQueue
    BY <2>2, <2>3, <2>4 DEF Queued
  <2>5. CASE queue' = Append(KeptQueue, entry)
    <3>1. Queued \subseteq {Append(queue, entry)[k].invocation :
                                k \in DOMAIN Append(queue, entry)}
      BY AppendQueues DEF Queued, TypeOK
    <3> QED BY <2>2, <2>3, <2>5, <3>1 DEF Queued
  <2> QED BY <1>5, <2>4, <2>5
<1>8. ASSUME NEW j \in Invocation, IsOpen(j)', calls'[j].method # "SetReadyState"
      PROVE  j \in Queued'
  <2>1. CASE j = handler
    BY <1>3, <1>6, <1>8, <2>1
  <2>2. CASE j # handler
    BY <1>3, <1>7, <1>8, <2>2
  <2> QED BY <2>1, <2>2
<1> QED BY <1>8 DEF NoRequestLost

\* Releasing the path answers its caller, and fails those that it displaces.
LEMMA ReleaseLosesNone ==
  ASSUME TapInv, NoRequestLost, FinishReleasePath
  PROVE  NoRequestLost'
<1> USE DEF TapInv, IsOpen
<1>1. handler' = None /\ handler \in Invocation
  BY DEF FinishReleasePath, Finish, Return, HandlerInv, TypeOK
<1>2. Error.status # "open" /\ Success(None).status # "open"
  BY DEF Error, Success
<1>3. \A j \in Invocation :
          calls'[j] = IF j = handler THEN Success(None)
                      ELSE IF j \in Dropped THEN Error ELSE calls[j]
  BY <1>1 DEF FinishReleasePath, AnswerAll
<1>4. \A j \in Queued : j \notin Dropped => j \in Queued'
  BY DEF FinishReleasePath, Dropped, KeptQueue, Queued
<1> QED BY <1>1, <1>2, <1>3, <1>4 DEF NoRequestLost

\* Either all that is queued is answered, or the queue stays as it is.
LEMMA AnswerAllLosesNone ==
  ASSUME TapInv, NoRequestLost, handler' = None, NEW answer, answer.status # "open",
         NEW found \in BOOLEAN,
         NEW answers, answers = AnswerAll(IF found THEN Queued ELSE {}, answer),
         \A j \in Invocation \ {handler} : calls'[j] = answers[j],
         calls'[handler].status = "open" => calls'[handler].method = "SetReadyState",
         queue' = IF found THEN <<>> ELSE queue
  PROVE  NoRequestLost'
<1> SUFFICES ASSUME NEW j \in Invocation, IsOpen(j)', calls'[j].method # "SetReadyState"
             PROVE  j \in Queued'
  BY DEF NoRequestLost
<1> USE DEF IsOpen
<1>1. j # handler /\ calls'[j] = answers[j]
  OBVIOUS
<1>2. ~(found /\ j \in Queued) /\ calls'[j] = calls[j]
  BY <1>1 DEF AnswerAll
<1>3. j \in Queued
  BY <1>1, <1>2 DEF NoRequestLost
<1> QED BY <1>2, <1>3 DEF Queued

\* Completing and canceling answer all that is queued, or nothing was.
LEMMA ReadyLosesNone ==
  ASSUME TapInv, NoRequestLost, FinishComplete \/ FinishCancel
  PROVE  NoRequestLost'
<1> USE DEF TapInv, IsOpen
<1>1. /\ handler' = None /\ handler \in Invocation
      /\ calls[handler].method = "SetReadyState"
  BY DEF FinishComplete, FinishCancel, Finish, Return, HandlerInv, TypeOK
<1>2. Error.status # "open" /\ \A p : Success(p).status # "open"
  BY DEF Error, Success
<1>3. CASE FinishComplete
  <2> DEFINE found == frame.result # "ERROR_SOURCE_UNKNOWN"
             all == IF Succeeded THEN Success(current_player_id) ELSE Error
             answers == AnswerAll(IF found THEN Queued ELSE {}, all)
  <2>1. all.status # "open" /\ found \in BOOLEAN
    BY <1>2
  <2>2. DOMAIN answers = Invocation
        /\ (answers[handler].status = "open" => answers[handler] = calls[handler])
    BY <1>1, <2>1 DEF AnswerAll
  <2>3. /\ \/ calls' = [answers EXCEPT ![handler] = @]
           \/ calls' = [answers EXCEPT ![handler] = Error]
           \/ calls' = [answers EXCEPT ![handler] = Success(None)]
        /\ queue' = IF found THEN <<>> ELSE queue
    BY <1>3 DEF FinishComplete
  <2> HIDE DEF answers, all, found
  <2>4. /\ \A j \in Invocation \ {handler} : calls'[j] = answers[j]
        /\ calls'[handler].status = "open" => calls'[handler].method = "SetReadyState"
    BY <1>1, <1>2, <2>2, <2>3
  <2>5. answers = AnswerAll(IF found THEN Queued ELSE {}, all)
    BY DEF answers
  <2> QED BY <1>1, <2>1, <2>3, <2>4, <2>5, AnswerAllLosesNone
<1>4. CASE FinishCancel
  <2> DEFINE canceled == frame.result \in {"OK_PLAYER_SWITCHED", "ERROR_SOURCE_FAILED"}
             answers == AnswerAll(IF canceled THEN Queued ELSE {}, Error)
  <2>1. DOMAIN answers = Invocation /\ canceled \in BOOLEAN
    BY DEF AnswerAll
  <2>2. /\ calls' = [answers EXCEPT ![handler] = Success(None)]
        /\ queue' = IF canceled THEN <<>> ELSE queue
    BY <1>4 DEF FinishCancel
  <2> HIDE DEF answers, canceled
  <2>3. /\ \A j \in Invocation \ {handler} : calls'[j] = answers[j]
        /\ calls'[handler].status # "open"
    BY <1>1, <1>2, <2>1, <2>2
  <2>4. answers = AnswerAll(IF canceled THEN Queued ELSE {}, Error)
    BY DEF answers
  <2> QED BY <1>1, <1>2, <2>1, <2>2, <2>3, <2>4, AnswerAllLosesNone
<1> QED BY <1>3, <1>4

\* Every step preserves NoRequestLost.
LEMMA NoneLostNext ==
  TapInv /\ PolicyInv /\ NoRequestLost /\ [Next]_vars => NoRequestLost'
<1> SUFFICES ASSUME TapInv, PolicyInv, NoRequestLost, [Next]_vars PROVE NoRequestLost'
  OBVIOUS
<1>1. ASSUME NEW i \in Invocation, NEW data \in RequestData, NEW s \in SourceOrNone,
             RequestSource(i, s, data)
      PROVE  NoRequestLost'
  BY <1>1, ActivateEnters, ArriveLosesNone DEF RequestSource, Method
<1>2. ASSUME NEW i \in Invocation, NEW data \in RequestData, NEW kill_player \in BOOLEAN,
             RequestRelease(i, kill_player, data)
      PROVE  NoRequestLost'
  <2>1. pc = "idle" /\ Arrive(i, "ReleasePath", None) /\ queue' = queue
    BY <1>2, OthersEnter DEF RequestRelease
  <2> QED BY <2>1, ArriveLosesNone DEF Method, SourceOrNone
<1>3. ASSUME NEW i \in Invocation, NEW power \in Maybe, NEW audio \in Maybe,
             SetReadyState(i, power, audio)
      PROVE  NoRequestLost'
  <2>1. pc = "idle" /\ queue' = queue
    BY <1>3, OthersEnter DEF SetReadyState, SetReady, SetSuspended, SetNotReady, SetAppliance
  <2>2. \/ Arrive(i, "SetReadyState", None)
        \/ calls' = [calls EXCEPT ![i] = Success(None)] /\ handler' = handler
    BY <1>3 DEF SetReadyState, SetReady, SetSuspended, SetNotReady
  <2> QED BY <2>1, <2>2, ArriveLosesNone DEF Method, SourceOrNone
<1>4. ASSUME UNCHANGED tapVars PROVE NoRequestLost'
  BY <1>4 DEF tapVars, NoRequestLost, IsOpen, Queued
<1> QED BY <1>1, <1>2, <1>3, <1>4, RequestLosesNone, ReleaseLosesNone, ReadyLosesNone
        DEF Next, Request, HandlerStep, HandlerFinishes, vars

(* No caller of RequestSource() or ReleasePath() is ever forgotten.        *)
THEOREM NoRequestLostAlways == Spec => []NoRequestLost
<1>1. Init => NoRequestLost
  BY DEF Init, NoRequestLost, IsOpen, Unused
<1> QED BY <1>1, TapInvAlways, PolicyAlways, NoneLostNext, PTL DEF Spec

---------------------------------------------------------------------------
(* The queue.  Between two handlers it belongs to what is on hold.  While  *)
(* a handler runs, that is true of the part of the queue which the handler *)
(* is going to keep, until it has put its own source on hold.              *)

\* The calls in a queue wait for what is on hold.
Waiting(q) ==
    /\ q # <<>>
    /\ q[1].request_data = pending.request_data
    /\ \A k \in DOMAIN q : calls[q[k].invocation].source_id = pending.source_id

\* Each call that is queued can be answered, once, and not by its own handler.
QueueOpen ==
    \A k \in DOMAIN queue :
        LET i == queue[k].invocation
        IN /\ IsOpen(i)
           /\ calls[i].method = "RequestSource"
           /\ i # handler
           /\ \A m \in DOMAIN queue : queue[m].invocation = i => m = k

Kept == IF pc = "idle" THEN queue ELSE KeptQueue

\* What a request that has put its source on hold adds to the queue.
Fresh ==
    /\ frame.op = "activate"
    /\ pc = "return"
    /\ pending.request_data = frame.request_data

RouteQueue ==
    frame.op \in {"none", "activate", "release"} =>
        /\ ~HavePending => Kept = <<>>
        /\ HavePending => Waiting(Kept) \/ (Kept = <<>> /\ Fresh)

\* A request returns with something on hold exactly if it is to be queued.
ReturnInv ==
    /\ pc = "return" /\ frame.op = "activate" =>
          /\ HavePending <=> Deferred
          /\ HavePending => pending.source_id = frame.source_id
          /\ Succeeded /\ ~frame.select_now /\ frame.result # "OK_UNCHANGED" => Deferred
    /\ pc = "deselect" => frame.deselected = "NONE"
    /\ frame.op = "activate" /\ handler # None =>
          calls[handler].source_id = frame.source_id

ReadyQueue ==
    frame.op \in {"complete", "cancel"} =>
        /\ ~HavePending
        /\ frame.source_id = None => queue = <<>>
        /\ frame.result = "ERROR_SOURCE_UNKNOWN" => frame.source_id = None

QueueInv == QueueOpen /\ RouteQueue /\ ReturnInv /\ ReadyQueue

\* The queue is empty.
LEMMA QueueInit == Init => QueueInv
<1> SUFFICES ASSUME Init PROVE QueueInv
  OBVIOUS
<1>1. QueueOpen
  BY DEF Init, QueueOpen
<1>2. RouteQueue /\ ReturnInv /\ ReadyQueue
  BY DEF Init, SwitchInit, NoFrame, NoPending, HavePending, RouteQueue, ReturnInv,
         ReadyQueue, Kept
<1> QED BY <1>1, <1>2 DEF QueueInv

\* Each call in the queue is an invocation that is open.
LEMMA QueuedOpen ==
  ASSUME TypeOK, QueueOpen
  PROVE  \A j \in Queued : j \in Invocation /\ IsOpen(j) /\ j # handler
<1>1. \A k \in DOMAIN queue : queue[k] \in QueueEntry
  BY DEF TypeOK
<1> QED BY <1>1 DEF QueueOpen, Queued, QueueEntry

\* Calls that stay as they are stay in the queue.
LEMMA QueueStays ==
  ASSUME QueueOpen, queue' = queue, handler' \notin Queued,
         \A j \in Queued : calls'[j] = calls[j]
  PROVE  QueueOpen' /\ (pending' = pending /\ Waiting(queue) => Waiting(queue)')
<1>1. \A k \in DOMAIN queue : queue[k].invocation \in Queued
  BY DEF Queued
<1>2. QueueOpen'
  BY <1>1 DEF QueueOpen, IsOpen
<1>3. pending' = pending /\ Waiting(queue) => Waiting(queue)'
  BY <1>1 DEF Waiting
<1> QED BY <1>2, <1>3

\* A call that arrives is not queued yet, and does not change those that are.
LEMMA ArriveQueue ==
  ASSUME TapInv, QueueOpen, pc = "idle", NEW i \in Invocation, queue' = queue,
         \/ \E method \in Method, s \in SourceOrNone : Arrive(i, method, s)
         \/ ~IsOpen(i) /\ calls' = [calls EXCEPT ![i] = Success(None)] /\ handler' = handler
  PROVE  QueueOpen' /\ (pending' = pending /\ Waiting(queue) => Waiting(queue)')
<1>1. ~IsOpen(i) /\ handler = None /\ \A j \in Invocation : j # i => calls'[j] = calls[j]
  BY DEF Arrive, TapInv, TypeOK, HandlerInv
<1>2. handler' \in {None, i}
  BY <1>1 DEF Arrive
<1>3. \A j \in Queued : j \in Invocation /\ IsOpen(j)
  BY QueuedOpen DEF TapInv
<1> QED BY <1>1, <1>2, <1>3, QueueStays

\* A request finds the queue as it was left.
LEMMA RequestQueue ==
  ASSUME TapInv, PolicyInv, QueueInv, NEW i \in Invocation, NEW data \in RequestData,
         NEW s \in SourceOrNone, RequestSource(i, s, data)
  PROVE  QueueInv'
<1> USE DEF TapInv, QueueInv
<1>1. /\ pc = "idle" /\ pc' # "idle" /\ queue' = queue /\ frame = NoFrame
      /\ Arrive(i, "RequestSource", s) /\ frame'.op = "activate" /\ frame'.source_id = s
      /\ ActivateSource(s, Allowed, data) /\ pending' \in {pending, NoPending}
  BY ActivateEnters DEF RequestSource, Inv, SwitchInv
<1>2. QueueOpen' /\ (pending' = pending /\ Waiting(queue) => Waiting(queue)')
  BY <1>1, ArriveQueue DEF Method
<1>3. (~HavePending => queue = <<>>) /\ (HavePending => Waiting(queue))
  BY <1>1 DEF RouteQueue, Kept, NoFrame, Fresh
<1>4. calls'[handler'].source_id = s /\ ReadyQueue'
  BY <1>1, ArriveType DEF Arrive, ReadyQueue, TypeOK
<1>5. CASE RejectSource(s, Allowed, data)
  <2>1. /\ frame'.deselected = IF HavePending THEN "DESELECTED_PENDING" ELSE "NONE"
        /\ frame'.result \in {"ERROR_PLAYER_UNKNOWN", "ERROR_SOURCE_UNKNOWN"}
        /\ ~HavePending' /\ pc' = "return"
    BY <1>5 DEF RejectSource, ActivateFrame, NoPending, HavePending
  <2>2. Kept' = <<>>
    BY <1>1, <1>3, <2>1 DEF Kept, KeptQueue
  <2>3. RouteQueue' /\ ReturnInv'
    BY <1>1, <1>4, <2>1, <2>2 DEF RouteQueue, ReturnInv, Deferred, Succeeded
  <2> QED BY <1>2, <1>4, <2>3
<1>6. CASE KeepSource(s, Allowed, data)
  <2>1. /\ frame'.deselected = "NONE" /\ pc' = "return" /\ pending' = pending /\ s # None
        /\ \/ s = current_source_id /\ frame'.result = "OK_UNCHANGED"
           \/ s # current_source_id /\ s = pending.source_id
              /\ frame'.result = "OK_PLAYER_SWITCHED_SOURCE_DEFERRED"
    BY <1>6 DEF KeepSource, ActivateFrame
  <2>2. HavePending' <=> Deferred'
    BY <2>1 DEF Inv, SwitchInv, SourceXorPending, HavePending, Deferred
  <2>3. HavePending' => pending'.source_id = s
    BY <2>1 DEF Inv, SwitchInv, SourceXorPending, HavePending
  <2>4. ReturnInv'
    BY <1>1, <1>4, <2>1, <2>2, <2>3 DEF ReturnInv, Deferred, Succeeded
  <2>5. Kept' = queue /\ (HavePending' <=> HavePending)
    BY <1>1, <2>1 DEF Kept, KeptQueue, HavePending
  <2>6. RouteQueue'
    <3>1. Waiting(queue)' => Waiting(Kept)'
      BY <1>1, <2>5
    <3> QED BY <1>2, <1>3, <2>1, <2>5, <3>1 DEF RouteQueue
  <2> QED BY <1>2, <1>4, <2>4, <2>6
<1>7. CASE BeginSwitch(s, Allowed, data)
  <2>1. frame'.deselected = "NONE" /\ pc' \in {"deselect", "players"} /\ pending' = pending
    BY <1>7 DEF BeginSwitch, ActivateFrame, AfterEntry
  <2>2. Kept' = queue /\ (HavePending' <=> HavePending)
    BY <1>1, <2>1 DEF Kept, KeptQueue, HavePending
  <2>3. RouteQueue'
    <3>1. Waiting(queue)' => Waiting(Kept)'
      BY <1>1, <2>2
    <3> QED BY <1>2, <1>3, <2>1, <2>2, <3>1 DEF RouteQueue
  <2> QED BY <1>1, <1>2, <1>4, <2>1, <2>3 DEF ReturnInv
<1> QED BY <1>1, <1>5, <1>6, <1>7 DEF ActivateSource

\* So does a release; SetReadyState() takes away what is on hold at once.
LEMMA OthersQueue ==
  ASSUME TapInv, PolicyInv, QueueInv, NEW i \in Invocation,
         \/ \E kill_player \in BOOLEAN, data \in RequestData :
               RequestRelease(i, kill_player, data)
         \/ \E power \in Maybe, audio \in Maybe : SetReadyState(i, power, audio)
  PROVE  QueueInv'
<1> USE DEF TapInv, QueueInv
<1>1. /\ pc = "idle" /\ queue' = queue /\ frame = NoFrame
      /\ \/ Arrive(i, "ReleasePath", None)
         \/ Arrive(i, "SetReadyState", None)
         \/ ~IsOpen(i) /\ calls' = [calls EXCEPT ![i] = Success(None)] /\ handler' = handler
  BY OthersEnter DEF RequestRelease, SetReadyState, SetReady, SetSuspended, SetNotReady,
                     SetAppliance, Inv, SwitchInv
<1>2. QueueOpen' /\ (pending' = pending /\ Waiting(queue) => Waiting(queue)')
  BY <1>1, ArriveQueue DEF Method, SourceOrNone
<1>3. (~HavePending => queue = <<>>) /\ (HavePending => Waiting(queue))
  BY <1>1 DEF RouteQueue, Kept, NoFrame, Fresh
<1>4. ASSUME NEW kill_player, NEW data, ReleasePath(kill_player, data)
      PROVE  QueueInv'
  <2>1. /\ frame'.op = "release" /\ frame'.deselected = "NONE" /\ pending' = pending
        /\ pc' # "idle"
    BY <1>4, OthersEnter DEF ReleasePath
  <2>2. Kept' = queue /\ (HavePending' <=> HavePending)
    BY <1>1, <2>1 DEF Kept, KeptQueue, HavePending
  <2>3. RouteQueue'
    <3>1. Waiting(queue)' => Waiting(Kept)'
      BY <1>1, <2>2
    <3> QED BY <1>2, <1>3, <2>1, <2>2, <3>1 DEF RouteQueue
  <2> QED BY <1>2, <2>1, <2>3 DEF ReturnInv, ReadyQueue
<1>5. CASE CompletePending \/ CancelPending
  <2>1. /\ frame'.op \in {"complete", "cancel"} /\ frame'.source_id = pending.source_id
        /\ frame'.result = "ERROR_SOURCE_UNKNOWN" => ~HavePending
        /\ ~HavePending' /\ pc' # "deselect"
    BY <1>5 DEF CompletePending, CancelPending, NothingPending, BeginComplete, BeginCancel,
                PendingFrame, HavePending, NoPending, PolicyInv, ResultInv, DeferredResult
  <2>2. ReadyQueue' /\ RouteQueue' /\ ReturnInv'
    BY <1>1, <1>3, <2>1 DEF ReadyQueue, RouteQueue, ReturnInv, HavePending
  <2> QED BY <1>2, <2>2
<1>6. CASE UNCHANGED switchAllVars
  <2>1. UNCHANGED <<pc, frame, pending>>
    BY <1>6 DEF switchAllVars, switchVars
  <2>2. Kept' = queue /\ (HavePending' <=> HavePending)
    BY <1>1, <2>1 DEF Kept, HavePending
  <2>3. RouteQueue'
    <3>1. Waiting(queue)' => Waiting(Kept)'
      BY <1>1, <2>2
    <3> QED BY <1>2, <1>3, <2>1, <2>2, <3>1 DEF RouteQueue
  <2> QED BY <1>1, <1>2, <2>1, <2>3 DEF ReturnInv, ReadyQueue, NoFrame
<1> QED BY <1>4, <1>5, <1>6
        DEF RequestRelease, SetReadyState, SetReady, SetSuspended, SetNotReady

\* The source that is called off takes the queue with it; the one that is
\* put on hold by a request is not waited for yet.
LEMMA ContinueQueue ==
  ASSUME TapInv, PolicyInv, QueueInv, Continue, UNCHANGED tapVars
  PROVE  QueueInv'
<1> USE DEF TapInv, QueueInv
<1>1. UNCHANGED <<queue, calls, handler>> /\ pc # "idle" /\ pc' # "idle"
      /\ frame \in Frame
  BY ContinueKeeps, InFunction DEF tapVars
<1>2. QueueOpen'
  BY <1>1 DEF QueueOpen, IsOpen
<1>3. /\ frame'.op = frame.op /\ frame'.source_id = frame.source_id
      /\ frame'.request_data = frame.request_data /\ frame'.select_now = frame.select_now
  BY ContinueKeeps
<1>4. Kept = KeptQueue /\ Kept' = KeptQueue'
  BY <1>1 DEF Kept
<1>5. CASE MakeCall \/ SkipDeactivate
  <2>1. /\ frame' = frame /\ pending' = pending
        /\ pc' = "deselect" => pc = "deselect"
        /\ pc # "return"
        /\ pc' = "return" /\ frame.op = "activate" => FALSE
    BY <1>5 DEF MakeCall, SkipDeactivate, CallPeer, CallDeselected, CallDeactivate,
                CallActivate, CallSelected, CallCanceled, AfterPlayers
  <2>2. KeptQueue' = KeptQueue /\ (HavePending' <=> HavePending) /\ ~Fresh
    BY <1>1, <2>1 DEF KeptQueue, HavePending, Fresh
  <2>3. RouteQueue'
    <3>1. Waiting(KeptQueue) => Waiting(KeptQueue)'
      BY <1>1, <2>1, <2>2 DEF Waiting
    <3> QED BY <1>4, <2>1, <2>2, <3>1 DEF RouteQueue
  <2>4. ReturnInv' /\ ReadyQueue'
    BY <1>1, <2>1, <2>2 DEF ReturnInv, ReadyQueue
  <2> QED BY <1>2, <2>3, <2>4
<1>6. CASE DeselectedReturned
  <2>1. /\ pc = "deselect" /\ pc' = "players" /\ ~HavePending'
        /\ frame'.deselected = IF current_source_id = None
                               THEN "DESELECTED_PENDING" ELSE "DESELECTED_ACTIVE"
        /\ frame.deselected = "NONE" /\ frame.op \in {"activate", "release"}
    BY <1>1, <1>6 DEF DeselectedReturned, Returned, NoPending, HavePending, ReturnInv, Inv,
                SwitchInv, AtDeselect, Frame
  <2>2. Kept' = <<>>
    <3>1. CASE current_source_id = None
      BY <1>4, <2>1, <3>1 DEF KeptQueue
    <3>2. CASE current_source_id # None
      <4>1. ~HavePending /\ KeptQueue = queue
        BY <2>1, <3>2 DEF Inv, SwitchInv, SourceXorPending, KeptQueue
      <4> QED BY <1>1, <1>4, <2>1, <3>2, <4>1 DEF RouteQueue, KeptQueue
    <3> QED BY <3>1, <3>2
  <2>3. RouteQueue' /\ ReturnInv' /\ ReadyQueue'
    BY <1>1, <1>3, <2>1, <2>2 DEF RouteQueue, ReturnInv, ReadyQueue
  <2> QED BY <1>2, <2>3
<1>7. ASSUME NEW ok \in BOOLEAN,
             DeactivateReturned \/ ActivateReturned(ok) \/ CanceledReturned(ok)
      PROVE  QueueInv'
  <2>1. /\ pending' = pending /\ frame'.deselected = frame.deselected /\ pc' # "deselect"
        /\ pc # "return"
        /\ pc \in {"players", "activate", "cancel"}
        /\ pc' = "return" /\ frame.op = "activate" => frame'.result = "ERROR_PLAYER_FAILED"
        /\ frame'.result \in {frame.result, "ERROR_PLAYER_FAILED", "ERROR_SOURCE_FAILED"}
    BY <1>1, <1>7 DEF DeactivateReturned, ActivateReturned, CanceledReturned, Returned,
                AfterPlayers, Inv, SwitchInv, AtCancel, Frame
  <2>2. ~HavePending /\ ~HavePending'
    BY <2>1 DEF Inv, SwitchInv, AtPlayers, AtActivate, AtCancel, NothingToDeselect,
                HavePending
  <2>3. KeptQueue' = KeptQueue
    BY <1>1, <2>1 DEF KeptQueue
  <2>4. RouteQueue' /\ ReadyQueue'
    BY <1>1, <1>3, <1>4, <2>1, <2>2, <2>3 DEF RouteQueue, ReadyQueue
  <2>5. ReturnInv'
    BY <1>1, <1>3, <2>1, <2>2 DEF ReturnInv, Deferred, Succeeded
  <2> QED BY <1>2, <2>4, <2>5
<1>8. ASSUME NEW ok \in BOOLEAN, SelectedReturned(ok)
      PROVE  QueueInv'
  <2>1. /\ pc = "select" /\ pc' = "return" /\ frame'.deselected = frame.deselected
        /\ frame' = IF ok THEN frame ELSE [frame EXCEPT !.result = "ERROR_SOURCE_FAILED"]
        /\ ok => frame'.result = frame.result
        /\ ~ok => frame'.result = "ERROR_SOURCE_FAILED"
    BY <1>1, <1>8 DEF SelectedReturned, Returned, Frame
  <2>2. /\ ~HavePending /\ frame.source_id # None
        /\ frame.op = "complete" => frame.select_now
        /\ frame.op \in {"activate", "complete"}
    BY <2>1 DEF Inv, SwitchInv, AtSelect, NothingToDeselect, HavePending, PathComplete,
                KnownSource
  <2>3. KeptQueue' = KeptQueue
    BY <1>1, <2>1 DEF KeptQueue
  <2>4. CASE ok /\ ~frame.select_now
    <3>1. /\ pending'.source_id = frame.source_id
          /\ pending'.request_data = frame.request_data
          /\ HavePending' /\ frame.op = "activate"
      BY <1>8, <2>2, <2>4 DEF SelectedReturned, HavePending
    <3>2. Deferred'
      BY <2>1, <2>4, <3>1 DEF PolicyInv, ResultInv, SwitchResult, Deferred
    <3>3. Fresh' /\ Kept' = <<>>
      BY <1>3, <1>4, <2>1, <2>2, <2>3, <3>1 DEF Fresh, RouteQueue
    <3>4. RouteQueue' /\ ReturnInv' /\ ReadyQueue'
      BY <1>1, <1>3, <2>1, <3>1, <3>2, <3>3 DEF RouteQueue, ReturnInv, ReadyQueue
    <3> QED BY <1>2, <3>4
  <2>5. CASE ~(ok /\ ~frame.select_now)
    <3>1. pending' = pending /\ ~HavePending'
      BY <1>8, <2>2, <2>5 DEF SelectedReturned, HavePending
    <3>2. frame.op = "activate" => ~Deferred'
      BY <2>1, <2>5 DEF PolicyInv, ResultInv, SwitchResult, Deferred
    <3>3. frame.op = "activate" /\ Succeeded' => frame.select_now
      BY <2>1, <2>5 DEF Succeeded, Deferred
    <3>4. RouteQueue' /\ ReadyQueue'
      BY <1>1, <1>3, <1>4, <2>1, <2>2, <2>3, <3>1 DEF RouteQueue, ReadyQueue
    <3>5. ReturnInv'
      BY <1>1, <1>3, <2>1, <3>1, <3>2, <3>3 DEF ReturnInv
    <3> QED BY <1>2, <3>4, <3>5
  <2> QED BY <2>4, <2>5
<1> QED BY <1>5, <1>6, <1>7, <1>8 DEF Continue, CallReturns

\* A handler leaves a queue behind that waits for what is on hold.
LEMMA IdleQueue ==
  ASSUME pc' = "idle", frame' = NoFrame, handler' = None, QueueOpen',
         ~HavePending' => queue' = <<>>, HavePending' => Waiting(queue)'
  PROVE  QueueInv'
  BY DEF QueueInv, RouteQueue, ReturnInv, ReadyQueue, Kept, NoFrame

\* One more call in a queue of calls that are all open.
LEMMA AppendOpen ==
  ASSUME TypeOK, QueueOpen, handler \in Invocation, IsOpen(handler),
         calls[handler].method = "RequestSource", handler' = None, calls' = calls,
         NEW data, queue' = Append(queue, [invocation |-> handler, request_data |-> data])
  PROVE  QueueOpen'
<1> DEFINE entry == [invocation |-> handler, request_data |-> data]
<1>1. /\ DOMAIN queue' = 1..(Len(queue) + 1) /\ DOMAIN queue = 1..Len(queue)
      /\ Len(queue) \in Nat
      /\ queue'[Len(queue) + 1] = entry
      /\ \A k \in 1..Len(queue) : queue'[k] = queue[k]
  BY DEF TypeOK
<1>2. \A k \in 1..Len(queue) : queue[k].invocation # handler
  BY <1>1 DEF QueueOpen
<1> SUFFICES ASSUME NEW k \in DOMAIN queue'
             PROVE  /\ IsOpen(queue'[k].invocation)
                    /\ calls[queue'[k].invocation].method = "RequestSource"
                    /\ queue'[k].invocation # None
                    /\ \A m \in DOMAIN queue' :
                          queue'[m].invocation = queue'[k].invocation => m = k
  BY DEF QueueOpen, IsOpen
<1>3. \A m \in 1..Len(queue) : queue[m] \in QueueEntry
  BY DEF TypeOK
<1>4. \A m \in 1..Len(queue) : queue[m].invocation # None
  BY <1>3 DEF QueueEntry
<1>5. CASE k = Len(queue) + 1
  <2>1. queue'[k].invocation = handler
    BY <1>1, <1>5
  <2>2. \A m \in DOMAIN queue' : queue'[m].invocation = handler => m = k
    BY <1>1, <1>2, <1>5
  <2> QED BY <2>1, <2>2
<1>6. CASE k \in 1..Len(queue)
  <2>1. queue'[k] = queue[k] /\ queue[k].invocation # handler
    BY <1>1, <1>2, <1>6
  <2>2. \A m \in DOMAIN queue' : queue'[m].invocation = queue[k].invocation
            => m \in 1..Len(queue) /\ queue[m].invocation = queue[k].invocation
    BY <1>1, <2>1
  <2> QED BY <1>1, <1>4, <1>6, <2>1, <2>2 DEF QueueOpen
<1> QED BY <1>1, <1>5, <1>6

\* A request is queued exactly if it leaves its source on hold.
LEMMA FinishRequestQueue ==
  ASSUME TapInv, PolicyInv, QueueInv, FinishRequestSource
  PROVE  QueueInv'
<1> USE DEF TapInv, QueueInv
<1> DEFINE entry == [invocation |-> handler, request_data |-> frame.request_data]
<1>1. /\ pc = "return" /\ pc' = "idle" /\ frame' = NoFrame /\ handler' = None
      /\ handler \in Invocation /\ IsOpen(handler) /\ pending' = pending
      /\ calls[handler].method = "RequestSource" /\ frame.op = "activate"
      /\ calls[handler].source_id = frame.source_id
      /\ calls \in [Invocation -> OpenCall \cup AnsweredCall]
  BY DEF FinishRequestSource, Finish, Return, HandlerInv, MethodOf, TypeOK, ReturnInv
<1>2. /\ HavePending <=> Deferred
      /\ HavePending => pending.source_id = frame.source_id
      /\ Succeeded /\ ~frame.select_now /\ frame.result # "OK_UNCHANGED" => Deferred
      /\ Deferred => Succeeded /\ ~frame.select_now /\ frame.result # "OK_UNCHANGED"
  BY <1>1 DEF ReturnInv, PolicyInv, ResultInv, Succeeded, Deferred
<1>3. /\ ~HavePending => KeptQueue = <<>>
      /\ HavePending => Waiting(KeptQueue) \/ (KeptQueue = <<>> /\ Fresh)
  BY <1>1 DEF RouteQueue, Kept
<1>4. queue' = IF HavePending THEN Append(KeptQueue, entry) ELSE KeptQueue
  BY <1>1, <1>2 DEF FinishRequestSource
<1>5. CASE ~HavePending
  <2>1. queue' = <<>> /\ ~HavePending'
    BY <1>1, <1>3, <1>4, <1>5 DEF HavePending
  <2> QED BY <1>1, <2>1, IdleQueue DEF QueueOpen
<1>6. CASE HavePending /\ Waiting(KeptQueue)
  <2>1. KeptQueue = queue /\ Dropped = {}
    BY <1>6 DEF Waiting, KeptQueue, Dropped
  <2>2. calls' = calls
    <3>1. AnswerAll(Dropped, Error) = calls
      BY <1>1, <2>1 DEF AnswerAll
    <3> QED BY <1>1, <1>2, <1>6, <3>1 DEF FinishRequestSource
  <2>3. QueueOpen'
    BY <1>1, <1>4, <1>6, <2>1, <2>2, AppendOpen
  <2>4. Waiting(queue)'
    <3>1. /\ DOMAIN queue' = 1..(Len(queue) + 1) /\ DOMAIN queue = 1..Len(queue)
          /\ Len(queue) \in Nat
          /\ queue'[Len(queue) + 1] = entry
          /\ \A k \in 1..Len(queue) : queue'[k] = queue[k]
      BY <1>4, <1>6, <2>1 DEF TypeOK
    <3>2. 1 \in 1..Len(queue) /\ queue' # <<>>
      BY <1>6, <2>1, <3>1 DEF Waiting, TypeOK
    <3>3. \A k \in 1..Len(queue) :
             calls'[queue'[k].invocation].source_id = pending'.source_id
      BY <1>1, <1>6, <2>1, <2>2, <3>1 DEF Waiting
    <3>4. calls'[entry.invocation].source_id = pending'.source_id
      BY <1>1, <1>2, <1>6, <2>2
    <3>5. queue'[1].request_data = pending'.request_data
      BY <1>1, <1>6, <2>1, <3>1, <3>2 DEF Waiting
    <3>6. \A k \in DOMAIN queue' :
             calls'[queue'[k].invocation].source_id = pending'.source_id
      BY <3>1, <3>3, <3>4
    <3> QED BY <3>2, <3>5, <3>6 DEF Waiting
  <2> QED BY <1>1, <1>6, <2>3, <2>4, IdleQueue DEF HavePending
<1>7. CASE HavePending /\ KeptQueue = <<>> /\ Fresh
  <2>1. queue' = <<entry>>
    BY <1>4, <1>7
  <2>2. calls'[handler] = calls[handler]
    <3>1. handler \notin Dropped
      <4>1. handler \notin Queued
        BY QueuedOpen
      <4> QED BY <4>1 DEF Dropped
    <3>2. AnswerAll(Dropped, Error)[handler] = calls[handler]
          /\ handler \in DOMAIN AnswerAll(Dropped, Error)
      BY <1>1, <3>1 DEF AnswerAll
    <3> QED BY <1>2, <1>7, <3>2 DEF FinishRequestSource
  <2>3. DOMAIN queue' = {1} /\ queue'[1] = entry
    BY <2>1
  <2>4. QueueOpen'
    BY <1>1, <2>2, <2>3 DEF QueueOpen, IsOpen
  <2>5. Waiting(queue)'
    BY <1>1, <1>2, <1>7, <2>1, <2>2, <2>3 DEF Waiting, Fresh
  <2> QED BY <1>1, <1>7, <2>4, <2>5, IdleQueue DEF HavePending
<1> QED BY <1>3, <1>5, <1>6, <1>7

\* The other handlers keep the queue as it is, or empty it.
LEMMA FinishOthersQueue ==
  ASSUME TapInv, PolicyInv, QueueInv, FinishReleasePath \/ FinishComplete \/ FinishCancel
  PROVE  QueueInv'
<1> USE DEF TapInv, QueueInv
<1>1. /\ pc = "return" /\ pc' = "idle" /\ frame' = NoFrame /\ handler' = None
      /\ handler \in Invocation /\ pending' = pending
      /\ calls[handler].method = MethodOf(frame.op)
      /\ calls \in [Invocation -> OpenCall \cup AnsweredCall]
  BY DEF FinishReleasePath, FinishComplete, FinishCancel, Finish, Return, HandlerInv, TypeOK
<1>2. CASE queue' = <<>> /\ ~HavePending
  BY <1>1, <1>2, IdleQueue DEF QueueOpen, HavePending
<1>3. CASE FinishReleasePath
  <2>1. frame.op = "release" /\ queue' = KeptQueue
    BY <1>1, <1>3 DEF FinishReleasePath, Finish, MethodOf, Inv, SwitchInv, NoFrame
  <2>2. (~HavePending => KeptQueue = <<>>) /\ (HavePending => Waiting(KeptQueue))
    BY <1>1, <2>1 DEF RouteQueue, Kept, Fresh
  <2>3. CASE HavePending
    <3>1. queue' = queue /\ Waiting(queue) /\ Dropped = {}
      BY <2>1, <2>2, <2>3 DEF Waiting, KeptQueue, Dropped
    <3>2. \A j \in Queued : j \in Invocation /\ j # handler
      BY QueuedOpen
    <3>3. \A j \in Queued : calls'[j] = calls[j]
      BY <1>1, <1>3, <3>1, <3>2 DEF FinishReleasePath, AnswerAll
    <3>4. QueueOpen' /\ Waiting(queue)'
      BY <1>1, <3>1, <3>2, <3>3, QueueStays
    <3> QED BY <1>1, <2>3, <3>4, IdleQueue DEF HavePending
  <2> QED BY <1>2, <2>1, <2>2, <2>3
<1>4. CASE FinishComplete \/ FinishCancel
  <2>1. frame.op \in {"complete", "cancel"}
    BY <1>4 DEF FinishComplete, FinishCancel
  <2>2. queue' \in {queue, <<>>} /\ (queue' = queue => queue = <<>>)
    BY <1>4, <2>1 DEF FinishComplete, FinishCancel, PolicyInv, ResultInv, ReadyQueue
  <2> QED BY <1>2, <2>1, <2>2 DEF ReadyQueue
<1> QED BY <1>3, <1>4

\* Every step preserves QueueInv.
LEMMA QueueNext == TapInv /\ PolicyInv /\ QueueInv /\ [Next]_vars => QueueInv'
<1> SUFFICES ASSUME TapInv, PolicyInv, QueueInv, [Next]_vars PROVE QueueInv'
  OBVIOUS
<1>1. CASE Continue /\ UNCHANGED tapVars
  BY <1>1, ContinueQueue
<1>2. CASE HandlerFinishes
  BY <1>2, FinishRequestQueue, FinishOthersQueue DEF HandlerFinishes
<1>3. CASE (Register /\ UNCHANGED tapVars) \/ UNCHANGED vars
  <2>1. UNCHANGED <<pc, frame, pending, queue, calls, handler>>
    BY <1>3 DEF Register, RegisterPlayer, RegisterSource, vars, tapVars, switchAllVars,
                switchVars
  <2>2. (HavePending' <=> HavePending) /\ KeptQueue' = KeptQueue
        /\ (Deferred' <=> Deferred) /\ (Succeeded' <=> Succeeded)
    BY <2>1 DEF HavePending, KeptQueue, Deferred, Succeeded
  <2>3. QueueOpen' /\ ReturnInv' /\ ReadyQueue'
    BY <2>1, <2>2 DEF QueueInv, QueueOpen, IsOpen, ReturnInv, ReadyQueue
  <2>4. RouteQueue'
    BY <2>1, <2>2 DEF QueueInv, RouteQueue, Kept, Waiting, Fresh
  <2> QED BY <2>3, <2>4 DEF QueueInv
<1> QED BY <1>1, <1>2, <1>3, RequestQueue, OthersQueue DEF Next, Request, HandlerStep

LEMMA QueueInvAlways == Spec => []QueueInv
  BY QueueInit, QueueNext, TapInvAlways, PolicyAlways, PTL DEF Spec

(* Between two handlers the calls that are queued are those that wait for  *)
(* what is on hold.                                                        *)
THEOREM QueueMatchesPendingAlways == Spec => []QueueMatchesPending
<1>1. TapInv /\ QueueInv => QueueMatchesPending
  <2> SUFFICES ASSUME TapInv, QueueInv, pc = "idle" PROVE QueueMatchesPending
    BY DEF QueueMatchesPending
  <2>1. frame = NoFrame
    BY DEF TapInv, Inv, SwitchInv
  <2>2. (~HavePending => queue = <<>>) /\ (HavePending => Waiting(queue))
    BY <2>1 DEF QueueInv, RouteQueue, Kept, NoFrame, Fresh
  <2>3. queue # <<>> => Waiting(queue)
    BY <2>2
  <2>4. queue # <<>> <=> HavePending
    BY <2>2 DEF Waiting
  <2>5. \A k \in DOMAIN queue : queue # <<>>
    OBVIOUS
  <2> QED BY <2>3, <2>4, <2>5 DEF QueueInv, QueueOpen, Waiting, QueueMatchesPending
<1> QED BY <1>1, QueueInvAlways, TapInvAlways, PTL

Waits(i) == IsOpen(i) /\ calls[i].method = "RequestSource"

\* Who waits waits for what is on hold, which the appliance does not allow.
LEMMA WaitsForAppliance ==
  ASSUME TapInv, PendingOnlyWhileBlocked, NoRequestLost, QueueMatchesPending,
         handler = None, Allowed, NEW i \in Invocation, Waits(i)
  PROVE  FALSE
<1>1. i \in Queued /\ pc = "idle"
  BY DEF TapInv, HandlerInv, NoRequestLost, Waits
<1>2. queue # <<>>
  BY <1>1 DEF Queued
<1> QED BY <1>1, <1>2 DEF QueueMatchesPending, PendingOnlyWhileBlocked, Allowed,
                          EnableAllowed, GetState

(* While the appliance may play, nobody waits between two handlers: each   *)
(* RequestSource() call has been answered, also those that were held back  *)
(* before it got ready.                                                    *)
THEOREM NobodyWaitsWhileAllowed ==
  Spec => [](handler = None /\ Allowed => \A i \in Invocation : ~Waits(i))
<1>1. TapInv /\ PendingOnlyWhileBlocked /\ NoRequestLost /\ QueueMatchesPending
        => (handler = None /\ Allowed => \A i \in Invocation : ~Waits(i))
  BY WaitsForAppliance
<1> QED BY <1>1, TapInvAlways, PendingOnlyWhileBlockedAlways, NoRequestLostAlways,
           QueueMatchesPendingAlways, PTL
=============================================================================
