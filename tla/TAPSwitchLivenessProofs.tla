---------------------- MODULE TAPSwitchLivenessProofs ----------------------
(***************************************************************************)
(* Proofs that handlers finish and that callers are answered, for any      *)
(* number of sources, players and calls that overlap.                      *)
(*                                                                         *)
(* The value of ENABLED is not known to the provers, and stands in the     *)
(* hypotheses.  What is proved about it is that wherever a handler is, the *)
(* guard of one of its steps is true; that a step is enabled where its     *)
(* guard is true, since it says what all variables become, is left to the  *)
(* reader and to TLC.                                                      *)
(***************************************************************************)
EXTENDS TAPSwitchProofs

---------------------------------------------------------------------------
(* The steps of a handler: the guards of Continue and HandlerFinishes.     *)

SkipGuard ==
    pc = "players" /\ call = NoCall /\ (~frame.affected \/ current_player_id = None)

CallGuard ==
    /\ call = NoCall
    /\ \/ pc \in {"deselect", "activate", "select", "cancel"}
       \/ pc = "players" /\ frame.affected /\ current_player_id # None

ReturnGuard ==
    call # NoCall /\ pc \in {"deselect", "players", "activate", "select", "cancel"}

FinishGuard ==
    /\ pc = "return"
    /\ \/ calls[handler].method \in {"RequestSource", "ReleasePath"}
       \/ calls[handler].method = "SetReadyState" /\ frame.op \in {"complete", "cancel"}

HandlerGuard == SkipGuard \/ CallGuard \/ ReturnGuard \/ FinishGuard

GuardsSuffice == HandlerGuard => ENABLED <<HandlerStep>>_vars

(* If all proxies can be created, a handler is never stuck: the switch has *)
(* a call to make or knows that there is none, waits for one that returns, *)
(* or has returned to the handler of the method that has called it.        *)
THEOREM HandlersNeverStuck ==
  ASSUME NullProxy \notin ProxyOutcome
  PROVE  Spec => [](handler # None => HandlerGuard)
<1>1. TapInv /\ PeersCanBeCalled => (handler # None => HandlerGuard)
  <2> SUFFICES ASSUME TapInv, PeersCanBeCalled, handler # None PROVE HandlerGuard
    OBVIOUS
  <2>1. pc \in {"deselect", "players", "activate", "select", "cancel", "return"}
    BY DEF TapInv, HandlerInv, Inv, SwitchTypeOK, Location, PeersCanBeCalled
  <2>2. frame \in Frame
    BY <2>1, InFunction DEF TapInv
  <2>3. CASE pc = "return"
    <3>1. frame.op \in {"activate", "release", "complete", "cancel"}
      BY <2>2 DEF Frame
    <3>2. calls[handler].method = MethodOf(frame.op)
      BY DEF TapInv, HandlerInv
    <3> QED BY <2>3, <3>1, <3>2 DEF MethodOf, HandlerGuard, FinishGuard
  <2>4. CASE pc # "return"
    BY <2>1, <2>2, <2>4 DEF Frame, HandlerGuard, SkipGuard, CallGuard, ReturnGuard
  <2> QED BY <2>3, <2>4
<1>2. Spec => []PeersCanBeCalled
  BY TapImplementsSwitch, PeersCanBeCalledUnlessNull
<1> QED BY <1>1, <1>2, TapInvAlways, PTL

(* HandlerCanGoOn, given that the guards suffice.                          *)
THEOREM HandlerCanGoOnByItsGuard ==
  ASSUME NullProxy \notin ProxyOutcome
  PROVE  Spec /\ []GuardsSuffice => []HandlerCanGoOn
<1>1. (handler # None => HandlerGuard) /\ GuardsSuffice => HandlerCanGoOn
  BY DEF GuardsSuffice, HandlerCanGoOn
<1> QED BY <1>1, HandlersNeverStuck, PTL

---------------------------------------------------------------------------
(* Handlers finish.                                                        *)

\* A handler that can go on does, so that it has fewer steps left.
LEMMA HandlersGoOn ==
  ASSUME NEW k \in 0..9
  PROVE  Spec /\ []HandlerCanGoOn => GoesOn(k)
<1>1. TapInv /\ HandlerCanGoOn => (At(k) => ENABLED <<HandlerStep>>_vars)
  BY DEF TapInv, HandlerInv, At, HandlerCanGoOn
<1>2. TapInv /\ At(k) /\ HandlerStep => ~At(k)'
  <2> SUFFICES ASSUME TapInv, At(k), HandlerStep PROVE StepsLeft' < k
    BY DEF At
  <2>1. Inv /\ pc # "idle" /\ StepsLeft = k
    BY DEF TapInv, At
  <2>2. SwitchNext
    BY DEF HandlerStep, HandlerFinishes, FinishRequestSource, FinishReleasePath,
           FinishComplete, FinishCancel, Finish, SwitchNext
  <2> QED BY <2>1, <2>2, FewerStepsLeft
<1> QED BY <1>1, <1>2, TapInvAlways, PTL DEF Spec, GoesOn

(* HandlersFinish: handlers that can always go on finish, with the         *)
(* fairness of Spec, whatever the peers they call do.                      *)
THEOREM HandlersFinishIfTheyCanGoOn == Spec /\ []HandlerCanGoOn => HandlersFinish
<1>1. Inv /\ [pc # "idle" => /\ StepsLeft' \in Nat
                             /\ StepsLeft' < StepsLeft /\ StepsLeft <= 9]_switchAllVars
        => [pc # "idle" => pc' = "idle" \/ StepsLeft' <= StepsLeft]_switchAllVars
  BY StepsCount
<1>2. Spec => StepsBounded /\ NoStepBack
  BY <1>1, TapImplementsSwitch, InvAlways, StepsCount, StepsRunOut, PTL
     DEF StepsBounded, NoStepBack
<1>3. TapInv => (pc = "idle" => handler = None)
  BY DEF TapInv, HandlerInv
<1>4. Spec /\ []HandlerCanGoOn => SwitchGoesOn
  BY HandlersGoOn DEF SwitchGoesOn
<1> QED BY <1>2, <1>3, <1>4, IdleAgain, TapInvAlways, PTL DEF HandlersFinish

(* HandlersFinish, from the fairness of Spec and the guards of its steps.  *)
THEOREM HandlersFinishByTheirGuards ==
  ASSUME NullProxy \notin ProxyOutcome
  PROVE  Spec /\ []GuardsSuffice => HandlersFinish
  BY HandlerCanGoOnByItsGuard, HandlersFinishIfTheyCanGoOn

---------------------------------------------------------------------------
(* Callers are answered.                                                   *)

\* A call is not touched until it is answered.
LEMMA OpenUntilAnswered ==
  ASSUME TapInv, [Next]_vars, NEW i \in Invocation, IsOpen(i)
  PROVE  calls'[i] = calls[i] \/ ~IsOpen(i)'
<1>1. calls \in [Invocation -> OpenCall \cup AnsweredCall]
  BY DEF TapInv, TypeOK
<1>2. CASE Request
  <2>1. ASSUME NEW j \in Invocation, ~IsOpen(j),
               \E c : calls' = [calls EXCEPT ![j] = c]
        PROVE  calls'[i] = calls[i]
    BY <1>1, <2>1
  <2> QED BY <1>2, <2>1
          DEF Request, RequestSource, RequestRelease, SetReadyState, SetReady, SetSuspended,
              SetNotReady, Arrive
<1>3. CASE HandlerFinishes
  <2>1. calls'[i] = calls[i] \/ calls'[i] = Error \/ \E p : calls'[i] = Success(p)
    BY <1>1, <1>3
       DEF HandlerFinishes, FinishRequestSource, FinishReleasePath, FinishComplete,
           FinishCancel, AnswerAll
  <2>2. Error.status = "error" /\ \A p : Success(p).status = "ok"
    BY DEF Success, Error
  <2> QED BY <2>1, <2>2 DEF IsOpen
<1>4. CASE UNCHANGED tapVars
  BY <1>4 DEF tapVars
<1> QED BY <1>2, <1>3, <1>4 DEF Next, HandlerStep, vars

\* The state of the appliance does not change while a handler is under way.
LEMMA ApplianceWaits ==
  ASSUME TapInv, [Next]_vars, handler # None, Allowed
  PROVE  Allowed'
<1>1. CASE Request
  <2>1. pc = "idle"
    BY <1>1 DEF Request, RequestSource, RequestRelease, SetReadyState, SetReady,
                SetSuspended, SetNotReady, ActivateSource, RejectSource, KeepSource,
                BeginSwitch, ReleasePath, CompletePending, CancelPending, NothingPending,
                BeginComplete, BeginCancel
  <2> QED BY <2>1 DEF TapInv, HandlerInv
<1>2. CASE HandlerFinishes \/ UNCHANGED tapVars
  <2>1. UNCHANGED applianceVars
    BY <1>2 DEF HandlerFinishes, FinishRequestSource, FinishReleasePath, FinishComplete,
                FinishCancel, tapVars
  <2> QED BY <2>1 DEF Allowed, EnableAllowed, applianceVars
<1> QED BY <1>1, <1>2 DEF Next, HandlerStep, vars

\* Whoever waits when the appliance gets ready does not when the handler
\* that tells so, or the one that is under way, has finished.
LEMMA AnsweredIfHandlersFinish == Spec /\ HandlersFinish => DeferredAnswered
<1>1. ASSUME NEW i \in Invocation
      PROVE  Spec /\ HandlersFinish /\ []<>Allowed => (Waits(i) ~> ~IsOpen(i))
  <2>1. /\ TapInv /\ [Next]_vars /\ Waits(i) => Waits(i)' \/ (~IsOpen(i))'
        /\ TapInv /\ [Next]_vars /\ ~(handler = None) /\ Allowed => Allowed'
    BY OpenUntilAnswered, ApplianceWaits DEF Waits, IsOpen
  <2>2. /\ TapInv /\ PendingOnlyWhileBlocked /\ NoRequestLost /\ QueueMatchesPending
              => ~(handler = None /\ Allowed /\ Waits(i))
        /\ handler # None <=> ~(handler = None)
    BY WaitsForAppliance
  <2> QED BY <2>1, <2>2, TapInvAlways, PendingOnlyWhileBlockedAlways, NoRequestLostAlways,
             QueueMatchesPendingAlways, PTL DEF Spec, HandlersFinish
<1> QED BY <1>1 DEF DeferredAnswered, Waits

(* DeferredAnswered: if handlers can always go on, and the appliance may   *)
(* play again and again, everybody who requests a source is answered.      *)
THEOREM DeferredAnsweredIfHandlersCanGoOn ==
  Spec /\ []HandlerCanGoOn => DeferredAnswered
  BY HandlersFinishIfTheyCanGoOn, AnsweredIfHandlersFinish

(* DeferredAnswered, from the fairness of Spec and the guards of its steps.*)
THEOREM DeferredAnsweredByGuards ==
  ASSUME NullProxy \notin ProxyOutcome
  PROVE  Spec /\ []GuardsSuffice => DeferredAnswered
  BY HandlerCanGoOnByItsGuard, DeferredAnsweredIfHandlersCanGoOn

Releases(i) == IsOpen(i) /\ calls[i].method = "ReleasePath"

\* A release is being handled until it is answered.
LEMMA ReleaseIsHandled ==
  ASSUME NoRequestLost, QueueInv, NEW i \in Invocation, Releases(i)
  PROVE  handler = i
<1>1. \A j \in Queued : calls[j].method = "RequestSource"
  BY DEF QueueInv, QueueOpen, Queued
<1> QED BY <1>1 DEF NoRequestLost, Releases

(* Every ReleasePath() call is answered, whatever the appliance does and   *)
(* whichever calls fail: it is never put on hold.                          *)
THEOREM ReleasesAnswered ==
  Spec /\ []HandlerCanGoOn => \A i \in Invocation : Releases(i) ~> ~IsOpen(i)
<1> SUFFICES ASSUME NEW i \in Invocation
             PROVE  Spec /\ []HandlerCanGoOn => (Releases(i) ~> ~IsOpen(i))
  OBVIOUS
<1>1. TapInv /\ [Next]_vars /\ Releases(i) => Releases(i)' \/ (~IsOpen(i))'
  BY OpenUntilAnswered DEF Releases, IsOpen
<1>2. NoRequestLost /\ QueueInv => (Releases(i) => handler # None)
  BY ReleaseIsHandled, NoneIsNoInvocation
<1>3. handler # None <=> ~(handler = None)
  OBVIOUS
<1> QED BY <1>1, <1>2, <1>3, HandlersFinishIfTheyCanGoOn, TapInvAlways,
           NoRequestLostAlways, QueueInvAlways, PTL DEF Spec, HandlersFinish
=============================================================================
