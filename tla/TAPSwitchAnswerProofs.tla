----------------------- MODULE TAPSwitchAnswerProofs -----------------------
(***************************************************************************)
(* Proofs about what the callers and the observers of tapswitch are told,  *)
(* for any number of sources, players and calls that overlap.              *)
(*                                                                         *)
(* A handler tells only when the switch has returned, from the result and  *)
(* from its own variables.  OutcomeInv says what these have to do with the *)
(* route then; QueueSource, whom the calls in the queue have asked for;    *)
(* SignalInv, that what ends without a signal has changed nothing that a   *)
(* signal would have told.                                                 *)
(***************************************************************************)
EXTENDS TAPSwitchProofs

---------------------------------------------------------------------------
(* The outcome of a member function.                                       *)

Rejection == {"ERROR_SOURCE_UNKNOWN", "ERROR_PLAYER_UNKNOWN"}

\* What a request has brought about when the switch returns.
ActivateOutcome ==
    /\ Succeeded => /\ frame.source_id # None
                    /\ frame.player_id = current_player_id
                    /\ frame.source_id = IF Deferred THEN pending.source_id
                                                     ELSE current_source_id
    /\ frame.result \in Rejection =>
          /\ frame.source_id \notin {current_source_id, pending.source_id} \ {None}
          /\ frame.deselected = "DESELECTED_PENDING" => NothingToDeselect
    /\ frame.result = "ERROR_PLAYER_FAILED" => NothingToDeselect /\ current_player_id = None
    /\ frame.result = "ERROR_SOURCE_FAILED" =>
          NothingToDeselect /\ frame.player_id = current_player_id

CompleteOutcome ==
    frame.source_id # None =>
        /\ ~HavePending
        /\ Succeeded => current_source_id = frame.source_id
        /\ ~Succeeded => current_source_id = None

\* What becomes of it, and what that relies on before.
OutcomeInv ==
    /\ pc = "deselect" /\ frame.op = "activate" =>
          frame.source_id \notin {current_source_id, pending.source_id}
    /\ pc = "select" /\ frame.op = "activate" => frame.player_id = current_player_id
    /\ frame.op = "release" /\ frame.result = "UNCHANGED" =>
          ~frame.affected /\ current_source_id = None
    /\ frame.op = "complete" /\ frame.source_id = None =>
          pc = "return" /\ frame.result = "ERROR_SOURCE_UNKNOWN"
    /\ frame.op = "complete" /\ frame.source_id # None =>
          frame.result # "ERROR_SOURCE_UNKNOWN"
    /\ pc = "select" /\ frame.op = "complete" => frame.result \in DeferredResult
    /\ pc = "return" =>
          /\ frame.op = "activate" => ActivateOutcome
          /\ frame.op = "release" => NothingToDeselect
          /\ frame.op = "complete" => CompleteOutcome
          /\ frame.op = "cancel" /\ frame.result # "ERROR_SOURCE_UNKNOWN" => NothingToDeselect

\* No function runs.
LEMMA OutcomeIdle == pc = "idle" /\ frame = NoFrame => OutcomeInv
  BY DEF OutcomeInv, NoFrame

\* A request: what is rejected is not what is selected or on hold, and what
\* is kept is.
LEMMA RequestOutcome ==
  ASSUME Inv, NEW s \in SourceOrNone, NEW now \in BOOLEAN, NEW data \in RequestData,
         ActivateSource(s, now, data)
  PROVE  OutcomeInv'
<1>0. frame'.op = "activate" /\ frame'.source_id = s
  BY ActivateEnters
<1>1. CASE RejectSource(s, now, data)
  <2>1. /\ pc' = "return" /\ pending' = NoPending /\ current_source_id' = current_source_id
        /\ frame'.result \in Rejection
        /\ s = None \/ s \notin {current_source_id, pending.source_id}
        /\ frame'.deselected = IF HavePending THEN "DESELECTED_PENDING" ELSE "NONE"
    BY <1>1 DEF RejectSource, ActivateFrame, Rejection
  <2>2. HavePending => NothingToDeselect'
    BY <2>1 DEF Inv, SwitchInv, SourceXorPending, NothingToDeselect, HavePending, NoPending
  <2>3. ActivateOutcome'
    BY <1>0, <2>1, <2>2 DEF ActivateOutcome, Succeeded, Deferred, Rejection, NoPending
  <2> QED BY <1>0, <2>1, <2>3 DEF OutcomeInv
<1>2. CASE KeepSource(s, now, data)
  <2>1. /\ pc' = "return" /\ pending' = pending /\ s # None
        /\ UNCHANGED <<current_source_id, current_player_id>>
        /\ frame'.player_id = current_player_id
        /\ \/ s = current_source_id /\ frame'.result = "OK_UNCHANGED"
           \/ s = pending.source_id /\ frame'.result = "OK_PLAYER_SWITCHED_SOURCE_DEFERRED"
    BY <1>2 DEF KeepSource, ActivateFrame
  <2>2. ActivateOutcome'
    BY <1>0, <2>1 DEF ActivateOutcome, Succeeded, Deferred, Rejection
  <2> QED BY <1>0, <2>1, <2>2 DEF OutcomeInv
<1>3. CASE BeginSwitch(s, now, data)
  <2>1. /\ pc' \in {"deselect", "players"} /\ pending' = pending
        /\ current_source_id' = current_source_id
        /\ s \notin {current_source_id, pending.source_id}
    BY <1>3 DEF BeginSwitch, AfterEntry
  <2> QED BY <1>0, <2>1 DEF OutcomeInv
<1> QED BY <1>1, <1>2, <1>3 DEF ActivateSource

\* The other functions: nothing has become of them yet.
LEMMA OthersOutcome ==
  ASSUME Inv, PolicyInv,
         \/ \E kill_player, data : ReleasePath(kill_player, data)
         \/ CompletePending \/ CancelPending
  PROVE  OutcomeInv'
<1>1. ASSUME NEW kill_player, NEW data, ReleasePath(kill_player, data) PROVE OutcomeInv'
  <2>1. /\ frame'.op = "release" /\ pc' \in {"deselect", "players"}
        /\ current_source_id' = current_source_id
        /\ frame'.affected <=> kill_player /\ current_player_id # None
        /\ frame'.result = "UNCHANGED" => current_source_id = None /\ ~frame'.affected
    BY <1>1 DEF ReleasePath, AfterEntry
  <2> QED BY <2>1 DEF OutcomeInv
<1>2. ASSUME NEW op \in {"complete", "cancel"}, NothingPending(op) PROVE OutcomeInv'
  <2>1. /\ frame'.op = op /\ frame'.source_id = None /\ pc' = "return"
        /\ frame'.result = "ERROR_SOURCE_UNKNOWN"
    BY <1>2 DEF NothingPending, PendingFrame, HavePending
  <2> QED BY <2>1 DEF OutcomeInv, CompleteOutcome
<1>3. CASE BeginComplete
  <2>1. /\ frame'.op = "complete" /\ frame'.source_id # None /\ pc' = "select"
        /\ frame'.result \in DeferredResult
    BY <1>3 DEF BeginComplete, PendingFrame, HavePending, PolicyInv, ResultInv
  <2> QED BY <2>1 DEF OutcomeInv, DeferredResult
<1>4. CASE BeginCancel
  <2>1. frame'.op = "cancel" /\ pc' = "cancel"
    BY <1>4 DEF BeginCancel, PendingFrame
  <2> QED BY <2>1 DEF OutcomeInv
<1> QED BY <1>1, <1>2, <1>3, <1>4 DEF CompletePending, CancelPending

\* A function that goes on comes closer to its outcome.
LEMMA ContinueOutcome ==
  ASSUME TapInv, PolicyInv, OutcomeInv, Continue
  PROVE  OutcomeInv'
<1> USE DEF TapInv, Inv
<1>0. /\ frame \in Frame /\ pc # "idle" /\ pc' # "idle"
      /\ frame'.op = frame.op /\ frame'.source_id = frame.source_id
      /\ frame'.player_id = frame.player_id /\ frame'.select_now = frame.select_now
      /\ frame'.affected = frame.affected
  BY ContinueKeeps, InFunction
<1>1. CASE MakeCall
  <2>1. /\ frame' = frame /\ pending' = pending /\ pc' \in {pc, "crashed"}
        /\ pc \in {"deselect", "players", "activate", "select", "cancel"}
        /\ UNCHANGED <<current_source_id, current_player_id>>
    BY <1>1 DEF MakeCall, CallPeer, CallDeselected, CallDeactivate, CallActivate,
                CallSelected, CallCanceled
  <2> QED BY <2>1 DEF OutcomeInv
<1>2. CASE SkipDeactivate
  <2>1. /\ pc = "players" /\ frame' = frame /\ pending' = pending
        /\ pc' = AfterPlayers /\ frame.op \in {"activate", "release"} /\ NothingToDeselect
        /\ UNCHANGED <<current_source_id, current_player_id>>
        /\ frame.op = "activate" => (frame.affected <=> frame.player_id # current_player_id)
    BY <1>2 DEF SkipDeactivate, SwitchInv, AtPlayers
  <2>2. NothingToDeselect'
    BY <2>1 DEF NothingToDeselect, HavePending
  <2> QED BY <2>1, <2>2 DEF OutcomeInv, AfterPlayers
<1>3. CASE DeselectedReturned
  <2>1. /\ pc = "deselect" /\ pc' = "players" /\ current_source_id' = None
        /\ frame.op \in {"activate", "release"} /\ frame'.result = frame.result
    BY <1>0, <1>3 DEF DeselectedReturned, Returned, SwitchInv, AtDeselect, Frame
  <2> QED BY <1>0, <2>1 DEF OutcomeInv
<1>4. CASE DeactivateReturned
  <2>1. /\ pc = "players" /\ frame' = frame /\ pending' = pending
        /\ pc' = AfterPlayers /\ frame.op \in {"activate", "release"} /\ NothingToDeselect
        /\ UNCHANGED current_source_id /\ frame.affected
    BY <1>4 DEF DeactivateReturned, Returned, SwitchInv, AtPlayers
  <2>2. NothingToDeselect'
    BY <2>1 DEF NothingToDeselect, HavePending
  <2> QED BY <2>1, <2>2 DEF OutcomeInv, AfterPlayers
<1>5. ASSUME NEW ok \in BOOLEAN, ActivateReturned(ok) PROVE OutcomeInv'
  <2>1. /\ pc = "activate" /\ frame.op = "activate" /\ NothingToDeselect
        /\ current_player_id = None /\ pending' = pending
        /\ current_source_id' = current_source_id
        /\ IF ok THEN pc' = "select" /\ current_player_id' = frame.player_id
                 ELSE /\ pc' = "return" /\ frame'.result = "ERROR_PLAYER_FAILED"
                      /\ current_player_id' = None
    BY <1>0, <1>5 DEF ActivateReturned, Returned, SwitchInv, AtActivate, Frame
  <2>2. NothingToDeselect'
    BY <2>1 DEF NothingToDeselect, HavePending
  <2>3. ~ok => ActivateOutcome'
    BY <2>1, <2>2 DEF ActivateOutcome, Succeeded, Deferred, Rejection
  <2> QED BY <1>0, <2>1, <2>3 DEF OutcomeInv
<1>6. ASSUME NEW ok \in BOOLEAN, SelectedReturned(ok) PROVE OutcomeInv'
  <2>0. /\ pc = "select" /\ pc' = "return" /\ frame.op \in {"activate", "complete"}
        /\ NothingToDeselect /\ frame.source_id # None
        /\ frame.op = "complete" => frame.select_now
    <3>1. pc = "select" /\ pc' = "return"
      BY <1>6 DEF SelectedReturned, Returned
    <3>2. AtSelect
      BY <3>1 DEF SwitchInv
    <3> QED BY <3>1, <3>2, NoneIsNothing DEF AtSelect, PathComplete, KnownSource
  <2>1. /\ current_player_id' = current_player_id
        /\ IF ok THEN frame'.result = frame.result
                 ELSE frame'.result = "ERROR_SOURCE_FAILED"
        /\ current_source_id' = IF ok /\ frame.select_now THEN frame.source_id ELSE None
        /\ pending'.source_id = IF ok /\ ~frame.select_now THEN frame.source_id ELSE None
    <3>1. current_source_id = None /\ pending.source_id = None
      BY <2>0 DEF NothingToDeselect, HavePending
    <3>2. IF ok THEN frame' = frame ELSE frame' = [frame EXCEPT !.result = "ERROR_SOURCE_FAILED"]
      BY <1>6 DEF SelectedReturned
    <3>3. IF ok THEN frame'.result = frame.result
                ELSE frame'.result = "ERROR_SOURCE_FAILED"
      BY <1>0, <3>2 DEF Frame
    <3>4. /\ current_player_id' = current_player_id
          /\ current_source_id' = IF ok /\ frame.select_now THEN frame.source_id ELSE None
      BY <1>6, <3>1 DEF SelectedReturned
    <3>5. pending'.source_id = IF ok /\ ~frame.select_now THEN frame.source_id ELSE None
      <4>1. CASE ok /\ ~frame.select_now
        BY <1>6, <4>1 DEF SelectedReturned
      <4>2. CASE ~(ok /\ ~frame.select_now)
        BY <1>6, <3>1, <4>2 DEF SelectedReturned
      <4> QED BY <4>1, <4>2
    <3> QED BY <3>3, <3>4, <3>5
  <2>2. frame.op = "activate" => frame.result = SwitchResult(frame.affected, frame.select_now)
    BY <2>0, <2>1 DEF PolicyInv, ResultInv
  <2>3. frame.op = "activate" /\ ok => (Succeeded' /\ (Deferred' <=> ~frame.select_now))
    BY <2>0, <2>1, <2>2 DEF SwitchResult, Succeeded, Deferred
  <2>4. ~ok => ~Succeeded' /\ NothingToDeselect'
    BY <2>0, <2>1 DEF Succeeded, Deferred, NothingToDeselect, HavePending
  <2>5. frame.op = "activate" => ActivateOutcome'
    <3>1. CASE ok
      BY <1>0, <2>0, <2>1, <2>2, <2>3, <3>1
         DEF ActivateOutcome, SwitchResult, Rejection, OutcomeInv
    <3>2. CASE ~ok
      BY <1>0, <2>0, <2>1, <2>4, <3>2 DEF ActivateOutcome, Rejection, OutcomeInv
    <3> QED BY <3>1, <3>2
  <2>6. frame.op = "complete" => CompleteOutcome' /\ frame'.result # "ERROR_SOURCE_UNKNOWN"
    <3>1. CASE ok
      <4>1. frame.op = "complete" => Succeeded'
        BY <2>0, <2>1, <3>1 DEF PolicyInv, ResultInv, OutcomeInv, DeferredResult, Succeeded, Deferred
      <4> QED BY <1>0, <2>0, <2>1, <3>1, <4>1 DEF CompleteOutcome, HavePending, OutcomeInv
    <3>2. CASE ~ok
      BY <1>0, <2>0, <2>1, <2>4, <3>2 DEF CompleteOutcome, HavePending
    <3> QED BY <3>1, <3>2
  <2> QED BY <1>0, <2>0, <2>1, <2>5, <2>6 DEF OutcomeInv
<1>7. ASSUME NEW ok \in BOOLEAN, CanceledReturned(ok) PROVE OutcomeInv'
  <2>1. /\ pc = "cancel" /\ pc' = "return" /\ frame.op = "cancel" /\ NothingToDeselect
        /\ current_source_id' = None /\ pending' = pending
    BY <1>7 DEF CanceledReturned, Returned, SwitchInv, AtCancel
  <2> QED BY <1>0, <2>1 DEF OutcomeInv, NothingToDeselect, HavePending
<1> QED BY <1>1, <1>2, <1>3, <1>4, <1>5, <1>6, <1>7 DEF Continue, CallReturns

\* Registering a component does not touch what a function works on.
LEMMA UntouchedOutcome ==
  ASSUME OutcomeInv,
         UNCHANGED <<current_source_id, current_player_id, pending, pc, frame>>
  PROVE  OutcomeInv'
<1>1. /\ NothingToDeselect' <=> NothingToDeselect
      /\ Succeeded' <=> Succeeded
      /\ Deferred' <=> Deferred
      /\ HavePending' <=> HavePending
  BY DEF NothingToDeselect, HavePending, Succeeded, Deferred
<1> QED BY <1>1 DEF OutcomeInv, ActivateOutcome, CompleteOutcome

\* Every step preserves OutcomeInv.
LEMMA OutcomeNext == TapInv /\ PolicyInv /\ OutcomeInv /\ [Next]_vars => OutcomeInv'
<1> SUFFICES ASSUME TapInv, PolicyInv, OutcomeInv, [Next]_vars PROVE OutcomeInv'
  OBVIOUS
<1>0. Inv
  BY DEF TapInv
<1>1. ASSUME NEW i \in Invocation, NEW data \in RequestData, NEW s \in SourceOrNone,
             RequestSource(i, s, data)
      PROVE  OutcomeInv'
  <2>1. Allowed \in BOOLEAN
    BY DEF Allowed, EnableAllowed
  <2> QED BY <1>0, <1>1, <2>1, RequestOutcome DEF RequestSource
<1>2. ASSUME NEW i \in Invocation, NEW data \in RequestData, NEW kill_player \in BOOLEAN,
             RequestRelease(i, kill_player, data)
      PROVE  OutcomeInv'
  BY <1>0, <1>2, OthersOutcome DEF RequestRelease
<1>3. ASSUME NEW i \in Invocation, NEW power \in Maybe, NEW audio \in Maybe,
             SetReadyState(i, power, audio)
      PROVE  OutcomeInv'
  BY <1>0, <1>3, OthersOutcome, UntouchedOutcome
     DEF SetReadyState, SetReady, SetSuspended, SetNotReady, switchAllVars, switchVars
<1>4. CASE HandlerFinishes
  <2>1. pc' = "idle" /\ frame' = NoFrame
    BY <1>4, FinishKeepsTypes
  <2> QED BY <2>1, OutcomeIdle DEF OutcomeInv, NoFrame
<1>5. CASE (Register /\ UNCHANGED tapVars) \/ UNCHANGED vars
  BY <1>5, UntouchedOutcome DEF Register, RegisterPlayer, RegisterSource, vars, switchAllVars,
                                switchVars
<1> QED BY <1>1, <1>2, <1>3, <1>4, <1>5, ContinueOutcome DEF Next, Request, HandlerStep

\* OutcomeInv is an invariant.
LEMMA OutcomeAlways == Spec => []OutcomeInv
<1>1. Init => OutcomeInv
  BY OutcomeIdle DEF Init, SwitchInit
<1> QED BY <1>1, TapInvAlways, PolicyAlways, OutcomeNext, PTL DEF Spec

---------------------------------------------------------------------------
(* Whom the calls in the queue have asked for, when they are answered all  *)
(* at once.                                                                *)

QueueSource ==
    /\ frame.op = "complete" =>
          /\ frame.source_id # None => queue # <<>>
          /\ \A k \in DOMAIN queue : calls[queue[k].invocation].source_id = frame.source_id
    /\ frame.op = "activate" /\ frame.deselected = "DESELECTED_PENDING" =>
          \A k \in DOMAIN queue : calls[queue[k].invocation].source_id # frame.source_id

\* Between two handlers the queue is that of the source on hold.
LEMMA IdleWaiting ==
  ASSUME TapInv, QueueInv, pc = "idle"
  PROVE  /\ frame = NoFrame
         /\ ~HavePending => queue = <<>>
         /\ HavePending => Waiting(queue)
<1>1. frame = NoFrame
  BY DEF TapInv, Inv, SwitchInv
<1> QED BY <1>1 DEF QueueInv, RouteQueue, Kept, NoFrame, Fresh

\* A call that arrives changes none of those in the queue.
LEMMA ArriveKeepsQueued ==
  ASSUME TapInv, QueueInv, NEW i \in Invocation, ~IsOpen(i), queue' = queue,
         \A j \in Invocation : j # i => calls'[j] = calls[j]
  PROVE  \A k \in DOMAIN queue : calls'[queue[k].invocation] = calls[queue[k].invocation]
<1>1. \A j \in Queued : j \in Invocation /\ IsOpen(j)
  BY QueuedOpen DEF TapInv, QueueInv
<1> QED BY <1>1 DEF Queued

\* What displaces the queue with its source is a request for another one.
LEMMA RequestQueueSource ==
  ASSUME TapInv, QueueInv, NEW i \in Invocation, NEW data \in RequestData,
         NEW s \in SourceOrNone, RequestSource(i, s, data)
  PROVE  QueueSource'
<1>1. /\ pc = "idle" /\ frame'.op = "activate" /\ frame'.source_id = s
      /\ ActivateSource(s, Allowed, data) /\ queue' = queue
      /\ ~IsOpen(i) /\ \A j \in Invocation : j # i => calls'[j] = calls[j]
  BY ActivateEnters DEF RequestSource, Arrive, TapInv, TypeOK
<1>2. \A k \in DOMAIN queue : calls'[queue[k].invocation] = calls[queue[k].invocation]
  BY <1>1, ArriveKeepsQueued
<1>3. CASE RejectSource(s, Allowed, data)
  <2>1. /\ s = None \/ s \notin {current_source_id, pending.source_id}
        /\ frame'.deselected = IF HavePending THEN "DESELECTED_PENDING" ELSE "NONE"
    BY <1>3 DEF RejectSource, ActivateFrame
  <2>2. HavePending =>
           \A k \in DOMAIN queue : calls[queue[k].invocation].source_id # s
    BY <1>1, <2>1, IdleWaiting DEF Waiting, HavePending
  <2> QED BY <1>1, <1>2, <2>1, <2>2 DEF QueueSource
<1>4. CASE KeepSource(s, Allowed, data) \/ BeginSwitch(s, Allowed, data)
  BY <1>1, <1>4 DEF KeepSource, BeginSwitch, ActivateFrame, QueueSource
<1> QED BY <1>1, <1>3, <1>4 DEF ActivateSource

\* What is completed is what the queue waits for.
LEMMA ReadyQueueSource ==
  ASSUME TapInv, QueueInv, NEW i \in Invocation, NEW power \in Maybe, NEW audio \in Maybe,
         SetReadyState(i, power, audio)
  PROVE  QueueSource'
<1>1. CASE SetReady(i, power, audio)
  <2>1. /\ pc = "idle" /\ CompletePending /\ queue' = queue
        /\ ~IsOpen(i) /\ \A j \in Invocation : j # i => calls'[j] = calls[j]
    BY <1>1, OthersEnter DEF SetReady, Arrive, SetAppliance, TapInv, TypeOK
  <2>2. \A k \in DOMAIN queue : calls'[queue[k].invocation] = calls[queue[k].invocation]
    BY <2>1, ArriveKeepsQueued
  <2>3. frame'.op = "complete" /\ frame'.source_id = pending.source_id
    BY <2>1 DEF CompletePending, NothingPending, BeginComplete, PendingFrame
  <2>4. /\ ~HavePending => queue = <<>>
        /\ HavePending => Waiting(queue)
    BY <2>1, IdleWaiting
  <2> QED BY <2>1, <2>2, <2>3, <2>4 DEF QueueSource, HavePending, Waiting
<1>2. CASE SetSuspended(i, power, audio)
  BY <1>2, OthersEnter DEF SetSuspended, QueueSource
<1>3. CASE SetNotReady(i, power, audio)
  <2>1. frame' = NoFrame
    BY <1>3, IdleWaiting DEF SetNotReady, switchAllVars, switchVars
  <2> QED BY <2>1 DEF NoFrame, QueueSource
<1> QED BY <1>1, <1>2, <1>3 DEF SetReadyState

\* A function that calls off what is on hold does so for another source.
LEMMA ContinueQueueSource ==
  ASSUME TapInv, QueueInv, OutcomeInv, QueueSource, Continue, UNCHANGED tapVars
  PROVE  QueueSource'
<1> USE DEF TapInv
<1>1. /\ UNCHANGED <<queue, calls>> /\ pc # "idle" /\ frame \in Frame
      /\ frame'.op = frame.op /\ frame'.source_id = frame.source_id
  BY ContinueKeeps, InFunction DEF tapVars
<1>2. CASE DeselectedReturned
  <2>1. /\ pc = "deselect" /\ KeptQueue = queue /\ Kept = queue
    BY <1>1, <1>2 DEF DeselectedReturned, Returned, QueueInv, ReturnInv, KeptQueue, Kept
  <2>2. frame.op = "activate" =>
           \A k \in DOMAIN queue : calls[queue[k].invocation].source_id # frame.source_id
    BY <2>1 DEF QueueInv, RouteQueue, Fresh, Waiting, OutcomeInv
  <2>3. frame.op \in {"activate", "release"}
    BY <2>1 DEF Inv, SwitchInv, AtDeselect
  <2> QED BY <1>1, <2>2, <2>3 DEF QueueSource
<1>3. CASE ~DeselectedReturned
  <2>1. frame'.deselected = frame.deselected
    BY <1>1, <1>3 DEF Continue, SkipDeactivate, MakeCall, CallDeselected, CallDeactivate,
         CallActivate, CallSelected, CallCanceled, CallPeer, CallReturns,
         DeactivateReturned, ActivateReturned, SelectedReturned, CanceledReturned, Frame
  <2> QED BY <1>1, <2>1 DEF QueueSource
<1> QED BY <1>2, <1>3

\* Every step preserves QueueSource.
LEMMA QueueSourceNext ==
  TapInv /\ QueueInv /\ OutcomeInv /\ QueueSource /\ [Next]_vars => QueueSource'
<1> SUFFICES ASSUME TapInv, QueueInv, OutcomeInv, QueueSource, [Next]_vars
             PROVE  QueueSource'
  OBVIOUS
<1>1. ASSUME NEW i \in Invocation, NEW data \in RequestData, NEW kill_player \in BOOLEAN,
             RequestRelease(i, kill_player, data)
      PROVE  QueueSource'
  BY <1>1, OthersEnter DEF RequestRelease, QueueSource
<1>2. CASE HandlerFinishes
  <2>1. frame' = NoFrame
    BY <1>2, FinishKeepsTypes
  <2> QED BY <2>1 DEF NoFrame, QueueSource
<1>3. CASE (Register /\ UNCHANGED tapVars) \/ UNCHANGED vars
  BY <1>3 DEF Register, RegisterPlayer, RegisterSource, vars, tapVars, switchAllVars,
              switchVars, QueueSource
<1> QED BY <1>1, <1>2, <1>3, RequestQueueSource, ReadyQueueSource, ContinueQueueSource
        DEF Next, Request, HandlerStep

\* QueueInv and QueueSource are invariants.
LEMMA QueueAlways == Spec => [](QueueInv /\ QueueSource)
<1>1. Init => QueueSource
  BY DEF Init, SwitchInit, NoFrame, QueueSource
<1> QED BY <1>1, TapInvAlways, PolicyAlways, OutcomeAlways, QueueInit, QueueNext,
           QueueSourceNext, PTL DEF Spec

---------------------------------------------------------------------------
(* The signals.  Whoever listens to them knows the route, unless a handler *)
(* is about to emit one.                                                   *)

Tracks ==
    /\ IF signal.kind \in {"activated", "reactivated"} /\ signal.source_id # None
       THEN /\ current_source_id = signal.source_id
            /\ current_player_id = signal.player_id
       ELSE current_source_id = None
    /\ HavePending => signal = [kind |-> "deferred", source_id |-> pending.source_id,
                                player_id |-> current_player_id]
    /\ signal.kind # "none" =>
          \/ current_player_id = signal.player_id
          \/ current_source_id = None /\ current_player_id = None

\* The functions that end without a signal.
Silent ==
    \/ frame.op \in {"none", "cancel"}
    \/ frame.op = "release" /\ frame.result = "UNCHANGED"
    \/ frame.op = "activate" /\ pc = "return" /\ frame.result \in Rejection
    \/ frame.op = "complete" /\ frame.source_id = None

SignalInv == Silent => Tracks

\* What is on hold may be called off without a signal, nothing else.
LEMMA TracksStays ==
  ASSUME Tracks, UNCHANGED <<current_source_id, current_player_id, signal>>,
         pending'.source_id \in {pending.source_id, None}
  PROVE  Tracks'
  BY DEF Tracks, HavePending

\* Between two handlers what signals tell is true.
LEMMA IdleTracks ==
  ASSUME TapInv, SignalInv, pc = "idle"
  PROVE  Tracks
  BY DEF TapInv, Inv, SwitchInv, SignalInv, Silent, NoFrame

\* A call that arrives changes nothing that has been told.
LEMMA EnterSignal ==
  ASSUME TapInv, SignalInv, pc = "idle", signal' = signal,
         \/ \E s, data : ActivateSource(s, Allowed, data)
         \/ \E kill_player, data : ReleasePath(kill_player, data)
         \/ CompletePending \/ CancelPending \/ UNCHANGED switchAllVars
  PROVE  SignalInv'
<1>1. /\ UNCHANGED <<current_source_id, current_player_id>>
      /\ pending'.source_id \in {pending.source_id, None}
  <2>1. ASSUME NEW s, NEW data, ActivateSource(s, Allowed, data)
        PROVE  /\ UNCHANGED <<current_source_id, current_player_id>>
               /\ pending' \in {pending, NoPending}
    BY <2>1 DEF ActivateSource, RejectSource, KeepSource, BeginSwitch
  <2>2. ASSUME CompletePending \/ CancelPending \/ UNCHANGED switchAllVars
        PROVE  /\ UNCHANGED <<current_source_id, current_player_id>>
               /\ pending' \in {pending, NoPending}
    BY <2>2 DEF CompletePending, CancelPending, NothingPending, BeginComplete, BeginCancel,
                switchAllVars, switchVars
  <2>3. ASSUME NEW kill_player, NEW data, ReleasePath(kill_player, data)
        PROVE  UNCHANGED <<current_source_id, current_player_id, pending>>
    BY <2>3 DEF ReleasePath
  <2> QED BY <2>1, <2>2, <2>3 DEF NoPending
<1> QED BY <1>1, IdleTracks, TracksStays DEF SignalInv

\* Neither does a function that is not going to be followed by a signal.
LEMMA ContinueSignal ==
  ASSUME TapInv, PolicyInv, OutcomeInv, SignalInv, Continue, UNCHANGED tapVars
  PROVE  SignalInv'
<1> SUFFICES ASSUME Silent' PROVE Tracks'
  BY DEF SignalInv
<1> USE DEF TapInv
<1>1. /\ pc # "idle" /\ frame \in Frame /\ signal' = signal
      /\ frame'.op = frame.op /\ frame'.source_id = frame.source_id
      /\ frame'.result \in {frame.result, "ERROR_PLAYER_FAILED", "ERROR_SOURCE_FAILED"}
  BY ContinueKeeps, InFunction DEF tapVars
<1>2. pc # "return"
  BY DEF Continue, SkipDeactivate, MakeCall, CallDeselected, CallDeactivate, CallActivate,
         CallSelected, CallCanceled, CallReturns, DeselectedReturned, DeactivateReturned,
         ActivateReturned, SelectedReturned, CanceledReturned, Returned
<1>3. frame.op # "activate"
  <2>1. SUFFICES ASSUME frame.op = "activate", pc' = "return", frame'.result \in Rejection
                 PROVE  FALSE
    BY <1>1 DEF Silent
  <2>2. frame.result \in Rejection
    BY <1>1, <2>1 DEF Rejection
  <2>3. pc \in {"deselect", "players", "activate", "select"}
    BY <1>1, <1>2, <2>1 DEF Continue, SkipDeactivate, MakeCall, CallDeselected,
       CallDeactivate, CallActivate, CallSelected, CallCanceled, CallReturns,
       DeselectedReturned, DeactivateReturned, ActivateReturned, SelectedReturned,
       CanceledReturned, Returned, Inv, SwitchInv, AtCancel
  <2> QED BY <2>1, <2>2, <2>3 DEF PolicyInv, ResultInv, SwitchResult, Rejection
<1>4. CASE frame.op = "cancel"
  <2>1. pc = "cancel" /\ current_source_id = None /\ pending.source_id = None
    BY <1>4 DEF Continue, SkipDeactivate, MakeCall, CallDeselected,
       CallDeactivate, CallActivate, CallSelected, CallCanceled, CallReturns,
       DeselectedReturned, DeactivateReturned, ActivateReturned, SelectedReturned,
       CanceledReturned, Returned, Inv, SwitchInv, AtCancel, AtDeselect, AtPlayers,
       AtActivate, AtSelect, NothingToDeselect, HavePending
  <2>2. /\ UNCHANGED <<current_player_id, pending>>
        /\ current_source_id' = current_source_id
    BY <2>1 DEF Continue, SkipDeactivate, MakeCall, CallDeselected,
       CallDeactivate, CallActivate, CallSelected, CallCanceled, CallPeer, CallReturns,
       DeselectedReturned, DeactivateReturned, ActivateReturned, SelectedReturned,
       CanceledReturned, Returned
  <2> QED BY <1>1, <1>4, <2>2, TracksStays DEF SignalInv, Silent
<1>5. CASE frame.op = "release" /\ frame'.result = "UNCHANGED"
  <2>1. frame.result = "UNCHANGED"
    BY <1>1, <1>5
  <2>2. ~frame.affected /\ current_source_id = None
    BY <1>5, <2>1 DEF OutcomeInv
  <2>3. /\ current_source_id' = current_source_id
        /\ current_player_id' = current_player_id
        /\ pending' \in {pending, NoPending}
    <3>1. pc \in {"deselect", "players"}
      BY <1>2, <1>5 DEF Continue, SkipDeactivate, MakeCall, CallDeselected,
       CallDeactivate, CallActivate, CallSelected, CallCanceled, CallReturns,
       DeselectedReturned, DeactivateReturned, ActivateReturned, SelectedReturned,
       CanceledReturned, Returned, Inv, SwitchInv, AtCancel, AtActivate, AtSelect
    <3>2. ~DeactivateReturned
      BY <2>2 DEF DeactivateReturned, Returned, Inv, SwitchInv, AtPlayers
    <3> QED BY <2>2, <3>1, <3>2 DEF Continue, SkipDeactivate, MakeCall, CallDeselected,
       CallDeactivate, CallActivate, CallSelected, CallCanceled, CallPeer, CallReturns,
       DeselectedReturned, ActivateReturned, SelectedReturned, CanceledReturned, Returned
  <2> QED BY <1>1, <1>5, <2>1, <2>3, TracksStays DEF SignalInv, Silent, NoPending
<1>6. frame.op # "complete" \/ frame.source_id # None
  BY <1>2 DEF OutcomeInv
<1> QED BY <1>1, <1>3, <1>4, <1>5, <1>6 DEF Silent, Frame

\* What a request tells is what it has brought about.
LEMMA FinishRequestSignal ==
  ASSUME TapInv, PolicyInv, OutcomeInv, SignalInv, FinishRequestSource
  PROVE  Tracks'
<1> USE DEF TapInv
<1>1. /\ pc = "return" /\ frame.op = "activate" /\ EmitPathSwitch
      /\ UNCHANGED <<current_source_id, current_player_id, pending>>
  BY DEF FinishRequestSource, Finish, Return, HandlerInv, MethodOf, TypeOK
<1>2. ActivateOutcome /\ SourceXorPending /\ frame.result \in ActivateResult
  BY <1>1 DEF OutcomeInv, Inv, SwitchInv, NoFrame
<1>3. CASE frame.result \in Rejection
  <2>1. signal' = signal
    BY <1>1, <1>3 DEF EmitPathSwitch, Rejection
  <2> QED BY <1>1, <1>3, <2>1, TracksStays DEF SignalInv, Silent
<1>4. CASE Deferred
  <2>1. signal' = [kind |-> "deferred", source_id |-> frame.source_id,
                   player_id |-> frame.player_id]
    BY <1>1, <1>4 DEF EmitPathSwitch, Emit, Deferred, Succeeded
  <2>2. /\ frame.source_id # None /\ frame.player_id = current_player_id
        /\ frame.source_id = pending.source_id /\ current_source_id = None
    BY <1>2, <1>4 DEF ActivateOutcome, Succeeded, SourceXorPending, HavePending
  <2> QED BY <1>1, <2>1, <2>2 DEF Tracks, HavePending
<1>5. CASE Succeeded /\ ~Deferred
  <2>1. /\ signal'.kind \in {"activated", "reactivated"}
        /\ signal'.source_id = frame.source_id /\ signal'.player_id = frame.player_id
    BY <1>1, <1>5 DEF EmitPathSwitch, Emit, Deferred, Succeeded
  <2>2. /\ frame.source_id # None /\ frame.player_id = current_player_id
        /\ frame.source_id = current_source_id /\ ~HavePending
    BY <1>2, <1>5 DEF ActivateOutcome, SourceXorPending
  <2> QED BY <1>1, <2>1, <2>2 DEF Tracks, HavePending
<1>6. CASE frame.result \in {"ERROR_PLAYER_FAILED", "ERROR_SOURCE_FAILED"}
  <2>1. signal' = [kind |-> "activated", source_id |-> None, player_id |-> frame.player_id]
    BY <1>1, <1>6 DEF EmitPathSwitch, Emit, Deferred, Succeeded
  <2>2. /\ NothingToDeselect
        /\ current_player_id = None \/ frame.player_id = current_player_id
    BY <1>2, <1>6 DEF ActivateOutcome
  <2> QED BY <1>1, <2>1, <2>2 DEF Tracks, NothingToDeselect, HavePending
<1> QED BY <1>2, <1>3, <1>4, <1>5, <1>6
        DEF ActivateResult, Rejection, Succeeded, Deferred

\* So is what the other handlers tell.
LEMMA FinishOthersSignal ==
  ASSUME TapInv, PolicyInv, QueueInv, OutcomeInv, QueueSource, SignalInv,
         FinishReleasePath \/ FinishComplete \/ FinishCancel
  PROVE  Tracks'
<1> USE DEF TapInv
<1>1. /\ pc = "return" /\ UNCHANGED <<current_source_id, current_player_id, pending>>
      /\ handler # None /\ frame \in Frame
      /\ calls[handler].method = MethodOf(frame.op)
  BY InFunction
     DEF FinishReleasePath, FinishComplete, FinishCancel, Finish, Return, HandlerInv
<1>2. CASE signal' = signal /\ Silent
  BY <1>1, <1>2, TracksStays DEF SignalInv
<1>3. CASE FinishReleasePath
  <2>1. frame.op = "release"
    BY <1>1, <1>3 DEF FinishReleasePath, Finish, MethodOf, Frame
  <2>2. CASE frame.result = "UNCHANGED"
    BY <1>2, <1>3, <2>1, <2>2 DEF FinishReleasePath, Silent
  <2>3. CASE frame.result # "UNCHANGED"
    <3>1. signal' = [kind |-> "activated", source_id |-> None,
                     player_id |-> current_player_id]
      BY <1>3, <2>3 DEF FinishReleasePath, Emit
    <3>2. NothingToDeselect
      BY <1>1, <2>1 DEF OutcomeInv
    <3> QED BY <1>1, <3>1, <3>2 DEF Tracks, NothingToDeselect, HavePending
  <2> QED BY <2>2, <2>3
<1>4. CASE FinishComplete
  <2>1. frame.op = "complete" /\ frame.result # "OK_UNCHANGED"
    BY <1>4 DEF FinishComplete, PolicyInv, ResultInv, DeferredResult
  <2>2. CASE frame.source_id = None
    <3>1. frame.result = "ERROR_SOURCE_UNKNOWN"
      BY <2>1, <2>2 DEF OutcomeInv
    <3> QED BY <1>2, <1>4, <2>1, <2>2, <3>1 DEF FinishComplete, Silent
  <2>3. CASE frame.source_id # None
    <3>1. frame.result # "ERROR_SOURCE_UNKNOWN" /\ queue # <<>>
      BY <2>1, <2>3 DEF OutcomeInv, QueueSource
    <3>2. signal' = [kind |-> "activated",
                     source_id |-> IF Succeeded THEN frame.source_id ELSE None,
                     player_id |-> current_player_id]
      BY <1>4, <2>1, <3>1 DEF FinishComplete, Emit
    <3>3. /\ ~HavePending
          /\ current_source_id = IF Succeeded THEN frame.source_id ELSE None
      BY <1>1, <2>1, <2>3 DEF OutcomeInv, CompleteOutcome
    <3> QED BY <1>1, <3>2, <3>3 DEF Tracks, HavePending
  <2> QED BY <2>2, <2>3
<1>5. CASE FinishCancel
  BY <1>2, <1>5 DEF FinishCancel, Silent
<1> QED BY <1>3, <1>4, <1>5

\* Every step preserves SignalInv.
LEMMA SignalNext ==
  TapInv /\ PolicyInv /\ QueueInv /\ OutcomeInv /\ QueueSource /\ SignalInv /\ [Next]_vars
      => SignalInv'
<1> SUFFICES ASSUME TapInv, PolicyInv, QueueInv, OutcomeInv, QueueSource, SignalInv,
                    [Next]_vars
             PROVE  SignalInv'
  OBVIOUS
<1>1. ASSUME NEW i \in Invocation, NEW data \in RequestData, NEW s \in SourceOrNone,
             RequestSource(i, s, data)
      PROVE  SignalInv'
  BY <1>1, ActivateEnters, EnterSignal DEF RequestSource
<1>2. ASSUME NEW i \in Invocation, NEW data \in RequestData, NEW kill_player \in BOOLEAN,
             RequestRelease(i, kill_player, data)
      PROVE  SignalInv'
  BY <1>2, OthersEnter, EnterSignal DEF RequestRelease
<1>3. ASSUME NEW i \in Invocation, NEW power \in Maybe, NEW audio \in Maybe,
             SetReadyState(i, power, audio)
      PROVE  SignalInv'
  BY <1>3, OthersEnter, EnterSignal
     DEF SetReadyState, SetReady, SetSuspended, SetNotReady, SetAppliance
<1>4. CASE (Register /\ UNCHANGED tapVars) \/ UNCHANGED vars
  <2>1. UNCHANGED <<current_source_id, current_player_id, pending, pc, frame, signal>>
    BY <1>4 DEF Register, RegisterPlayer, RegisterSource, vars, tapVars, switchAllVars,
                switchVars
  <2> QED BY <2>1, TracksStays DEF SignalInv, Silent
<1> QED BY <1>1, <1>2, <1>3, <1>4, ContinueSignal, FinishRequestSignal, FinishOthersSignal
        DEF Next, Request, HandlerStep, HandlerFinishes, SignalInv

\* SignalInv is an invariant.
LEMMA SignalAlways == Spec => []SignalInv
<1>1. Init => SignalInv
  BY DEF Init, SwitchInit, NoPending, SignalInv, Tracks, HavePending
<1> QED BY <1>1, TapInvAlways, PolicyAlways, OutcomeAlways, QueueAlways, SignalNext, PTL
        DEF Spec

(* The signals alone tell the route, and what is on hold.                  *)
THEOREM SignalTracksRouteAlways == Spec => []SignalTracksRoute
<1>1. TapInv /\ SignalInv => SignalTracksRoute
  BY IdleTracks DEF SignalTracksRoute, Tracks, GetCurrentPath
<1> QED BY <1>1, TapInvAlways, SignalAlways, PTL

(* They tell the player, too, unless it has refused to be activated.       *)
THEOREM SignalTracksPlayerAlways == Spec => []SignalTracksPlayer
<1>1. TapInv /\ SignalInv => SignalTracksPlayer
  <2> SUFFICES ASSUME TapInv, SignalInv, pc = "idle", signal.kind # "none"
               PROVE  SignalTracksPlayer
    BY DEF SignalTracksPlayer
  <2>1. \/ current_player_id = signal.player_id
        \/ current_source_id = None /\ current_player_id = None
    <3>1. Tracks
      BY IdleTracks
    <3> QED BY <3>1 DEF Tracks
  <2>2. current_source_id # None => current_player_id # None
    <3>1. PathIntact
      BY DEF TapInv, Inv, SwitchInv
    <3> QED BY <3>1, NoneIsNothing DEF PathIntact, PathComplete, KnownPlayer
  <2>3. GetActivePlayer(None) = current_player_id
    BY DEF GetActivePlayer
  <2>4. signal.source_id # None =>
           (GetActivePlayer(signal.source_id) # None <=> current_source_id = signal.source_id)
    BY <2>2 DEF GetActivePlayer
  <2>5. \/ GetActivePlayer(None) = signal.player_id
        \/ GetCurrentPath = [source_id |-> None, player_id |-> None]
    BY <2>1, <2>3 DEF GetCurrentPath
  <2> QED BY <2>4, <2>5 DEF SignalTracksPlayer
<1> QED BY <1>1, TapInvAlways, SignalAlways, PTL

---------------------------------------------------------------------------
(* The answers.                                                            *)

\* The player of the selected source is the active player.
LEMMA SelectedSourceInfo ==
  ASSUME TapInv, current_source_id # None
  PROVE  GetSourceInfo(current_source_id) = current_player_id
<1>1. PathIntact
  BY DEF TapInv, Inv, SwitchInv
<1> QED BY <1>1 DEF PathIntact, PathComplete, GetSourceInfo

\* A request that has failed, or that is displaced, leaves no route to its
\* source behind.
LEMMA NoRouteTo ==
  ASSUME NEW i, calls'[i].status # "ok",
         UNCHANGED <<current_source_id, pending>>,
         \/ calls[i].source_id = None
         \/ calls[i].source_id \notin {current_source_id, pending.source_id}
  PROVE  AnswerTruthful(i)
  BY DEF AnswerTruthful

\* A request that has been successful leaves the route behind it has asked for.
LEMMA RouteTo ==
  ASSUME TapInv, NEW i, calls'[i] = Success(current_player_id),
         UNCHANGED <<current_source_id, current_player_id>>,
         current_source_id # None, calls[i].source_id = current_source_id
  PROVE  AnswerTruthful(i)
  BY SelectedSourceInfo DEF AnswerTruthful, Success, GetCurrentPath

\* What its own handler answers to a request, and to those it displaces.
LEMMA RequestTruthful ==
  ASSUME TapInv, PolicyInv, QueueInv, OutcomeInv, QueueSource, FinishRequestSource,
         NEW i \in Invocation, IsOpen(i), ~IsOpen(i)'
  PROVE  AnswerTruthful(i)
<1> USE DEF TapInv
<1> DEFINE answers == AnswerAll(Dropped, Error)
<1>1. /\ pc = "return" /\ frame.op = "activate" /\ handler \in Invocation
      /\ UNCHANGED <<current_source_id, current_player_id, pending>>
      /\ calls[handler].source_id = frame.source_id
  BY DEF FinishRequestSource, Finish, Return, HandlerInv, MethodOf, TypeOK, QueueInv,
         ReturnInv
<1>2. ActivateOutcome /\ SourceXorPending /\ frame.result \in ActivateResult
  BY <1>1 DEF OutcomeInv, Inv, SwitchInv, NoFrame
<1>3. Error.status = "error"
  BY DEF Error
<1>4. ~Succeeded => /\ \/ frame.source_id = None
                       \/ frame.source_id \notin {current_source_id, pending.source_id}
                    /\ frame.deselected = "DESELECTED_PENDING" => NothingToDeselect
  BY <1>2 DEF ActivateOutcome, ActivateResult, Rejection, Succeeded, Deferred,
              NothingToDeselect, HavePending
<1>5. CASE i = handler
  <2>1. i \notin Dropped
    BY <1>5, QueuedOpen DEF QueueInv, Dropped
  <2>2. DOMAIN answers = Invocation /\ answers[i] = calls[i]
    BY <2>1 DEF AnswerAll
  <2>3. calls'[i] = IF Deferred THEN calls[i]
                    ELSE IF Succeeded THEN Success(frame.player_id) ELSE Error
    BY <1>5, <2>2 DEF FinishRequestSource
  <2>4. ~Deferred
    BY <2>3 DEF IsOpen
  <2>5. CASE Succeeded
    <3>1. /\ current_source_id # None /\ frame.source_id = current_source_id
          /\ frame.player_id = current_player_id
      BY <1>2, <2>4, <2>5 DEF ActivateOutcome
    <3> QED BY <1>1, <1>5, <2>3, <2>4, <2>5, <3>1, RouteTo
  <2>6. CASE ~Succeeded
    BY <1>1, <1>3, <1>4, <1>5, <2>3, <2>4, <2>6, NoRouteTo
  <2> QED BY <2>5, <2>6
<1>6. CASE i # handler
  <2>1. calls'[i] = IF i \in Dropped THEN Error ELSE calls[i]
    BY <1>6 DEF FinishRequestSource, AnswerAll
  <2>2. i \in Dropped /\ calls'[i] = Error
    BY <2>1 DEF IsOpen
  <2>3. frame.deselected = "DESELECTED_PENDING" /\ calls[i].source_id # frame.source_id
    BY <1>1, <2>2 DEF Dropped, Queued, QueueSource
  <2>4. Succeeded => \/ calls[i].source_id = None
                     \/ calls[i].source_id \notin {current_source_id, pending.source_id}
    BY <1>2, <2>3 DEF ActivateOutcome, SourceXorPending, HavePending
  <2>5. ~Succeeded => \/ calls[i].source_id = None
                      \/ calls[i].source_id \notin {current_source_id, pending.source_id}
    BY <1>4, <2>3 DEF NothingToDeselect, HavePending
  <2> QED BY <1>1, <1>3, <2>2, <2>4, <2>5, NoRouteTo
<1> QED BY <1>5, <1>6

\* What the other handlers answer to the requests in the queue.
LEMMA OthersTruthful ==
  ASSUME TapInv, PolicyInv, QueueInv, OutcomeInv, QueueSource,
         FinishReleasePath \/ FinishComplete \/ FinishCancel,
         NEW i \in Invocation, IsOpen(i), calls[i].method = "RequestSource", ~IsOpen(i)'
  PROVE  AnswerTruthful(i)
<1> USE DEF TapInv
<1>1. /\ pc = "return" /\ frame \in Frame
      /\ UNCHANGED <<current_source_id, current_player_id, pending>>
      /\ calls[handler].method = MethodOf(frame.op) /\ Error.status = "error"
  BY InFunction
     DEF FinishReleasePath, FinishComplete, FinishCancel, Finish, Return, HandlerInv, Error
<1>2. i # handler
  BY DEF FinishReleasePath, FinishComplete, FinishCancel, Finish
<1>3. CASE NothingToDeselect /\ calls'[i] = Error
  BY <1>1, <1>3, NoRouteTo DEF NothingToDeselect, HavePending
<1>4. CASE FinishReleasePath
  <2>1. frame.op = "release"
    BY <1>1, <1>4 DEF FinishReleasePath, Finish, MethodOf, Frame
  <2>2. calls'[i] = IF i \in Dropped THEN Error ELSE calls[i]
    BY <1>2, <1>4 DEF FinishReleasePath, AnswerAll
  <2>3. calls'[i] = Error
    BY <2>2 DEF IsOpen
  <2> QED BY <1>1, <1>3, <2>1, <2>3 DEF OutcomeInv
<1>5. CASE FinishComplete
  <2>1. frame.op = "complete"
    BY <1>5 DEF FinishComplete
  <2>2. calls'[i] = IF frame.result # "ERROR_SOURCE_UNKNOWN" /\ i \in Queued
                    THEN IF Succeeded THEN Success(current_player_id) ELSE Error
                    ELSE calls[i]
    BY <1>2, <1>5 DEF FinishComplete, AnswerAll
  <2>3. frame.result # "ERROR_SOURCE_UNKNOWN" /\ i \in Queued
    BY <2>2 DEF IsOpen
  <2>4. frame.source_id # None /\ calls[i].source_id = frame.source_id
    BY <2>1, <2>3 DEF OutcomeInv, QueueSource, Queued
  <2>5. CompleteOutcome
    BY <1>1, <2>1 DEF OutcomeInv
  <2>6. CASE Succeeded
    BY <1>1, <2>2, <2>3, <2>4, <2>5, <2>6, RouteTo DEF CompleteOutcome
  <2>7. CASE ~Succeeded
    BY <1>3, <2>2, <2>3, <2>4, <2>5, <2>7 DEF CompleteOutcome, NothingToDeselect
  <2> QED BY <2>6, <2>7
<1>6. CASE FinishCancel
  <2>1. frame.op = "cancel"
    BY <1>6 DEF FinishCancel
  <2>2. calls'[i] = IF /\ frame.result \in {"OK_PLAYER_SWITCHED", "ERROR_SOURCE_FAILED"}
                       /\ i \in Queued
                    THEN Error ELSE calls[i]
    BY <1>2, <1>6 DEF FinishCancel, AnswerAll
  <2>3. calls'[i] = Error /\ frame.result # "ERROR_SOURCE_UNKNOWN"
    BY <2>2 DEF IsOpen
  <2> QED BY <1>1, <1>3, <2>1, <2>3 DEF OutcomeInv
<1> QED BY <1>4, <1>5, <1>6

(* A request succeeds only when the route it has asked for is there, and   *)
(* fails only when there is none to its source.                            *)
THEOREM AnswersTruthfulAlways == Spec => AnswersTruthful
<1>1. TapInv /\ PolicyInv /\ QueueInv /\ QueueSource /\ OutcomeInv /\ [Next]_vars
        => [\A i \in Invocation :
              (IsOpen(i) /\ calls[i].method = "RequestSource" /\ ~IsOpen(i)')
                  => AnswerTruthful(i)]_vars
  <2> SUFFICES ASSUME TapInv, PolicyInv, QueueInv, QueueSource, OutcomeInv, Next,
                      NEW i \in Invocation, IsOpen(i), calls[i].method = "RequestSource",
                      ~IsOpen(i)'
               PROVE  AnswerTruthful(i)
    OBVIOUS
  <2>1. ASSUME NEW j \in Invocation, ~IsOpen(j),
               calls' = [calls EXCEPT ![j] = calls'[j]]
        PROVE  FALSE
    BY <2>1 DEF TapInv, TypeOK, IsOpen
  <2>2. ASSUME NEW j \in Invocation, NEW method, NEW s, Arrive(j, method, s)
        PROVE  FALSE
    BY <2>2 DEF Arrive, TapInv, TypeOK, IsOpen
  <2>3. ~Request
    BY <2>1, <2>2 DEF Request, RequestSource, RequestRelease, SetReadyState, SetReady,
                      SetSuspended, SetNotReady
  <2>4. calls' # calls
    BY DEF IsOpen
  <2> QED BY <2>3, <2>4, RequestTruthful, OthersTruthful
          DEF Next, HandlerStep, HandlerFinishes, tapVars
<1> QED BY <1>1, TapInvAlways, PolicyAlways, OutcomeAlways, QueueAlways, PTL
        DEF Spec, AnswersTruthful
=============================================================================
