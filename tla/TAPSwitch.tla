----------------------------- MODULE TAPSwitch -----------------------------
(***************************************************************************)
(* The D-Bus handlers that switch the audio path (dbus_handlers.cc) with   *)
(* the data they share (DBus::HandlerData): the registry and the switch,   *)
(* the state of the appliance, and the RequestSource() calls whose answer  *)
(* is held back until the appliance is ready.                              *)
(*                                                                         *)
(* A handler begins with a member function of AudioPath::Switch and is     *)
(* finished when that has returned (pc = "return").                        *)
(***************************************************************************)
EXTENDS AudioPathSwitch, Sequences

CONSTANT Invocation   \* method invocations, used again once answered

ASSUME NoneIsNoInvocation == None \notin Invocation

VARIABLES
    power_state,   \* is_up_and_running_
    audio_state,   \* is_ready_for_playback_
    queue,         \* pending_audio_source_activations_
    handler,       \* the invocation being handled, or None
    calls,         \* what became of each invocation
    signal         \* the last signal about the audio path

applianceVars == <<power_state, audio_state>>
tapVars == <<applianceVars, queue, handler, calls, signal>>
vars == <<switchAllVars, tapVars>>

Maybe == {"unknown", "no", "yes"}

Method == {"RequestSource", "ReleasePath", "SetReadyState"}

OpenCall == [status : {"open"}, method : Method, source_id : SourceOrNone]

AnsweredCall == [status : {"ok", "error"}, player_id : PlayerOrNone]

\* An invocation nobody has made yet is as good as one that was answered.
Unused == [status |-> "ok", player_id |-> None]

IsOpen(i) == calls[i].status = "open"

Signal == [kind : {"none", "deferred", "activated", "reactivated"},
           source_id : SourceOrNone, player_id : PlayerOrNone]

QueueEntry == [invocation : Invocation, request_data : RequestData]

TypeOK ==
    /\ SwitchTypeOK
    /\ power_state \in Maybe
    /\ audio_state \in Maybe
    /\ queue \in Seq(QueueEntry)
    /\ handler \in Invocation \cup {None}
    /\ calls \in [Invocation -> OpenCall \cup AnsweredCall]
    /\ signal \in Signal

Init ==
    /\ SwitchInit
    /\ power_state = "unknown"
    /\ audio_state = "unknown"
    /\ queue = <<>>
    /\ handler = None
    /\ calls = [i \in Invocation |-> Unused]
    /\ signal = [kind |-> "none", source_id |-> None, player_id |-> None]

---------------------------------------------------------------------------
(* System policy: allowed unless we know it is not.                        *)
EnableAllowed(power, audio) == ~(power = "no" \/ audio = "no")

Allowed == EnableAllowed(power_state, audio_state)

Queued == {queue[k].invocation : k \in DOMAIN queue}

\* The answers a handler gives before it is done: one to its own
\* invocation, if any, and one to all that are queued.
Error == [status |-> "error", player_id |-> None]

Success(p) == [status |-> "ok", player_id |-> p]

AnswerAll(invocations, answer) ==
    [i \in Invocation |-> IF i \in invocations THEN answer ELSE calls[i]]

\* Mutant: the two IDs are passed in the wrong order.
Emit_Swapped(kind, s, p) ==
    signal' = [kind |-> kind, source_id |-> p, player_id |-> s]

Emit(kind, s, p) == signal' = [kind |-> kind, source_id |-> s, player_id |-> p]

\* An invocation arrives; its handler runs at once.
Arrive(i, method, s) ==
    /\ ~IsOpen(i)
    /\ handler' = i
    /\ calls' = [calls EXCEPT ![i] =
                    [status |-> "open", method |-> method, source_id |-> s]]

\* The handler of a method goes on when the switch has returned.
Finish(method) ==
    /\ Return
    /\ calls[handler].method = method
    /\ handler' = None

---------------------------------------------------------------------------
(* dbusmethod_aupath_request_source()                                      *)

RequestSource(i, s, data) ==
    /\ ActivateSource(s, Allowed, data)
    /\ Arrive(i, "RequestSource", s)
    /\ UNCHANGED <<applianceVars, queue, signal>>

\* Mutant: one of the two results for deferred activation is missing.
Deferred_SameOnly == frame.result = "OK_PLAYER_SAME_SOURCE_DEFERRED"

Deferred == frame.result \in {"OK_PLAYER_SAME_SOURCE_DEFERRED",
                              "OK_PLAYER_SWITCHED_SOURCE_DEFERRED"}

Succeeded == Deferred \/ frame.result \in {"OK_UNCHANGED", "OK_PLAYER_SAME",
                                           "OK_PLAYER_SWITCHED"}

\* Mutant: the calls are dropped without an answer.
Dropped_Unanswered == {}

\* The queued calls that fail because the source they wait for is dropped.
Dropped == IF frame.deselected = "DESELECTED_PENDING" THEN Queued ELSE {}

\* Mutant: the calls stay in the queue after they have failed.
KeptQueue_NotCleared == queue

KeptQueue == IF frame.deselected = "DESELECTED_PENDING" THEN <<>> ELSE queue

\* Mutant: only success is announced.
EmitPathSwitch_SuccessOnly ==
    IF Succeeded
    THEN Emit(IF Deferred THEN "deferred" ELSE "activated",
              frame.source_id, frame.player_id)
    ELSE UNCHANGED signal

EmitPathSwitch ==
    CASE frame.result \in {"ERROR_SOURCE_UNKNOWN", "ERROR_PLAYER_UNKNOWN"}
           -> UNCHANGED signal
      [] frame.result = "OK_UNCHANGED"
           -> Emit("reactivated", frame.source_id, frame.player_id)
      [] OTHER
           -> Emit(IF Deferred THEN "deferred" ELSE "activated",
                   IF Succeeded THEN frame.source_id ELSE None, frame.player_id)

FinishRequestSource ==
    /\ Finish("RequestSource")
    /\ LET enqueue == Succeeded /\ ~frame.select_now /\ frame.result # "OK_UNCHANGED"
       IN /\ calls' = [AnswerAll(Dropped, Error) EXCEPT ![handler] =
                          IF Deferred THEN @
                          ELSE IF Succeeded THEN Success(frame.player_id)
                          ELSE Error]
          /\ queue' = IF enqueue
                      THEN Append(KeptQueue, [invocation |-> handler,
                                              request_data |-> frame.request_data])
                      ELSE KeptQueue
    /\ EmitPathSwitch
    /\ UNCHANGED applianceVars

---------------------------------------------------------------------------
(* dbusmethod_aupath_release_path()                                        *)

RequestRelease(i, deactivate_player, data) ==
    /\ ReleasePath(deactivate_player, data)
    /\ Arrive(i, "ReleasePath", None)
    /\ UNCHANGED <<applianceVars, queue, signal>>

FinishReleasePath ==
    /\ Finish("ReleasePath")
    /\ calls' = [AnswerAll(Dropped, Error) EXCEPT ![handler] = Success(None)]
    /\ queue' = KeptQueue
    /\ IF frame.result = "UNCHANGED"
       THEN UNCHANGED signal
       ELSE Emit("activated", None, current_player_id)
    /\ UNCHANGED applianceVars

---------------------------------------------------------------------------
(* dbusmethod_appliance_set_ready_state()                                  *)

SetAppliance(power, audio) ==
    /\ power_state' = power
    /\ audio_state' = audio
    /\ UNCHANGED <<queue, signal>>

\* The appliance may play: complete what is pending.
SetReady(i, power, audio) ==
    /\ EnableAllowed(power, audio)
    /\ CompletePending
    /\ Arrive(i, "SetReadyState", None)
    /\ SetAppliance(power, audio)

\* set_suspend_mode() returns true: cancel what is pending.
SetSuspended(i, power, audio) ==
    /\ power = "no" /\ power_state # "no"
    /\ CancelPending
    /\ Arrive(i, "SetReadyState", None)
    /\ SetAppliance(power, audio)

\* Mutant: answered at once unless the appliance enters suspend mode.
SetNotReady_Always(i, power, audio) ==
    /\ pc = "idle"
    /\ power = "no" => power_state = "no"
    /\ ~IsOpen(i)
    /\ calls' = [calls EXCEPT ![i] = Success(None)]
    /\ SetAppliance(power, audio)
    /\ UNCHANGED <<switchAllVars, handler>>

\* It may not play, and is not entering suspend mode: answered at once.
SetNotReady(i, power, audio) ==
    /\ pc = "idle"
    /\ ~EnableAllowed(power, audio)
    /\ power = "no" => power_state = "no"
    /\ ~IsOpen(i)
    /\ calls' = [calls EXCEPT ![i] = Success(None)]
    /\ SetAppliance(power, audio)
    /\ UNCHANGED <<switchAllVars, handler>>

\* process_pending_audio_source_activation().  The call itself is not
\* answered if the source fails.
FinishComplete ==
    /\ Finish("SetReadyState")
    /\ frame.op = "complete"
    /\ LET found == frame.result # "ERROR_SOURCE_UNKNOWN"
           answer == IF Succeeded THEN Success(current_player_id) ELSE Error
       IN /\ calls' = [AnswerAll(IF found THEN Queued ELSE {}, answer)
                       EXCEPT ![handler] =
                          IF frame.result = "ERROR_SOURCE_FAILED" THEN @
                          ELSE IF found /\ ~Succeeded THEN Error
                          ELSE Success(None)]
          /\ queue' = IF found THEN <<>> ELSE queue
          /\ IF found /\ queue # <<>> /\ frame.result # "OK_UNCHANGED"
             THEN Emit("activated", IF Succeeded THEN frame.source_id ELSE None,
                       current_player_id)
             ELSE UNCHANGED signal
    /\ UNCHANGED applianceVars

\* cancel_pending_audio_source_activation(), and the answer after it.
FinishCancel ==
    /\ Finish("SetReadyState")
    /\ frame.op = "cancel"
    /\ LET canceled == frame.result \in {"OK_PLAYER_SWITCHED", "ERROR_SOURCE_FAILED"}
       IN /\ calls' = [AnswerAll(IF canceled THEN Queued ELSE {}, Error)
                       EXCEPT ![handler] = Success(None)]
          /\ queue' = IF canceled THEN <<>> ELSE queue
    /\ UNCHANGED <<applianceVars, signal>>

---------------------------------------------------------------------------
(* Queries: handlers that only answer.  GetState() and SetReadyState()     *)
(* number the states of the audio path differently.                        *)

GetCurrentPath == [source_id |-> current_source_id, player_id |-> current_player_id]

\* Mutant: the filter by source ID is not applied.
GetActivePlayer_Unfiltered(s) == current_player_id

\* The empty ID asks for the player of whatever source.
GetActivePlayer(s) ==
    IF s # None /\ s # current_source_id THEN None ELSE current_player_id

\* The player the source names, or None: the source is not registered.
GetSourceInfo(s) == IF KnownSource(s) THEN sources[s] ELSE None

GetState == IF audio_state = "no" THEN 0 ELSE IF audio_state = "yes" THEN 1 ELSE 2

---------------------------------------------------------------------------
(* The daemon.  Each handler runs to its end before the next one begins.   *)

SetReadyState(i, power, audio) ==
    \/ SetReady(i, power, audio)
    \/ SetSuspended(i, power, audio)
    \/ SetNotReady(i, power, audio)

HandlerFinishes == FinishRequestSource \/ FinishReleasePath \/ FinishComplete
                      \/ FinishCancel

HandlerStep == (Continue /\ UNCHANGED tapVars) \/ HandlerFinishes

Request ==
    \E i \in Invocation :
        \/ \E data \in RequestData :
              \/ \E s \in SourceOrNone : RequestSource(i, s, data)
              \/ \E kill_player \in BOOLEAN : RequestRelease(i, kill_player, data)
        \/ \E power \in Maybe, audio \in Maybe : SetReadyState(i, power, audio)

Next == Request \/ HandlerStep \/ (Register /\ UNCHANGED tapVars)

(* A handler that runs goes on, because a call to a peer that does not     *)
(* answer ends with a timeout; nobody is bound to call the daemon.         *)
Spec == Init /\ [][Next]_vars /\ WF_vars(HandlerStep)

---------------------------------------------------------------------------
(* Properties.                                                             *)

(* An activation is pending only while the appliance may not play, because *)
(* it is suspended or as GetState() reports; as soon as it may, nothing is *)
(* held back any more.  RequestSource() relies on it when it finds the     *)
(* source already pending.                                                 *)
PendingOnlyWhileBlocked == HavePending => power_state = "no" \/ GetState = 0

(* Between two handlers the queue and the pending activation agree: calls  *)
(* are queued exactly while an activation is pending, each once, they have *)
(* all asked for the pending source, and the data kept with the pending    *)
(* activation are those of the call that was first.                        *)
QueueMatchesPending ==
    pc = "idle" =>
        /\ queue # <<>> <=> HavePending
        /\ queue # <<>> => queue[1].request_data = pending.request_data
        /\ \A k \in DOMAIN queue :
              LET i == queue[k].invocation
              IN /\ IsOpen(i)
                 /\ calls[i].method = "RequestSource"
                 /\ calls[i].source_id = pending.source_id
                 /\ \A m \in DOMAIN queue : queue[m].invocation = i => m = k

(* No caller of RequestSource() or ReleasePath() is forgotten: while its   *)
(* call is not answered, it is being handled, or it is queued.             *)
NoRequestLost ==
    \A i \in Invocation :
        IsOpen(i) /\ calls[i].method # "SetReadyState"
            => i = handler \/ i \in Queued

(* A RequestSource() call succeeds only in the step after which GetCurrent-*)
(* Path() names its source, and both name the player GetSourceInfo() names *)
(* for it; it fails only if its source is neither selected nor on hold     *)
(* then.                                                                   *)
AnswerTruthful(i) ==
    LET s == calls[i].source_id
    IN IF calls'[i].status = "ok"
       THEN GetCurrentPath' = [source_id |-> s, player_id |-> calls'[i].player_id]
            /\ GetSourceInfo(s) = calls'[i].player_id
       ELSE s = None \/ s \notin {current_source_id', pending'.source_id}

AnswersTruthful ==
    [][\A i \in Invocation :
          (IsOpen(i) /\ calls[i].method = "RequestSource" /\ ~IsOpen(i)')
              => AnswerTruthful(i)]_vars

(* An observer of the signals alone knows the route between two handlers:  *)
(* the last signal names a source and its player exactly if GetCurrentPath *)
(* does, and it is PathDeferred for whatever is on hold.                   *)
SignalTracksRoute ==
    pc = "idle" =>
        /\ IF signal.kind \in {"activated", "reactivated"} /\ signal.source_id # None
           THEN GetCurrentPath = [source_id |-> signal.source_id,
                                  player_id |-> signal.player_id]
           ELSE GetCurrentPath.source_id = None
        /\ HavePending => signal = [kind |-> "deferred",
                                    source_id |-> pending.source_id,
                                    player_id |-> current_player_id]

(* The observer knows the player, too, also while no source plays: the     *)
(* last signal names the active player, whichever handler has been         *)
(* successful or has failed in between, unless that player refused to be   *)
(* activated.  GetActivePlayer(), asked for the source in the signal,      *)
(* names a player exactly if that source is playing.                       *)
SignalTracksPlayer ==
    pc = "idle" /\ signal.kind # "none" =>
        /\ GetActivePlayer(None) = signal.player_id
           \/ GetCurrentPath = [source_id |-> None, player_id |-> None]
        /\ signal.source_id # None =>
              (GetActivePlayer(signal.source_id) # None
                  <=> current_source_id = signal.source_id)

(* The results the handlers of SetReadyState() treat as unexpected (and    *)
(* log as a bug) are never returned by the switch.                         *)
NoUnexpectedResult ==
    pc = "return" =>
        /\ frame.op = "cancel" => frame.result \in
              {"ERROR_SOURCE_UNKNOWN", "ERROR_SOURCE_FAILED", "OK_PLAYER_SWITCHED"}
        /\ frame.op = "complete" => frame.result \notin
              {"ERROR_PLAYER_UNKNOWN", "ERROR_PLAYER_FAILED", "OK_UNCHANGED"}

(* Nothing is missing that a handler needs to go on, whichever path it has *)
(* found and whatever its calls have returned: the switch has a next call  *)
(* to make or knows that there is none, and the handler has an answer for  *)
(* each result of the switch.  Together with the fairness of the steps,    *)
(* this is why handlers finish.                                            *)
HandlerCanGoOn == handler # None => ENABLED <<HandlerStep>>_vars

(* Every handler finishes, whatever the peers it calls do.                 *)
HandlersFinish == handler # None ~> handler = None

(* If the appliance may play again and again, every RequestSource() call   *)
(* is answered, also one whose source has been held back.                  *)
DeferredAnswered ==
    []<>Allowed => \A i \in Invocation :
        (IsOpen(i) /\ calls[i].method = "RequestSource") ~> ~IsOpen(i)

(* Contradicted by the code: "Changes in power state to suspend mode       *)
(* trigger audio paths request cancelations now to avoid D-Bus timeouts"   *)
(* (ChangeLog, version 1.6); no SetReadyState() call is left unanswered.   *)
ReadyStateAnswered ==
    \A i \in Invocation :
        IsOpen(i) /\ calls[i].method = "SetReadyState" => i = handler
=============================================================================
