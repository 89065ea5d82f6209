-------------------------- MODULE AudioPathSwitch --------------------------
(***************************************************************************)
(* AudioPath::Switch (audiopathswitch.cc): which source is selected, which *)
(* player is active, and which source is on hold until the appliance gets  *)
(* ready.  Its member functions call audio players and audio sources       *)
(* synchronously over D-Bus.  Each call is two steps here: it is made, and *)
(* later it returns, with success or with an error (a timeout is an        *)
(* error).  The daemon has one thread, and a call blocks it, so that no    *)
(* other member function and no registration runs in between (pc # "idle") *)
(***************************************************************************)
EXTENDS AudioPath

CONSTANTS
    RequestData,   \* data passed along with requests, only ever forwarded
    ProxyOutcome,  \* what creating a proxy may yield: NullProxy is a failure
    Wiring         \* the sources, and the players they are registered for

ASSUME ProxyOutcomeIsStored == ProxyOutcome \subseteq StoredProxy
ASSUME WiringIsTyped == Wiring \subseteq SourceId \X PlayerId
ASSUME NoneIsNoData == None \notin RequestData

VARIABLES
    current_source_id,   \* selected source, or None
    current_player_id,   \* active player, or None
    pending,             \* pending_, the deferred activation
    pc,                  \* where the running member function is
    frame,               \* its parameters and local variables
    call                 \* the D-Bus call it is waiting for

switchVars == <<current_source_id, current_player_id, pending, pc, frame, call>>
switchAllVars == <<pathsVars, switchVars>>

ActivateResult == {"ERROR_SOURCE_UNKNOWN", "ERROR_SOURCE_FAILED",
    "ERROR_PLAYER_UNKNOWN", "ERROR_PLAYER_FAILED", "OK_UNCHANGED",
    "OK_PLAYER_SAME", "OK_PLAYER_SAME_SOURCE_DEFERRED",
    "OK_PLAYER_SWITCHED", "OK_PLAYER_SWITCHED_SOURCE_DEFERRED"}

ReleaseResult == {"SOURCE_DESELECTED", "PLAYER_DEACTIVATED",
    "COMPLETE_RELEASE", "UNCHANGED"}

DeselectedAudioSourceResult == {"NONE", "DESELECTED_ACTIVE", "DESELECTED_PENDING"}

SourceOrNone == SourceId \cup {None}
PlayerOrNone == PlayerId \cup {None}
DataOrNone == RequestData \cup {None}

PendingActivation == [source_id : SourceOrNone, request_data : DataOrNone,
                      phase_one_result : ActivateResult]

NoPending == [source_id |-> None, request_data |-> None,
              phase_one_result |-> "ERROR_SOURCE_UNKNOWN"]

HavePending == pending.source_id # None

(* "affected" is players_changed of activate_source(), and                 *)
(* have_deactivated_player of release_path(); "result" is what the         *)
(* function is going to return unless a call fails.                        *)
Frame == [op : {"activate", "complete", "cancel", "release"},
          source_id : SourceOrNone, player_id : PlayerOrNone,
          select_now : BOOLEAN, request_data : DataOrNone,
          deselected : DeselectedAudioSourceResult, affected : BOOLEAN,
          result : ActivateResult \cup ReleaseResult]

NoFrame == [op |-> "none"]

Call == [method : {"Selected", "SelectedOnHold", "Deselected"},
         to : SourceId, peer : Proxy, request_data : DataOrNone]
   \cup [method : {"Activate", "Deactivate"},
         to : PlayerId, peer : Proxy, request_data : DataOrNone]

NoCall == [method |-> "none"]

Location == {"idle", "deselect", "players", "activate", "select", "cancel",
             "return", "crashed"}

SwitchTypeOK ==
    /\ PathsTypeOK
    /\ current_source_id \in SourceOrNone
    /\ current_player_id \in PlayerOrNone
    /\ pending \in PendingActivation
    /\ pc \in Location
    /\ frame \in Frame \cup {NoFrame}
    /\ call \in Call \cup {NoCall}

SwitchInit ==
    /\ PathsInit
    /\ current_source_id = None
    /\ current_player_id = None
    /\ pending = NoPending
    /\ pc = "idle"
    /\ frame = NoFrame
    /\ call = NoCall

---------------------------------------------------------------------------
(* Calling a peer.  The proxy is dereferenced without a check, so that a   *)
(* null proxy takes the daemon down at the call.                           *)

CallPeer(method, to, peer) ==
    /\ call = NoCall
    /\ IF peer = NullProxy
       THEN pc' = "crashed" /\ UNCHANGED call
       ELSE /\ call' = [method |-> method, to |-> to, peer |-> peer,
                        request_data |-> frame.request_data]
            /\ UNCHANGED pc
    /\ UNCHANGED <<pathsVars, current_source_id, current_player_id, pending, frame>>

\* A call returns, and the function goes on at the given location.
Returned(location, next) ==
    /\ pc = location
    /\ call # NoCall
    /\ call' = NoCall
    /\ pc' = next

NothingToDeselect == current_source_id = None /\ ~HavePending

\* Mutant: a source on hold is forgotten.
AfterEntry_ActiveOnly == IF current_source_id = None THEN "players" ELSE "deselect"

\* Mutant: the selected source is forgotten.
AfterEntry_PendingOnly == IF HavePending THEN "deselect" ELSE "players"

\* deselect_source() comes first in activate_source() and release_path().
AfterEntry == IF NothingToDeselect THEN "players" ELSE "deselect"

---------------------------------------------------------------------------
(* activate_source(), up to its first D-Bus call.  The empty source ID is  *)
(* None; a path is complete if both of its components are registered.      *)

ActivateFrame(s, p, now, data, deselected, affected, result) ==
    [op |-> "activate", source_id |-> s, player_id |-> p, select_now |-> now,
     request_data |-> data, deselected |-> deselected, affected |-> affected,
     result |-> result]

\* Empty ID, unknown source, or source of an unknown player.
RejectSource(s, now, data) ==
    /\ pc = "idle"
    /\ \/ s = None
       \/ s \notin {current_source_id, pending.source_id} /\ ~PathComplete(s)
    /\ frame' = ActivateFrame(s, None, now, data,
                              IF HavePending THEN "DESELECTED_PENDING" ELSE "NONE",
                              FALSE,
                              IF KnownSource(s) THEN "ERROR_PLAYER_UNKNOWN"
                                                ELSE "ERROR_SOURCE_UNKNOWN")
    /\ pending' = NoPending
    /\ pc' = "return"
    /\ UNCHANGED <<pathsVars, current_source_id, current_player_id, call>>

\* The source is selected already, or is on hold already.
KeepSource(s, now, data) ==
    /\ pc = "idle"
    /\ s # None
    /\ s \in {current_source_id, pending.source_id}
    /\ frame' = ActivateFrame(s, current_player_id, now, data, "NONE", FALSE,
                              IF s = current_source_id
                              THEN "OK_UNCHANGED"
                              ELSE "OK_PLAYER_SWITCHED_SOURCE_DEFERRED")
    /\ pc' = "return"
    /\ UNCHANGED <<pathsVars, current_source_id, current_player_id, pending, call>>

SwitchResult(players_changed, now) ==
    IF players_changed
    THEN IF now THEN "OK_PLAYER_SWITCHED" ELSE "OK_PLAYER_SWITCHED_SOURCE_DEFERRED"
    ELSE IF now THEN "OK_PLAYER_SAME" ELSE "OK_PLAYER_SAME_SOURCE_DEFERRED"

BeginSwitch(s, now, data) ==
    /\ pc = "idle"
    /\ s \notin {None, current_source_id, pending.source_id}
    /\ PathComplete(s)
    /\ LET changed == sources[s] # current_player_id
       IN frame' = ActivateFrame(s, sources[s], now, data, "NONE", changed,
                                 SwitchResult(changed, now))
    /\ pc' = AfterEntry
    /\ UNCHANGED <<pathsVars, current_source_id, current_player_id, pending, call>>

ActivateSource(s, now, data) ==
    \/ RejectSource(s, now, data)
    \/ KeepSource(s, now, data)
    \/ BeginSwitch(s, now, data)

---------------------------------------------------------------------------
(* release_path(), up to its first D-Bus call.                             *)

ReleasePath(kill_player, data) ==
    LET have_source == current_source_id # None
        have_player == kill_player /\ current_player_id # None
    IN /\ pc = "idle"
       /\ frame' = [op |-> "release", source_id |-> None, player_id |-> None,
                    select_now |-> FALSE, request_data |-> data,
                    deselected |-> "NONE", affected |-> have_player,
                    result |-> IF have_source
                               THEN IF have_player THEN "COMPLETE_RELEASE"
                                                   ELSE "SOURCE_DESELECTED"
                               ELSE IF have_player THEN "PLAYER_DEACTIVATED"
                                                   ELSE "UNCHANGED"]
       /\ pc' = AfterEntry
       /\ UNCHANGED <<pathsVars, current_source_id, current_player_id, pending, call>>

---------------------------------------------------------------------------
(* deselect_source(): an error of the source is logged and ignored.        *)

DeselectedId ==
    IF current_source_id # None THEN current_source_id ELSE pending.source_id

CallDeselected ==
    /\ pc = "deselect"
    /\ CallPeer("Deselected", DeselectedId, source_proxy[DeselectedId])

DeselectedReturned ==
    /\ Returned("deselect", "players")
    /\ frame' = [frame EXCEPT !.deselected = IF current_source_id = None
                                             THEN "DESELECTED_PENDING"
                                             ELSE "DESELECTED_ACTIVE"]
    /\ current_source_id' = None
    /\ pending' = NoPending
    /\ UNCHANGED <<pathsVars, current_player_id>>

---------------------------------------------------------------------------
(* deactivate_player(): an error of the player is logged and ignored.      *)

\* Mutant: the new player is not started.
AfterPlayers_NoStart == IF frame.op = "release" THEN "return" ELSE "select"

\* What follows after the active player has been dealt with.
AfterPlayers ==
    IF frame.op = "release" THEN "return"
    ELSE IF frame.affected THEN "activate" ELSE "select"

\* Mutant: the active player is never told to stop.
SkipDeactivate_Always ==
    /\ pc = "players"
    /\ call = NoCall
    /\ pc' = AfterPlayers
    /\ UNCHANGED <<pathsVars, current_source_id, current_player_id, pending, frame, call>>

\* Mutant: whether there is an active player is not checked.
SkipDeactivate_KeptOnly ==
    /\ pc = "players"
    /\ call = NoCall
    /\ ~frame.affected
    /\ pc' = AfterPlayers
    /\ UNCHANGED <<pathsVars, current_source_id, current_player_id, pending, frame, call>>

\* The player is kept, or there is none.
SkipDeactivate ==
    /\ pc = "players"
    /\ call = NoCall
    /\ ~frame.affected \/ current_player_id = None
    /\ pc' = AfterPlayers
    /\ UNCHANGED <<pathsVars, current_source_id, current_player_id, pending, frame, call>>

CallDeactivate ==
    /\ pc = "players"
    /\ frame.affected
    /\ current_player_id # None
    /\ CallPeer("Deactivate", current_player_id, players[current_player_id])

DeactivateReturned ==
    /\ Returned("players", AfterPlayers)
    /\ current_player_id' = None
    /\ UNCHANGED <<pathsVars, current_source_id, pending, frame>>

---------------------------------------------------------------------------
(* activate_player().                                                      *)

CallActivate ==
    /\ pc = "activate"
    /\ CallPeer("Activate", frame.player_id, players[frame.player_id])

\* Mutant: the ID of the wrong half of the path is stored.
ActivateReturned_WrongId(ok) ==
    /\ Returned("activate", IF ok THEN "select" ELSE "return")
    /\ current_player_id' = IF ok THEN frame.source_id ELSE current_player_id
    /\ UNCHANGED <<pathsVars, current_source_id, pending, frame>>

\* Mutant: an error of the player is ignored, as it is on Deactivate.
ActivateReturned_IgnoresError(ok) ==
    /\ Returned("activate", "select")
    /\ current_player_id' = frame.player_id
    /\ UNCHANGED <<pathsVars, current_source_id, pending, frame>>

\* Mutant: the player is told again until it complies.
ActivateReturned_Retries(ok) ==
    /\ Returned("activate", IF ok THEN "select" ELSE "activate")
    /\ current_player_id' = IF ok THEN frame.player_id ELSE current_player_id
    /\ UNCHANGED <<pathsVars, current_source_id, pending, frame>>

ActivateReturned(ok) ==
    /\ Returned("activate", IF ok THEN "select" ELSE "return")
    /\ IF ok
       THEN current_player_id' = frame.player_id /\ UNCHANGED frame
       ELSE /\ frame' = [frame EXCEPT !.result = "ERROR_PLAYER_FAILED"]
            /\ UNCHANGED current_player_id
    /\ UNCHANGED <<pathsVars, current_source_id, pending>>

---------------------------------------------------------------------------
(* select_source(), and what its two callers do next.                      *)

CallSelected ==
    /\ pc = "select"
    /\ CallPeer(IF frame.select_now THEN "Selected" ELSE "SelectedOnHold",
                frame.source_id, source_proxy[frame.source_id])

SelectedReturned(ok) ==
    /\ Returned("select", "return")
    /\ frame' = IF ok THEN frame
                ELSE [frame EXCEPT !.result = "ERROR_SOURCE_FAILED"]
    /\ current_source_id' = IF ok /\ frame.select_now THEN frame.source_id
                            ELSE current_source_id
    /\ pending' = IF ok /\ ~frame.select_now
                  THEN [source_id |-> frame.source_id,
                        request_data |-> frame.request_data,
                        phase_one_result |-> frame.result]
                  ELSE pending
    /\ UNCHANGED <<pathsVars, current_player_id>>

---------------------------------------------------------------------------
(* complete_pending_source_activation(), cancel_pending_source_activation()*)

PendingFrame(op, result) ==
    [op |-> op, source_id |-> pending.source_id, player_id |-> None,
     select_now |-> op = "complete", request_data |-> pending.request_data,
     deselected |-> "NONE", affected |-> FALSE, result |-> result]

\* There is no pending activation: both functions return at once.
NothingPending(op) ==
    /\ pc = "idle"
    /\ ~HavePending
    /\ frame' = PendingFrame(op, "ERROR_SOURCE_UNKNOWN")
    /\ pc' = "return"
    /\ UNCHANGED <<pathsVars, current_source_id, current_player_id, pending, call>>

\* Mutant: the pending activation is not cleared.
BeginComplete_KeepsPending ==
    /\ pc = "idle"
    /\ HavePending
    /\ frame' = PendingFrame("complete", pending.phase_one_result)
    /\ pc' = "select"
    /\ UNCHANGED <<pathsVars, current_source_id, current_player_id, pending, call>>

BeginComplete ==
    /\ pc = "idle"
    /\ HavePending
    /\ frame' = PendingFrame("complete", pending.phase_one_result)
    /\ pending' = NoPending
    /\ pc' = "select"
    /\ UNCHANGED <<pathsVars, current_source_id, current_player_id, call>>

\* Mutant: the result of the first phase is returned, as when completing.
BeginCancel_PhaseOne ==
    /\ pc = "idle"
    /\ HavePending
    /\ frame' = PendingFrame("cancel", pending.phase_one_result)
    /\ pending' = NoPending
    /\ pc' = "cancel"
    /\ UNCHANGED <<pathsVars, current_source_id, current_player_id, call>>

BeginCancel ==
    /\ pc = "idle"
    /\ HavePending
    /\ frame' = PendingFrame("cancel", "OK_PLAYER_SWITCHED")
    /\ pending' = NoPending
    /\ pc' = "cancel"
    /\ UNCHANGED <<pathsVars, current_source_id, current_player_id, call>>

CallCanceled ==
    /\ pc = "cancel"
    /\ CallPeer("Deselected", frame.source_id, source_proxy[frame.source_id])

CanceledReturned(ok) ==
    /\ Returned("cancel", "return")
    /\ current_source_id' = None
    /\ frame' = IF ok THEN frame
                ELSE [frame EXCEPT !.result = "ERROR_SOURCE_FAILED"]
    /\ UNCHANGED <<pathsVars, current_player_id, pending>>

CompletePending == NothingPending("complete") \/ BeginComplete

CancelPending == NothingPending("cancel") \/ BeginCancel

---------------------------------------------------------------------------
(* The steps.  Registrations are other handlers of the same thread.        *)

Return ==
    /\ pc = "return"
    /\ pc' = "idle"
    /\ frame' = NoFrame
    /\ UNCHANGED <<pathsVars, current_source_id, current_player_id, pending, call>>

RegisterPlayer(p) ==
    /\ pc = "idle"
    /\ \E proxy \in ProxyOutcome : AddPlayer(p, proxy)
    /\ UNCHANGED switchVars

RegisterSource(s, p) ==
    /\ pc = "idle"
    /\ \E proxy \in ProxyOutcome : AddSource(s, p, proxy)
    /\ UNCHANGED switchVars

MakeCall == CallDeselected \/ CallDeactivate \/ CallActivate \/ CallSelected
                \/ CallCanceled

\* The call the daemon waits for returns, with success or with an error.
CallReturns(ok) ==
    \/ DeselectedReturned
    \/ DeactivateReturned
    \/ ActivateReturned(ok)
    \/ SelectedReturned(ok)
    \/ CanceledReturned(ok)

\* The running member function goes on; it never waits for ever.
Continue == SkipDeactivate \/ MakeCall \/ \E ok \in BOOLEAN : CallReturns(ok)

Enter ==
    \/ \E data \in RequestData :
          \/ \E s \in SourceOrNone, now \in BOOLEAN : ActivateSource(s, now, data)
          \/ \E kill_player \in BOOLEAN : ReleasePath(kill_player, data)
    \/ CompletePending
    \/ CancelPending

Register ==
    \/ \E p \in PlayerId : RegisterPlayer(p)
    \/ \E w \in Wiring : RegisterSource(w[1], w[2])

SwitchNext == Enter \/ Continue \/ Return \/ Register

SwitchSpec == SwitchInit /\ [][SwitchNext]_switchAllVars

---------------------------------------------------------------------------
(* Properties.                                                             *)

(* The assertions in deselect_source() and activate_source(): a selected   *)
(* source and a pending activation never exist at the same time, at no     *)
(* point of any member function.                                           *)
SourceXorPending == current_source_id = None \/ ~HavePending

(* The source that is selected or on hold is registered, and the active    *)
(* player is the registered player it names, whatever is registered again  *)
(* and whichever calls fail in the meantime.                               *)
PathIntact ==
    \A s \in {current_source_id, pending.source_id} \ {None} :
        PathComplete(s) /\ sources[s] = current_player_id

(* The map lookups whose result is dereferenced without a check never fail *)
(* (deselect_source, deactivate_player, and the lookups of the pending     *)
(* source in complete_ and cancel_pending_source_activation).              *)
LookupsSucceed ==
    call = NoCall =>
        /\ pc = "deselect" => KnownSource(DeselectedId)
        /\ pc = "players" /\ current_player_id # None => KnownPlayer(current_player_id)
        /\ pc = "activate" => KnownPlayer(frame.player_id)
        /\ pc \in {"select", "cancel"} => KnownSource(frame.source_id)

(* The order of the calls in a switch: the player is told to stop or to    *)
(* start only while no source is selected or on hold, the new one starts   *)
(* only after the previous one has been told to stop, and a source is      *)
(* selected only when the active player is the one it plays through.       *)
CallsInOrder ==
    /\ call.method \in {"Activate", "Deactivate", "Selected", "SelectedOnHold"}
         => NothingToDeselect
    /\ call.method = "Activate" => current_player_id = None
    /\ call.method = "Deactivate" => current_player_id = call.to
    /\ call.method \in {"Selected", "SelectedOnHold"}
         => current_player_id = sources[call.to]

(* Contradicted by the code: "Each audio player must register with         *)
(* tapswitch so that it can be informed when it may take the audio device" *)
(* (README).  Whatever has been registered can be called; no call is made  *)
(* through a proxy that was never created.                                 *)
PeersCanBeCalled == pc # "crashed"

(* The member functions implement the route that AudioRoute specifies.     *)
Route == INSTANCE AudioRoute WITH
            owner <- sources, player <- current_player_id,
            selected <- current_source_id, held <- pending.source_id

ImplementsRoute == Route!Spec

---------------------------------------------------------------------------
(* The inductive invariant: what each member function knows about the      *)
(* switch and about its own variables wherever it waits for a call.        *)

\* The path in the frame is complete, and is the one to be switched to.
FramePath ==
    /\ PathComplete(frame.source_id)
    /\ frame.player_id = sources[frame.source_id]

AtDeselect ==
    /\ frame.op \in {"activate", "release"}
    /\ ~NothingToDeselect
    /\ frame.op = "activate" =>
          FramePath /\ (frame.affected <=> frame.player_id # current_player_id)
    /\ call # NoCall => call.method = "Deselected" /\ call.to = DeselectedId

AtPlayers ==
    /\ frame.op \in {"activate", "release"}
    /\ NothingToDeselect
    /\ frame.op = "activate" =>
          FramePath /\ (frame.affected <=> frame.player_id # current_player_id)
    /\ call # NoCall => /\ call.method = "Deactivate"
                        /\ call.to = current_player_id
                        /\ frame.affected

AtActivate ==
    /\ frame.op = "activate"
    /\ NothingToDeselect
    /\ current_player_id = None
    /\ FramePath
    /\ call # NoCall => call.method = "Activate" /\ call.to = frame.player_id

AtSelect ==
    /\ frame.op \in {"activate", "complete"}
    /\ NothingToDeselect
    /\ PathComplete(frame.source_id)
    /\ sources[frame.source_id] = current_player_id
    /\ frame.op = "complete" => frame.select_now
    /\ call # NoCall => /\ call.method = IF frame.select_now THEN "Selected"
                                                             ELSE "SelectedOnHold"
                        /\ call.to = frame.source_id

AtCancel ==
    /\ frame.op = "cancel"
    /\ NothingToDeselect
    /\ KnownSource(frame.source_id)
    /\ call # NoCall => call.method = "Deselected"

(* Whatever the switch is doing, it has exactly the state it needs to go   *)
(* on: this is what makes SourceXorPending, PathIntact, LookupsSucceed and *)
(* CallsInOrder true after any sequence of requests and failures.          *)
SwitchInv ==
    /\ SourceXorPending
    /\ PathIntact
    /\ current_player_id = None \/ KnownPlayer(current_player_id)
    /\ \A s \in SourceId : KnownSource(s) <=> source_proxy[s] # None
    /\ pc = "idle" <=> frame = NoFrame
    /\ pc \in {"idle", "return", "crashed"} => call = NoCall
    /\ frame # NoFrame /\ frame.op # "release" => frame.result \in ActivateResult
    /\ pc = "deselect" => AtDeselect
    /\ pc = "players" => AtPlayers
    /\ pc = "activate" => AtActivate
    /\ pc = "select" => AtSelect
    /\ pc = "cancel" => AtCancel
=============================================================================
