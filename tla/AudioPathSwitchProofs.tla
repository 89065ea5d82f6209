----------------------- MODULE AudioPathSwitchProofs -----------------------
(***************************************************************************)
(* Proofs about AudioPath::Switch, for any sets of sources, players,       *)
(* proxies and request data, and whether or not creating a proxy may fail. *)
(*                                                                         *)
(* The inductive invariant is Inv: the types, and SwitchInv, which says    *)
(* for every location what the running function relies on.  InitInv and    *)
(* NextInv show it to be inductive; everything else follows from it.       *)
(***************************************************************************)
EXTENDS AudioPathSwitch, Integers, TLAPS

USE NoneIsNothing, NullProxyIsNoProxy, ProxyOutcomeIsStored, WiringIsTyped,
    NoneIsNoData

USE DEF SwitchTypeOK, PathsTypeOK, StoredProxy, SourceOrNone, PlayerOrNone,
        DataOrNone, PendingActivation, NoPending, HavePending, Frame, NoFrame,
        Call, NoCall, Location, ActivateResult, ReleaseResult,
        DeselectedAudioSourceResult, pathsVars

Inv == SwitchTypeOK /\ SwitchInv

(* The registry and the switch start empty.                                *)
LEMMA InitInv == SwitchInit => Inv
  BY DEF SwitchInit, PathsInit, Inv, SwitchInv, SourceXorPending, PathIntact,
         KnownSource

---------------------------------------------------------------------------
(* The member functions up to their first call.                            *)

(* activate_source() returns early, or goes on with a complete path.       *)
LEMMA ActivateSourceInv ==
  ASSUME Inv, NEW s \in SourceOrNone, NEW now \in BOOLEAN,
         NEW data \in RequestData, ActivateSource(s, now, data)
  PROVE  Inv'
<1> USE DEF Inv, ActivateFrame, KnownSource, KnownPlayer, PathComplete
<1>1. CASE RejectSource(s, now, data)
  <2>1. SwitchTypeOK'
    BY <1>1 DEF RejectSource
  <2>2. SwitchInv'
    BY <1>1 DEF RejectSource, SwitchInv, SourceXorPending, PathIntact
  <2> QED BY <2>1, <2>2
<1>2. CASE KeepSource(s, now, data)
  <2>1. SwitchTypeOK'
    BY <1>2 DEF KeepSource
  <2>2. SwitchInv'
    BY <1>2 DEF KeepSource, SwitchInv, SourceXorPending, PathIntact
  <2> QED BY <2>1, <2>2
<1>3. CASE BeginSwitch(s, now, data)
  <2> USE DEF BeginSwitch, AfterEntry, NothingToDeselect
  <2>1. SwitchTypeOK'
    BY <1>3 DEF SwitchResult
  <2>2. (SourceXorPending /\ PathIntact)'
    BY <1>3 DEF SwitchInv, SourceXorPending, PathIntact
  <2>3. SwitchInv'
    BY <1>3, <2>2 DEF SwitchInv, SwitchResult, AtDeselect, AtPlayers, FramePath
  <2> QED BY <2>1, <2>3
<1> QED BY <1>1, <1>2, <1>3 DEF ActivateSource

(* release_path() has nothing to look up.                                  *)
LEMMA ReleasePathInv ==
  ASSUME Inv, NEW kill_player \in BOOLEAN, NEW data \in RequestData,
         ReleasePath(kill_player, data)
  PROVE  Inv'
<1> USE DEF Inv, ReleasePath, AfterEntry, NothingToDeselect
<1>1. SwitchTypeOK'
  OBVIOUS
<1>2. SwitchInv'
  BY DEF SwitchInv, SourceXorPending, PathIntact, PathComplete, KnownSource,
         KnownPlayer, AtDeselect, AtPlayers
<1> QED BY <1>1, <1>2

(* Both functions for pending activations take the source out of pending_; *)
(* PathIntact says that its path is complete.                              *)
LEMMA PendingInv ==
  ASSUME Inv, CompletePending \/ CancelPending
  PROVE  Inv'
<1> USE DEF Inv, PendingFrame, KnownSource, KnownPlayer, PathComplete
<1>1. ASSUME NEW op \in {"complete", "cancel"}, NothingPending(op) PROVE Inv'
  <2>1. SwitchTypeOK'
    BY <1>1 DEF NothingPending
  <2>2. SwitchInv'
    BY <1>1 DEF NothingPending, SwitchInv, SourceXorPending, PathIntact
  <2> QED BY <2>1, <2>2
<1>2. CASE BeginComplete
  <2>1. SwitchTypeOK'
    BY <1>2 DEF BeginComplete
  <2>2. SwitchInv'
    BY <1>2 DEF BeginComplete, SwitchInv, SourceXorPending, PathIntact,
                AtSelect, NothingToDeselect
  <2> QED BY <2>1, <2>2
<1>3. CASE BeginCancel
  <2>1. SwitchTypeOK'
    BY <1>3 DEF BeginCancel
  <2>2. SwitchInv'
    BY <1>3 DEF BeginCancel, SwitchInv, SourceXorPending, PathIntact,
                AtCancel, NothingToDeselect
  <2> QED BY <2>1, <2>2
<1> QED BY <1>1, <1>2, <1>3 DEF CompletePending, CancelPending

---------------------------------------------------------------------------
(* Making a call: the daemon waits, or a null proxy stops it.              *)
LEMMA CallPeerTypes ==
  ASSUME SwitchTypeOK, frame \in Frame, NEW method, NEW to, NEW peer \in StoredProxy,
         \/ method \in {"Selected", "SelectedOnHold", "Deselected"} /\ to \in SourceId
         \/ method \in {"Activate", "Deactivate"} /\ to \in PlayerId,
         CallPeer(method, to, peer)
  PROVE  SwitchTypeOK'
  BY DEF CallPeer

(* A function that runs has a frame.                                       *)
LEMMA InFunction == Inv /\ pc # "idle" => frame \in Frame
  BY DEF Inv, SwitchInv

(* What SwitchInv says of a location does not depend on who is called.     *)
LEMMA MakeCallInv == Inv /\ MakeCall => Inv'
<1> SUFFICES ASSUME Inv, MakeCall PROVE Inv'
  OBVIOUS
<1>0. SwitchTypeOK /\ (pc \in {"deselect", "players", "activate", "select", "cancel"}
                          => frame \in Frame)
  BY InFunction DEF Inv
<1>1. CASE CallDeselected
  <2>1. CallPeer("Deselected", DeselectedId, source_proxy[DeselectedId])
    BY <1>1 DEF CallDeselected
  <2>2. DeselectedId \in SourceId /\ source_proxy[DeselectedId] \in StoredProxy
    BY <1>1 DEF CallDeselected, Inv, SwitchInv, SourceXorPending, PathIntact,
      DeselectedId, AtDeselect, FramePath,
      NothingToDeselect, KnownSource, KnownPlayer, PathComplete
  <2>3. SwitchTypeOK'
    BY <1>1, <2>1, <2>2, <1>0, CallPeerTypes DEF CallDeselected
  <2>4. SwitchInv'
    BY <1>1, <2>2
      DEF CallDeselected, CallPeer, Inv, SwitchInv, SourceXorPending, PathIntact,
      DeselectedId, AtDeselect, FramePath,
      NothingToDeselect, KnownSource, KnownPlayer, PathComplete
  <2> QED BY <2>3, <2>4 DEF Inv
<1>2. CASE CallDeactivate
  <2>1. CallPeer("Deactivate", current_player_id, players[current_player_id])
    BY <1>2 DEF CallDeactivate
  <2>2. current_player_id \in PlayerId /\ players[current_player_id] \in StoredProxy
    BY <1>2 DEF CallDeactivate, Inv, SwitchInv, SourceXorPending, PathIntact,
      AtPlayers, FramePath,
      NothingToDeselect, KnownSource, KnownPlayer, PathComplete
  <2>3. SwitchTypeOK'
    BY <1>2, <2>1, <2>2, <1>0, CallPeerTypes DEF CallDeactivate
  <2>4. SwitchInv'
    BY <1>2, <2>2
      DEF CallDeactivate, CallPeer, Inv, SwitchInv, SourceXorPending, PathIntact,
      AtPlayers, FramePath,
      NothingToDeselect, KnownSource, KnownPlayer, PathComplete
  <2> QED BY <2>3, <2>4 DEF Inv
<1>3. CASE CallActivate
  <2>1. CallPeer("Activate", frame.player_id, players[frame.player_id])
    BY <1>3 DEF CallActivate
  <2>2. frame.player_id \in PlayerId /\ players[frame.player_id] \in StoredProxy
    BY <1>3 DEF CallActivate, Inv, SwitchInv, SourceXorPending, PathIntact,
      AtActivate, FramePath,
      NothingToDeselect, KnownSource, KnownPlayer, PathComplete
  <2>3. SwitchTypeOK'
    BY <1>3, <2>1, <2>2, <1>0, CallPeerTypes DEF CallActivate
  <2>4. SwitchInv'
    BY <1>3, <2>2
      DEF CallActivate, CallPeer, Inv, SwitchInv, SourceXorPending, PathIntact,
      AtActivate, FramePath,
      NothingToDeselect, KnownSource, KnownPlayer, PathComplete
  <2> QED BY <2>3, <2>4 DEF Inv
<1>4. CASE CallSelected
  <2>1. CallPeer(IF frame.select_now THEN "Selected" ELSE "SelectedOnHold",
                 frame.source_id, source_proxy[frame.source_id])
    BY <1>4 DEF CallSelected
  <2>2. frame.source_id \in SourceId /\ source_proxy[frame.source_id] \in StoredProxy
    BY <1>4 DEF CallSelected, Inv, SwitchInv, SourceXorPending, PathIntact,
      AtSelect,
      NothingToDeselect, KnownSource, KnownPlayer, PathComplete
  <2>3. SwitchTypeOK'
    BY <1>4, <2>1, <2>2, <1>0, CallPeerTypes DEF CallSelected
  <2>4. SwitchInv'
    BY <1>4, <2>2
      DEF CallSelected, CallPeer, Inv, SwitchInv, SourceXorPending, PathIntact,
      AtSelect,
      NothingToDeselect, KnownSource, KnownPlayer, PathComplete
  <2> QED BY <2>3, <2>4 DEF Inv
<1>5. CASE CallCanceled
  <2>1. CallPeer("Deselected", frame.source_id, source_proxy[frame.source_id])
    BY <1>5 DEF CallCanceled
  <2>2. frame.source_id \in SourceId /\ source_proxy[frame.source_id] \in StoredProxy
    BY <1>5 DEF CallCanceled, Inv, SwitchInv, SourceXorPending, PathIntact,
      AtCancel,
      NothingToDeselect, KnownSource, KnownPlayer, PathComplete
  <2>3. SwitchTypeOK'
    BY <1>5, <2>1, <2>2, <1>0, CallPeerTypes DEF CallCanceled
  <2>4. SwitchInv'
    BY <1>5, <2>2
      DEF CallCanceled, CallPeer, Inv, SwitchInv, SourceXorPending, PathIntact,
      AtCancel,
      NothingToDeselect, KnownSource, KnownPlayer, PathComplete
  <2> QED BY <2>3, <2>4 DEF Inv
<1> QED BY <1>1, <1>2, <1>3, <1>4, <1>5 DEF MakeCall

(* A call returns, or no call was needed.                                  *)
LEMMA CallReturnsInv ==
  ASSUME Inv, NEW ok \in BOOLEAN, CallReturns(ok) \/ SkipDeactivate
  PROVE  Inv'
<1> USE DEF Inv, Returned, SwitchInv, SourceXorPending, PathIntact,
            NothingToDeselect, KnownSource, KnownPlayer, PathComplete
<1>1. CASE DeselectedReturned
  BY <1>1 DEF DeselectedReturned, AtDeselect, AtPlayers, FramePath
<1>2. CASE SkipDeactivate
  BY <1>2 DEF SkipDeactivate, AfterPlayers, AtPlayers, AtActivate, AtSelect, FramePath
<1>3. CASE DeactivateReturned
  BY <1>3 DEF DeactivateReturned, AfterPlayers, AtPlayers, AtActivate, FramePath
<1>4. CASE ActivateReturned(ok)
  BY <1>4 DEF ActivateReturned, AtActivate, AtSelect, FramePath
<1>5. CASE SelectedReturned(ok)
  BY <1>5 DEF SelectedReturned, AtSelect
<1>6. CASE CanceledReturned(ok)
  BY <1>6 DEF CanceledReturned, AtCancel
<1> QED BY <1>1, <1>2, <1>3, <1>4, <1>5, <1>6 DEF CallReturns

---------------------------------------------------------------------------
(* A registration never takes a component away, and never gives a known    *)
(* source another player, whatever proxy it stores.                        *)
LEMMA AddPlayerInv ==
  ASSUME Inv, pc = "idle", UNCHANGED switchVars,
         NEW p \in PlayerId, NEW proxy \in StoredProxy, AddPlayer(p, proxy)
  PROVE  Inv'
<1> USE DEF Inv, switchVars, AddPlayer
<1>1. SwitchTypeOK'
  OBVIOUS
<1>2. /\ \A s \in SourceId : PathComplete(s) => PathComplete(s)'
      /\ \A q \in PlayerId : KnownPlayer(q) => KnownPlayer(q)'
  BY DEF PathComplete, KnownSource, KnownPlayer
<1>3. SwitchInv'
  BY <1>2 DEF SwitchInv, SourceXorPending, PathIntact, KnownSource
<1> QED BY <1>1, <1>3

LEMMA AddSourceInv ==
  ASSUME Inv, pc = "idle", UNCHANGED switchVars,
         NEW s \in SourceId, NEW p \in PlayerId, NEW proxy \in StoredProxy,
         AddSource(s, p, proxy)
  PROVE  Inv'
<1> USE DEF Inv, switchVars, AddSource, StoredPlayerOf, KnownSource
<1>1. SwitchTypeOK'
  OBVIOUS
<1>2. \A t \in SourceId : KnownSource(t) => sources'[t] = sources[t]
  OBVIOUS
<1>3. SwitchInv'
  BY <1>2 DEF SwitchInv, SourceXorPending, PathIntact, PathComplete, KnownPlayer
<1> QED BY <1>1, <1>3

LEMMA RegisterInv == Inv /\ Register => Inv'
<1> SUFFICES ASSUME Inv, Register PROVE Inv'
  OBVIOUS
<1>1. ASSUME NEW p \in PlayerId, RegisterPlayer(p) PROVE Inv'
  BY <1>1, ProxyOutcomeIsStored, AddPlayerInv DEF RegisterPlayer
<1>2. ASSUME NEW s \in SourceId, NEW p \in PlayerId, RegisterSource(s, p) PROVE Inv'
  BY <1>2, ProxyOutcomeIsStored, AddSourceInv DEF RegisterSource
<1>3. \A w \in Wiring : w[1] \in SourceId /\ w[2] \in PlayerId
  OBVIOUS
<1> QED BY <1>1, <1>2, <1>3 DEF Register

(* Every step preserves the invariant.                                     *)
LEMMA NextInv == Inv /\ [SwitchNext]_switchAllVars => Inv'
<1> SUFFICES ASSUME Inv, [SwitchNext]_switchAllVars PROVE Inv'
  OBVIOUS
<1>1. CASE Enter
  BY <1>1, ActivateSourceInv, ReleasePathInv, PendingInv DEF Enter
<1>2. CASE Continue
  BY <1>2, MakeCallInv, CallReturnsInv DEF Continue
<1>3. CASE Return
  BY <1>3 DEF Return, Inv, SwitchInv, SourceXorPending, PathIntact, PathComplete,
              KnownSource, KnownPlayer
<1>4. CASE Register
  BY <1>4, RegisterInv
<1>5. CASE UNCHANGED switchAllVars
  BY <1>5 DEF switchAllVars, switchVars, Inv, SwitchInv, SourceXorPending, PathIntact,
              PathComplete, KnownSource, KnownPlayer, AtDeselect, AtPlayers,
              AtActivate, AtSelect, AtCancel, FramePath, NothingToDeselect, DeselectedId
<1> QED BY <1>1, <1>2, <1>3, <1>4, <1>5 DEF SwitchNext

(* The invariant holds in every reachable state.                           *)
THEOREM InvAlways == SwitchSpec => []Inv
  BY InitInv, NextInv, PTL DEF SwitchSpec

---------------------------------------------------------------------------
(* What follows from the invariant.                                        *)

(* Every variable of the switch always has the type its declaration says.  *)
THEOREM SwitchTypeCorrect == SwitchSpec => []SwitchTypeOK
<1>1. Inv => SwitchTypeOK
  BY DEF Inv
<1> QED BY <1>1, InvAlways, PTL

(* What each member function relies on holds wherever it waits for a call. *)
THEOREM SwitchInvAlways == SwitchSpec => []SwitchInv
<1>1. Inv => SwitchInv
  BY DEF Inv
<1> QED BY <1>1, InvAlways, PTL

(* The asserted exclusion of a selected source and a pending activation.   *)
THEOREM SourceXorPendingAlways == SwitchSpec => []SourceXorPending
<1>1. Inv => SourceXorPending
  BY DEF Inv, SwitchInv
<1> QED BY <1>1, InvAlways, PTL

(* The source in charge always plays through the active player.            *)
THEOREM PathIntactAlways == SwitchSpec => []PathIntact
<1>1. Inv => PathIntact
  BY DEF Inv, SwitchInv
<1> QED BY <1>1, InvAlways, PTL

\* What a member function goes on with has been found before.
LEMMA InvLookups == Inv => LookupsSucceed
<1> SUFFICES ASSUME Inv, call = NoCall PROVE LookupsSucceed
  BY DEF LookupsSucceed
<1> USE DEF Inv, SwitchInv, KnownSource, KnownPlayer, PathComplete
<1>1. pc = "deselect" => KnownSource(DeselectedId)
  BY DEF PathIntact, AtDeselect, NothingToDeselect, DeselectedId
<1>2. pc = "players" /\ current_player_id # None => KnownPlayer(current_player_id)
  OBVIOUS
<1>3. pc = "activate" => KnownPlayer(frame.player_id)
  BY DEF AtActivate, FramePath
<1>4. pc \in {"select", "cancel"} => KnownSource(frame.source_id)
  BY DEF AtSelect, AtCancel
<1> QED BY <1>1, <1>2, <1>3, <1>4 DEF LookupsSucceed

(* No unchecked map lookup ever fails.                                     *)
THEOREM LookupsSucceedAlways == SwitchSpec => []LookupsSucceed
  BY InvLookups, InvAlways, PTL

\* Wherever a call is under way, the calls that come before it are done.
LEMMA InvOrder == Inv => CallsInOrder
<1> SUFFICES ASSUME Inv, call # NoCall PROVE CallsInOrder
  BY DEF CallsInOrder
<1> USE DEF Inv, SwitchInv
<1>1. pc \in {"deselect", "players", "activate", "select", "cancel"}
  OBVIOUS
<1>2. CASE pc \in {"deselect", "cancel"}
  BY <1>2 DEF AtDeselect, AtCancel, CallsInOrder
<1>3. CASE pc = "players"
  BY <1>3 DEF AtPlayers, CallsInOrder
<1>4. CASE pc = "activate"
  BY <1>4 DEF AtActivate, CallsInOrder
<1>5. CASE pc = "select"
  BY <1>5 DEF AtSelect, CallsInOrder
<1> QED BY <1>1, <1>2, <1>3, <1>4, <1>5

(* Calls are always made in the order deselect, stop, start, select.       *)
THEOREM CallsInOrderAlways == SwitchSpec => []CallsInOrder
  BY InvOrder, InvAlways, PTL

\* What the switch promises of itself, wherever it is.
SwitchSafe == SourceXorPending /\ PathIntact /\ LookupsSucceed /\ CallsInOrder

\* All of it follows from the invariant.
LEMMA InvSafe == Inv => SwitchSafe
  BY InvLookups, InvOrder DEF Inv, SwitchInv, SwitchSafe

---------------------------------------------------------------------------
(* The switch implements AudioRoute.                                       *)

LEMMA InitRoute == SwitchInit => Route!Init
  BY DEF SwitchInit, PathsInit, Route!Init, Route!NoSource

(* Most steps change nothing that AudioRoute sees; the others are one of   *)
(* its actions, whose guard is in the invariant.                           *)
LEMMA NextRoute == Inv /\ [SwitchNext]_switchAllVars => [Route!Next]_Route!vars
<1> SUFFICES ASSUME Inv, [SwitchNext]_switchAllVars
             PROVE  Route!Next \/ UNCHANGED Route!vars
  OBVIOUS
<1> USE DEF Inv, SwitchInv, Returned, Route!vars, Route!NoSource, NothingToDeselect
<1>1. CASE Enter
  <2>1. \/ UNCHANGED <<sources, current_source_id, current_player_id, pending>>
        \/ /\ pending' = NoPending
           /\ UNCHANGED <<sources, current_source_id, current_player_id>>
    BY <1>1 DEF Enter, ActivateSource, RejectSource, KeepSource, BeginSwitch,
                ReleasePath, CompletePending, CancelPending, NothingPending,
                BeginComplete, BeginCancel
  <2>2. Route!Deselect \/ UNCHANGED Route!vars
    BY <2>1 DEF Route!Deselect, SourceXorPending
  <2> QED BY <2>2 DEF Route!Next
<1>2. CASE MakeCall \/ SkipDeactivate \/ Return
  BY <1>2 DEF MakeCall, CallDeselected, CallDeactivate, CallActivate, CallSelected,
              CallCanceled, CallPeer, SkipDeactivate, Return
<1>3. CASE DeselectedReturned
  BY <1>3 DEF DeselectedReturned, AtDeselect, Route!Deselect, Route!Next
<1>4. CASE DeactivateReturned
  BY <1>4 DEF DeactivateReturned, AtPlayers, Route!StopPlayer, Route!Next
<1>5. ASSUME NEW ok \in BOOLEAN, ActivateReturned(ok)
      PROVE  Route!Next \/ UNCHANGED Route!vars
  <2> USE DEF ActivateReturned, AtActivate, FramePath, PathComplete, KnownSource, KnownPlayer
  <2>1. CASE ok
    <3>1. frame.source_id \in SourceId /\ frame.player_id \in PlayerId
      BY <1>5, <2>1
    <3>2. Route!StartPlayer(frame.player_id)
      BY <1>5, <2>1, <3>1 DEF Route!StartPlayer
    <3> QED BY <3>1, <3>2 DEF Route!Next
  <2>2. CASE ~ok
    BY <1>5, <2>2
  <2> QED BY <2>1, <2>2
<1>6. ASSUME NEW ok \in BOOLEAN, SelectedReturned(ok)
      PROVE  Route!Next \/ UNCHANGED Route!vars
  <2> USE DEF SelectedReturned, AtSelect, PathComplete, KnownSource, KnownPlayer
  <2>1. CASE ~ok
    BY <1>6, <2>1
  <2>2. CASE ok
    <3>1. frame.source_id \in SourceId /\ Route!OwnsPlayer(frame.source_id)
      BY <1>6 DEF Route!OwnsPlayer
    <3>2. Route!Select(frame.source_id) \/ Route!Hold(frame.source_id)
      BY <1>6, <2>2, <3>1 DEF Route!Select, Route!Hold
    <3> QED BY <3>1, <3>2 DEF Route!Next
  <2> QED BY <2>1, <2>2
<1>7. ASSUME NEW ok \in BOOLEAN, CanceledReturned(ok)
      PROVE  Route!Next \/ UNCHANGED Route!vars
  BY <1>7 DEF CanceledReturned, AtCancel
<1>8. CASE Register
  <2>1. ASSUME NEW p \in PlayerId, RegisterPlayer(p) PROVE UNCHANGED Route!vars
    BY <2>1 DEF RegisterPlayer, AddPlayer, switchVars
  <2>2. ASSUME NEW s \in SourceId, NEW p \in PlayerId, RegisterSource(s, p)
        PROVE  Route!Next \/ UNCHANGED Route!vars
    <3> USE DEF RegisterSource, AddSource, StoredPlayerOf, KnownSource, switchVars
    <3>1. CASE KnownSource(s)
      BY <2>2, <3>1
    <3>2. CASE ~KnownSource(s)
      <4>1. Route!Declare(s, p)
        BY <2>2, <3>2 DEF Route!Declare
      <4> QED BY <4>1 DEF Route!Next
    <3> QED BY <3>1, <3>2
  <2>3. \A w \in Wiring : w[1] \in SourceId /\ w[2] \in PlayerId
    OBVIOUS
  <2> QED BY <1>8, <2>1, <2>2, <2>3 DEF Register
<1>9. CASE UNCHANGED switchAllVars
  BY <1>9 DEF switchAllVars, switchVars
<1> QED BY <1>1, <1>2, <1>3, <1>4, <1>5, <1>6, <1>7, <1>8, <1>9
        DEF SwitchNext, Continue, CallReturns

(* Any sequence of requests, registrations and failures is a behaviour of  *)
(* the route.                                                              *)
THEOREM SwitchImplementsRoute == SwitchSpec => ImplementsRoute
  BY InitRoute, NextRoute, InvAlways, PTL DEF SwitchSpec, ImplementsRoute, Route!Spec

\* As AudioRoute sees it, whatever the switch does: what is selected or held
\* back is a source, and each source has a player or none yet.
RouteTypes ==
    /\ sources = [s \in SourceId |-> sources[s]]
    /\ current_source_id \in SourceOrNone
    /\ pending.source_id \in SourceOrNone

(* AudioRoute promises what its callers rely on: whoever follows its rule  *)
(* never has a source selected or held back whose player is not active.    *)
THEOREM RouteIsConsistent == ImplementsRoute => []Route!RouteConsistent
<1> DEFINE RouteInv == RouteTypes /\ Route!RouteConsistent
<1> USE DEF Route!NoSource, Route!OwnsPlayer, Route!vars, RouteTypes, SourceOrNone,
            Route!RouteConsistent
<1>1. Route!Init => RouteInv
  BY DEF Route!Init
<1>2. RouteInv /\ [Route!Next]_Route!vars => RouteInv'
  <2> SUFFICES ASSUME RouteInv, [Route!Next]_Route!vars PROVE RouteInv'
    OBVIOUS
  <2>1. CASE Route!StopPlayer \/ Route!Deselect \/ UNCHANGED Route!vars
    BY <2>1 DEF Route!StopPlayer, Route!Deselect
  <2>2. ASSUME NEW p \in PlayerId, Route!StartPlayer(p) PROVE RouteInv'
    BY <2>2 DEF Route!StartPlayer
  <2>3. ASSUME NEW p \in PlayerId, NEW s \in SourceId, Route!Declare(s, p) PROVE RouteInv'
    BY <2>3 DEF Route!Declare
  <2>4. ASSUME NEW s \in SourceId, Route!Select(s) \/ Route!Hold(s) PROVE RouteInv'
    BY <2>4 DEF Route!Select, Route!Hold
  <2> QED BY <2>1, <2>2, <2>3, <2>4 DEF Route!Next
<1>3. RouteInv => Route!RouteConsistent
  OBVIOUS
<1> QED BY <1>1, <1>2, <1>3, PTL DEF ImplementsRoute, Route!Spec

---------------------------------------------------------------------------
(* Member functions end.  Fairness is not for this prover, but what it is  *)
(* needed for is: how many steps a member function still may take.         *)

StepsLeft ==
    (CASE pc \in {"idle", "crashed"} -> 0
       [] pc = "return" -> 1
       [] pc \in {"select", "cancel"} -> 3
       [] pc = "activate" -> 5
       [] pc = "players" -> 7
       [] pc = "deselect" -> 9)
    - (IF call = NoCall THEN 0 ELSE 1)

\* A call that is made, and each that returns, leaves fewer steps to do.
LEMMA FewerStepsLeft ==
  ASSUME Inv, SwitchNext, pc # "idle"
  PROVE  StepsLeft \in Nat /\ StepsLeft' \in Nat /\ StepsLeft' < StepsLeft
<1> USE DEF StepsLeft, Inv, SwitchInv, NoCall
<1>1. Continue \/ Return
  BY DEF SwitchNext, Enter, ActivateSource, RejectSource, KeepSource, BeginSwitch,
         ReleasePath, CompletePending, CancelPending, NothingPending, BeginComplete,
         BeginCancel, Register, RegisterPlayer, RegisterSource
<1>2. CASE Return
  BY <1>2 DEF Return
<1>3. CASE SkipDeactivate
  BY <1>3 DEF SkipDeactivate, AfterPlayers
<1>4. CASE MakeCall
  BY <1>4 DEF MakeCall, CallDeselected, CallDeactivate, CallActivate, CallSelected,
              CallCanceled, CallPeer
<1>5. ASSUME NEW ok \in BOOLEAN, CallReturns(ok)
      PROVE  StepsLeft \in Nat /\ StepsLeft' \in Nat /\ StepsLeft' < StepsLeft
  BY <1>5 DEF CallReturns, DeselectedReturned, DeactivateReturned, ActivateReturned,
              SelectedReturned, CanceledReturned, Returned, AfterPlayers
<1> QED BY <1>1, <1>2, <1>3, <1>4, <1>5 DEF Continue

(* No loop keeps the daemon busy: each step of a member function that has  *)
(* begun, a D-Bus call, the return of one, or what is in between, brings   *)
(* it closer to its end, whichever calls fail, so that it takes nine steps *)
(* at most.  HandlersFinish needs nothing else than that steps are taken.  *)
THEOREM StepsRunOut ==
  SwitchSpec => [][pc # "idle" => /\ StepsLeft' \in Nat
                                  /\ StepsLeft' < StepsLeft /\ StepsLeft <= 9]_switchAllVars
<1>1. Inv /\ [SwitchNext]_switchAllVars
        => [pc # "idle" => /\ StepsLeft' \in Nat
                           /\ StepsLeft' < StepsLeft /\ StepsLeft <= 9]_switchAllVars
  <2>1. Inv => StepsLeft <= 9
    BY DEF StepsLeft, Inv, SwitchTypeOK, Location
  <2> QED BY <2>1, FewerStepsLeft
<1> QED BY <1>1, InvAlways, PTL DEF SwitchSpec

\* There is always a number of steps left.
LEMMA StepsCount == Inv => StepsLeft \in 0..9
  BY DEF StepsLeft, Inv, SwitchInv, SwitchTypeOK, Location, NoCall

---------------------------------------------------------------------------
(* Liveness, as far as it does not need ENABLED: what follows when no      *)
(* member function that has begun stays where it is for ever.              *)

\* A member function is under way, and has this many steps left.
At(k) == pc # "idle" /\ StepsLeft = k

Within(k) == pc # "idle" /\ StepsLeft <= k

Closer(k) == Within(k - 1)

GoesOn(k) == []<>~At(k)

SwitchGoesOn == \A k \in 0..9 : GoesOn(k)

StepsBounded == [](StepsLeft \in 0..9)

NoStepBack == [][pc # "idle" => pc' = "idle" \/ StepsLeft' <= StepsLeft]_switchAllVars

\* A member function gets from one step to a later one, or to its end.
Shrinks(k) ==
    StepsBounded /\ NoStepBack /\ GoesOn(k) => (Within(k) ~> (pc = "idle" \/ Closer(k)))

LEMMA WithinShrinks == ASSUME NEW k \in 0..9 PROVE Shrinks(k)
<1>1. StepsLeft \in 0..9 => (Within(k) => At(k) \/ Closer(k))
  BY DEF At, Closer, Within
<1>2. StepsLeft \in 0..9 /\ (StepsLeft \in 0..9)' /\ Within(k)
      /\ [pc # "idle" => pc' = "idle" \/ StepsLeft' <= StepsLeft]_switchAllVars
        => Within(k)' \/ (pc = "idle")'
  <2>1. UNCHANGED switchAllVars => StepsLeft' = StepsLeft
    BY DEF switchAllVars, switchVars, StepsLeft
  <2> QED BY <2>1 DEF Within
<1>3. Within(k) => ~(pc = "idle")
  BY DEF Within
<1> QED BY <1>1, <1>2, <1>3, PTL DEF StepsBounded, NoStepBack, GoesOn, Shrinks

\* The daemon always gets back to where it can take the next request.
LEMMA IdleAgain == StepsBounded /\ NoStepBack /\ SwitchGoesOn => []<>(pc = "idle")
<1>1. SwitchGoesOn => /\ GoesOn(0) /\ GoesOn(1) /\ GoesOn(2) /\ GoesOn(3) /\ GoesOn(4)
                      /\ GoesOn(5) /\ GoesOn(6) /\ GoesOn(7) /\ GoesOn(8) /\ GoesOn(9)
  BY DEF SwitchGoesOn
<1>2. /\ Shrinks(0) /\ Shrinks(1) /\ Shrinks(2) /\ Shrinks(3) /\ Shrinks(4)
      /\ Shrinks(5) /\ Shrinks(6) /\ Shrinks(7) /\ Shrinks(8) /\ Shrinks(9)
  BY WithinShrinks
<1>3. /\ Closer(9) => Within(8)
      /\ Closer(8) => Within(7)
      /\ Closer(7) => Within(6)
      /\ Closer(6) => Within(5)
      /\ Closer(5) => Within(4)
      /\ Closer(4) => Within(3)
      /\ Closer(3) => Within(2)
      /\ Closer(2) => Within(1)
      /\ Closer(1) => Within(0)
  BY DEF Closer
<1>4. StepsLeft \in 0..9 => ~Closer(0) /\ (~(pc = "idle") => Within(9))
  BY DEF Closer, Within
<1> QED BY <1>1, <1>2, <1>3, <1>4, PTL DEF StepsBounded, Shrinks

---------------------------------------------------------------------------
(* Null proxies.                                                           *)

\* No component is registered with the null pointer.
NoNullPeer ==
    /\ \A p \in PlayerId : players[p] # NullProxy
    /\ \A s \in SourceId : source_proxy[s] # NullProxy

\* Each call is made through the proxy of a component that is registered, so
\* that a member function ends as long as none has the null pointer.
LEMMA StepsCallable ==
  ASSUME Inv, NoNullPeer, PeersCanBeCalled, Enter \/ Continue \/ Return
  PROVE  NoNullPeer' /\ PeersCanBeCalled'
<1> USE DEF PeersCanBeCalled
<1>1. CASE Enter
  BY <1>1 DEF Enter, ActivateSource, RejectSource, KeepSource, BeginSwitch, AfterEntry,
              ReleasePath, CompletePending, CancelPending, NothingPending, BeginComplete,
              BeginCancel, pathsVars, NoNullPeer
<1>2. CASE SkipDeactivate \/ Return
  BY <1>2 DEF SkipDeactivate, AfterPlayers, Return, pathsVars, NoNullPeer
<1>3. CASE MakeCall
  <2>1. ASSUME NEW method, NEW to, NEW peer, peer # NullProxy, CallPeer(method, to, peer)
        PROVE  NoNullPeer' /\ PeersCanBeCalled'
    BY <2>1 DEF CallPeer, pathsVars, NoNullPeer
  <2>2. LookupsSucceed /\ call = NoCall
    BY <1>3, InvLookups DEF MakeCall, CallDeselected, CallDeactivate, CallActivate,
                            CallSelected, CallCanceled, CallPeer
  <2> QED BY <1>3, <2>1, <2>2
          DEF LookupsSucceed, KnownSource, KnownPlayer, MakeCall, CallDeselected,
              CallDeactivate, CallActivate, CallSelected, CallCanceled, NoNullPeer
<1>4. ASSUME NEW ok \in BOOLEAN, CallReturns(ok) PROVE NoNullPeer' /\ PeersCanBeCalled'
  BY <1>4 DEF CallReturns, DeselectedReturned, DeactivateReturned, ActivateReturned,
              SelectedReturned, CanceledReturned, Returned, AfterPlayers, pathsVars, NoNullPeer
<1> QED BY <1>1, <1>2, <1>3, <1>4 DEF Continue

\* Registering leaves it so if the proxy could be created.
LEMMA AddCallable ==
  ASSUME SwitchTypeOK, NoNullPeer, NEW proxy, proxy # NullProxy,
         \/ \E p \in PlayerId : AddPlayer(p, proxy)
         \/ \E s \in SourceId, p \in PlayerId : AddSource(s, p, proxy)
  PROVE  NoNullPeer'
  BY DEF SwitchTypeOK, PathsTypeOK, NoNullPeer, AddPlayer, AddSource

(* PeersCanBeCalled: the null pointers of the registration handlers are    *)
(* the only ones.  If all proxies can be created, no call is made through  *)
(* one, whatever is looked up, called and registered again in whichever    *)
(* order.                                                                  *)
THEOREM PeersCanBeCalledUnlessNull ==
  ASSUME NullProxy \notin ProxyOutcome
  PROVE  SwitchSpec => []PeersCanBeCalled
<1> DEFINE Callable == NoNullPeer /\ PeersCanBeCalled
<1>1. SwitchInit => Callable
  BY NullProxyIsNoProxy DEF SwitchInit, PathsInit, NoNullPeer, PeersCanBeCalled
<1>2. Inv /\ Callable /\ [SwitchNext]_switchAllVars => Callable'
  <2> SUFFICES ASSUME Inv, Callable, [SwitchNext]_switchAllVars PROVE Callable'
    OBVIOUS
  <2>1. CASE Register
    <3>1. PeersCanBeCalled'
      BY <2>1 DEF Register, RegisterPlayer, RegisterSource, switchVars, PeersCanBeCalled
    <3>2. \A w \in Wiring : w[1] \in SourceId /\ w[2] \in PlayerId
      BY WiringIsTyped
    <3> QED BY <2>1, <3>1, <3>2, AddCallable
            DEF Inv, Register, RegisterPlayer, RegisterSource
  <2>2. CASE UNCHANGED switchAllVars
    BY <2>2 DEF switchAllVars, switchVars, pathsVars, NoNullPeer, PeersCanBeCalled
  <2> QED BY <2>1, <2>2, StepsCallable DEF SwitchNext
<1>3. Callable => PeersCanBeCalled
  OBVIOUS
<1> QED BY <1>1, <1>2, <1>3, InvAlways, PTL DEF SwitchSpec
=============================================================================
