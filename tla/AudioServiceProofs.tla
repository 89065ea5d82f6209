------------------------- MODULE AudioServiceProofs -------------------------
(***************************************************************************)
(* Proofs about a daemon that ends at any time and is started again while  *)
(* players and sources go on, for any number of processes, incarnations,   *)
(* timeouts and lives of the daemon.                                       *)
(*                                                                         *)
(* While the daemon lives, switch and processes take the steps of          *)
(* AudioSystem, and when it ends, the switch is as at the start.  The      *)
(* invariants of AudioSystem hold again, for the processes that are not    *)
(* orphans: an orphan may believe what it likes, but the switch does not   *)
(* rely on it before it has answered a call of this daemon.                *)
(***************************************************************************)
EXTENDS AudioService, AudioSystemProofs

USE ProcessesDiffer, MortalIsProcess, ProxyIsIncarnation, TimeoutsBounded,
    ProxyIsCreated, NoneIsNothing, NullProxyIsNoProxy, FragileIsProcess, InboxBounded

---------------------------------------------------------------------------
(* The steps.                                                              *)

\* A process acts, and the daemon takes no notice.
ProcessActsAlone(process, ok) == Crash(process) \/ Restart(process) \/ HandleLate(process, ok)

\* Only a daemon that has not crashed works on requests, and it does so as
\* in AudioSystem.
LEMMA WorkIsSystemStep ==
  ASSUME ServeRequest \/ HandlerGoesOn
  PROVE  SystemNext /\ pc # "crashed"
<1>1. ASSUME Enter PROVE pc = "idle"
  BY <1>1 DEF Enter, ActivateSource, RejectSource, KeepSource, BeginSwitch, ReleasePath,
              CompletePending, CancelPending, NothingPending, BeginComplete, BeginCancel
<1>2. ASSUME SkipDeactivate \/ MakeCall \/ Return PROVE pc # "crashed"
  BY <1>2 DEF SkipDeactivate, MakeCall, CallDeselected, CallDeactivate, CallActivate,
              CallSelected, CallCanceled, Return
<1>3. ASSUME NEW ok \in BOOLEAN, CallReturns(ok) PROVE pc # "crashed"
  BY <1>3 DEF CallReturns, DeselectedReturned, DeactivateReturned, ActivateReturned,
              SelectedReturned, CanceledReturned, Returned
<1> QED BY <1>1, <1>2, <1>3 DEF ServeRequest, HandlerGoesOn, SystemNext, DaemonStep,
                               CallEnds, PeerAnswers, PeerGone, TimesOut

\* The daemon works on a request, a process acts, a process registers, a
\* query crashes the daemon, the daemon ends, or nothing that matters happens.
LEMMA ServiceSteps ==
  ASSUME [ServiceNext]_allVars
  PROVE  \/ ServeRequest \/ HandlerGoesOn
         \/ \E process \in Process, ok \in BOOLEAN :
               ProcessActsAlone(process, ok) /\ orphans' = orphans
         \/ ServeRegistration \/ ServeQuery \/ End
         \/ UNCHANGED <<systemVars, orphans>>
<1>1. CASE ProcessActs
  BY <1>1 DEF ProcessActs, ProcessActsAlone, serviceVars
<1>2. CASE StartUp \/ SignalArrives \/ SignalHandler \/ UNCHANGED allVars
  BY <1>2 DEF StartUp, Start, BusAcquired, NameAcquired, ConnectSignals, Advance,
              SignalArrives, SignalHandler, allVars, serviceVars
<1>3. CASE NameLost \/ SignalKills \/ Shutdown \/ SegmentationFault
  BY <1>3 DEF NameLost, SignalKills, Shutdown, SegmentationFault
<1> QED BY <1>1, <1>2, <1>3 DEF ServiceNext, Serve

---------------------------------------------------------------------------
(* Types, and the switch.  A query may crash a daemon whose switch is      *)
(* idle; until the process is gone, nothing is known of the switch then.   *)

ServiceInv == ServiceTypeOK /\ (pc # "crashed" => SwitchInv)

\* The invariant of the system holds unless the daemon has crashed.
LEMMA Working == ServiceInv /\ pc # "crashed" => SystemInv
  BY DEF ServiceInv, ServiceTypeOK, SystemInv, Inv, SystemTypeOK

\* At first the daemon does not run.
LEMMA ServiceInitInv == ServiceInit => ServiceInv
  BY SystemInitInv DEF ServiceInit, ServiceInv, ServiceTypeOK, Stage, SystemInv, Inv

\* When the daemon ends, the switch is what it will be at the next start.
LEMMA EndForgets ==
  ASSUME Forget
  PROVE  Inv' /\ current_player_id' = None /\ current_source_id' = None
         /\ pending'.source_id = None /\ call' = NoCall
<1>1. SwitchInit'
  BY DEF Forget, SwitchInit, PathsInit
<1>2. Inv'
  BY <1>1, InitInv, PTL
<1> QED BY <1>2 DEF Forget, NoPending

\* A call that is under way when the daemon ends is one more late call.
LEMMA EndTypes ==
  ASSUME ServiceInv, End
  PROVE  SystemTypeOK' /\ orphans' \subseteq Process
<1> USE DEF ServiceInv, ServiceTypeOK, SystemTypeOK
<1>1. SwitchTypeOK'
  BY EndForgets DEF End, Inv
<1>2. late' \in [Process -> Seq(Call)]
  BY CallTarget DEF End
<1> QED BY <1>1, <1>2 DEF End

\* Registering stores a proxy or the null pointer.
LEMMA RegistrationInv ==
  ASSUME ServiceInv, ServeRegistration
  PROVE  Inv'
<1>1. Inv /\ pc = "idle" /\ UNCHANGED switchVars
  BY Working DEF ServeRegistration, SystemInv
<1>2. \A c \in Process : Created(c) \subseteq StoredProxy
  BY DEF Created, StoredProxy, ServiceInv, ServiceTypeOK, SystemTypeOK
<1>3. ASSUME NEW p \in PlayerId, PlayerIsRegistered(p) PROVE Inv'
  BY <1>1, <1>2, <1>3, AddPlayerInv DEF PlayerIsRegistered, Process
<1>4. ASSUME NEW s \in SourceId, NEW p \in PlayerId, SourceIsRegistered(s, p) PROVE Inv'
  BY <1>1, <1>2, <1>4, AddSourceInv DEF SourceIsRegistered, Process
<1>5. \A w \in Wiring : w[1] \in SourceId /\ w[2] \in PlayerId
  BY WiringIsTyped
<1> QED BY <1>3, <1>4, <1>5 DEF ServeRegistration

\* Every step preserves ServiceInv.
LEMMA ServiceNextInv == ServiceInv /\ [ServiceNext]_allVars => ServiceInv'
<1> SUFFICES ASSUME ServiceInv, [ServiceNext]_allVars PROVE ServiceInv'
  OBVIOUS
<1>0. stage' \in Stage /\ sigterm' \in BOOLEAN
  BY DEF ServiceInv, ServiceTypeOK, Stage, ServiceNext, Serve, ServeRegistration,
         ServeRequest, ServeQuery, HandlerGoesOn, StartUp, Start, BusAcquired, NameAcquired,
         ConnectSignals, Advance, NameLost, SignalKills, SignalArrives, SignalHandler,
         Shutdown, SegmentationFault, End, ProcessActs, serviceVars, allVars
<1>1. ASSUME SystemTypeOK', orphans' \subseteq Process, pc' = "crashed" \/ SwitchInv'
      PROVE  ServiceInv'
  BY <1>0, <1>1 DEF ServiceInv, ServiceTypeOK
<1>2. orphans \subseteq Process /\ SystemTypeOK
  BY DEF ServiceInv, ServiceTypeOK
<1>3. CASE ServeRequest \/ HandlerGoesOn
  <2>1. SystemInv'
    BY <1>3, WorkIsSystemStep, Working, SystemNextInv
  <2>2. orphans' \subseteq Process
    BY <1>2, <1>3 DEF ServeRequest, HandlerGoesOn, serviceVars
  <2> QED BY <1>1, <2>1, <2>2 DEF SystemInv, Inv
<1>4. ASSUME NEW process \in Process, NEW ok \in BOOLEAN,
             ProcessActsAlone(process, ok), orphans' = orphans
      PROVE  ServiceInv'
  <2>1. SystemTypeOK'
    BY <1>2, <1>4, ProcessTypes DEF ProcessActsAlone
  <2>2. UNCHANGED switchAllVars
    BY <1>4 DEF ProcessActsAlone, Crash, Restart, HandleLate
  <2>3. pc # "crashed" => SwitchInv'
    BY <2>2, Working, NextInv DEF SystemInv, Inv
  <2>4. pc' = pc
    BY <2>2 DEF switchAllVars, switchVars
  <2> QED BY <1>1, <1>2, <1>4, <2>1, <2>3, <2>4
<1>5. CASE ServeRegistration
  <2>1. Inv'
    BY <1>5, RegistrationInv
  <2>2. SystemTypeOK' /\ orphans' \subseteq Process
    BY <1>2, <1>5, <2>1 DEF ServeRegistration, processVars, serviceVars, SystemTypeOK, Inv
  <2> QED BY <1>1, <2>1, <2>2 DEF Inv
<1>6. CASE ServeQuery
  <2>1. SwitchTypeOK'
    BY <1>2, <1>6 DEF ServeQuery, SystemTypeOK, SwitchTypeOK, PathsTypeOK, pathsVars, Location
  <2>2. SystemTypeOK' /\ orphans' \subseteq Process
    BY <1>2, <1>6, <2>1 DEF ServeQuery, processVars, serviceVars, SystemTypeOK
  <2> QED BY <1>1, <1>6, <2>2 DEF ServeQuery
<1>7. CASE End
  BY <1>1, <1>7, EndTypes, EndForgets DEF End, Inv
<1>8. CASE UNCHANGED <<systemVars, orphans>>
  <2>1. UNCHANGED switchAllVars /\ UNCHANGED processVars
    BY <1>8 DEF systemVars
  <2>2. pc # "crashed" => SwitchInv'
    BY <2>1, Working, NextInv DEF SystemInv, Inv
  <2>3. pc' = pc
    BY <2>1 DEF switchAllVars, switchVars
  <2>4. SystemTypeOK'
    BY <1>2, <2>1 DEF SystemTypeOK, SwitchTypeOK, PathsTypeOK, switchAllVars, switchVars,
                      pathsVars, processVars
  <2> QED BY <1>1, <1>2, <1>8, <2>2, <2>3, <2>4
<1> QED BY <1>3, <1>4, <1>5, <1>6, <1>7, <1>8, ServiceSteps

\* ServiceInv is an invariant.
LEMMA ServiceInvAlways == ServiceSpec => []ServiceInv
  BY ServiceInitInv, ServiceNextInv, PTL DEF ServiceSpec

(* The variables of the daemon and of the processes have their types,      *)
(* however often the daemon ends and starts again.                         *)
THEOREM ServiceTypeCorrect == ServiceSpec => []ServiceTypeOK
<1>1. ServiceInv => ServiceTypeOK
  BY DEF ServiceInv
<1> QED BY <1>1, ServiceInvAlways, PTL

(* The switch keeps its promises over any number of ends and starts, in    *)
(* the middle of handlers or not, as long as no null pointer has been used:*)
(* a selected source and a pending one never meet, the path is intact, no  *)
(* lookup fails, and the calls are made in order.                          *)
THEOREM ServiceSwitchSafe == ServiceSpec => [](pc # "crashed" => SwitchSafe)
<1>1. ServiceInv => (pc # "crashed" => SwitchSafe)
  BY Working, InvSafe DEF SystemInv
<1> QED BY <1>1, ServiceInvAlways, PTL

---------------------------------------------------------------------------
(* Each daemon relies on what it has told itself.                          *)

NoneOrphaned == orphans \cap {current_player_id, current_source_id, pending.source_id} = {}

ServiceBelief == BeliefInv /\ NoneOrphaned

\* Whom the daemon relies on has answered it.
LEMMA WorkOrphans ==
  ASSUME ServiceInv, ServiceBelief, ServeRequest \/ HandlerGoesOn
  PROVE  NoneOrphaned'
<1>0. /\ SystemInv /\ BeliefInv /\ NoneOrphaned
      /\ orphans \subseteq Process /\ None \notin Process
  BY WorkIsSystemStep, Working DEF ServiceBelief, ServiceInv, ServiceTypeOK, Process
<1>1. CASE Enter \/ SkipDeactivate \/ MakeCall \/ Return
  <2>1. orphans' \subseteq orphans
    BY DEF ServeRequest, HandlerGoesOn, serviceVars
  <2> QED BY <1>0, <1>1, <2>1, DaemonKeeps DEF NoneOrphaned, NoPending
<1>2. ASSUME NEW ok \in BOOLEAN, CallReturns(ok), call # NoCall,
             orphans' = IF ok THEN orphans \ {call.to} ELSE orphans
      PROVE  NoneOrphaned'
  BY <1>0, <1>2, CallReturnsBelief DEF NoneOrphaned, HavePending
<1>3. ASSUME NEW ok \in BOOLEAN, PeerAnswers(ok), orphans' = orphans \ {call.to}
      PROVE  NoneOrphaned'
  <2>1. CallReturns(ok) /\ call # NoCall
    BY <1>3 DEF PeerAnswers
  <2> QED BY <1>0, <1>3, <2>1, CallReturnsBelief DEF NoneOrphaned, HavePending
<1> QED BY <1>1, <1>2, <1>3
        DEF ServeRequest, HandlerGoesOn, PeerGone, TimesOut, serviceVars

\* Every step preserves ServiceBelief.
LEMMA ServiceBeliefNext ==
  ServiceInv /\ ServiceBelief /\ [ServiceNext]_allVars => ServiceBelief'
<1> SUFFICES ASSUME ServiceInv, ServiceBelief, [ServiceNext]_allVars PROVE ServiceBelief'
  OBVIOUS
<1>0. BeliefInv /\ NoneOrphaned /\ SystemTypeOK
  BY DEF ServiceBelief, ServiceInv, ServiceTypeOK
<1>1. CASE ServeRequest \/ HandlerGoesOn
  BY <1>0, <1>1, WorkIsSystemStep, Working, BeliefNext, WorkOrphans DEF ServiceBelief
<1>2. ASSUME NEW process \in Process, NEW ok \in BOOLEAN,
             ProcessActsAlone(process, ok), orphans' = orphans
      PROVE  ServiceBelief'
  <2>1. BeliefInv'
    BY <1>0, <1>2, ProcessBelief DEF ProcessActsAlone
  <2>2. UNCHANGED <<current_player_id, current_source_id, pending>>
    BY <1>2 DEF ProcessActsAlone, Crash, Restart, HandleLate, switchAllVars, switchVars
  <2> QED BY <1>0, <1>2, <2>1, <2>2 DEF ServiceBelief, NoneOrphaned
<1>3. ASSUME UNCHANGED <<current_player_id, current_source_id, pending, told, late, orphans>>
      PROVE  ServiceBelief'
  BY <1>0, <1>3 DEF ServiceBelief, NoneOrphaned, BeliefInv, Trusted, HavePending
<1>4. CASE ServeRegistration \/ ServeQuery \/ UNCHANGED <<systemVars, orphans>>
  BY <1>3, <1>4 DEF ServeRegistration, ServeQuery, systemVars, switchAllVars, switchVars,
                    processVars, serviceVars
<1>5. CASE End
  <2>1. /\ current_player_id' = None /\ current_source_id' = None
        /\ pending'.source_id = None
    BY <1>5, EndForgets DEF End
  <2>2. None \notin orphans'
    BY <1>5, EndTypes DEF Process
  <2> QED BY <2>1, <2>2 DEF ServiceBelief, NoneOrphaned, BeliefInv, HavePending
<1> QED BY <1>1, <1>2, <1>4, <1>5, ServiceSteps

(* ToldByThisDaemon: whatever an earlier daemon has told, and whichever of *)
(* its calls are handled later, a daemon relies only on processes that it  *)
(* has told what it relies on, and that have heard nothing since.          *)
THEOREM ToldByThisDaemonAlways == ServiceSpec => []ToldByThisDaemon
<1>1. ServiceInit => ServiceBelief
  BY BeliefInit DEF ServiceInit, ServiceBelief, NoneOrphaned
<1>2. ServiceBelief => ToldByThisDaemon
  BY DEF ServiceBelief, NoneOrphaned, BeliefInv, Trusted, ToldByThisDaemon,
         SwitchBelievesProcesses
<1> QED BY <1>1, <1>2, ServiceInvAlways, ServiceBeliefNext, PTL DEF ServiceSpec

---------------------------------------------------------------------------
(* What a process that is no orphan was told, or will be told by a late    *)
(* call, came through the proxy the daemon would use for it, unless it has *)
(* a null pointer for it by now; so that the call which takes it back      *)
(* reaches the process, or is the end of the daemon.                       *)

MayBelieve(c) ==
    \/ up[c] /\ told[c].life = life[c] /\ told[c].what # "no"
    \/ late[c] # <<>>

LateToRunning ==
    \A c \in Process : late[c] # <<>> =>
        up[c] /\ \A k \in DOMAIN late[c] : late[c][k].peer = life[c]

HeardThroughRegistered ==
    \A c \in Process \ orphans : MayBelieve(c) => Registered(c) \in {life[c], NullProxy}

ServiceTold ==
    /\ \A c \in Process : told[c].life <= life[c]
    /\ LateToRunning
    /\ HeardThroughRegistered
    /\ CallsRegistered

\* Nobody has been told anything.
LEMMA ServiceToldInit == ServiceInit => ServiceTold
<1> SUFFICES ASSUME ServiceInit PROVE ServiceTold
  OBVIOUS
<1>1. /\ \A c \in Process : late[c] = <<>> /\ told[c] = [what |-> "no", life |-> 0]
                            /\ life[c] = 1
      /\ call = NoCall
  BY DEF ServiceInit, SystemInit, SwitchInit
<1> QED BY <1>1 DEF ServiceTold, LateToRunning, HeardThroughRegistered, MayBelieve,
           CallsRegistered

\* A call that is put into the inbox of a process was made to it as it runs.
LEMMA LateAppended ==
  ASSUME SystemTypeOK, LateToRunning, call # NoCall, Reachable(call),
         late' = [late EXCEPT ![call.to] = Append(@, call)], UNCHANGED <<life, up>>
  PROVE  LateToRunning'
<1>1. /\ call \in Call /\ call.to \in Process
      /\ late \in [Process -> Seq(Call)]
      /\ up[call.to] /\ life[call.to] = call.peer
  BY CallTarget DEF SystemTypeOK, Reachable
<1>2. /\ \A c \in Process : c # call.to => late'[c] = late[c]
      /\ late'[call.to] = Append(late[call.to], call)
      /\ late[call.to] \in Seq(Call)
  BY <1>1
<1>3. ASSUME NEW k \in DOMAIN late'[call.to] PROVE late'[call.to][k].peer = life[call.to]
  <2>1. CASE k \in DOMAIN late[call.to]
    BY <1>1, <1>2, <2>1 DEF LateToRunning
  <2>2. CASE k = Len(late[call.to]) + 1
    BY <1>1, <1>2, <2>2
  <2> QED BY <1>2, <1>3, <2>1, <2>2
<1> SUFFICES ASSUME NEW c \in Process, late'[c] # <<>>
             PROVE  up[c] /\ \A k \in DOMAIN late'[c] : late'[c][k].peer = life[c]
  BY DEF LateToRunning
<1>4. CASE c = call.to
  BY <1>1, <1>3, <1>4
<1>5. CASE c # call.to
  BY <1>2, <1>5 DEF LateToRunning
<1> QED BY <1>4, <1>5

\* Whom a call reaches was called through the proxy that is registered.
LEMMA WorkTold ==
  ASSUME ServiceInv, ServiceTold, ServeRequest \/ HandlerGoesOn
  PROVE  ServiceTold'
<1>0. /\ SystemInv /\ SystemTypeOK /\ SwitchTypeOK
      /\ life \in [Process -> Proxy] /\ told \in [Process -> Told]
      /\ late \in [Process -> Seq(Call)]
  BY WorkIsSystemStep, Working DEF ServiceInv, ServiceTypeOK, SystemTypeOK
<1>1. CASE (Enter \/ SkipDeactivate \/ MakeCall \/ Return) /\ UNCHANGED <<processVars, orphans>>
  <2>1. \A c : Registered(c)' = Registered(c)
    BY <1>1, DaemonKeeps DEF Registered
  <2>2. CallsRegistered'
    <3>1. CASE MakeCall
      BY <1>0, <3>1, MakeCallRegistered
    <3>2. CASE ~MakeCall
      BY <1>1, <2>1, <3>2, DaemonKeeps DEF ServiceTold, CallsRegistered
    <3> QED BY <3>1, <3>2
  <2> QED BY <1>1, <2>1, <2>2
          DEF processVars, ServiceTold, LateToRunning, HeardThroughRegistered, MayBelieve
<1>2. ASSUME NEW ok \in BOOLEAN, CallReturns(ok)
      PROVE  /\ call # NoCall /\ call' = NoCall
             /\ call.to \in Process /\ call.peer = Registered(call.to)
             /\ \A c : Registered(c)' = Registered(c)
  BY <1>0, <1>2, CallReturnsKeeps, CallTarget DEF Registered, ServiceTold, CallsRegistered
<1>3. ASSUME NEW ok \in BOOLEAN, PeerAnswers(ok), orphans' = orphans \ {call.to}
      PROVE  ServiceTold'
  <2>1. /\ \A c \in Process : c # call.to => told'[c] = told[c]
        /\ told'[call.to].life = life[call.to]
        /\ Registered(call.to) = life[call.to]
        /\ UNCHANGED <<life, up, late>>
    BY <1>0, <1>2, <1>3 DEF PeerAnswers, Hear, Reachable
  <2>2. \A c \in Process : told'[c].life <= life'[c]
    <3>1. call.to \in Process /\ life \in [Process -> Nat]
      BY <1>0, <1>2, <1>3 DEF PeerAnswers
    <3> QED BY <2>1, <3>1 DEF ServiceTold
  <2>3. HeardThroughRegistered'
    BY <1>2, <1>3, <2>1 DEF PeerAnswers, ServiceTold, HeardThroughRegistered, MayBelieve
  <2> QED BY <1>2, <1>3, <2>1, <2>2, <2>3
          DEF PeerAnswers, ServiceTold, LateToRunning, CallsRegistered
<1>4. CASE PeerGone /\ orphans' = orphans
  <2>1. /\ call' = NoCall /\ \A c : Registered(c)' = Registered(c)
        /\ UNCHANGED <<life, up, told, late, orphans>>
    BY <1>2, <1>4 DEF PeerGone, processVars
  <2> QED BY <2>1 DEF ServiceTold, LateToRunning, HeardThroughRegistered, MayBelieve,
                      CallsRegistered
<1>5. CASE TimesOut /\ orphans' = orphans
  <2>1. /\ call # NoCall /\ Reachable(call) /\ UNCHANGED <<life, up, told>>
        /\ late' = [late EXCEPT ![call.to] = Append(@, call)]
        /\ Registered(call.to) = life[call.to]
    BY <1>2, <1>5 DEF TimesOut, Reachable
  <2>2. LateToRunning'
    BY <1>0, <2>1, LateAppended DEF ServiceTold
  <2>3. HeardThroughRegistered'
    <3>1. \A c \in Process : c # call.to => late'[c] = late[c]
      BY <1>0, <2>1
    <3> QED BY <1>2, <1>5, <2>1, <3>1
            DEF TimesOut, ServiceTold, HeardThroughRegistered, MayBelieve
  <2> QED BY <1>2, <1>5, <2>1, <2>2, <2>3 DEF TimesOut, ServiceTold, CallsRegistered
<1> QED BY <1>1, <1>3, <1>4, <1>5 DEF ServeRequest, HandlerGoesOn, serviceVars

\* A process comes, goes, or gets to a late call.
LEMMA ProcessServiceTold ==
  ASSUME SystemTypeOK, ServiceTold, NEW process \in Process, NEW ok \in BOOLEAN,
         ProcessActsAlone(process, ok), orphans' = orphans
  PROVE  ServiceTold'
<1>0. /\ life \in [Process -> Nat] /\ up \in [Process -> BOOLEAN]
      /\ late \in [Process -> Seq(Call)]
      /\ told \in [Process -> Told] /\ \A c \in Process : told[c].life \in Nat
  BY DEF SystemTypeOK, Told
<1>1. /\ call' = call
      /\ \A c : Registered(c)' = Registered(c)
  BY DEF ProcessActsAlone, Crash, Restart, HandleLate, switchAllVars, switchVars, pathsVars,
         Registered
<1>2. \A c \in Process : c # process =>
          life'[c] = life[c] /\ up'[c] = up[c] /\ told'[c] = told[c] /\ late'[c] = late[c]
  BY <1>0 DEF ProcessActsAlone, Crash, Restart, HandleLate, Hear
<1>3. /\ told'[process].life <= life'[process]
      /\ MayBelieve(process)' => MayBelieve(process) /\ life'[process] = life[process]
      /\ late'[process] # <<>> =>
            /\ up'[process]
            /\ \A k \in DOMAIN late'[process] : late'[process][k].peer = life'[process]
  <2>1. CASE Crash(process)
    BY <1>0, <2>1 DEF Crash, ServiceTold, MayBelieve
  <2>2. CASE Restart(process)
    <3>1. late[process] = <<>> /\ told[process].life <= life[process]
      BY <2>2 DEF Restart, ServiceTold, LateToRunning
    <3>2. /\ life'[process] = life[process] + 1 /\ late' = late /\ told' = told
          /\ life[process] \in Nat
      BY <1>0, <2>2 DEF Restart
    <3> QED BY <1>0, <3>1, <3>2 DEF MayBelieve
  <2>3. CASE HandleLate(process, ok)
    <3>1. /\ late[process] # <<>> /\ late[process] \in Seq(Call)
          /\ late'[process] = Tail(late[process])
          /\ told'[process].life = Head(late[process]).peer
          /\ UNCHANGED <<life, up>>
      BY <1>0, <2>3 DEF HandleLate, Hear
    <3>2. /\ up[process]
          /\ \A k \in DOMAIN late[process] : late[process][k].peer = life[process]
      BY <3>1 DEF ServiceTold, LateToRunning
    <3>3. Head(late[process]).peer = life[process]
      BY <3>1, <3>2
    <3>4. \A k \in DOMAIN Tail(late[process]) : Tail(late[process])[k].peer = life[process]
      BY <3>1, <3>2
    <3> QED BY <1>0, <3>1, <3>2, <3>3, <3>4 DEF MayBelieve
  <2> QED BY <2>1, <2>2, <2>3 DEF ProcessActsAlone
<1>4. \A c \in Process : c # process => (MayBelieve(c)' <=> MayBelieve(c))
  BY <1>2 DEF MayBelieve
<1>5. HeardThroughRegistered'
  BY <1>1, <1>2, <1>3, <1>4 DEF ServiceTold, HeardThroughRegistered
<1> QED BY <1>1, <1>2, <1>3, <1>5 DEF ServiceTold, LateToRunning, CallsRegistered

\* A process registers as it runs, or the daemon has a null pointer for it.
LEMMA RegistrationTold ==
  ASSUME ServiceInv, ServiceTold, ServeRegistration
  PROVE  ServiceTold'
<1>0. SwitchTypeOK /\ \A w \in Wiring : w[1] \in SourceId /\ w[2] \in PlayerId
  BY WiringIsTyped DEF ServiceInv, ServiceTypeOK, SystemTypeOK
<1>1. /\ UNCHANGED <<life, up, told, late, orphans, call>>
      /\ call = NoCall
  BY DEF ServeRegistration, switchVars, processVars, serviceVars, ServiceInv, SwitchInv
<1>2. \A p \in PlayerId : players'[p] = players[p] \/ players'[p] \in Created(p)
  BY <1>0 DEF ServeRegistration, PlayerIsRegistered, SourceIsRegistered, AddPlayer, AddSource,
              SwitchTypeOK, PathsTypeOK
<1>3. \A s \in SourceId :
          source_proxy'[s] = source_proxy[s] \/ source_proxy'[s] \in Created(s)
  BY <1>0 DEF ServeRegistration, PlayerIsRegistered, SourceIsRegistered, AddPlayer, AddSource,
              SwitchTypeOK, PathsTypeOK
<1>4. \A c \in Process : \/ Registered(c)' = Registered(c)
                         \/ Registered(c)' \in {life[c], NullProxy}
  BY <1>2, <1>3 DEF Registered, Process, Created
<1> QED BY <1>1, <1>4 DEF ServiceTold, LateToRunning, HeardThroughRegistered, MayBelieve,
                          CallsRegistered

\* When the daemon ends, whoever may believe something is an orphan.
LEMMA EndTold ==
  ASSUME ServiceInv, ServiceTold, End
  PROVE  ServiceTold'
<1>0. SystemTypeOK /\ call' = NoCall /\ UNCHANGED <<life, up, told>>
  BY EndForgets DEF ServiceInv, ServiceTypeOK, End
<1>1. LateToRunning'
  <2>1. CASE call # NoCall /\ Reachable(call)
    BY <1>0, <2>1, LateAppended DEF End, ServiceTold
  <2>2. CASE ~(call # NoCall /\ Reachable(call))
    BY <1>0, <2>2 DEF End, ServiceTold, LateToRunning
  <2> QED BY <2>1, <2>2
<1>2. HeardThroughRegistered'
  BY <1>0 DEF End, HeardThroughRegistered, MayBelieve
<1> QED BY <1>0, <1>1, <1>2 DEF ServiceTold, CallsRegistered

\* Every step preserves ServiceTold.
LEMMA ServiceToldNext ==
  ServiceInv /\ ServiceTold /\ [ServiceNext]_allVars => ServiceTold'
<1> SUFFICES ASSUME ServiceInv, ServiceTold, [ServiceNext]_allVars PROVE ServiceTold'
  OBVIOUS
<1>1. ASSUME UNCHANGED <<players, source_proxy, call, life, up, told, late, orphans>>
      PROVE  ServiceTold'
  <2>1. \A c : Registered(c)' = Registered(c)
    BY <1>1 DEF Registered
  <2> QED BY <1>1, <2>1 DEF ServiceTold, LateToRunning, HeardThroughRegistered, MayBelieve,
                            CallsRegistered
<1>2. CASE ServeQuery \/ UNCHANGED <<systemVars, orphans>>
  BY <1>1, <1>2 DEF ServeQuery, systemVars, switchAllVars, switchVars, pathsVars, processVars,
                    serviceVars
<1>3. SystemTypeOK
  BY DEF ServiceInv, ServiceTypeOK
<1> QED BY <1>2, <1>3, ServiceSteps, WorkTold, ProcessServiceTold, RegistrationTold, EndTold

\* ServiceTold is an invariant.
LEMMA ServiceToldAlways == ServiceSpec => []ServiceTold
  BY ServiceInvAlways, ServiceToldInit, ServiceToldNext, PTL DEF ServiceSpec

---------------------------------------------------------------------------
(* Processes ahead of the switch that have not heard from an earlier       *)
(* daemon last.  One becomes so only by handling a call of this daemon     *)
(* late.                                                                   *)

ServiceDoubtful == Doubtful \ orphans

ServiceStrayInv ==
    IsFiniteSet(ServiceDoubtful) /\ Cardinality(ServiceDoubtful) <= timeouts

\* A process that believes what the switch does, or is an orphan, goes on to
\* do so while the daemon works, unless a call to it times out.
LEMMA WorkDoubtful ==
  ASSUME ServiceInv, ServiceTold, ServeRequest \/ HandlerGoesOn, NEW c \in Process,
         c \notin ServiceDoubtful, ~(TimesOut /\ c = call.to)
  PROVE  c \notin ServiceDoubtful'
<1>0. SystemInv /\ SystemTypeOK
  BY WorkIsSystemStep, Working DEF ServiceInv, ServiceTypeOK
<1>1. /\ c \in orphans \/ (late[c] = <<>> /\ Agrees(c))
      /\ (late'[c] = <<>> /\ Agrees(c)') => c \notin ServiceDoubtful'
      /\ c \in orphans' => c \notin ServiceDoubtful'
  BY DEF ServiceDoubtful, Doubtful, Strayed, Agrees
<1>2. ASSUME NEW ok \in BOOLEAN, PeerAnswers(ok), orphans' = orphans \ {call.to}
      PROVE  c \notin ServiceDoubtful'
  <2>1. CASE c \in orphans /\ c # call.to
    BY <1>1, <1>2, <2>1
  <2>2. CASE c \notin orphans \/ c = call.to
    BY <1>0, <1>1, <1>2, <2>2, AnswerAgrees
  <2> QED BY <2>1, <2>2
<1>3. ASSUME orphans' = orphans,
             late[c] = <<>> /\ Agrees(c) /\ c \notin orphans => late'[c] = <<>> /\ Agrees(c)'
      PROVE  c \notin ServiceDoubtful'
  BY <1>1, <1>3
<1>4. CASE (Enter \/ SkipDeactivate \/ MakeCall \/ Return) /\ UNCHANGED <<processVars, orphans>>
  BY <1>3, <1>4, DaemonKeeps DEF processVars, Agrees, Knows
<1>5. CASE PeerGone /\ orphans' = orphans
  <2>1. /\ call # NoCall /\ CallReturns(FALSE) /\ ~Reachable(call)
        /\ UNCHANGED <<life, up, told, late>>
    BY <1>5 DEF PeerGone, processVars
  <2>2. \A what : Knows(c, what)' => Knows(c, what)
    BY <2>1 DEF Knows
  <2>3. ASSUME c = call.to, c \notin orphans PROVE ~Knows(c, "active") /\ ~Knows(c, "selected")
    <3>1. call.peer \in Proxy /\ call.peer = Registered(c)
      BY <1>0, <2>1, <2>3, CallTarget DEF SystemTypeOK, ServiceTold, CallsRegistered
    <3>2. MayBelieve(c) => Registered(c) = life[c]
      BY <2>3, <3>1 DEF ServiceTold, HeardThroughRegistered
    <3>3. up[c] => ~MayBelieve(c)
      BY <2>1, <2>3, <3>1, <3>2 DEF Reachable
    <3> QED BY <3>3 DEF Knows, MayBelieve
  <2>4. CASE c = call.to /\ c \notin orphans
    BY <1>3, <1>5, <2>1, <2>2, <2>3, <2>4 DEF Agrees
  <2>5. CASE c # call.to /\ c \notin orphans
    BY <1>0, <1>3, <1>5, <2>1, <2>2, <2>5, CallReturnsAgrees
  <2> QED BY <1>3, <1>5, <2>4, <2>5
<1>6. CASE TimesOut /\ orphans' = orphans
  <2>1. /\ call # NoCall /\ CallReturns(FALSE) /\ c # call.to
        /\ UNCHANGED <<life, up, told>> /\ late'[c] = late[c]
    BY <1>0, <1>6 DEF TimesOut, SystemTypeOK
  <2>2. \A what : Knows(c, what)' => Knows(c, what)
    BY <2>1 DEF Knows
  <2> QED BY <1>0, <1>3, <1>6, <2>1, <2>2, CallReturnsAgrees
<1> QED BY <1>2, <1>4, <1>5, <1>6 DEF ServeRequest, HandlerGoesOn, serviceVars

\* So it is in any other step; who may believe something when the daemon
\* ends is an orphan from then on.
LEMMA ServiceDoubtfulNext ==
  ASSUME ServiceInv, ServiceTold, [ServiceNext]_allVars, NEW c \in Process,
         c \notin ServiceDoubtful, ~(TimesOut /\ c = call.to)
  PROVE  c \notin ServiceDoubtful'
<1>0. SystemTypeOK /\ told[c].life <= life[c]
  BY DEF ServiceInv, ServiceTypeOK, ServiceTold
<1>1. ASSUME orphans' = orphans, UNCHANGED <<current_player_id, current_source_id>>,
             late[c] = <<>> => late'[c] = <<>> /\ \A what : Knows(c, what)' => Knows(c, what)
      PROVE  c \notin ServiceDoubtful'
  BY <1>1 DEF ServiceDoubtful, Doubtful, Strayed
<1>2. ASSUME NEW process \in Process, NEW ok \in BOOLEAN,
             ProcessActsAlone(process, ok), orphans' = orphans
      PROVE  c \notin ServiceDoubtful'
  <2>1. UNCHANGED <<current_player_id, current_source_id>>
    BY <1>2 DEF ProcessActsAlone, Crash, Restart, HandleLate, switchAllVars, switchVars
  <2> QED BY <1>0, <1>1, <1>2, <2>1, ProcessHears DEF ProcessActsAlone
<1>3. CASE ServeRegistration \/ ServeQuery \/ UNCHANGED <<systemVars, orphans>>
  <2>1. UNCHANGED <<orphans, current_player_id, current_source_id, life, up, told, late>>
    BY <1>3 DEF ServeRegistration, ServeQuery, systemVars, switchAllVars, switchVars,
                processVars, serviceVars
  <2> QED BY <1>1, <2>1 DEF Knows
<1>4. CASE End
  BY <1>4 DEF End, ServiceDoubtful, Doubtful, Strayed, Knows
<1> QED BY <1>2, <1>3, <1>4, ServiceSteps, WorkDoubtful

\* A timeout adds at most one process, other steps none.
LEMMA ServiceStrayNext ==
  ServiceInv /\ ServiceTold /\ ServiceStrayInv /\ [ServiceNext]_allVars => ServiceStrayInv'
<1> SUFFICES ASSUME ServiceInv, ServiceTold, ServiceStrayInv, [ServiceNext]_allVars
             PROVE  ServiceStrayInv'
  OBVIOUS
<1>0. /\ timeouts \in Nat
      /\ IsFiniteSet(ServiceDoubtful) /\ Cardinality(ServiceDoubtful) <= timeouts
  BY DEF ServiceInv, ServiceTypeOK, SystemTypeOK, ServiceStrayInv
<1>1. ServiceDoubtful' \subseteq Process'
  BY DEF ServiceDoubtful, Doubtful, Strayed
<1>2. CASE TimesOut
  <2>1. ServiceDoubtful' \subseteq ServiceDoubtful \cup {call.to}
    BY <1>1, ServiceDoubtfulNext
  <2>2. timeouts' = timeouts + 1
    BY <1>2 DEF TimesOut
  <2> QED BY <1>0, <2>1, <2>2, OneMore DEF ServiceStrayInv
<1>3. CASE ~TimesOut
  <2>1. ServiceDoubtful' \subseteq ServiceDoubtful
    BY <1>1, <1>3, ServiceDoubtfulNext
  <2>2. timeouts' = timeouts
    BY <1>3, ServiceSteps
       DEF ServeRequest, HandlerGoesOn, PeerAnswers, PeerGone, ProcessActsAlone, Crash,
           Restart, HandleLate, ServeRegistration, ServeQuery, End, systemVars, processVars
  <2> QED BY <1>0, <2>1, <2>2, PartIsSmall DEF ServiceStrayInv
<1> QED BY <1>2, <1>3

\* ServiceStrayInv is an invariant.
LEMMA ServiceStrayAlways == ServiceSpec => []ServiceStrayInv
<1>1. ServiceInit => ServiceStrayInv
  <2> SUFFICES ASSUME ServiceInit PROVE ServiceStrayInv
    OBVIOUS
  <2>1. StrayInv /\ orphans = {} /\ ServiceDoubtful = Doubtful
    BY StrayInit DEF ServiceInit, ServiceDoubtful
  <2> QED BY <2>1 DEF StrayInv, ServiceStrayInv
<1> QED BY <1>1, ServiceInvAlways, ServiceToldAlways, ServiceStrayNext, PTL DEF ServiceSpec

(* BelieveOrOrphaned: whatever daemons have told before they ended, a      *)
(* process that has heard from this one last believes what its switch      *)
(* believes, but for one process for each call that has timed out.         *)
THEOREM BelieveOrOrphanedAlways == ServiceSpec => []BelieveOrOrphaned
<1>1. ServiceInv /\ ServiceStrayInv => BelieveOrOrphaned
  <2> SUFFICES ASSUME ServiceInv, ServiceStrayInv
               PROVE  Cardinality(Strayed \ orphans) <= timeouts
    BY DEF BelieveOrOrphaned
  <2>1. timeouts \in Nat /\ Strayed \ orphans \in SUBSET ServiceDoubtful
    BY DEF ServiceInv, ServiceTypeOK, SystemTypeOK, ServiceDoubtful, Doubtful
  <2> QED BY <2>1, PartIsSmall DEF ServiceStrayInv
<1> QED BY <1>1, ServiceInvAlways, ServiceStrayAlways, PTL

(* So the device is exclusive among those who have heard from this daemon  *)
(* last: what it gives to one of them, no other one has, but for one more  *)
(* for each call that has timed out.                                       *)
THEOREM ExclusiveButOrphans ==
  ServiceSpec => [](Cardinality(MayUseDevice \ orphans) <= 1 + timeouts)
<1>1. ServiceInv /\ ServiceStrayInv => Cardinality(MayUseDevice \ orphans) <= 1 + timeouts
  <2> SUFFICES ASSUME ServiceInv, ServiceStrayInv
               PROVE  Cardinality(MayUseDevice \ orphans) <= 1 + timeouts
    OBVIOUS
  <2>1. /\ timeouts \in Nat
        /\ MayUseDevice \ orphans \in SUBSET (ServiceDoubtful \cup {current_player_id})
    BY UsersStray DEF ServiceInv, ServiceTypeOK, SystemTypeOK, ServiceDoubtful
  <2>2. Cardinality(MayUseDevice \ orphans) <= timeouts + 1
    BY <2>1, OneMore DEF ServiceStrayInv
  <2> QED BY <2>1, <2>2
<1> QED BY <1>1, ServiceInvAlways, ServiceStrayAlways, PTL

---------------------------------------------------------------------------
(* Null proxies.                                                           *)

(* PeersCanBeCalled: if the proxy of each process that registers can be    *)
(* created, neither calls nor queries crash the daemon, however often it   *)
(* ends and starts again with nobody registered.                           *)
THEOREM ServicePeersCallable ==
  ASSUME Fragile = {}
  PROVE  ServiceSpec => []PeersCanBeCalled
<1> DEFINE Callable == NoNullPeer /\ PeersCanBeCalled
<1>1. SwitchInit => Callable
  BY NullProxyIsNoProxy DEF SwitchInit, PathsInit, NoNullPeer, PeersCanBeCalled
<1>2. ServiceInv /\ Callable /\ [ServiceNext]_allVars => Callable'
  <2> SUFFICES ASSUME ServiceInv, Callable, [ServiceNext]_allVars PROVE Callable'
    OBVIOUS
  <2>0. Inv /\ SystemTypeOK /\ SwitchTypeOK
    BY Working DEF PeersCanBeCalled, SystemInv, SystemTypeOK
  <2>1. ASSUME NEW ok \in BOOLEAN, CallReturns(ok) PROVE Callable'
    BY <2>0, <2>1, StepsCallable DEF Continue
  <2>2. CASE ServeRequest \/ HandlerGoesOn
    BY <2>0, <2>1, <2>2, StepsCallable
       DEF ServeRequest, HandlerGoesOn, Continue, PeerGone, TimesOut, PeerAnswers
  <2>3. CASE ServeRegistration
    <3>1. PeersCanBeCalled'
      BY <2>3 DEF ServeRegistration, switchVars, PeersCanBeCalled
    <3>2. \A w \in Wiring : w[1] \in SourceId /\ w[2] \in PlayerId
      BY WiringIsTyped
    <3>3. \A c \in Process : NullProxy \notin Created(c)
      BY <2>0, NullProxyIsNoProxy DEF Created, SystemTypeOK
    <3> QED BY <2>0, <2>3, <3>1, <3>2, <3>3, AddCallable
            DEF ServeRegistration, PlayerIsRegistered, SourceIsRegistered, Process
  <2>4. CASE End
    <3>1. SwitchInit'
      BY <2>4 DEF End, Forget, SwitchInit, PathsInit
    <3> QED BY <1>1, <3>1, PTL
  <2>5. ~ServeQuery
    BY DEF ServeQuery, NoNullPeer
  <2>6. CASE UNCHANGED switchAllVars
    BY <2>6 DEF switchAllVars, switchVars, pathsVars, NoNullPeer, PeersCanBeCalled
  <2> QED BY <2>2, <2>3, <2>4, <2>5, <2>6, ServiceSteps
          DEF ProcessActsAlone, Crash, Restart, HandleLate, systemVars
<1>3. Callable => PeersCanBeCalled
  OBVIOUS
<1>4. ServiceInit => Callable
  BY <1>1 DEF ServiceInit, SystemInit
<1> QED BY <1>2, <1>3, <1>4, ServiceInvAlways, PTL DEF ServiceSpec

---------------------------------------------------------------------------
(* A daemon that is told to terminate.                                     *)

(* What SignalHonoured needs besides steps that are taken, and signals     *)
(* that are dispatched between two handlers: whatever the daemon does when *)
(* the signal arrives, it is done with it after nine steps at most, while  *)
(* processes crash, restart and hear of late calls.                        *)
THEOREM ServiceStepsRunOut ==
  ServiceSpec => [][pc \notin {"idle", "crashed"}
                        => /\ StepsLeft' \in Nat
                           /\ StepsLeft' < StepsLeft /\ StepsLeft <= 9]_switchAllVars
<1> DEFINE FewerLeft == /\ StepsLeft' \in Nat
                        /\ StepsLeft' < StepsLeft /\ StepsLeft <= 9
<1>1. ASSUME ServiceInv, [ServiceNext]_allVars, pc \notin {"idle", "crashed"}
      PROVE  FewerLeft \/ UNCHANGED switchAllVars
  <2>0. Inv /\ SystemTypeOK
    BY <1>1, Working DEF SystemInv, ServiceInv, ServiceTypeOK
  <2>1. StepsLeft \in 1..9
    BY <1>1, <2>0 DEF StepsLeft, Inv, SwitchInv, SwitchTypeOK, Location
  <2>2. CASE ServeRequest \/ HandlerGoesOn
    <3>1. SwitchNext \/ UNCHANGED switchAllVars
      BY <2>0, <2>2, WorkIsSystemStep, SystemStepIsSwitchStep
    <3> QED BY <1>1, <2>0, <2>1, <3>1, FewerStepsLeft
  <2>3. CASE End
    <3>1. StepsLeft' = 0
      BY <2>3 DEF End, Forget, StepsLeft
    <3> QED BY <2>1, <3>1
  <2>4. ASSUME NEW process \in Process, NEW ok \in BOOLEAN, ProcessActsAlone(process, ok)
        PROVE  UNCHANGED switchAllVars
    BY <2>4 DEF ProcessActsAlone, Crash, Restart, HandleLate
  <2>5. ~ServeRegistration /\ ~ServeQuery
    BY <1>1 DEF ServeRegistration, ServeQuery
  <2> QED BY <1>1, <2>2, <2>3, <2>4, <2>5, ServiceSteps DEF systemVars
<1>2. ServiceInv /\ [ServiceNext]_allVars
        => [pc \notin {"idle", "crashed"} => FewerLeft]_switchAllVars
  BY <1>1
<1> QED BY <1>2, ServiceInvAlways, PTL DEF ServiceSpec

(* Signals are only caught, and the loop only told to quit, in the main    *)
(* loop.                                                                   *)
SigtermInv == sigterm => stage = "running"

\* A daemon that has crashed waits for no call any more.
CrashedInv == pc = "crashed" => call = NoCall

\* Every step preserves SigtermInv; the main loop goes on until it is told
\* to quit, and a signal waits until then.
LEMMA SignalWaits ==
  ASSUME SigtermInv, [ServiceNext]_allVars
  PROVE  /\ SigtermInv'
         /\ sigterm => sigterm' \/ stage' \in {"quitting", "off"}
         /\ stage = "quitting" => stage' \in {"quitting", "off"}
<1> USE DEF SigtermInv
<1>1. CASE End
  BY <1>1 DEF End
<1>2. CASE UNCHANGED <<stage, sigterm>>
  BY <1>2
<1>3. CASE StartUp \/ SignalArrives \/ SignalHandler
  BY <1>3 DEF StartUp, Start, BusAcquired, NameAcquired, ConnectSignals, Advance,
              SignalArrives, SignalHandler
<1>4. CASE NameLost \/ SignalKills \/ Shutdown \/ SegmentationFault
  BY <1>1, <1>4 DEF NameLost, SignalKills, Shutdown, SegmentationFault
<1>5. CASE Serve \/ HandlerGoesOn \/ ProcessActs \/ UNCHANGED allVars
  BY <1>2, <1>5 DEF Serve, ServeRegistration, ServeRequest, ServeQuery, HandlerGoesOn,
                    ProcessActs, serviceVars, allVars
<1> QED BY <1>1, <1>3, <1>4, <1>5 DEF ServiceNext

\* Every step preserves CrashedInv.
LEMMA CrashedNext ==
  ASSUME ServiceInv, CrashedInv, [ServiceNext]_allVars
  PROVE  CrashedInv'
<1> USE DEF CrashedInv
<1>1. CASE ServeRequest \/ HandlerGoesOn
  <2>1. SystemInv'
    BY <1>1, WorkIsSystemStep, Working, SystemNextInv
  <2> QED BY <2>1 DEF SystemInv, Inv, SwitchInv
<1>2. CASE ServeRegistration \/ ServeQuery
  <2>1. call' = call /\ pc = "idle"
    BY <1>2 DEF ServeRegistration, ServeQuery, switchVars
  <2> QED BY <2>1, Working DEF SystemInv, Inv, SwitchInv
<1>3. CASE End
  BY <1>3 DEF End, Forget
<1>4. ASSUME NEW process \in Process, NEW ok \in BOOLEAN, ProcessActsAlone(process, ok)
      PROVE  CrashedInv'
  BY <1>4 DEF ProcessActsAlone, Crash, Restart, HandleLate, switchAllVars, switchVars
<1>5. CASE UNCHANGED <<systemVars, orphans>>
  BY <1>5 DEF systemVars, switchAllVars, switchVars
<1> QED BY <1>1, <1>2, <1>3, <1>4, <1>5, ServiceSteps

\* CrashedInv is an invariant.
LEMMA CrashedAlways == ServiceSpec => []CrashedInv
<1>1. ServiceInit => CrashedInv
  BY DEF ServiceInit, SystemInit, SwitchInit, CrashedInv
<1> QED BY <1>1, CrashedNext, ServiceInvAlways, PTL DEF ServiceSpec

\* A daemon that has crashed does nothing but end.
LEMMA CrashedEnds ==
  ServiceInv /\ [ServiceNext]_allVars => [pc = "crashed" => pc' = "idle"]_switchAllVars
<1>1. ASSUME End PROVE pc' = "idle"
  BY <1>1 DEF End, Forget
<1>2. ASSUME NEW process \in Process, NEW ok \in BOOLEAN, ProcessActsAlone(process, ok)
      PROVE  UNCHANGED switchAllVars
  BY <1>2 DEF ProcessActsAlone, Crash, Restart, HandleLate
<1>3. pc = "crashed" => ~ServeRegistration /\ ~ServeQuery
  BY DEF ServeRegistration, ServeQuery
<1> QED BY <1>1, <1>2, <1>3, ServiceSteps, WorkIsSystemStep DEF systemVars

(* Between two handlers the main loop can dispatch the source of a signal, *)
(* and return once it has been told to quit: the guards of the actions.    *)
LoopCanTurn ==
    /\ stage = "running" /\ sigterm /\ pc = "idle" => ENABLED <<SignalHandler>>_allVars
    /\ stage = "quitting" /\ pc = "idle" => ENABLED <<Shutdown>>_allVars

(* SignalHonoured: a daemon that is told to terminate does so, with the    *)
(* fairness of ServiceSpec and whatever else it is asked to do, if no      *)
(* handler that has begun stays where it is for ever.                      *)
THEOREM SignalHonouredIfHandlersGoOn ==
  ServiceSpec /\ SwitchGoesOn /\ []LoopCanTurn => SignalHonoured
<1>1. ServiceSpec => []SigtermInv
  <2>1. ServiceInit => SigtermInv
    BY DEF ServiceInit, SigtermInv
  <2> QED BY <2>1, SignalWaits, PTL DEF ServiceSpec
<1>3. ServiceInv /\ CrashedInv => StepsLeft \in 0..9
  <2>1. CASE pc = "crashed"
    BY <2>1 DEF CrashedInv, StepsLeft
  <2>2. ServiceInv /\ pc # "crashed" => Inv
    BY Working DEF SystemInv
  <2> QED BY <2>1, <2>2, StepsCount
<1>5. StepsLeft \in 0..9 /\ [pc = "crashed" => pc' = "idle"]_switchAllVars
      /\ [pc \notin {"idle", "crashed"} => /\ StepsLeft' \in Nat
                                          /\ StepsLeft' < StepsLeft
                                          /\ StepsLeft <= 9]_switchAllVars
        => [pc # "idle" => pc' = "idle" \/ StepsLeft' <= StepsLeft]_switchAllVars
  OBVIOUS
<1>6. ServiceSpec => StepsBounded /\ NoStepBack
  BY <1>3, <1>5, CrashedEnds, CrashedAlways, ServiceInvAlways, ServiceStepsRunOut, PTL
     DEF ServiceSpec, StepsBounded, NoStepBack
<1>7. ServiceSpec /\ SwitchGoesOn => []<>(pc = "idle")
  BY <1>6, IdleAgain
<1>8. SigtermInv /\ [ServiceNext]_allVars
        => /\ sigterm => sigterm' \/ (stage = "quitting")' \/ (stage = "off")'
           /\ (stage = "quitting") => (stage = "quitting")' \/ (stage = "off")'
  BY SignalWaits
<1>9. SigtermInv => (sigterm => stage = "running")
  BY DEF SigtermInv
<1>10. SignalHandler => (stage = "quitting")'
  BY DEF SignalHandler
<1>11. Shutdown => (stage = "off")'
  BY DEF Shutdown, End
<1>12. /\ stage = "quitting" => ~(stage = "running")
       /\ stage = "off" => ~(stage = "running") /\ ~(stage = "quitting")
  OBVIOUS
<1>13. LoopCanTurn
         => /\ stage = "running" /\ sigterm /\ pc = "idle"
                  => ENABLED <<SignalHandler>>_allVars
            /\ stage = "quitting" /\ pc = "idle" => ENABLED <<Shutdown>>_allVars
  BY DEF LoopCanTurn
<1>14. ServiceSpec => SF_allVars(SignalHandler) /\ SF_allVars(Shutdown)
  BY PTL DEF ServiceSpec, ServiceFairness
<1> QED BY <1>1, <1>7, <1>8, <1>9, <1>10, <1>11, <1>12, <1>13, <1>14, PTL
        DEF ServiceSpec, SignalHonoured

---------------------------------------------------------------------------
(* Handlers go on.  The daemon waits for a process that is busy with calls *)
(* it got earlier; since none is made to it meanwhile, it waits no longer  *)
(* once that process has been seen with an empty inbox, has ended, or is a *)
(* new incarnation that does not know of the call.                         *)

Blocked ==
    call # NoCall /\ Reachable(call) /\ late[call.to] # <<>> /\ timeouts = MaxTimeouts

(* The guard of HandlerGoesOn: a step of the switch, or the end of a call. *)
HandlerMayGoOn ==
    \/ call = NoCall
       /\ pc \in {"deselect", "players", "activate", "select", "cancel", "return"}
    \/ /\ call # NoCall /\ ~Blocked
       /\ pc \in {"deselect", "players", "activate", "select", "cancel"}

(* The actions that have to be taken can be where their guards are true.   *)
ServiceGuardsSuffice ==
    /\ HandlerMayGoOn => ENABLED <<HandlerGoesOn>>_allVars
    /\ pc = "crashed" => ENABLED <<SegmentationFault>>_allVars
    /\ LoopCanTurn

\* A handler that has begun is finished, has a step to take, or is blocked.
LEMMA ServiceNeverStuck ==
  ASSUME ServiceInv, pc \notin {"idle", "crashed"}, ~Blocked
  PROVE  HandlerMayGoOn
<1>1. Inv
  BY Working DEF SystemInv
<1>2. pc \in {"deselect", "players", "activate", "select", "cancel", "return"}
  BY <1>1 DEF Inv, SwitchTypeOK, Location
<1>3. pc = "return" => call = NoCall
  BY <1>1 DEF Inv, SwitchInv
<1> QED BY <1>2, <1>3 DEF HandlerMayGoOn

\* A handler that is not blocked is not blocked later while it waits for the
\* same call.
LEMMA StaysUnblocked ==
  ASSUME ServiceInv, ServiceTold, [ServiceNext]_allVars, ~Blocked,
         pc \notin {"idle", "crashed"}, UNCHANGED switchAllVars
  PROVE  ~Blocked'
<1>0. /\ Inv /\ SystemTypeOK /\ LateToRunning
      /\ call' = call /\ (call # NoCall => call.to \in Process)
  BY Working, CallTarget
     DEF SystemInv, ServiceInv, ServiceTypeOK, SystemTypeOK, ServiceTold, switchAllVars,
         switchVars
<1>1. ~ServeRequest /\ ~HandlerGoesOn /\ ~End
  <2>1. StepsLeft' = StepsLeft /\ pc' = pc
    BY DEF StepsLeft, switchAllVars, switchVars
  <2>2. ~End
    BY <2>1 DEF End, Forget
  <2>3. CASE ServeRequest \/ HandlerGoesOn
    <3>1. SwitchNext
      BY <2>3 DEF ServeRequest, HandlerGoesOn, SwitchNext, Continue, PeerGone, TimesOut,
                  PeerAnswers
    <3> QED BY <1>0, <2>1, <3>1, FewerStepsLeft
  <2> QED BY <2>2, <2>3
<1>2. ASSUME UNCHANGED <<life, up, late, timeouts>> PROVE ~Blocked'
  BY <1>0, <1>2 DEF Blocked, Reachable
<1>3. ASSUME NEW process \in Process, NEW ok \in BOOLEAN, ProcessActsAlone(process, ok)
      PROVE  ~Blocked'
  <2>1. timeouts' = timeouts
    BY <1>3 DEF ProcessActsAlone, Crash, Restart, HandleLate
  <2>2. ASSUME NEW c \in Process, late[c] = <<>> PROVE late'[c] = <<>>
    BY <1>0, <1>3, <2>2 DEF ProcessActsAlone, Crash, Restart, HandleLate, SystemTypeOK
  <2>3. ASSUME NEW c \in Process, up'[c], late'[c] # <<>>
        PROVE  up[c] /\ life'[c] = life[c]
    BY <1>0, <1>3, <2>2, <2>3
       DEF ProcessActsAlone, Crash, Restart, HandleLate, SystemTypeOK, LateToRunning
  <2> QED BY <1>0, <2>1, <2>2, <2>3 DEF Blocked, Reachable
<1> QED BY <1>1, <1>2, <1>3, ServiceSteps
        DEF ServeRegistration, ServeQuery, systemVars, processVars

\* While a handler has the same number of steps left, the switch stands still.
LEMMA Unmoved ==
  ASSUME ServiceInv, [ServiceNext]_allVars, NEW k \in 0..9, At(k), At(k)'
  PROVE  UNCHANGED switchAllVars
<1>1. CASE pc = "crashed"
  BY <1>1, CrashedEnds DEF At
<1>2. CASE pc # "crashed"
  <2>1. Inv /\ SystemTypeOK /\ pc \notin {"idle", "crashed"}
    BY <1>2, Working DEF SystemInv, ServiceInv, ServiceTypeOK, At
  <2>2. CASE ServeRequest \/ HandlerGoesOn
    <3>1. SwitchNext \/ UNCHANGED switchAllVars
      BY <2>1, <2>2, WorkIsSystemStep, SystemStepIsSwitchStep
    <3> QED BY <2>1, <3>1, FewerStepsLeft DEF At
  <2>3. ~End
    BY DEF End, Forget, At
  <2>4. ~ServeRegistration /\ ~ServeQuery
    BY <2>1 DEF ServeRegistration, ServeQuery
  <2> QED BY <2>2, <2>3, <2>4, ServiceSteps
          DEF ProcessActsAlone, Crash, Restart, HandleLate, systemVars
<1> QED BY <1>1, <1>2

\* So a handler has fewer steps left some day, if inboxes are read.
LEMMA ServiceGoesOn ==
  ASSUME NEW k \in 0..9
  PROVE  ServiceSpec /\ []<>~Blocked /\ []ServiceGuardsSuffice => GoesOn(k)
<1> DEFINE Crashed == pc = "crashed"
<1>1. ServiceInv /\ ServiceGuardsSuffice /\ At(k) /\ ~Crashed /\ ~Blocked
        => ENABLED <<HandlerGoesOn>>_allVars
  BY ServiceNeverStuck DEF At, ServiceGuardsSuffice
<1>2. ServiceGuardsSuffice /\ At(k) /\ Crashed => ENABLED <<SegmentationFault>>_allVars
  BY DEF ServiceGuardsSuffice
<1>3. ServiceInv /\ At(k) /\ ~Crashed /\ HandlerGoesOn => ~At(k)'
  <2> SUFFICES ASSUME ServiceInv, At(k), ~Crashed, HandlerGoesOn PROVE ~At(k)'
    OBVIOUS
  <2>1. Inv /\ SwitchNext
    BY Working DEF SystemInv, HandlerGoesOn, SwitchNext, Continue, PeerGone, TimesOut,
                   PeerAnswers
  <2> QED BY <2>1, FewerStepsLeft DEF At
<1>4. SegmentationFault => ~At(k)'
  BY DEF SegmentationFault, End, Forget, At
<1>5. ServiceInv /\ ServiceTold /\ [ServiceNext]_allVars /\ At(k) /\ At(k)'
        => (Crashed <=> Crashed') /\ (~Crashed /\ ~Blocked => ~Blocked')
  <2> SUFFICES ASSUME ServiceInv, ServiceTold, [ServiceNext]_allVars, At(k), At(k)'
               PROVE  (Crashed <=> Crashed') /\ (~Crashed /\ ~Blocked => ~Blocked')
    OBVIOUS
  <2>1. UNCHANGED switchAllVars
    BY Unmoved
  <2>2. ~Crashed => pc \notin {"idle", "crashed"}
    BY DEF At
  <2>3. Crashed <=> Crashed'
    BY <2>1 DEF switchAllVars, switchVars
  <2> QED BY <2>1, <2>2, <2>3, StaysUnblocked
<1> QED BY <1>1, <1>2, <1>3, <1>4, <1>5, ServiceInvAlways, ServiceToldAlways, PTL
        DEF ServiceSpec, ServiceFairness, GoesOn

(* SignalHonoured, from the fairness of ServiceSpec and the guards of its  *)
(* steps: a daemon that is told to terminate does so, whatever else it is  *)
(* asked to do and whoever crashes, if the processes it calls get to what  *)
(* is in their inboxes.                                                    *)
THEOREM SignalHonouredIfInboxesAreRead ==
  ServiceSpec /\ []<>~Blocked /\ []ServiceGuardsSuffice => SignalHonoured
<1>1. ServiceSpec /\ []<>~Blocked /\ []ServiceGuardsSuffice => SwitchGoesOn
  BY ServiceGoesOn DEF SwitchGoesOn
<1>2. ServiceGuardsSuffice => LoopCanTurn
  BY DEF ServiceGuardsSuffice
<1> QED BY <1>1, <1>2, SignalHonouredIfHandlersGoOn, PTL
=============================================================================
