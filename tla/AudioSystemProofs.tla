------------------------- MODULE AudioSystemProofs -------------------------
(***************************************************************************)
(* Proofs about the switch and the processes it controls, for any number   *)
(* of processes, incarnations and timeouts.                                *)
(*                                                                         *)
(* Four inductive invariants: SystemInv is the switch's own invariant and  *)
(* the types; BeliefInv adds that the switch is not ahead of the processes;*)
(* ToldInv that what running processes were told came from proxies that    *)
(* are registered, and StrayInv that few processes are ahead of the switch.*)
(***************************************************************************)
EXTENDS AudioSystem, AudioPathSwitchProofs, FiniteSetTheorems

USE ProcessesDiffer, MortalIsProcess, ProxyIsIncarnation, TimeoutsBounded,
    ProxyIsCreated, NoneIsNothing

---------------------------------------------------------------------------
(* The daemon's side: whatever the processes do, the switch takes its own  *)
(* steps, so that its invariant holds here as well.                        *)
\* Every step of the system is a step of the switch, or one it does not see.
LEMMA SystemStepIsSwitchStep ==
  SystemTypeOK /\ [SystemNext]_systemVars => [SwitchNext]_switchAllVars
<1> SUFFICES ASSUME SystemTypeOK, [SystemNext]_systemVars
             PROVE  SwitchNext \/ UNCHANGED switchAllVars
  OBVIOUS
<1>1. CASE DaemonStep
  BY <1>1 DEF DaemonStep, SwitchNext, Continue
<1>2. CASE CallEnds
  <2>1. ASSUME NEW ok \in BOOLEAN, CallReturns(ok) PROVE SwitchNext
    BY <2>1 DEF SwitchNext, Continue
  <2> QED BY <1>2, <2>1 DEF CallEnds, PeerGone, TimesOut, PeerAnswers
<1>3. ASSUME NEW p \in PlayerId, PlayerRegisters(p) PROVE SwitchNext
  <2>1. 1..life[p] \subseteq ProxyOutcome
    BY DEF SystemTypeOK, Process
  <2> QED BY <1>3, <2>1 DEF PlayerRegisters, RegisterPlayer, Register, SwitchNext
<1>4. ASSUME NEW w \in Wiring, SourceRegisters(w[1], w[2]) PROVE SwitchNext
  <2>1. 1..life[w[1]] \subseteq ProxyOutcome
    BY WiringIsTyped DEF SystemTypeOK, Process
  <2> QED BY <1>4, <2>1 DEF SourceRegisters, RegisterSource, Register, SwitchNext
<1>5. ASSUME NEW process \in Process, NEW ok \in BOOLEAN,
             Crash(process) \/ Restart(process) \/ HandleLate(process, ok)
      PROVE  UNCHANGED switchAllVars
  BY <1>5 DEF Crash, Restart, HandleLate
<1>6. CASE UNCHANGED systemVars
  BY <1>6 DEF systemVars
<1> QED BY <1>1, <1>2, <1>3, <1>4, <1>5, <1>6 DEF SystemNext, ProcessStep

---------------------------------------------------------------------------
(* Types.                                                                  *)

SystemInv == Inv /\ SystemTypeOK

\* Processes start as incarnation 1 and have been told nothing.
LEMMA SystemInitInv == SystemInit => SystemInv
  BY InitInv DEF SystemInit, SystemInv, SystemTypeOK, Told, Inv

\* The process that is called, and its proxy.
LEMMA CallTarget ==
  ASSUME SwitchTypeOK, call # NoCall
  PROVE  call \in Call /\ call.to \in Process /\ call.peer \in Proxy
  BY DEF SwitchTypeOK, Call, Process

\* What a process is told by a call has the type of told.
LEMMA HearType ==
  ASSUME told \in [Process -> Told], NEW process \in Process, NEW c \in Call,
         NEW ok \in BOOLEAN, Hear(process, c, ok)
  PROVE  told' \in [Process -> Told]
<1>1. c.peer \in Proxy /\ Meaning(c.method, ok) \in {"no", "active", "selected", "held"}
  BY DEF Call, Meaning
<1> QED BY <1>1 DEF Hear, Told

\* What the processes do by themselves has the types of what they had.
LEMMA ProcessTypes ==
  ASSUME SystemTypeOK, NEW process \in Process, NEW ok \in BOOLEAN,
         Crash(process) \/ Restart(process) \/ HandleLate(process, ok)
  PROVE  SystemTypeOK'
<1> USE DEF SystemTypeOK
<1>0. SwitchTypeOK'
  BY DEF Crash, Restart, HandleLate, switchAllVars, switchVars, pathsVars, SwitchTypeOK,
         PathsTypeOK
<1>1. CASE HandleLate(process, ok)
  <2>1. Head(late[process]) \in Call /\ Tail(late[process]) \in Seq(Call)
    BY <1>1 DEF HandleLate
  <2>2. told' \in [Process -> Told]
    BY <1>1, <2>1, HearType DEF HandleLate
  <2> QED BY <1>0, <1>1, <2>1, <2>2 DEF HandleLate
<1>2. CASE Crash(process)
  BY <1>0, <1>2 DEF Crash
<1>3. CASE Restart(process)
  BY <1>0, <1>3 DEF Restart
<1> QED BY <1>1, <1>2, <1>3

\* Every step preserves SystemInv.
LEMMA SystemNextInv == SystemInv /\ [SystemNext]_systemVars => SystemInv'
<1> SUFFICES ASSUME SystemInv, [SystemNext]_systemVars PROVE SystemInv'
  OBVIOUS
<1> USE DEF SystemInv, SystemTypeOK
<1>0. Inv'
  BY SystemStepIsSwitchStep, NextInv
<1>1. SwitchTypeOK'
  BY <1>0 DEF Inv
<1>2. CASE UNCHANGED processVars
  BY <1>0, <1>1, <1>2 DEF processVars
<1>3. ASSUME NEW ok \in BOOLEAN, PeerAnswers(ok) PROVE SystemInv'
  BY <1>0, <1>1, <1>3, CallTarget, HearType DEF PeerAnswers
<1>4. CASE TimesOut
  <2>1. late' \in [Process -> Seq(Call)]
    BY <1>4, CallTarget DEF TimesOut
  <2>2. timeouts' \in 0..MaxTimeouts
    BY <1>4 DEF TimesOut
  <2> QED BY <1>0, <1>1, <1>4, <2>1, <2>2 DEF TimesOut
<1>5. ASSUME NEW process \in Process, NEW ok \in BOOLEAN,
             Crash(process) \/ Restart(process) \/ HandleLate(process, ok)
      PROVE  SystemInv'
  BY <1>0, <1>5, ProcessTypes
<1> QED
  BY <1>2, <1>3, <1>4, <1>5
     DEF SystemNext, DaemonStep, ProcessStep, CallEnds, PeerGone, PlayerRegisters,
         SourceRegisters, systemVars, processVars

(* The invariant of the switch and the types hold in every state.          *)
THEOREM SystemInvAlways == SystemSpec => []SystemInv
  BY SystemInitInv, SystemNextInv, PTL DEF SystemSpec

(* The variables of the switch and of the processes have their types.      *)
THEOREM SystemTypeCorrect == SystemSpec => []SystemTypeOK
<1>1. SystemInv => SystemTypeOK
  BY DEF SystemInv
<1> QED BY <1>1, SystemInvAlways, PTL

(* The switch behaves in the system as it does by itself, so that all that *)
(* is proved of SwitchSpec holds here, too: that calls are made in order,  *)
(* that lookups succeed, that the route is followed.                       *)
THEOREM SystemImplementsSwitch == SystemSpec => SwitchSpec
<1>1. SystemInit => SwitchInit
  BY DEF SystemInit
<1> QED BY <1>1, SystemTypeCorrect, SystemStepIsSwitchStep, PTL DEF SystemSpec, SwitchSpec

---------------------------------------------------------------------------
(* The switch is never ahead of the processes, however many calls time     *)
(* out.  A process that the switch relies on has no late call in its       *)
(* inbox: it has answered the call that made the switch rely on it, which  *)
(* came after all others, and the next call to it ends that state.         *)

Trusted(p, what) == told[p].what = what /\ late[p] = <<>>

BeliefInv ==
    /\ current_player_id # None => Trusted(current_player_id, "active")
    /\ current_source_id # None => Trusted(current_source_id, "selected")
    /\ HavePending => Trusted(pending.source_id, "held")

(* A call goes to a process the switch does not rely on when it has        *)
(* returned, or the process has answered what the switch relies on.        *)
LEMMA CallReturnsBelief ==
  ASSUME SystemInv, BeliefInv, NEW ok \in BOOLEAN, CallReturns(ok), call # NoCall
  PROVE  /\ current_player_id' # None =>
               \/ current_player_id' # call.to /\ current_player_id' = current_player_id
               \/ current_player_id' = call.to /\ call.method = "Activate" /\ ok
         /\ current_source_id' # None =>
               \/ current_source_id' # call.to /\ current_source_id' = current_source_id
               \/ current_source_id' = call.to /\ call.method = "Selected" /\ ok
         /\ HavePending' =>
               \/ pending.source_id' # call.to /\ pending' = pending
               \/ pending.source_id' = call.to /\ call.method = "SelectedOnHold" /\ ok
<1> USE DEF SystemInv, Inv, SwitchInv, Returned, NothingToDeselect
<1>1. call \in Call
  BY DEF SwitchTypeOK
<1>2. CASE DeselectedReturned
  BY <1>1, <1>2 DEF DeselectedReturned, AtDeselect, SwitchTypeOK, Call, NoPending, HavePending,
                    PlayerOrNone
<1>3. CASE DeactivateReturned
  BY <1>1, <1>3 DEF DeactivateReturned, AtPlayers, SwitchTypeOK, Call, HavePending
<1>4. CASE ActivateReturned(ok)
  BY <1>1, <1>4 DEF ActivateReturned, AtActivate, SwitchTypeOK, Call, HavePending
<1>5. CASE SelectedReturned(ok)
  BY <1>1, <1>5 DEF SelectedReturned, AtSelect, SwitchTypeOK, Call, HavePending,
                    PlayerOrNone
<1>6. CASE CanceledReturned(ok)
  BY <1>1, <1>6 DEF CanceledReturned, AtCancel, SwitchTypeOK, Call, HavePending,
                    PlayerOrNone
<1> QED BY <1>2, <1>3, <1>4, <1>5, <1>6 DEF CallReturns

\* The switch starts without a player and without a source.
LEMMA BeliefInit == SystemInit => BeliefInv
  BY DEF SystemInit, SwitchInit, BeliefInv, HavePending, NoPending

\* Outside of calls the switch only ever stops relying on a process.
LEMMA DaemonBelief ==
  ASSUME SystemInv, BeliefInv, UNCHANGED <<told, late>>,
         Enter \/ SkipDeactivate \/ MakeCall \/ Return
  PROVE  BeliefInv'
<1>1. /\ current_player_id' = current_player_id
      /\ current_source_id' = current_source_id
      /\ pending' \in {pending, NoPending}
  <2>1. CASE Enter
    BY <2>1 DEF Enter, ActivateSource, RejectSource, KeepSource, BeginSwitch, ReleasePath,
                CompletePending, CancelPending, NothingPending, BeginComplete, BeginCancel
  <2>2. CASE SkipDeactivate \/ MakeCall \/ Return
    BY <2>2 DEF SkipDeactivate, MakeCall, CallDeselected, CallDeactivate, CallActivate,
                CallSelected, CallCanceled, CallPeer, Return
  <2> QED BY <2>1, <2>2
<1> QED BY <1>1 DEF BeliefInv, Trusted, HavePending, NoPending

\* A process with a late call in its inbox is none the switch relies on.
LEMMA ProcessBelief ==
  ASSUME SystemTypeOK, BeliefInv, NEW process \in Process, NEW ok \in BOOLEAN,
         Crash(process) \/ Restart(process) \/ HandleLate(process, ok)
  PROVE  BeliefInv'
<1>1. /\ current_player_id # None => current_player_id \in Process
      /\ current_source_id # None => current_source_id \in Process
      /\ HavePending => pending.source_id \in Process
  BY DEF SystemTypeOK, SwitchTypeOK, PlayerOrNone, SourceOrNone, HavePending,
         PendingActivation, Process
<1>2. /\ current_player_id' = current_player_id
      /\ current_source_id' = current_source_id
      /\ pending' = pending
  BY DEF Crash, Restart, HandleLate, switchAllVars, switchVars
<1>3. ASSUME HandleLate(process, ok) PROVE BeliefInv'
  <2>1. /\ \A c \in Process : late[c] = <<>> => c # process
        /\ \A c \in Process : c # process => told'[c] = told[c] /\ late'[c] = late[c]
    BY <1>3 DEF HandleLate, Hear, SystemTypeOK
  <2> QED BY <1>1, <1>2, <2>1 DEF BeliefInv, Trusted, HavePending
<1>4. ASSUME Crash(process) \/ Restart(process) PROVE BeliefInv'
  <2>1. /\ \A c \in Process : late[c] = <<>> => late'[c] = <<>>
        /\ told' = told
    BY <1>4 DEF Crash, Restart, SystemTypeOK
  <2> QED BY <1>1, <1>2, <2>1 DEF BeliefInv, Trusted, HavePending
<1> QED BY <1>3, <1>4

\* Every step preserves BeliefInv.
LEMMA BeliefNext ==
  SystemInv /\ BeliefInv /\ [SystemNext]_systemVars => BeliefInv'
<1> SUFFICES ASSUME SystemInv, BeliefInv, [SystemNext]_systemVars PROVE BeliefInv'
  OBVIOUS
<1>0. SystemTypeOK /\ SwitchTypeOK
  BY DEF SystemInv, SystemTypeOK
<1>1. CASE DaemonStep
  BY <1>1, DaemonBelief DEF DaemonStep, processVars
<1>2. ASSUME NEW ok \in BOOLEAN, PeerAnswers(ok) PROVE BeliefInv'
  <2>1. /\ told' = [told EXCEPT ![call.to] = [what |-> Meaning(call.method, ok),
                                             life |-> call.peer]]
        /\ late' = late /\ late[call.to] = <<>>
    BY <1>2 DEF PeerAnswers, Hear
  <2>2. \A c \in Process : c # call.to => told'[c] = told[c]
    BY <1>0, <2>1 DEF SystemTypeOK
  <2>3. call.to \in Process /\ told'[call.to].what = Meaning(call.method, ok)
    BY <1>0, <1>2, <2>1, CallTarget DEF SystemTypeOK, PeerAnswers
  <2>4. /\ current_player_id' \in PlayerOrNone
        /\ current_source_id' \in SourceOrNone
        /\ pending'.source_id \in SourceOrNone
    BY SystemNextInv DEF SystemInv, SystemTypeOK, SwitchTypeOK, PendingActivation
  <2>5. /\ current_player_id' # None => Trusted(current_player_id, "active")'
        /\ current_source_id' # None => Trusted(current_source_id, "selected")'
        /\ HavePending' => Trusted(pending.source_id, "held")'
    BY <1>2, <2>1, <2>2, <2>3, <2>4, CallReturnsBelief
       DEF PeerAnswers, BeliefInv, Trusted, HavePending, Process, PlayerOrNone,
           SourceOrNone, Meaning
  <2> QED BY <2>5 DEF BeliefInv
<1>3. CASE PeerGone
  BY <1>0, <1>3, CallReturnsBelief DEF PeerGone, processVars, BeliefInv, Trusted, HavePending
<1>4. CASE TimesOut
  <2>1. told' = told /\ \A c \in Process : c # call.to => late'[c] = late[c]
    BY <1>0, <1>4 DEF TimesOut, SystemTypeOK
  <2>2. /\ current_player_id' \in PlayerOrNone
        /\ current_source_id' \in SourceOrNone
        /\ pending'.source_id \in SourceOrNone
    BY SystemNextInv DEF SystemInv, SystemTypeOK, SwitchTypeOK, PendingActivation
  <2> QED BY <1>4, <2>1, <2>2, CallReturnsBelief
          DEF TimesOut, BeliefInv, Trusted, HavePending, Process, PlayerOrNone, SourceOrNone
<1>5. ASSUME NEW process \in Process, NEW ok \in BOOLEAN,
             Crash(process) \/ Restart(process) \/ HandleLate(process, ok)
      PROVE  BeliefInv'
  BY <1>0, <1>5, ProcessBelief
<1>6. ASSUME UNCHANGED switchVars, UNCHANGED processVars PROVE BeliefInv'
  BY <1>6 DEF BeliefInv, Trusted, HavePending, switchVars, processVars
<1>7. CASE ProcessStep
  BY <1>5, <1>6, <1>7 DEF ProcessStep, PlayerRegisters, SourceRegisters
<1>8. CASE UNCHANGED systemVars
  BY <1>6, <1>8 DEF systemVars, switchAllVars
<1> QED
  BY <1>1, <1>2, <1>3, <1>4, <1>7, <1>8 DEF SystemNext, CallEnds

(* SwitchBelievesProcesses, for any number of crashes and timeouts.        *)
THEOREM SwitchBelievesAlways == SystemSpec => []SwitchBelievesProcesses
<1>1. BeliefInv => SwitchBelievesProcesses
  BY DEF BeliefInv, SwitchBelievesProcesses, Trusted
<1> QED BY <1>1, SystemInvAlways, BeliefInit, BeliefNext, PTL DEF SystemSpec

---------------------------------------------------------------------------
(* What a running process was told last, or will be told by a late call,   *)
(* came through the proxy the switch would still use for it, so that the   *)
(* call which takes it back reaches the process; and if the process is     *)
(* gone by then, it does not matter any more.                              *)

ToldThroughRegistered ==
    \A c \in Process : up[c] /\ told[c].life = life[c] => Registered(c) = life[c]

LateThroughRegistered ==
    \A c \in Process : late[c] # <<>> =>
        /\ up[c]
        /\ Registered(c) = life[c]
        /\ \A k \in DOMAIN late[c] : late[c][k].peer = life[c]

CallsRegistered == call # NoCall => call.peer = Registered(call.to)

ToldInv ==
    /\ \A c \in Process : told[c].life <= life[c]
    /\ ToldThroughRegistered
    /\ LateThroughRegistered
    /\ CallsRegistered

\* Nobody has been told anything.
LEMMA ToldInit == SystemInit => ToldInv
<1> SUFFICES ASSUME SystemInit PROVE ToldInv
  OBVIOUS
<1>1. \A c \in Process : late[c] = <<>> /\ told[c].life = 0 /\ life[c] = 1
  BY DEF SystemInit
<1>2. call = NoCall
  BY DEF SystemInit, SwitchInit
<1> QED BY <1>1, <1>2 DEF ToldInv, ToldThroughRegistered, LateThroughRegistered,
           CallsRegistered

\* Outside of calls, the switch and the registry stay as they are.
LEMMA DaemonKeeps ==
  ASSUME Enter \/ SkipDeactivate \/ MakeCall \/ Return
  PROVE  /\ current_player_id' = current_player_id
         /\ current_source_id' = current_source_id
         /\ pending' \in {pending, NoPending}
         /\ UNCHANGED <<players, source_proxy>>
         /\ MakeCall \/ call' = call
<1>1. CASE Enter
  BY <1>1 DEF Enter, ActivateSource, RejectSource, KeepSource, BeginSwitch, ReleasePath,
              CompletePending, CancelPending, NothingPending, BeginComplete, BeginCancel,
              pathsVars
<1>2. CASE SkipDeactivate \/ MakeCall \/ Return
  BY <1>2 DEF SkipDeactivate, MakeCall, CallDeselected, CallDeactivate, CallActivate,
              CallSelected, CallCanceled, CallPeer, Return, pathsVars
<1> QED BY <1>1, <1>2

\* A call is made through the proxy that is registered.
LEMMA MakeCallRegistered == SystemInv /\ MakeCall => CallsRegistered'
<1> SUFFICES ASSUME SystemInv, MakeCall, (call # NoCall)'
             PROVE  (call.peer = Registered(call.to))'
  BY DEF CallsRegistered
<1>1. call'.method \in {"Activate", "Deactivate"} <=> call'.to \in PlayerId
  <2>1. SwitchTypeOK'
    BY NextInv DEF SystemInv, SwitchNext, Continue, Inv
  <2> QED BY <2>1 DEF SwitchTypeOK, Call
<1> QED BY <1>1 DEF Registered, MakeCall, CallDeselected, CallDeactivate, CallActivate,
           CallSelected, CallCanceled, CallPeer, NoCall, pathsVars

\* When the switch stops relying on a process, it was the one called.
LEMMA CallReturnsKeeps ==
  ASSUME SystemInv, NEW ok \in BOOLEAN, CallReturns(ok)
  PROVE  /\ call # NoCall /\ call' = NoCall
         /\ UNCHANGED <<players, source_proxy>>
         /\ \/ current_player_id' = current_player_id
            \/ current_player_id = call.to /\ call.method = "Deactivate"
            \/ current_player_id = None /\ ok
         /\ \/ current_source_id' = current_source_id
            \/ current_source_id = call.to /\ call.method = "Deselected"
            \/ current_source_id = None
         /\ call.method = "Activate" /\ ok => current_player_id' = call.to
         /\ call.method = "Selected" /\ ok => current_source_id' = call.to
<1> USE DEF SystemInv, Inv, SwitchInv, Returned, NothingToDeselect, pathsVars
<1>1. CASE DeselectedReturned
  BY <1>1 DEF DeselectedReturned, AtDeselect, DeselectedId
<1>2. CASE DeactivateReturned
  BY <1>2 DEF DeactivateReturned, AtPlayers
<1>3. CASE ActivateReturned(ok)
  BY <1>3 DEF ActivateReturned, AtActivate
<1>4. CASE SelectedReturned(ok)
  BY <1>4 DEF SelectedReturned, AtSelect
<1>5. CASE CanceledReturned(ok)
  BY <1>5 DEF CanceledReturned, AtCancel
<1> QED BY <1>1, <1>2, <1>3, <1>4, <1>5 DEF CallReturns

\* A call that ends was made to the registered incarnation.
LEMMA CallEndsTold == SystemInv /\ ToldInv /\ CallEnds => ToldInv'
<1> SUFFICES ASSUME SystemInv, ToldInv, CallEnds PROVE ToldInv'
  OBVIOUS
<1>0. SystemTypeOK /\ SwitchTypeOK
  BY DEF SystemInv, SystemTypeOK
<1>1. /\ call # NoCall /\ call' = NoCall
      /\ UNCHANGED <<life, up>>
      /\ \A c \in Process : Registered(c)' = Registered(c)
  BY CallReturnsKeeps DEF CallEnds, PeerAnswers, PeerGone, TimesOut, processVars, Registered
<1>2. call \in Call /\ call.to \in Process /\ call.peer = Registered(call.to)
  BY <1>0, <1>1, CallTarget DEF ToldInv, CallsRegistered
<1>3. ASSUME NEW ok \in BOOLEAN, PeerAnswers(ok) PROVE ToldInv'
  <2>1. /\ \A c \in Process : c # call.to => told'[c] = told[c]
        /\ told'[call.to].life = life[call.to]
        /\ Registered(call.to) = life[call.to]
        /\ late' = late
    BY <1>0, <1>2, <1>3 DEF PeerAnswers, Hear, Reachable, SystemTypeOK
  <2>2. \A c \in Process : told'[c].life <= life'[c]
    BY <1>0, <1>1, <2>1 DEF ToldInv, SystemTypeOK
  <2> QED BY <1>1, <2>1, <2>2
          DEF ToldInv, ToldThroughRegistered, LateThroughRegistered, CallsRegistered
<1>4. CASE PeerGone
  BY <1>1, <1>4 DEF PeerGone, processVars, ToldInv, ToldThroughRegistered,
                    LateThroughRegistered, CallsRegistered
<1>5. CASE TimesOut
  <2>1. /\ told' = told
        /\ up[call.to] /\ life[call.to] = call.peer
        /\ \A c \in Process : c # call.to => late'[c] = late[c]
        /\ late'[call.to] = Append(late[call.to], call)
    BY <1>0, <1>2, <1>5 DEF TimesOut, Reachable, SystemTypeOK
  <2>2. late[call.to] \in Seq(Call)
    BY <1>0, <1>2 DEF SystemTypeOK
  <2>3. \A k \in DOMAIN late'[call.to] : late'[call.to][k].peer = life[call.to]
    <3> SUFFICES ASSUME NEW k \in DOMAIN late'[call.to]
                 PROVE  late'[call.to][k].peer = life[call.to]
      OBVIOUS
    <3>1. CASE k \in DOMAIN late[call.to]
      BY <1>2, <2>1, <2>2, <3>1 DEF ToldInv, LateThroughRegistered
    <3>2. CASE k = Len(late[call.to]) + 1
      BY <1>2, <2>1, <2>2, <3>2
    <3> QED BY <1>2, <2>1, <2>2, <3>1, <3>2
  <2>4. LateThroughRegistered'
    <3> SUFFICES ASSUME NEW c \in Process, late'[c] # <<>>
                 PROVE  /\ up[c] /\ Registered(c) = life[c]
                        /\ \A k \in DOMAIN late'[c] : late'[c][k].peer = life[c]
      BY <1>1 DEF LateThroughRegistered
    <3>1. CASE c = call.to
      BY <1>2, <2>1, <2>3, <3>1
    <3>2. CASE c # call.to
      BY <2>1, <3>2 DEF ToldInv, LateThroughRegistered
    <3> QED BY <3>1, <3>2
  <2> QED BY <1>1, <2>1, <2>4 DEF ToldInv, ToldThroughRegistered, CallsRegistered
<1> QED BY <1>3, <1>4, <1>5 DEF CallEnds

\* A process comes, goes, or gets to a late call; the switch takes no notice.
LEMMA ProcessTold ==
  ASSUME SystemInv, ToldInv, NEW process \in Process, NEW ok \in BOOLEAN,
         Crash(process) \/ Restart(process) \/ HandleLate(process, ok)
  PROVE  ToldInv'
<1>0. /\ life \in [Process -> Nat] /\ up \in [Process -> BOOLEAN]
      /\ late \in [Process -> Seq(Call)]
      /\ told \in [Process -> Told] /\ \A c \in Process : told[c].life \in Nat
  BY DEF SystemInv, SystemTypeOK, Told
<1>1. /\ call' = call
      /\ \A c : Registered(c)' = Registered(c)
  BY DEF Crash, Restart, HandleLate, switchAllVars, switchVars, pathsVars, Registered
<1>2. \A c \in Process : c # process =>
          life'[c] = life[c] /\ up'[c] = up[c] /\ told'[c] = told[c] /\ late'[c] = late[c]
  BY <1>0 DEF Crash, Restart, HandleLate, Hear
<1>3. /\ told'[process].life <= life'[process]
      /\ up'[process] /\ told'[process].life = life'[process]
            => Registered(process) = life'[process]
      /\ late'[process] # <<>> =>
            /\ up'[process] /\ Registered(process) = life'[process]
            /\ \A k \in DOMAIN late'[process] : late'[process][k].peer = life'[process]
  <2>1. CASE Crash(process)
    BY <1>0, <2>1 DEF Crash, ToldInv
  <2>2. CASE Restart(process)
    <3>1. late[process] = <<>> /\ told[process].life <= life[process]
      BY <2>2 DEF Restart, ToldInv, LateThroughRegistered
    <3>2. /\ life'[process] = life[process] + 1 /\ late' = late /\ told' = told
          /\ life[process] \in Nat
      BY <1>0, <2>2 DEF Restart
    <3> QED BY <1>0, <3>1, <3>2
  <2>3. CASE HandleLate(process, ok)
    <3>1. /\ late[process] # <<>> /\ late[process] \in Seq(Call)
          /\ late'[process] = Tail(late[process])
          /\ told'[process].life = Head(late[process]).peer
          /\ UNCHANGED <<life, up>>
      BY <1>0, <2>3 DEF HandleLate, Hear
    <3>2. /\ up[process] /\ Registered(process) = life[process]
          /\ \A k \in DOMAIN late[process] : late[process][k].peer = life[process]
      BY <3>1 DEF ToldInv, LateThroughRegistered
    <3>3. Head(late[process]).peer = life[process]
      BY <3>1, <3>2
    <3>4. \A k \in DOMAIN Tail(late[process]) : Tail(late[process])[k].peer = life[process]
      BY <3>1, <3>2
    <3> QED BY <1>0, <3>1, <3>2, <3>3, <3>4
  <2> QED BY <2>1, <2>2, <2>3
<1> QED BY <1>1, <1>2, <1>3
        DEF ToldInv, ToldThroughRegistered, LateThroughRegistered, CallsRegistered

\* A process registers an incarnation, and is told nothing.
LEMMA RegistersTold ==
  ASSUME SystemInv, ToldInv,
         \/ \E p \in PlayerId : PlayerRegisters(p)
         \/ \E w \in Wiring : SourceRegisters(w[1], w[2])
  PROVE  ToldInv'
<1>0. SwitchTypeOK /\ \A w \in Wiring : w[1] \in SourceId
  BY WiringIsTyped DEF SystemInv, SystemTypeOK
<1>1. /\ UNCHANGED <<life, up, told, late, call>>
      /\ call = NoCall
  BY DEF PlayerRegisters, SourceRegisters, switchVars, processVars, SystemInv, Inv, SwitchInv
<1>2. \A p \in PlayerId :
          \/ players'[p] = players[p]
          \/ players'[p] \in 1..life[p] /\ NotOlder(players[p], players'[p])
  BY <1>0 DEF PlayerRegisters, SourceRegisters, AddPlayer, AddSource, SwitchTypeOK, PathsTypeOK
<1>3. \A s \in SourceId :
          \/ source_proxy'[s] = source_proxy[s]
          \/ source_proxy'[s] \in 1..life[s] /\ NotOlder(source_proxy[s], source_proxy'[s])
  BY <1>0 DEF PlayerRegisters, SourceRegisters, AddPlayer, AddSource, SwitchTypeOK, PathsTypeOK
<1>4. \A c \in Process : life[c] \in Nat /\ life[c] # None
  BY DEF SystemInv, SystemTypeOK
<1>5. \A c \in Process : Registered(c) = life[c] => Registered(c)' = life[c]
  BY <1>2, <1>3, <1>4 DEF NotOlder, Process, Registered
<1> QED BY <1>1, <1>5
        DEF ToldInv, ToldThroughRegistered, LateThroughRegistered, CallsRegistered

\* Every step preserves ToldInv.
LEMMA ToldNext == SystemInv /\ ToldInv /\ [SystemNext]_systemVars => ToldInv'
<1> SUFFICES ASSUME SystemInv, ToldInv, [SystemNext]_systemVars PROVE ToldInv'
  OBVIOUS
<1>1. CASE DaemonStep
  <2>1. \A c : Registered(c)' = Registered(c)
    BY <1>1, DaemonKeeps DEF DaemonStep, Registered
  <2>2. CallsRegistered'
    <3>1. CASE MakeCall
      BY <3>1, MakeCallRegistered
    <3>2. CASE ~MakeCall
      BY <1>1, <2>1, <3>2, DaemonKeeps DEF DaemonStep, ToldInv, CallsRegistered
    <3> QED BY <3>1, <3>2
  <2> QED BY <1>1, <2>1, <2>2
          DEF DaemonStep, processVars, ToldInv, ToldThroughRegistered, LateThroughRegistered
<1>2. CASE CallEnds
  BY <1>2, CallEndsTold
<1>3. CASE ProcessStep
  BY <1>3, ProcessTold, RegistersTold DEF ProcessStep
<1>4. CASE UNCHANGED systemVars
  BY <1>4 DEF systemVars, switchAllVars, switchVars, pathsVars, processVars, ToldInv,
              ToldThroughRegistered, LateThroughRegistered, CallsRegistered, Registered
<1> QED BY <1>1, <1>2, <1>3, <1>4 DEF SystemNext

\* ToldInv is an invariant.
LEMMA ToldAlways == SystemSpec => []ToldInv
  BY SystemInvAlways, ToldInit, ToldNext, PTL DEF SystemSpec

---------------------------------------------------------------------------
(* Processes ahead of the switch.  One becomes so only by handling a call  *)
(* late, and each late call was one that timed out.                        *)

Doubtful == Strayed \cup {c \in Process : late[c] # <<>>}

StrayInv == IsFiniteSet(Doubtful) /\ Cardinality(Doubtful) <= timeouts

\* A process believes at most what the switch believes.
Agrees(c) ==
    /\ Knows(c, "active") => current_player_id = c
    /\ Knows(c, "selected") => current_source_id = c

\* A process without late calls does not come to believe anything by itself.
LEMMA ProcessHears ==
  ASSUME SystemTypeOK, NEW c \in Process, told[c].life <= life[c], late[c] = <<>>,
         NEW process \in Process, NEW ok \in BOOLEAN,
         Crash(process) \/ Restart(process) \/ HandleLate(process, ok), NEW what
  PROVE  late'[c] = <<>> /\ (Knows(c, what)' => Knows(c, what))
<1>1. CASE Crash(process)
  BY <1>1 DEF Crash, Knows, SystemTypeOK
<1>2. CASE Restart(process)
  <2>1. /\ life[c] \in Nat /\ UNCHANGED <<told, late>>
        /\ c # process => up'[c] = up[c] /\ life'[c] = life[c]
        /\ c = process => life'[c] = life[c] + 1
    <3>1. life \in [Process -> Nat] /\ up \in [Process -> BOOLEAN]
      BY DEF SystemTypeOK
    <3> QED BY <1>2, <3>1 DEF Restart
  <2>2. CASE c = process
    <3>1. told'[c].life # life'[c]
      BY <2>1, <2>2 DEF SystemTypeOK, Told
    <3> QED BY <2>1, <3>1 DEF Knows
  <2>3. CASE c # process
    BY <2>1, <2>3 DEF Knows
  <2> QED BY <2>2, <2>3
<1>3. CASE HandleLate(process, ok)
  <2>1. c # process
    BY <1>3 DEF HandleLate
  <2> QED BY <1>3, <2>1 DEF HandleLate, Hear, Knows, SystemTypeOK
<1> QED BY <1>1, <1>2, <1>3

\* The switch takes back what a process believes only by calling it.
LEMMA CallReturnsAgrees ==
  ASSUME SystemInv, NEW ok \in BOOLEAN, CallReturns(ok), NEW c \in Process, c # call.to,
         Agrees(c), Knows(c, "active")' => Knows(c, "active"),
         Knows(c, "selected")' => Knows(c, "selected")
  PROVE  Agrees(c)'
<1>1. c # None
  BY DEF Process
<1> QED BY <1>1, CallReturnsKeeps DEF Agrees

\* A process that answers agrees with the switch, and what it believed
\* before does not matter.
LEMMA AnswerAgrees ==
  ASSUME SystemInv, NEW ok \in BOOLEAN, PeerAnswers(ok), NEW c \in Process,
         c = call.to \/ (late[c] = <<>> /\ Agrees(c))
  PROVE  late'[c] = <<>> /\ Agrees(c)'
<1>1. /\ call # NoCall /\ CallReturns(ok) /\ call.to \in Process /\ call \in Call
      /\ UNCHANGED <<life, up, late>> /\ late[call.to] = <<>>
      /\ told' = [told EXCEPT ![call.to] = [what |-> Meaning(call.method, ok),
                                            life |-> call.peer]]
      /\ told \in [Process -> Told]
  BY CallTarget DEF PeerAnswers, Hear, SystemInv, SystemTypeOK
<1>2. CASE c = call.to
  <2>1. /\ Knows(c, "active")' => call.method = "Activate" /\ ok
        /\ Knows(c, "selected")' => call.method = "Selected" /\ ok
    BY <1>1, <1>2 DEF Knows, Meaning
  <2> QED BY <1>1, <1>2, <2>1, CallReturnsKeeps DEF Agrees
<1>3. CASE c # call.to
  <2>1. \A what : Knows(c, what)' => Knows(c, what)
    BY <1>1, <1>3 DEF Knows
  <2> QED BY <1>1, <1>3, <2>1, CallReturnsAgrees
<1> QED BY <1>2, <1>3

\* A process that believes what the switch does goes on to do so, unless a
\* call to it times out.
LEMMA DoubtfulNext ==
  ASSUME SystemInv, ToldInv, [SystemNext]_systemVars, NEW c \in Process,
         c \notin Doubtful, ~(TimesOut /\ c = call.to)
  PROVE  c \notin Doubtful'
<1>0. SystemTypeOK /\ late[c] = <<>> /\ Agrees(c)
  BY DEF SystemInv, Doubtful, Strayed, Agrees
<1>S. SUFFICES late'[c] = <<>> /\ Agrees(c)'
  BY DEF Doubtful, Strayed, Agrees
<1>1. CASE DaemonStep
  BY <1>0, <1>1, DaemonKeeps DEF DaemonStep, processVars, Agrees, Knows
<1>2. ASSUME NEW ok \in BOOLEAN, PeerAnswers(ok) PROVE late'[c] = <<>> /\ Agrees(c)'
  BY <1>0, <1>2, AnswerAgrees
<1>3. CASE PeerGone
  <2>1. /\ call # NoCall /\ CallReturns(FALSE) /\ ~Reachable(call)
        /\ UNCHANGED <<life, up, told, late>>
    BY <1>3 DEF PeerGone, processVars
  <2>2. \A what : Knows(c, what)' => Knows(c, what)
    BY <2>1 DEF Knows
  <2>3. CASE c = call.to
    <3>1. \A what : ~Knows(c, what)'
      BY <2>1, <2>3 DEF Knows, ToldInv, ToldThroughRegistered, CallsRegistered, Reachable
    <3> QED BY <1>0, <2>1, <3>1 DEF Agrees
  <2>4. CASE c # call.to
    BY <1>0, <2>1, <2>2, <2>4, CallReturnsAgrees
  <2> QED BY <2>3, <2>4
<1>4. CASE TimesOut
  <2>1. /\ call # NoCall /\ CallReturns(FALSE) /\ c # call.to
        /\ UNCHANGED <<life, up, told>> /\ late'[c] = late[c]
    BY <1>0, <1>4 DEF TimesOut, SystemTypeOK
  <2>2. \A what : Knows(c, what)' => Knows(c, what)
    BY <2>1 DEF Knows
  <2> QED BY <1>0, <2>1, <2>2, CallReturnsAgrees
<1>5. ASSUME UNCHANGED <<current_player_id, current_source_id>>, late'[c] = <<>>,
             \A what : Knows(c, what)' => Knows(c, what)
      PROVE  late'[c] = <<>> /\ Agrees(c)'
  BY <1>0, <1>5 DEF Agrees
<1>6. CASE UNCHANGED switchVars /\ UNCHANGED processVars
  BY <1>0, <1>5, <1>6 DEF switchVars, processVars, Knows
<1>7. ASSUME NEW process \in Process, NEW ok \in BOOLEAN,
             Crash(process) \/ Restart(process) \/ HandleLate(process, ok)
      PROVE  late'[c] = <<>> /\ Agrees(c)'
  <2>1. UNCHANGED <<current_player_id, current_source_id>>
    BY <1>7 DEF Crash, Restart, HandleLate, switchAllVars, switchVars
  <2>2. late'[c] = <<>> /\ \A what : Knows(c, what)' => Knows(c, what)
    BY <1>0, <1>7, ProcessHears DEF ToldInv
  <2> QED BY <1>5, <2>1, <2>2
<1>8. CASE ProcessStep
  BY <1>6, <1>7, <1>8 DEF ProcessStep, PlayerRegisters, SourceRegisters
<1>9. CASE UNCHANGED systemVars
  BY <1>6, <1>9 DEF systemVars, switchAllVars
<1> QED BY <1>1, <1>2, <1>3, <1>4, <1>8, <1>9 DEF SystemNext, CallEnds

\* A part of a finite set is not larger than the set.
LEMMA PartIsSmall ==
  ASSUME NEW S, IsFiniteSet(S), NEW T \in SUBSET S, NEW n \in Nat, Cardinality(S) <= n
  PROVE  IsFiniteSet(T) /\ Cardinality(T) \in Nat /\ Cardinality(T) <= n
<1>1. IsFiniteSet(T) /\ Cardinality(T) <= Cardinality(S)
  BY FS_Subset
<1>2. Cardinality(T) \in Nat /\ Cardinality(S) \in Nat
  BY <1>1, FS_CardinalityType
<1> QED BY <1>1, <1>2

\* A set with at most one more element is not larger by more than one.
LEMMA OneMore ==
  ASSUME NEW S, IsFiniteSet(S), NEW e, NEW T \in SUBSET (S \cup {e}),
         NEW n \in Nat, Cardinality(S) <= n
  PROVE  IsFiniteSet(T) /\ Cardinality(T) \in Nat /\ Cardinality(T) <= n + 1
<1> DEFINE more == S \cup {e}
<1>1. /\ IsFiniteSet(more)
      /\ Cardinality(more) = IF e \in S THEN Cardinality(S) ELSE Cardinality(S) + 1
  BY FS_AddElement, Zenon
<1>2. Cardinality(S) \in Nat
  BY FS_CardinalityType
<1>3. T \in SUBSET more /\ Cardinality(more) <= n + 1 /\ n + 1 \in Nat
  BY <1>1, <1>2
<1> HIDE DEF more
<1> QED BY <1>1, <1>3, PartIsSmall

\* At first nobody believes anything.
LEMMA StrayInit == SystemInit => StrayInv
<1> SUFFICES ASSUME SystemInit PROVE StrayInv
  OBVIOUS
<1>1. \A c \in Process : late[c] = <<>> /\ told[c].what = "no"
  BY DEF SystemInit
<1>2. Doubtful = {}
  BY <1>1 DEF Doubtful, Strayed, Knows
<1> QED BY <1>2, FS_EmptySet DEF StrayInv, SystemInit

\* A timeout adds at most one process, other steps none.
LEMMA StrayNext ==
  SystemInv /\ ToldInv /\ StrayInv /\ [SystemNext]_systemVars => StrayInv'
<1> SUFFICES ASSUME SystemInv, ToldInv, StrayInv, [SystemNext]_systemVars PROVE StrayInv'
  OBVIOUS
<1>0. timeouts \in Nat /\ IsFiniteSet(Doubtful) /\ Cardinality(Doubtful) <= timeouts
  BY DEF SystemInv, SystemTypeOK, StrayInv
<1>1. Doubtful' \subseteq Process'
  BY DEF Doubtful, Strayed
<1>2. CASE TimesOut
  <2>1. Doubtful' \subseteq Doubtful \cup {call.to}
    BY <1>1, DoubtfulNext
  <2>2. timeouts' = timeouts + 1
    BY <1>2 DEF TimesOut
  <2> QED BY <1>0, <2>1, <2>2, OneMore DEF StrayInv
<1>3. CASE ~TimesOut
  <2>1. Doubtful' \subseteq Doubtful
    BY <1>1, <1>3, DoubtfulNext
  <2>2. timeouts' = timeouts
    BY <1>3 DEF SystemNext, DaemonStep, CallEnds, PeerAnswers, PeerGone, ProcessStep,
                PlayerRegisters, SourceRegisters, Crash, Restart, HandleLate, processVars,
                systemVars
  <2> QED BY <1>0, <2>1, <2>2, PartIsSmall DEF StrayInv
<1> QED BY <1>2, <1>3

\* StrayInv is an invariant.
LEMMA StrayAlways == SystemSpec => []StrayInv
  BY SystemInvAlways, ToldAlways, StrayInit, StrayNext, PTL DEF SystemSpec

(* ProcessesBelieveSwitch: each timeout leads at most one process astray,  *)
(* for any number of crashes and timeouts.                                 *)
THEOREM ProcessesBelieveAlways == SystemSpec => []ProcessesBelieveSwitch
<1>1. SystemInv /\ StrayInv => ProcessesBelieveSwitch
  <2> SUFFICES ASSUME SystemInv, StrayInv PROVE Cardinality(Strayed) <= timeouts
    BY DEF ProcessesBelieveSwitch
  <2>1. timeouts \in Nat /\ Strayed \in SUBSET Doubtful
    BY DEF SystemInv, SystemTypeOK, Doubtful
  <2> QED BY <2>1, PartIsSmall DEF StrayInv
<1> QED BY <1>1, SystemInvAlways, StrayAlways, PTL

---------------------------------------------------------------------------
(* The device.                                                             *)

\* The instance counts as this module does.
LEMMA DeviceCounts == \A S : Device!Cardinality(S) = Cardinality(S)
  BY DEF Cardinality, Device!Cardinality

\* All users but the active player stray.
LEMMA UsersStray == \A p \in MayUseDevice : p = current_player_id \/ p \in Doubtful
  BY DEF MayUseDevice, Doubtful, Strayed, Process

(* Exclusive: never do two players believe that they may use the device,   *)
(* whatever crashes, but for one more for each call that times out.        *)
THEOREM ExclusiveAlways == SystemSpec => []Exclusive
<1>1. SystemInv /\ StrayInv => Exclusive
  <2> SUFFICES ASSUME SystemInv, StrayInv PROVE Cardinality(MayUseDevice) <= 1 + timeouts
    BY DeviceCounts DEF Exclusive, Device!Exclusive
  <2>1. timeouts \in Nat /\ MayUseDevice \in SUBSET (Doubtful \cup {current_player_id})
    BY UsersStray DEF SystemInv, SystemTypeOK
  <2>2. Cardinality(MayUseDevice) <= timeouts + 1
    BY <2>1, OneMore DEF StrayInv
  <2> QED BY <2>1, <2>2
<1> QED BY <1>1, SystemInvAlways, StrayAlways, PTL

\* A player that is told that it may use the device is either told while the
\* switch considers none to be active, or by a late call.
LEMMA NewUser ==
  ASSUME SystemInv, ToldInv, [SystemNext]_systemVars,
         NEW p \in PlayerId, Knows(p, "active")', ~Knows(p, "active")
  PROVE  current_player_id = None \/ late[p] # <<>>
<1>1. CASE DaemonStep \/ UNCHANGED systemVars
  BY <1>1 DEF DaemonStep, systemVars, processVars, Knows
<1>2. ASSUME NEW ok \in BOOLEAN, PeerAnswers(ok) PROVE current_player_id = None
  <2>1. call # NoCall /\ call.to \in Process
    BY <1>2, CallTarget DEF PeerAnswers, SystemInv, SystemTypeOK
  <2>2. /\ UNCHANGED <<life, up>>
        /\ told' = [told EXCEPT ![call.to] = [what |-> Meaning(call.method, ok),
                                              life |-> call.peer]]
    BY <1>2 DEF PeerAnswers, Hear
  <2>3. p = call.to
    BY <2>2 DEF Knows, Process, SystemInv, SystemTypeOK
  <2>4. call.method = "Activate"
    BY <2>1, <2>2, <2>3 DEF Knows, Meaning, SystemInv, SystemTypeOK
  <2>5. pc = "activate"
    BY <2>1, <2>4 DEF SystemInv, Inv, SwitchInv, SwitchTypeOK, Location, AtDeselect,
                      AtPlayers, AtSelect, AtCancel
  <2> QED BY <2>5 DEF SystemInv, Inv, SwitchInv, AtActivate
<1>3. CASE PeerGone
  BY <1>3 DEF PeerGone, processVars, Knows
<1>4. CASE TimesOut
  BY <1>4 DEF TimesOut, Knows
<1>5. CASE ProcessStep
  <2>1. ASSUME NEW process \in Process, Crash(process) PROVE FALSE
    BY <2>1 DEF Crash, Knows, SystemInv, SystemTypeOK
  <2>2. ASSUME NEW process \in Process, Restart(process) PROVE FALSE
    <3>1. p \in Process /\ told[p].life <= life[p] /\ life[process] \in Nat
      BY DEF ToldInv, SystemInv, SystemTypeOK, Process
    <3>2. told' = told /\ up' = [up EXCEPT ![process] = TRUE]
          /\ life' = [life EXCEPT ![process] = @ + 1]
      BY <2>2 DEF Restart
    <3>3. CASE p = process
      <4>1. told[p].life = life[p] + 1
        BY <3>1, <3>2, <3>3 DEF Knows, SystemInv, SystemTypeOK
      <4> QED BY <3>1, <3>3, <4>1
    <3>4. CASE p # process
      BY <3>1, <3>2, <3>4 DEF Knows, SystemInv, SystemTypeOK
    <3> QED BY <3>3, <3>4
  <2>3. ASSUME NEW process \in Process, NEW ok \in BOOLEAN, HandleLate(process, ok)
        PROVE  late[p] # <<>>
    BY <2>3 DEF HandleLate, Hear, Knows, Process, SystemInv, SystemTypeOK
  <2> QED BY <1>5, <2>1, <2>2, <2>3
          DEF ProcessStep, PlayerRegisters, SourceRegisters, processVars, Knows
<1> QED BY <1>1, <1>2, <1>3, <1>4, <1>5 DEF SystemNext, CallEnds

\* Then there is a timeout for each player that uses the device.
LEMMA UsersFew ==
  ASSUME SystemInv, StrayInv, NEW p \in PlayerId, p \notin MayUseDevice,
         current_player_id = None \/ late[p] # <<>>
  PROVE  Cardinality(MayUseDevice) <= timeouts
<1>0. timeouts \in Nat /\ IsFiniteSet(Doubtful) /\ Cardinality(Doubtful) \in Nat
      /\ Cardinality(Doubtful) <= timeouts
  BY FS_CardinalityType DEF SystemInv, SystemTypeOK, StrayInv
<1>1. CASE current_player_id = None
  <2>1. MayUseDevice \in SUBSET Doubtful
    BY <1>1, UsersStray DEF MayUseDevice
  <2> QED BY <1>0, <2>1, PartIsSmall
<1>2. CASE late[p] # <<>>
  <2> DEFINE fewer == Doubtful \ {p}
             others == fewer \cup {current_player_id}
  <2>1. p \in Doubtful
    BY <1>2 DEF Doubtful, Process
  <2>2. IsFiniteSet(fewer) /\ Cardinality(fewer) = Cardinality(Doubtful) - 1
    BY <1>0, <2>1, FS_RemoveElement, Zenon
  <2>3. /\ IsFiniteSet(others)
        /\ Cardinality(others) = IF current_player_id \in fewer THEN Cardinality(fewer)
                                 ELSE Cardinality(fewer) + 1
    <3> HIDE DEF fewer
    <3> QED BY <2>2, FS_AddElement, Zenon
  <2>4. MayUseDevice \in SUBSET others
    BY UsersStray
  <2>5. Cardinality(others) <= timeouts
    <3> HIDE DEF fewer, others
    <3> QED BY <1>0, <2>2, <2>3
  <2> HIDE DEF others
  <2> QED BY <1>0, <2>3, <2>4, <2>5, PartIsSmall
<1> QED BY <1>1, <1>2

\* A step tells one process at most.
LEMMA OneIsTold ==
  ASSUME SystemInv, [SystemNext]_systemVars
  PROVE  \/ MayUseDevice' = MayUseDevice /\ timeouts' = timeouts + 1
         \/ /\ timeouts' = timeouts
            /\ \E c : \A q \in Process \ {c} : Knows(q, "active")' <=> Knows(q, "active")
<1>0. /\ life \in [Process -> Proxy] /\ up \in [Process -> BOOLEAN]
      /\ told \in [Process -> Told]
  BY DEF SystemInv, SystemTypeOK
<1>1. CASE TimesOut
  BY <1>1 DEF TimesOut, MayUseDevice, Knows
<1>2. ASSUME NEW ok \in BOOLEAN, PeerAnswers(ok)
      PROVE  /\ timeouts' = timeouts
             /\ \A q \in Process \ {call.to} : Knows(q, "active")' <=> Knows(q, "active")
  BY <1>0, <1>2 DEF PeerAnswers, Hear, Knows
<1>3. ASSUME NEW process \in Process, NEW ok \in BOOLEAN,
             Crash(process) \/ Restart(process) \/ HandleLate(process, ok)
      PROVE  /\ timeouts' = timeouts
             /\ \A q \in Process \ {process} : Knows(q, "active")' <=> Knows(q, "active")
  BY <1>0, <1>3 DEF Crash, Restart, HandleLate, Hear, Knows
<1>4. ASSUME UNCHANGED processVars
      PROVE  /\ timeouts' = timeouts
             /\ \A q : Knows(q, "active")' <=> Knows(q, "active")
  BY <1>4 DEF processVars, Knows
<1>5. CASE ProcessStep
  BY <1>3, <1>4, <1>5 DEF ProcessStep, PlayerRegisters, SourceRegisters
<1>6. CASE DaemonStep \/ PeerGone \/ UNCHANGED systemVars
  BY <1>4, <1>6 DEF DaemonStep, PeerGone, systemVars
<1> QED BY <1>1, <1>2, <1>5, <1>6 DEF SystemNext, CallEnds

\* At first nobody may use the device.
LEMMA DeviceInit == SystemInit => Device!Init
<1> SUFFICES ASSUME SystemInit PROVE MayUseDevice = {}
  BY DEF Device!Init, SystemInit
<1>1. \A p \in PlayerId : told[p].what = "no"
  BY DEF SystemInit, Process
<1> QED BY <1>1 DEF MayUseDevice, Knows

\* A step lets a user leave, lets a player take the device, or is a miss.
LEMMA DeviceNext ==
  SystemInv /\ ToldInv /\ StrayInv /\ [SystemNext]_systemVars
      => [Device!Next]_<<MayUseDevice, timeouts>>
<1> SUFFICES ASSUME SystemInv, ToldInv, StrayInv, [SystemNext]_systemVars
             PROVE  Device!Next \/ UNCHANGED <<MayUseDevice, timeouts>>
  OBVIOUS
<1>1. CASE MayUseDevice' = MayUseDevice /\ timeouts' = timeouts + 1
  BY <1>1 DEF Device!Next, Device!Miss
<1>2. ASSUME timeouts' = timeouts,
             NEW c, \A q \in Process \ {c} : Knows(q, "active")' <=> Knows(q, "active")
      PROVE  Device!Next \/ UNCHANGED <<MayUseDevice, timeouts>>
  <2>1. \A q : q # c => (q \in MayUseDevice' <=> q \in MayUseDevice)
    BY <1>2 DEF MayUseDevice, Process
  <2>2. CASE c \in MayUseDevice' <=> c \in MayUseDevice
    <3>1. \A q : q \in MayUseDevice' <=> q \in MayUseDevice
      BY <2>1, <2>2
    <3>2. MayUseDevice' = MayUseDevice
      BY <3>1
    <3> QED BY <1>2, <3>2
  <2>3. CASE c \in MayUseDevice' /\ c \notin MayUseDevice
    <3>1. c \in PlayerId /\ Knows(c, "active")' /\ ~Knows(c, "active")
      BY <2>3 DEF MayUseDevice
    <3>2. Cardinality(MayUseDevice) <= timeouts
      BY <2>3, <3>1, NewUser, UsersFew
    <3>3. MayUseDevice' = MayUseDevice \cup {c}
      BY <2>1, <2>3
    <3> QED BY <1>2, <2>3, <3>1, <3>2, <3>3, DeviceCounts DEF Device!Next, Device!Take
  <2>4. CASE c \notin MayUseDevice' /\ c \in MayUseDevice
    <3>1. MayUseDevice' = MayUseDevice \ {c}
      BY <2>1, <2>4
    <3>2. c \in PlayerId
      BY <2>4 DEF MayUseDevice
    <3> QED BY <1>2, <2>4, <3>1, <3>2 DEF Device!Next, Device!Leave
  <2> QED BY <2>2, <2>3, <2>4
<1> QED BY <1>1, <1>2, OneIsTold

(* The device is also free whenever it passes from one player to another,  *)
(* but for the players that timeouts have led astray: the system           *)
(* implements AudioDevice.                                                 *)
THEOREM SystemImplementsDevice == SystemSpec => ImplementsDevice
  BY DeviceInit, DeviceNext, SystemInvAlways, ToldAlways, StrayAlways, PTL
     DEF SystemSpec, ImplementsDevice, Device!Spec, Device!deviceVars

(* AudioDevice promises an exclusive device: whoever takes it only while   *)
(* there are no more users than misses never has two more.                 *)
THEOREM DeviceIsExclusive == ImplementsDevice => []Exclusive
<1> DEFINE DeviceInv == /\ timeouts \in Nat
                        /\ IsFiniteSet(MayUseDevice)
                        /\ Cardinality(MayUseDevice) <= 1 + timeouts
<1>1. Device!Init => DeviceInv
  BY FS_EmptySet DEF Device!Init
<1>2. DeviceInv /\ [Device!Next]_<<MayUseDevice, timeouts>> => DeviceInv'
  <2> SUFFICES ASSUME DeviceInv, [Device!Next]_<<MayUseDevice, timeouts>>
               PROVE  DeviceInv'
    OBVIOUS
  <2>1. CASE Device!Miss
    <3>1. Cardinality(MayUseDevice) \in Nat
      BY FS_CardinalityType
    <3> QED BY <2>1, <3>1 DEF Device!Miss
  <2>2. ASSUME NEW p \in PlayerId, Device!Take(p) PROVE DeviceInv'
    <3>1. MayUseDevice' \in SUBSET (MayUseDevice \cup {p}) /\ timeouts' = timeouts
          /\ Cardinality(MayUseDevice) <= timeouts
      BY <2>2, DeviceCounts DEF Device!Take
    <3>2. IsFiniteSet(MayUseDevice') /\ Cardinality(MayUseDevice') <= timeouts + 1
      BY <3>1, OneMore
    <3> QED BY <3>1, <3>2
  <2>3. ASSUME NEW p \in PlayerId, Device!Leave(p) PROVE DeviceInv'
    <3>1. MayUseDevice' \in SUBSET MayUseDevice /\ timeouts' = timeouts /\ 1 + timeouts \in Nat
      BY <2>3 DEF Device!Leave
    <3>2. IsFiniteSet(MayUseDevice') /\ Cardinality(MayUseDevice') <= 1 + timeouts
      BY <3>1, PartIsSmall
    <3> QED BY <3>1, <3>2
  <2> QED BY <2>1, <2>2, <2>3 DEF Device!Next
<1>3. DeviceInv => Exclusive
  BY DeviceCounts DEF Exclusive, Device!Exclusive
<1> QED BY <1>1, <1>2, <1>3, PTL DEF ImplementsDevice, Device!Spec, Device!deviceVars

---------------------------------------------------------------------------
(* What holds as long as no call has timed out.                            *)

(* As long as no call has timed out, crashes and restarts mislead nobody:  *)
(* a running player that may use the device is the one the switch has      *)
(* activated, and a running source that plays the one it has selected.     *)
THEOREM NobodyStraysWithoutTimeouts ==
  SystemSpec => [](timeouts = 0 => /\ MayUseDevice \subseteq {current_player_id}
                                   /\ Strayed = {})
<1>1. SystemInv /\ StrayInv
        => (timeouts = 0 => MayUseDevice \subseteq {current_player_id} /\ Strayed = {})
  <2> SUFFICES ASSUME SystemInv, StrayInv, timeouts = 0
               PROVE  MayUseDevice \subseteq {current_player_id} /\ Strayed = {}
    OBVIOUS
  <2>1. IsFiniteSet(Doubtful) /\ Cardinality(Doubtful) <= 0
    BY DEF StrayInv
  <2>2. Cardinality(Doubtful) = 0
    BY <2>1, FS_CardinalityType
  <2>3. Doubtful = {}
    BY <2>1, <2>2, FS_EmptySet
  <2> QED BY <2>3, UsersStray DEF Doubtful
<1> QED BY <1>1, SystemInvAlways, StrayAlways, PTL
=============================================================================
