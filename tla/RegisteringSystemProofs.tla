---------------------- MODULE RegisteringSystemProofs ----------------------
(***************************************************************************)
(* Proofs about registration in two halves, for any number of processes,   *)
(* incarnations, timeouts and registrations that are under way.            *)
(*                                                                         *)
(* CreationInv: what is being created for a process is not older than what *)
(* is registered for it, so that the registry moves forward only, as it    *)
(* does in AudioSystem; and what is registered has been answered.          *)
(***************************************************************************)
EXTENDS RegisteringSystem, AudioSystemProofs

USE ProcessesDiffer, ProxyIsIncarnation, NoneIsNothing

CreationInv ==
    \A c \in Process :
        /\ creating[c] \subseteq 1..life[c]
        /\ Registered(c) \in Proxy \cup {None}
        /\ Registered(c) # None =>
              /\ Registered(c) <= life[c]
              /\ \A proxy \in creating[c] : Registered(c) <= proxy
              /\ Registered(c) \in answered[c]

RegisteringInv == RegisteringTypeOK /\ CreationInv

---------------------------------------------------------------------------
(* Registrations.                                                          *)

\* What a registration changes, whoever registers.
LEMMA AddRegisters ==
  ASSUME SystemTypeOK, NEW c \in Process, NEW proxy \in Proxy, Add(c, proxy)
  PROVE  \A d \in Process : Registered(d)' = IF d = c THEN proxy ELSE Registered(d)
<1>1. SwitchTypeOK /\ PathsTypeOK /\ \A w \in Wiring : w[1] \in SourceId
  BY WiringIsTyped DEF SystemTypeOK, SwitchTypeOK
<1>2. CASE c \in PlayerId /\ AddPlayer(c, proxy)
  BY <1>1, <1>2 DEF AddPlayer, Registered, Process, PathsTypeOK
<1>3. ASSUME NEW w \in Wiring, w[1] = c, AddSource(c, w[2], proxy)
      PROVE  \A d \in Process : Registered(d)' = IF d = c THEN proxy ELSE Registered(d)
  BY <1>1, <1>3 DEF AddSource, Registered, Process, PathsTypeOK
<1> QED BY <1>2, <1>3 DEF Add

\* A registration that is finished is one step of AudioSystem.
LEMMA DoneRegisters ==
  ASSUME RegisteringInv, NEW c \in Process, RegistrationDone(c)
  PROVE  \/ \E p \in PlayerId : PlayerRegisters(p)
         \/ \E w \in Wiring : SourceRegisters(w[1], w[2])
<1> USE DEF RegisteringInv, CreationInv, NotOlder
<1>1. PICK proxy \in Proxy : Created(c, proxy) /\ Add(c, proxy)
  BY DEF RegistrationDone
<1>2. proxy \in creating[c] /\ proxy \in 1..life[c]
  BY <1>1 DEF Created
<1>3. Registered(c) # None => Registered(c) <= proxy
  BY <1>2
<1>4. CASE c \in PlayerId /\ AddPlayer(c, proxy)
  BY <1>2, <1>3, <1>4 DEF RegistrationDone, PlayerRegisters, Registered
<1>5. ASSUME NEW w \in Wiring, w[1] = c, AddSource(c, w[2], proxy)
      PROVE  SourceRegisters(w[1], w[2])
  <2>1. c \notin PlayerId
    BY <1>5, WiringIsTyped
  <2> QED BY <1>2, <1>3, <1>5, <2>1 DEF RegistrationDone, SourceRegisters, Registered
<1> QED BY <1>1, <1>4, <1>5 DEF Add

\* Every step is a step of AudioSystem, or one it does not see.
LEMMA RegisteringStepIsSystemStep ==
  RegisteringInv /\ [RegisteringNext]_registeringVars => [SystemNext]_systemVars
<1> SUFFICES ASSUME RegisteringInv, [RegisteringNext]_registeringVars
             PROVE  SystemNext \/ UNCHANGED systemVars
  OBVIOUS
<1>1. ASSUME NEW c \in Process, BeginRegistration(c)
      PROVE  UNCHANGED systemVars
  BY <1>1 DEF BeginRegistration
<1>2. ASSUME NEW c \in Process, RegistrationDone(c)
      PROVE  SystemNext
  BY <1>2, DoneRegisters DEF SystemNext, ProcessStep
<1>3. CASE DaemonStep \/ CallEnds
  BY <1>3 DEF SystemNext
<1>4. ASSUME NEW c \in Process,
             Crash(c) \/ Restart(c) \/ \E ok \in BOOLEAN : HandleLate(c, ok)
      PROVE  SystemNext
  BY <1>4 DEF SystemNext, ProcessStep
<1> QED BY <1>1, <1>2, <1>3, <1>4 DEF RegisteringNext, registeringVars

---------------------------------------------------------------------------
(* The invariant.                                                          *)

\* Nobody has registered, and every process is its first incarnation.
LEMMA RegisteringInitInv == RegisteringInit => RegisteringInv
<1> SUFFICES ASSUME RegisteringInit PROVE RegisteringInv
  OBVIOUS
<1>1. SystemTypeOK
  BY SystemInitInv DEF RegisteringInit, SystemInv
<1>2. \A c \in Process : Registered(c) = None
  BY DEF RegisteringInit, SystemInit, SwitchInit, PathsInit, Registered, Process
<1> QED BY <1>1, <1>2 DEF RegisteringInit, RegisteringInv, RegisteringTypeOK, CreationInv

\* What neither registers nor starts a process changes nothing in CreationInv.
LEMMA OthersCreate ==
  ASSUME RegisteringInv,
         UNCHANGED <<players, source_proxy, life, creating, answered>>
  PROVE  CreationInv'
  BY DEF RegisteringInv, CreationInv, Registered

\* Steps of the switch other than registrations do not touch the registry.
LEMMA RegistryStays ==
  ASSUME SystemInv,
         DaemonStep \/ CallEnds
           \/ \E c \in Process : Crash(c) \/ \E ok \in BOOLEAN : HandleLate(c, ok)
  PROVE  UNCHANGED <<players, source_proxy, life>>
<1>1. CASE DaemonStep
  BY <1>1, DaemonKeeps DEF DaemonStep, processVars
<1>2. CASE CallEnds
  BY <1>2, CallReturnsKeeps DEF CallEnds, PeerGone, TimesOut, PeerAnswers, processVars
<1>3. CASE \E c \in Process : Crash(c) \/ \E ok \in BOOLEAN : HandleLate(c, ok)
  BY <1>3 DEF Crash, HandleLate, switchAllVars, pathsVars
<1> QED BY <1>1, <1>2, <1>3

\* Every step preserves the invariant.
LEMMA RegisteringNextInv ==
  SystemInv /\ RegisteringInv /\ [RegisteringNext]_registeringVars => RegisteringInv'
<1> SUFFICES ASSUME SystemInv, RegisteringInv, [RegisteringNext]_registeringVars
             PROVE  RegisteringInv'
  OBVIOUS
<1> USE DEF RegisteringInv
<1>0. SystemTypeOK' /\ SystemTypeOK
  BY RegisteringStepIsSystemStep, SystemNextInv DEF SystemInv
<1>a. creating \in [Process -> SUBSET Proxy] /\ life \in [Process -> Proxy]
  BY <1>0 DEF RegisteringTypeOK, SystemTypeOK
<1>b. answered \in [Process -> SUBSET Proxy]
  BY DEF RegisteringTypeOK
<1>1. ASSUME NEW c \in Process, BeginRegistration(c)
      PROVE  RegisteringInv'
  <2>1. /\ creating' = [creating EXCEPT ![c] = @ \cup {life[c]}]
        /\ UNCHANGED <<players, source_proxy, life, answered>>
    BY <1>1 DEF BeginRegistration, systemVars, switchAllVars, pathsVars, processVars
  <2>2. creating' \in [Process -> SUBSET Proxy]
    BY <1>a, <2>1
  <2>3. \A d \in Process : Registered(d)' = Registered(d)
    BY <2>1 DEF Registered
  <2>4. \A d \in Process : creating'[d] = IF d = c THEN creating[d] \cup {life[d]}
                                          ELSE creating[d]
    BY <1>a, <2>1
  <2>5. \A d \in Process : life[d] \in Nat /\ life[d] \in 1..life[d]
    BY <1>a
  <2>6. ASSUME NEW d \in Process
        PROVE  /\ creating'[d] \subseteq 1..life'[d]
               /\ \A proxy \in creating'[d] : Registered(d) # None => Registered(d) <= proxy
    BY <2>1, <2>4, <2>5 DEF CreationInv
  <2>7. CreationInv'
    BY <2>1, <2>3, <2>6 DEF CreationInv
  <2> QED BY <1>0, <1>b, <2>1, <2>2, <2>7 DEF RegisteringTypeOK
<1>2. ASSUME NEW c \in Process, RegistrationDone(c)
      PROVE  RegisteringInv'
  <2>1. PICK proxy \in Proxy : /\ Created(c, proxy) /\ Add(c, proxy)
                               /\ creating' = [creating EXCEPT ![c] = @ \ {proxy}]
                               /\ answered' = [answered EXCEPT ![c] = @ \cup {proxy}]
    BY <1>2 DEF RegistrationDone
  <2>2. /\ life' = life /\ creating' \in [Process -> SUBSET Proxy]
        /\ answered' \in [Process -> SUBSET Proxy]
    BY <1>2, <1>a, <1>b, <2>1 DEF RegistrationDone, processVars
  <2>3. \A d \in Process : Registered(d)' = IF d = c THEN proxy ELSE Registered(d)
    BY <1>0, <2>1, AddRegisters
  <2>4. \A d \in Process : creating'[d] = IF d = c THEN creating[d] \ {proxy} ELSE creating[d]
    BY <1>a, <2>1
  <2>5. proxy <= life[c] /\ \A other \in creating[c] : proxy <= other
    BY <1>a, <2>1 DEF Created, CreationInv
  <2>6. \A d \in Process : answered'[d] = IF d = c THEN answered[d] \cup {proxy} ELSE answered[d]
    BY <1>b, <2>1
  <2>7. CreationInv'
    BY <2>2, <2>3, <2>4, <2>5, <2>6 DEF CreationInv
  <2> QED BY <1>0, <2>2, <2>7 DEF RegisteringTypeOK
<1>3. ASSUME NEW c \in Process, Restart(c), UNCHANGED <<creating, answered>>
      PROVE  RegisteringInv'
  <2>1. /\ UNCHANGED <<players, source_proxy>>
        /\ \A d \in Process : life[d] \in Nat /\ life'[d] \in Nat /\ life[d] <= life'[d]
    BY <1>0, <1>3, <1>a DEF Restart, switchAllVars, pathsVars, SystemTypeOK
  <2>2. \A d \in Process : Registered(d)' = Registered(d)
    BY <2>1 DEF Registered
  <2>3. CreationInv'
    BY <1>3, <2>1, <2>2 DEF CreationInv
  <2> QED BY <1>0, <1>3, <2>3 DEF RegisteringTypeOK
<1>4. CASE /\ UNCHANGED <<creating, answered>>
           /\ \/ DaemonStep \/ CallEnds
              \/ \E c \in Process : Crash(c) \/ \E ok \in BOOLEAN : HandleLate(c, ok)
  BY <1>0, <1>4, RegistryStays, OthersCreate DEF RegisteringTypeOK
<1>5. CASE UNCHANGED registeringVars
  BY <1>0, <1>5, OthersCreate DEF RegisteringTypeOK, registeringVars, systemVars,
     switchAllVars, pathsVars, processVars
<1> QED BY <1>1, <1>2, <1>3, <1>4, <1>5 DEF RegisteringNext

\* Every step preserves SystemInv, too.
LEMMA RegisteringSystemInv ==
  SystemInv /\ RegisteringInv /\ [RegisteringNext]_registeringVars => SystemInv'
  BY RegisteringStepIsSystemStep, SystemNextInv

\* Both invariants hold in every state.
LEMMA RegisteringInvAlways == RegisteringSpec => [](SystemInv /\ RegisteringInv)
<1>1. RegisteringInit => SystemInv
  BY SystemInitInv DEF RegisteringInit
<1> QED BY <1>1, RegisteringInitInv, RegisteringNextInv, RegisteringSystemInv, PTL
        DEF RegisteringSpec

(* All variables always have their types.                                  *)
THEOREM RegisteringTypeCorrect == RegisteringSpec => []RegisteringTypeOK
<1>1. RegisteringInv => RegisteringTypeOK
  BY DEF RegisteringInv
<1> QED BY <1>1, RegisteringInvAlways, PTL

(* Registering in two halves, with crashes in between, looks like one step.*)
THEOREM RegisteringImplementsSystem == RegisteringSpec => ImplementsSystem
<1>1. RegisteringInit => SystemInit
  BY DEF RegisteringInit
<1> QED BY <1>1, RegisteringInvAlways, RegisteringStepIsSystemStep, PTL
        DEF RegisteringSpec, ImplementsSystem, SystemSpec

(* So the switch does what it does by itself, although it knows of a       *)
(* component only when its proxy has been created, in whichever order that *)
(* is: its path is intact, its lookups succeed, its calls are in order.    *)
THEOREM RegisteringSwitchSafe == RegisteringSpec => []SwitchSafe
<1>1. SystemInv => SwitchSafe
  BY InvSafe DEF SystemInv
<1> QED BY <1>1, RegisteringInvAlways, PTL

(* What is proved of AudioSystem holds here, too: the switch is never      *)
(* ahead of the processes.                                                 *)
THEOREM RegisteringSwitchBelieves == RegisteringSpec => []SwitchBelievesProcesses
  BY RegisteringImplementsSystem, SwitchBelievesAlways, PTL DEF ImplementsSystem

(* And few processes are ahead of the switch, although registrations are   *)
(* under way while processes crash and come back.                          *)
THEOREM RegisteringProcessesBelieve == RegisteringSpec => []ProcessesBelieveSwitch
  BY RegisteringImplementsSystem, ProcessesBelieveAlways, PTL DEF ImplementsSystem

(* So that the device is exclusive, and free before it is handed on.       *)
THEOREM RegisteringExclusive == RegisteringSpec => ImplementsDevice /\ []Exclusive
  BY RegisteringImplementsSystem, SystemImplementsDevice, DeviceIsExclusive, PTL
     DEF ImplementsSystem

---------------------------------------------------------------------------
(* Answers come before calls.  The daemon calls what is registered.        *)

\* Calls are made to what is registered here, too.
LEMMA RegisteringCalls == RegisteringSpec => [](SwitchTypeOK /\ CallsRegistered)
<1>1. SystemInv => SwitchTypeOK
  BY DEF SystemInv, SystemTypeOK
<1>2. ToldInv => CallsRegistered
  BY DEF ToldInv
<1> QED BY <1>1, <1>2, RegisteringInvAlways, RegisteringImplementsSystem, ToldAlways, PTL
        DEF ImplementsSystem

(* The daemon calls nobody that it has not answered a registration, in     *)
(* whichever order registrations of an incarnation or of its successors    *)
(* are begun and done: nobody is called who waits for its first answer.    *)
THEOREM AnsweredBeforeCalledAlways == RegisteringSpec => []AnsweredBeforeCalled
<1>1. SwitchTypeOK /\ CallsRegistered /\ RegisteringInv => AnsweredBeforeCalled
  <2> SUFFICES ASSUME SwitchTypeOK, CallsRegistered, RegisteringInv, call # NoCall
               PROVE  call.peer \in answered[call.to]
    BY DEF AnsweredBeforeCalled
  <2>1. call.to \in Process /\ call.peer \in Proxy
    BY CallTarget
  <2>2. call.peer = Registered(call.to)
    BY DEF CallsRegistered
  <2>3. Registered(call.to) # None
    BY <2>1, <2>2
  <2> QED BY <2>1, <2>2, <2>3 DEF RegisteringInv, CreationInv
<1> QED BY <1>1, RegisteringCalls, RegisteringInvAlways, PTL
=============================================================================
