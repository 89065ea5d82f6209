------------------------- MODULE RegisteringSystem -------------------------
(***************************************************************************)
(* AudioSystem with registration in its two halves (dbus_handlers.cc,      *)
(* dbus_proxy_wrapper.hh).  The handler starts creating a proxy, for which *)
(* the process is asked for its properties, and returns; the registration  *)
(* takes effect and is answered when the proxy has been created.  The      *)
(* process may have gone, and started and registered again, by then.       *)
(*                                                                         *)
(* A process registers whenever it runs, also when it is registered        *)
(* already, and also while it waits for the answer to an earlier           *)
(* registration.  A process that owns several components is several of     *)
(* Process, which crash and start again in any order, among them one       *)
(* directly after the other.  It may or may not handle calls while it      *)
(* waits for an answer; if it does not, the call to it times out.          *)
(***************************************************************************)
EXTENDS AudioSystem

VARIABLES
    creating,   \* proxies being created for the registrations of a process
    answered    \* history: incarnations of a process that have been answered

registeringVars == <<systemVars, creating, answered>>

RegisteringTypeOK ==
    /\ SystemTypeOK
    /\ creating \in [Process -> SUBSET Proxy]
    /\ answered \in [Process -> SUBSET Proxy]

RegisteringInit ==
    /\ SystemInit
    /\ creating = [c \in Process |-> {}]
    /\ answered = [c \in Process |-> {}]

---------------------------------------------------------------------------
(* Registration.                                                           *)

\* The component gets its proxy.  A source names its player in its call.
Add(c, proxy) ==
    \/ c \in PlayerId /\ AddPlayer(c, proxy)
    \/ \E w \in Wiring : w[1] = c /\ AddSource(c, w[2], proxy)

\* Mutant: the component is entered at once, and its registration answered
\* when the proxy works.
BeginRegistration_Enters(c) ==
    /\ pc = "idle"
    /\ up[c]
    /\ creating' = [creating EXCEPT ![c] = @ \cup {life[c]}]
    /\ Add(c, life[c])
    /\ UNCHANGED <<switchVars, processVars, answered>>

\* The handlers of RegisterPlayer() and RegisterSource(), mk_proxy_async().
\* Registrations of one incarnation that overlap count once: a second one is
\* as if asked for when the first one is done, since asking changes nothing.
BeginRegistration(c) ==
    /\ pc = "idle"
    /\ up[c]
    /\ creating' = [creating EXCEPT ![c] = @ \cup {life[c]}]
    /\ UNCHANGED <<systemVars, answered>>

\* The bus ends the creation of proxies in the order in which their owners,
\* one after another, have registered.  Again an assumption.
Created(c, proxy) ==
    proxy \in creating[c] /\ \A other \in creating[c] : proxy <= other

\* done() calls the bottom half, which enters the proxy and answers the
\* process.
RegistrationDone(c) ==
    /\ pc = "idle"
    /\ \E proxy \in Proxy :
          /\ Created(c, proxy)
          /\ Add(c, proxy)
          /\ creating' = [creating EXCEPT ![c] = @ \ {proxy}]
          /\ answered' = [answered EXCEPT ![c] = @ \cup {proxy}]
    /\ UNCHANGED <<switchVars, processVars>>

---------------------------------------------------------------------------
(* All else is as in AudioSystem.                                          *)

RegisteringNext ==
    \/ \E c \in Process : BeginRegistration(c) \/ RegistrationDone(c)
    \/ /\ \/ DaemonStep
          \/ CallEnds
          \/ \E c \in Process :
                Crash(c) \/ Restart(c) \/ \E ok \in BOOLEAN : HandleLate(c, ok)
       /\ UNCHANGED <<creating, answered>>

RegisteringSpec == RegisteringInit /\ [][RegisteringNext]_registeringVars

---------------------------------------------------------------------------
(* Properties.                                                             *)

(* "Avoid system deadlock by creating D-Bus proxies to clients             *)
(* asynchronously when they register" (ChangeLog): the daemon calls an     *)
(* incarnation only when it has answered a registration of it.  So it      *)
(* never waits for a process that waits for its first registration.  One   *)
(* that has been answered may be called while it waits for a further one.  *)
AnsweredBeforeCalled == call # NoCall => call.peer \in answered[call.to]

(* A registration under way, of a process that may have gone, does no      *)
(* harm: the registry never goes back to an earlier incarnation, and the   *)
(* system behaves as if registering were a single step.                    *)
ImplementsSystem == SystemSpec
=============================================================================
