---------------------------- MODULE AudioService ----------------------------
(***************************************************************************)
(* The life of the daemon (main() in tapswitch.cc, dbus_iface.cc) around   *)
(* the system of switch, players and sources.  The daemon exports its      *)
(* interfaces, waits for its bus name, connects the signal handlers, and   *)
(* serves D-Bus calls until a signal makes it leave its main loop.  It may *)
(* also end early, or in the middle of a handler, and be started again.    *)
(* All of its state is gone then, while players and sources still believe  *)
(* what they were told.                                                    *)
(*                                                                         *)
(* Who starts the daemon, the bus, and the signals are external.           *)
(***************************************************************************)
EXTENDS AudioSystem

CONSTANTS
    Fragile,   \* processes whose proxy the daemon may fail to create
    MaxInbox   \* bound: processes with a call of a daemon that has ended

ASSUME FragileIsProcess == Fragile \subseteq Process
ASSUME InboxBounded == MaxInbox \in Nat

VARIABLES
    stage,     \* how far the daemon has got
    sigterm,   \* SIGTERM or SIGINT has arrived, and its source waits for dispatch
    orphans    \* processes that were told something by an earlier daemon last

serviceVars == <<stage, sigterm, orphans>>
allVars == <<systemVars, serviceVars>>

Stage == {"off",        \* not running
          "connecting", \* in dbus_setup(), before bus_acquired()
          "exported",   \* bus_acquired() has exported the interfaces
          "named",      \* name_acquired() has run; signals not connected yet
          "running",    \* in the main loop
          "quitting"}   \* signal_handler() has told the main loop to quit

ServiceTypeOK ==
    /\ SystemTypeOK
    /\ stage \in Stage
    /\ sigterm \in BOOLEAN
    /\ orphans \subseteq Process

ServiceInit ==
    /\ SystemInit
    /\ stage = "off"
    /\ sigterm = FALSE
    /\ orphans = {}

---------------------------------------------------------------------------
(* Handlers run in the main loop, but also in the last iteration of the    *)
(* loop in dbus_setup(), together with name_acquired(), and in the last    *)
(* iteration of the main loop, after it has been told to quit.             *)
Serving == stage \in {"named", "running", "quitting"}

\* Creating the proxy yields that of the caller, or a null pointer.
Created(process) ==
    {life[process]} \cup IF process \in Fragile THEN {NullProxy} ELSE {}

PlayerIsRegistered(p) ==
    /\ up[p]
    /\ \E proxy \in Created(p) : AddPlayer(p, proxy)

SourceIsRegistered(s, p) ==
    /\ up[s]
    /\ \E proxy \in Created(s) : AddSource(s, p, proxy)

ServeRegistration ==
    /\ Serving
    /\ pc = "idle"
    /\ \/ \E p \in PlayerId : PlayerIsRegistered(p)
       \/ \E w \in Wiring : SourceIsRegistered(w[1], w[2])
    /\ UNCHANGED <<switchVars, processVars, serviceVars>>

ServeRequest ==
    /\ Serving
    /\ Enter
    /\ UNCHANGED <<processVars, serviceVars>>

\* GetPlayerInfo() and GetSourceInfo() take name and path from the proxy,
\* also from one that is null; otherwise queries change nothing.
ServeQuery ==
    /\ Serving
    /\ pc = "idle"
    /\ \/ \E p \in PlayerId : players[p] = NullProxy
       \/ \E s \in SourceId : source_proxy[s] = NullProxy
    /\ pc' = "crashed"
    /\ UNCHANGED <<pathsVars, current_source_id, current_player_id, pending,
                   frame, call, processVars, serviceVars>>

HandlerGoesOn ==
    \/ (SkipDeactivate \/ MakeCall \/ Return) /\ UNCHANGED <<processVars, serviceVars>>
    \/ (PeerGone \/ TimesOut) /\ UNCHANGED serviceVars
    \/ /\ \E ok \in BOOLEAN : PeerAnswers(ok)
       /\ orphans' = orphans \ {call.to}
       /\ UNCHANGED <<stage, sigterm>>

---------------------------------------------------------------------------
(* End.  The registry, the switch and the calls under way are no more; a   *)
(* call that has been sent is delivered all the same.                      *)

\* Mutant: the active player is remembered across restarts.
Forget_KeepsPlayer ==
    /\ players' = [p \in PlayerId |-> None]
    /\ sources' = [s \in SourceId |-> None]
    /\ source_proxy' = [s \in SourceId |-> None]
    /\ current_source_id' = None
    /\ current_player_id' = current_player_id
    /\ pending' = NoPending
    /\ pc' = "idle"
    /\ frame' = NoFrame
    /\ call' = NoCall

Forget ==
    /\ players' = [p \in PlayerId |-> None]
    /\ sources' = [s \in SourceId |-> None]
    /\ source_proxy' = [s \in SourceId |-> None]
    /\ current_source_id' = None
    /\ current_player_id' = None
    /\ pending' = NoPending
    /\ pc' = "idle"
    /\ frame' = NoFrame
    /\ call' = NoCall

End ==
    /\ Forget
    /\ late' = IF call # NoCall /\ Reachable(call)
               THEN [late EXCEPT ![call.to] = Append(@, call)]
               ELSE late
    /\ stage' = "off"
    /\ sigterm' = FALSE
    /\ orphans' = {c \in Process : told[c].what # "no" \/ late'[c] # <<>>}
    /\ UNCHANGED <<life, up, told, timeouts>>

---------------------------------------------------------------------------
(* Start, with the data of the handlers as Init has them.                  *)

Advance(from, to) ==
    /\ stage = from
    /\ stage' = to
    /\ UNCHANGED <<systemVars, sigterm, orphans>>

\* main() up to g_bus_own_name().
Start == Advance("off", "connecting")

BusAcquired == Advance("connecting", "exported")

NameAcquired == Advance("exported", "named")

\* Mutant: the data of the handlers are set up after dbus_setup().
ConnectSignals_Resets ==
    /\ stage = "named"
    /\ pc = "idle"
    /\ Forget
    /\ stage' = "running"
    /\ UNCHANGED <<processVars, sigterm, orphans>>

\* dbus_setup() returns when no handler runs any more.
ConnectSignals ==
    /\ pc = "idle"
    /\ Advance("named", "running")

---------------------------------------------------------------------------
(* Reasons to end.                                                         *)

\* The bus is not there, or the name has an owner: dbus_setup() fails.
NameLost ==
    /\ stage \in {"connecting", "exported"}
    /\ End

\* The signals are not connected yet, or, since signal_handler() removes its
\* source, not any more: the signal ends the process, whatever it is doing.
SignalKills ==
    /\ stage \in {"connecting", "exported", "named", "quitting"}
    /\ call # NoCall => Cardinality({c \in Process : late[c] # <<>>}) < MaxInbox
    /\ End

SignalArrives ==
    /\ stage = "running"
    /\ ~sigterm
    /\ sigterm' = TRUE
    /\ UNCHANGED <<systemVars, stage, orphans>>

\* Mutant: the source of the signal gets its turn only when nothing is on hold.
SignalHandler_NotPending ==
    /\ stage = "running"
    /\ sigterm
    /\ pc = "idle"
    /\ ~HavePending
    /\ stage' = "quitting"
    /\ sigterm' = FALSE
    /\ UNCHANGED <<systemVars, orphans>>

\* signal_handler(), between two handlers.
SignalHandler ==
    /\ stage = "running"
    /\ sigterm
    /\ pc = "idle"
    /\ stage' = "quitting"
    /\ sigterm' = FALSE
    /\ UNCHANGED <<systemVars, orphans>>

\* The main loop returns, and dbus_shutdown() gives the name back.  Nobody
\* is told.
Shutdown ==
    /\ stage = "quitting"
    /\ pc = "idle"
    /\ End

\* A null proxy has been used.
SegmentationFault ==
    /\ pc = "crashed"
    /\ End

---------------------------------------------------------------------------

Serve == ServeRegistration \/ ServeRequest \/ ServeQuery

StartUp == Start \/ BusAcquired \/ NameAcquired \/ ConnectSignals

ProcessActs ==
    /\ \E process \in Process :
          \/ Crash(process)
          \/ Restart(process)
          \/ \E ok \in BOOLEAN : HandleLate(process, ok)
    /\ UNCHANGED serviceVars

ServiceNext ==
    \/ Serve
    \/ HandlerGoesOn
    \/ StartUp
    \/ NameLost \/ SignalKills \/ SignalArrives \/ SignalHandler
    \/ Shutdown \/ SegmentationFault
    \/ ProcessActs

(* Handlers go on and end, as calls do.  The main loop dispatches the      *)
(* source of a signal, and looks whether it shall return, after a finite   *)
(* number of handlers.  A running process gets to the calls it was sent.   *)
ServiceFairness ==
    /\ WF_allVars(HandlerGoesOn)
    /\ WF_allVars(SegmentationFault)
    /\ SF_allVars(SignalHandler)
    /\ SF_allVars(Shutdown)
    /\ \A process \in Process :
          WF_allVars(\E ok \in BOOLEAN :
                        HandleLate(process, ok) /\ UNCHANGED serviceVars)

ServiceSpec == ServiceInit /\ [][ServiceNext]_allVars /\ ServiceFairness

---------------------------------------------------------------------------
(* Properties.                                                             *)

(* What is left of the exclusive device when the daemon may end at any     *)
(* time: whatever a daemon has told since its start is consistent.  A      *)
(* running process that believes otherwise has heard from an earlier       *)
(* daemon last, or it is one for each call that has timed out.             *)
BelieveOrOrphaned == Cardinality(Strayed \ orphans) <= timeouts

(* A new daemon never takes for its own what an earlier one did: its       *)
(* active player and its selected or pending source have been told by it,  *)
(* and last, although calls of its predecessor may be handled later.       *)
ToldByThisDaemon ==
    /\ SwitchBelievesProcesses
    /\ orphans \cap {current_player_id, current_source_id, pending.source_id} = {}

(* A daemon in its main loop that is told to terminate does terminate,     *)
(* whatever it is doing and however many requests there are.               *)
SignalHonoured == sigterm ~> stage = "off"
=============================================================================
