---------------------------- MODULE AudioSystem ----------------------------
(***************************************************************************)
(* AudioPath::Switch together with the processes it controls: audio        *)
(* players that use the sound device while they have been told they may,   *)
(* and audio sources that are told when they are selected.  A process may  *)
(* crash and start again as a new incarnation (a new D-Bus name, a new     *)
(* proxy), it may answer with an error, and it may be too slow, so that    *)
(* the daemon gives up on a call that the process handles later.           *)
(*                                                                         *)
(* The processes are not part of the repository.  They are modelled from   *)
(* how audiopathswitch.cc uses them and from what the README requires.     *)
(***************************************************************************)
EXTENDS AudioPathSwitch, FiniteSets, Integers, Sequences

CONSTANTS
    Mortal,        \* the processes that may crash
    MaxLives,      \* bound: incarnations of a process
    MaxTimeouts    \* bound: calls that time out

Process == SourceId \cup PlayerId

ASSUME ProcessesDiffer == SourceId \cap PlayerId = {}
ASSUME MortalIsProcess == Mortal \subseteq Process
ASSUME ProxyIsIncarnation == MaxLives \in Nat \ {0} /\ Proxy = 1..MaxLives
ASSUME TimeoutsBounded == MaxTimeouts \in Nat
ASSUME ProxyIsCreated == Proxy \subseteq ProxyOutcome

VARIABLES
    life,      \* number of the latest incarnation of each process
    up,        \* whether that incarnation runs
    told,      \* what a process was told last, and which incarnation it was
    late,      \* calls given up by the daemon that a process has yet to handle
    timeouts   \* number of timeouts so far

processVars == <<life, up, told, late, timeouts>>
systemVars == <<switchAllVars, processVars>>

Told == [what : {"no", "active", "selected", "held"}, life : Proxy \cup {0}]

SystemTypeOK ==
    /\ SwitchTypeOK
    /\ life \in [Process -> Proxy]
    /\ up \in [Process -> BOOLEAN]
    /\ told \in [Process -> Told]
    /\ late \in [Process -> Seq(Call)]
    /\ timeouts \in 0..MaxTimeouts

SystemInit ==
    /\ SwitchInit
    /\ life = [c \in Process |-> 1]
    /\ up = [c \in Process |-> TRUE]
    /\ told = [c \in Process |-> [what |-> "no", life |-> 0]]
    /\ late = [c \in Process |-> <<>>]
    /\ timeouts = 0

---------------------------------------------------------------------------
(* What a process makes of a call.  A player that is told to deactivate    *)
(* itself must release the device before the call returns (README); one    *)
(* that answers Activate with an error does not take it.                   *)

Meaning(method, ok) ==
    CASE method = "Activate" /\ ok -> "active"
      [] method = "Selected" /\ ok -> "selected"
      [] method = "SelectedOnHold" /\ ok -> "held"
      [] OTHER -> "no"

Hear(process, c, ok) ==
    told' = [told EXCEPT ![process] = [what |-> Meaning(c.method, ok), life |-> c.peer]]

\* The running incarnation of a process has been told this.
Knows(process, what) ==
    up[process] /\ told[process] = [what |-> what, life |-> life[process]]

\* The proxy the daemon has for a process.
Registered(c) == IF c \in PlayerId THEN players[c] ELSE source_proxy[c]

Reachable(c) == up[c.to] /\ life[c.to] = c.peer

\* A process handles its calls in the order they were made.
PeerAnswers(ok) ==
    /\ call # NoCall
    /\ Reachable(call)
    /\ late[call.to] = <<>>
    /\ Hear(call.to, call, ok)
    /\ CallReturns(ok)
    /\ UNCHANGED <<life, up, late, timeouts>>

\* The proxy is that of a process that has gone: the bus returns an error.
PeerGone ==
    /\ call # NoCall
    /\ ~Reachable(call)
    /\ CallReturns(FALSE)
    /\ UNCHANGED processVars

\* The daemon gives up; the process will find the call in its inbox.
TimesOut ==
    /\ timeouts < MaxTimeouts
    /\ call # NoCall
    /\ Reachable(call)
    /\ CallReturns(FALSE)
    /\ late' = [late EXCEPT ![call.to] = Append(@, call)]
    /\ timeouts' = timeouts + 1
    /\ UNCHANGED <<life, up, told>>

\* A slow process gets to a call nobody waits for any more.
HandleLate(process, ok) ==
    /\ late[process] # <<>>
    /\ Hear(process, Head(late[process]), ok)
    /\ late' = [late EXCEPT ![process] = Tail(@)]
    /\ UNCHANGED <<switchAllVars, life, up, timeouts>>

\* A process ends, at any time, and loses its inbox.
Crash(process) ==
    /\ process \in Mortal
    /\ up[process]
    /\ up' = [up EXCEPT ![process] = FALSE]
    /\ late' = [late EXCEPT ![process] = <<>>]
    /\ UNCHANGED <<switchAllVars, life, told, timeouts>>

Restart(process) ==
    /\ ~up[process]
    /\ life[process] < MaxLives
    /\ life' = [life EXCEPT ![process] = @ + 1]
    /\ up' = [up EXCEPT ![process] = TRUE]
    /\ UNCHANGED <<switchAllVars, told, late, timeouts>>

\* Proxies for one ID are created in the order of its registrations, also if
\* the process is gone before its registration is through.  This is assumed of
\* GLib and the bus; the daemon does not check it.
NotOlder(registered, proxy) == registered # None => registered <= proxy

\* A process registers itself, and the daemon gets to it when it is idle.
PlayerRegisters(p) ==
    /\ pc = "idle"
    /\ \E proxy \in 1..life[p] : NotOlder(players[p], proxy) /\ AddPlayer(p, proxy)
    /\ UNCHANGED <<switchVars, processVars>>

SourceRegisters(s, p) ==
    /\ pc = "idle"
    /\ \E proxy \in 1..life[s] :
          NotOlder(source_proxy[s], proxy) /\ AddSource(s, p, proxy)
    /\ UNCHANGED <<switchVars, processVars>>

DaemonStep == (Enter \/ SkipDeactivate \/ MakeCall \/ Return) /\ UNCHANGED processVars

ProcessStep ==
    \/ \E p \in PlayerId : PlayerRegisters(p)
    \/ \E w \in Wiring : SourceRegisters(w[1], w[2])
    \/ \E process \in Process :
          \/ Crash(process)
          \/ Restart(process)
          \/ \E ok \in BOOLEAN : HandleLate(process, ok)

CallEnds == PeerGone \/ TimesOut \/ \E ok \in BOOLEAN : PeerAnswers(ok)

SystemNext == DaemonStep \/ ProcessStep \/ CallEnds

SystemSpec == SystemInit /\ [][SystemNext]_systemVars

---------------------------------------------------------------------------
(* Properties.                                                             *)

(* The README: the players "need exclusive access to the sound device",    *)
(* and tapswitch "tells the matching player that it may take the audio     *)
(* device, and tells other players that they may not".  At most one        *)
(* running player has been told last that it may, as long as no call times *)
(* out, and not more than one more for each that does.                     *)
MayUseDevice == {p \in PlayerId : Knows(p, "active")}

Device == INSTANCE AudioDevice WITH users <- MayUseDevice, misses <- timeouts

Exclusive == Device!Exclusive

(* The device is also free in between whenever it passes from one player   *)
(* to another, through crashes and restarts; with timeouts, a player takes *)
(* it only from those who have been led astray by them.                    *)
ImplementsDevice == Device!Spec

(* A process believes what the switch believes: a running player that may  *)
(* use the device is the switch's active player, and a running source that *)
(* was last told it is selected is the switch's selected source.           *)
(* Otherwise the process has been led astray by a call that has timed out, *)
(* and no two of them by the same call, whatever crashes, and whatever the *)
(* switch does before and after the process gets to that call.             *)
Strayed ==
    {c \in Process : \/ Knows(c, "active") /\ current_player_id # c
                     \/ Knows(c, "selected") /\ current_source_id # c}

ProcessesBelieveSwitch == Cardinality(Strayed) <= timeouts

(* And the switch is never ahead of the processes, also when calls time    *)
(* out: its active player was last told to activate, its selected source   *)
(* that it is selected, and its pending one that it is on hold (or an      *)
(* incarnation of them was, before it crashed).                            *)
SwitchBelievesProcesses ==
    /\ current_player_id # None => told[current_player_id].what = "active"
    /\ current_source_id # None => told[current_source_id].what = "selected"
    /\ HavePending => told[pending.source_id].what = "held"

(* Contradicted by the code: "The registered audio source is notified with *)
(* a D-Bus method invocation when its player is ready" (README).  A source *)
(* is told that it is selected only while its player, if the incarnation   *)
(* that has registered is running, has been told to activate.              *)
PlayerReadyWhenSelected ==
    LET p == current_player_id
    IN call.method = "Selected" /\ up[p] /\ players[p] = life[p]
          => Knows(p, "active")
=============================================================================
