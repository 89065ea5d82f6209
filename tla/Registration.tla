---------------------------- MODULE Registration ----------------------------
(***************************************************************************)
(* Registration of players and sources over D-Bus (dbus_handlers.cc).  The *)
(* handler of RegisterPlayer() or RegisterSource() only starts creating a  *)
(* proxy for the caller; the rest runs when GLib has created it, or has    *)
(* failed to.  Several registrations may be under way, and they may be     *)
(* finished in any order.  An observer asks for the paths with GetPaths(), *)
(* and follows the PathAvailable signals from then on.                     *)
(***************************************************************************)
EXTENDS AudioPath, FiniteSets

CONSTANT Invocation   \* registrations that may be under way at a time

VARIABLES
    creating,   \* invocations whose proxy is being created
    watching,   \* the observer has called GetPaths()
    known       \* the paths it knows of

vars == <<pathsVars, creating, watching, known>>

Idle == [kind |-> "none"]

PlayerRequest == [kind : {"player"}, player_id : PlayerId, peer : Proxy]

SourceRequest == [kind : {"source"}, source_id : SourceId,
                  player_id : PlayerId, peer : Proxy]

Path == SourceId \X PlayerId

TypeOK ==
    /\ PathsTypeOK
    /\ creating \in [Invocation -> PlayerRequest \cup SourceRequest \cup {Idle}]
    /\ watching \in BOOLEAN
    /\ known \subseteq Path

Init ==
    /\ PathsInit
    /\ creating = [i \in Invocation |-> Idle]
    /\ watching = FALSE
    /\ known = {}

---------------------------------------------------------------------------

\* The handlers: the caller's bus name, which its proxy is for, is taken
\* from the message.  (Empty arguments are refused and change nothing.)
BeginRegistration(i, request) ==
    /\ creating[i] = Idle
    /\ creating' = [creating EXCEPT ![i] = request]
    /\ UNCHANGED <<pathsVars, watching, known>>

RegisterPlayer(i, p, peer) ==
    BeginRegistration(i, [kind |-> "player", player_id |-> p, peer |-> peer])

RegisterSource(i, s, p, peer) ==
    BeginRegistration(i, [kind |-> "source", source_id |-> s,
                          player_id |-> p, peer |-> peer])

\* PathAvailable signals reach the observer.
EmitPathAvailable(paths) ==
    /\ known' = IF watching THEN known \cup paths ELSE known
    /\ UNCHANGED watching

\* Proxy creation has ended with the proxy, or with an error (null pointer).
Done(i, kind, proxy) ==
    /\ creating[i].kind = kind
    /\ proxy \in {creating[i].peer, NullProxy}
    /\ creating' = [creating EXCEPT ![i] = Idle]

IsPath(result) == result \in {"NEW_PATH", "UPDATED_PATH"}

\* Mutant: the loop over the paths ends with the first one.
PlayerPaths_First(p) ==
    LET all == {s \in SourceId : sources[s] = p}
    IN IF all = {} THEN {} ELSE {<<CHOOSE s \in all : TRUE, p>>}

\* The complete paths that have the player, once it has been added.
PlayerPaths(p) == {<<s, p>> : s \in {t \in SourceId : sources[t] = p}}

PlayerProxyDone(i, proxy) ==
    /\ Done(i, "player", proxy)
    /\ LET p == creating[i].player_id
       IN /\ AddPlayer(p, proxy)
          /\ EmitPathAvailable(IF IsPath(AddPlayerResult(p)) THEN PlayerPaths(p) ELSE {})

\* The path is announced with the player of the request.
SourceProxyDone(i, proxy) ==
    /\ Done(i, "source", proxy)
    /\ LET s == creating[i].source_id
           p == creating[i].player_id
       IN /\ AddSource(s, p, proxy)
          /\ EmitPathAvailable(IF IsPath(AddSourceResult(s, p)) THEN {<<s, p>>} ELSE {})

\* dbusmethod_aupath_get_paths(): the observer keeps the usable paths.
GetPaths ==
    /\ watching' = TRUE
    /\ known' = CompletePaths
    /\ UNCHANGED <<pathsVars, creating>>

Next ==
    \/ GetPaths
    \/ \E i \in Invocation :
          \/ \E p \in PlayerId, peer \in Proxy :
                \/ RegisterPlayer(i, p, peer)
                \/ \E s \in SourceId : RegisterSource(i, s, p, peer)
          \/ \E proxy \in StoredProxy :
                PlayerProxyDone(i, proxy) \/ SourceProxyDone(i, proxy)

Spec == Init /\ [][Next]_vars

---------------------------------------------------------------------------
(* Properties.                                                             *)

(* An observer that has asked once and listens from then on knows every    *)
(* usable path, in whatever order its two halves are registered and their  *)
(* proxies are created ("Signal is emitted for each complete, usable audio *)
(* path", ChangeLog, version 1.1).                                         *)
EveryPathKnown == watching => CompletePaths \subseteq known

(* A path that is usable stays usable, with the same player, however often *)
(* its components are registered again, and for whichever player.          *)
PathsOnlyGrow == [][CompletePaths \subseteq CompletePaths']_vars

(* GetPaths() lists every component: each registered source exactly once,  *)
(* each registered player at least once, and no other.                     *)
EveryComponentListed ==
    LET listed == CompletePaths \cup UnconnectedSources \cup UnconnectedPlayers
    IN /\ \A s \in SourceId :
             Cardinality({path \in listed : path[1] = s}) = IF KnownSource(s) THEN 1 ELSE 0
       /\ \A p \in PlayerId :
             (\E path \in listed : path[2] = p) <=> KnownPlayer(p)

(* Contradicted by the code: "Signal is emitted for each complete, usable  *)
(* audio path" (ChangeLog, version 1.1).  The observer knows no path that  *)
(* is not usable.                                                          *)
KnownPathsExist == known \subseteq CompletePaths
=============================================================================
