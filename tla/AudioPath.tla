----------------------------- MODULE AudioPath -----------------------------
(***************************************************************************)
(* The registry of audio players and audio sources, AudioPath::Paths       *)
(* (audiopath.hh, audiopath.cc).  A component is registered under its ID   *)
(* and never removed; registering the ID again replaces its D-Bus proxy    *)
(* and nothing else, in particular not the player a source names.          *)
(***************************************************************************)

CONSTANTS
    SourceId,   \* nonempty IDs of audio sources
    PlayerId,   \* nonempty IDs of audio players
    Proxy,      \* D-Bus proxies (peer processes) of players and sources
    NullProxy,  \* the null pointer stored if creating a proxy has failed
    None        \* the empty string, "not in the map", or a null pointer

ASSUME NoneIsNothing == None \notin SourceId \cup PlayerId \cup Proxy
ASSUME NullProxyIsNoProxy == NullProxy \notin Proxy \cup {None}

VARIABLES
    players,       \* players_: the proxy of each registered player
    sources,       \* sources_: player_id_ of each registered source
    source_proxy   \* sources_: the proxy of each registered source

pathsVars == <<players, sources, source_proxy>>

StoredProxy == Proxy \cup {NullProxy}

PathsTypeOK ==
    /\ players \in [PlayerId -> StoredProxy \cup {None}]
    /\ sources \in [SourceId -> PlayerId \cup {None}]
    /\ source_proxy \in [SourceId -> StoredProxy \cup {None}]

PathsInit ==
    /\ players = [p \in PlayerId |-> None]
    /\ sources = [s \in SourceId |-> None]
    /\ source_proxy = [s \in SourceId |-> None]

---------------------------------------------------------------------------
(* Lookups.  std::map::find never fails to find an ID once it is inserted. *)

KnownPlayer(p) == p \in PlayerId /\ players[p] # None

KnownSource(s) == s \in SourceId /\ sources[s] # None

\* Mutant: the player is not looked up.
PathComplete_SourceOnly(s) == KnownSource(s)

\* lookup_path() finds both components.
PathComplete(s) == KnownSource(s) /\ KnownPlayer(sources[s])

\* The sets of pairs for_each() passes to its callback in each mode; None is
\* the null pointer for the component that is missing.
CompletePaths == {<<s, sources[s]>> : s \in {t \in SourceId : PathComplete(t)}}

UnconnectedSources ==
    {<<s, None>> : s \in {t \in SourceId : KnownSource(t) /\ ~PathComplete(t)}}

\* Mutant: players whose only source is known are left out as well.
UnconnectedPlayers_NoSource ==
    {<<None, p>> : p \in {q \in PlayerId :
        KnownPlayer(q) /\ \A s \in SourceId : ~KnownSource(s)}}

UnconnectedPlayers ==
    {<<None, p>> : p \in {q \in PlayerId :
        KnownPlayer(q) /\ \A s \in SourceId : sources[s] # q}}

---------------------------------------------------------------------------
(* Registration.  The model's maps are total functions, so that inserting  *)
(* and taking the proxy from the new item is one assignment.               *)

AddResult(inserted, have_path) ==
    IF inserted
    THEN IF have_path THEN "NEW_PATH" ELSE "NEW_COMPONENT"
    ELSE IF have_path THEN "UPDATED_PATH" ELSE "UPDATED_COMPONENT"

AddPlayerResult(p) ==
    AddResult(~KnownPlayer(p), \E s \in SourceId : sources[s] = p)

AddPlayer(p, proxy) ==
    /\ players' = [players EXCEPT ![p] = proxy]
    /\ UNCHANGED <<sources, source_proxy>>

\* Mutant: registering again replaces the player.
StoredPlayerOf_Replaced(s, p) == p

\* Mutant: the arguments of the constructor are mixed up.
StoredPlayerOf_WrongId(s, p) == IF KnownSource(s) THEN sources[s] ELSE s

\* player_id_ of the item that is in the map after add_item().
StoredPlayerOf(s, p) == IF KnownSource(s) THEN sources[s] ELSE p

AddSourceResult(s, p) ==
    AddResult(~KnownSource(s), KnownPlayer(StoredPlayerOf(s, p)))

AddSource(s, p, proxy) ==
    /\ sources' = [sources EXCEPT ![s] = StoredPlayerOf(s, p)]
    /\ source_proxy' = [source_proxy EXCEPT ![s] = proxy]
    /\ UNCHANGED players
=============================================================================
