------------------------ MODULE RegistrationProofs -------------------------
(***************************************************************************)
(* Proofs about registration, for any number of components, and of         *)
(* registrations under way at a time.  The argument is the same for all:   *)
(* the registry changes only when a proxy has been created, the player a   *)
(* source names does not change any more, and all the paths that come into *)
(* being by that one change are announced with it.                         *)
(***************************************************************************)
EXTENDS Registration, FiniteSetTheorems, TLAPS

USE NoneIsNothing, NullProxyIsNoProxy

---------------------------------------------------------------------------
(* Types.                                                                  *)

\* Nobody has registered.
LEMMA RegistrationInit == Init => TypeOK
  BY DEF Init, TypeOK, PathsInit, PathsTypeOK, Idle

\* The player that is kept for a source is a player.
LEMMA StoredPlayerType ==
  ASSUME PathsTypeOK, NEW s \in SourceId, NEW p \in PlayerId
  PROVE  StoredPlayerOf(s, p) \in PlayerId
  BY DEF PathsTypeOK, StoredPlayerOf, KnownSource

\* A request whose proxy is there, and what it has asked for.
LEMMA PlayerDone ==
  ASSUME TypeOK, NEW i \in Invocation, NEW proxy \in StoredProxy, PlayerProxyDone(i, proxy)
  PROVE  /\ creating[i].player_id \in PlayerId
         /\ creating' = [creating EXCEPT ![i] = Idle]
         /\ AddPlayer(creating[i].player_id, proxy)
  BY DEF PlayerProxyDone, Done, TypeOK, PlayerRequest, SourceRequest, Idle

\* The same of a source.
LEMMA SourceDone ==
  ASSUME TypeOK, NEW i \in Invocation, NEW proxy \in StoredProxy, SourceProxyDone(i, proxy)
  PROVE  /\ creating[i].player_id \in PlayerId /\ creating[i].source_id \in SourceId
         /\ creating' = [creating EXCEPT ![i] = Idle]
         /\ AddSource(creating[i].source_id, creating[i].player_id, proxy)
  BY DEF SourceProxyDone, Done, TypeOK, PlayerRequest, SourceRequest, Idle

\* Usable paths are paths.
LEMMA CompletePathsType == PathsTypeOK => CompletePaths \subseteq Path
  BY DEF CompletePaths, PathComplete, KnownSource, KnownPlayer, Path, PathsTypeOK

\* Every step preserves the types.
LEMMA RegistrationNext == TypeOK /\ [Next]_vars => TypeOK'
<1> SUFFICES ASSUME TypeOK, [Next]_vars PROVE TypeOK'
  OBVIOUS
<1> USE DEF TypeOK
<1>1. CASE GetPaths
  BY <1>1, CompletePathsType DEF GetPaths, pathsVars, PathsTypeOK
<1>2. ASSUME NEW i \in Invocation, NEW p \in PlayerId, NEW peer \in Proxy,
             \/ RegisterPlayer(i, p, peer)
             \/ \E s \in SourceId : RegisterSource(i, s, p, peer)
      PROVE  TypeOK'
  BY <1>2 DEF RegisterPlayer, RegisterSource, BeginRegistration, pathsVars, PathsTypeOK,
              PlayerRequest, SourceRequest
<1>3. ASSUME NEW i \in Invocation, NEW proxy \in StoredProxy, PlayerProxyDone(i, proxy)
      PROVE  TypeOK'
  <2>1. PathsTypeOK' /\ creating' \in [Invocation -> PlayerRequest \cup SourceRequest \cup {Idle}]
    BY <1>3, PlayerDone DEF AddPlayer, PathsTypeOK
  <2>2. PlayerPaths(creating[i].player_id) \subseteq Path
    BY <1>3, PlayerDone DEF PlayerPaths, Path
  <2> QED BY <1>3, <2>1, <2>2 DEF PlayerProxyDone, EmitPathAvailable
<1>4. ASSUME NEW i \in Invocation, NEW proxy \in StoredProxy, SourceProxyDone(i, proxy)
      PROVE  TypeOK'
  <2>1. PathsTypeOK' /\ creating' \in [Invocation -> PlayerRequest \cup SourceRequest \cup {Idle}]
    BY <1>4, SourceDone, StoredPlayerType DEF AddSource, PathsTypeOK
  <2>2. <<creating[i].source_id, creating[i].player_id>> \in Path
    BY <1>4, SourceDone DEF Path
  <2> QED BY <1>4, <2>1, <2>2 DEF SourceProxyDone, EmitPathAvailable
<1>5. CASE UNCHANGED vars
  BY <1>5 DEF vars, pathsVars, PathsTypeOK
<1> QED BY <1>1, <1>2, <1>3, <1>4, <1>5 DEF Next

(* The registry, the registrations under way and what the observer knows   *)
(* always have their types.                                                *)
THEOREM RegistrationTypeCorrect == Spec => []TypeOK
  BY RegistrationInit, RegistrationNext, PTL DEF Spec

---------------------------------------------------------------------------
(* Paths.                                                                  *)

\* A player that is added completes the paths of the sources that name it.
LEMMA AddPlayerPaths ==
  ASSUME PathsTypeOK, NEW p \in PlayerId, NEW proxy \in StoredProxy, AddPlayer(p, proxy)
  PROVE  /\ CompletePaths \subseteq CompletePaths'
         /\ CompletePaths' \subseteq CompletePaths \cup PlayerPaths(p)
<1>1. \A s \in SourceId : KnownSource(s)' <=> KnownSource(s)
  BY DEF AddPlayer, KnownSource
<1>2. \A q \in PlayerId : KnownPlayer(q)' <=> KnownPlayer(q) \/ q = p
  BY DEF AddPlayer, KnownPlayer, PathsTypeOK, StoredProxy
<1>3. sources' = sources /\ \A s \in SourceId : KnownSource(s) => sources[s] \in PlayerId
  BY DEF AddPlayer, KnownSource, PathsTypeOK
<1>4. \A s \in SourceId : PathComplete(s) => PathComplete(s)'
  BY <1>1, <1>2, <1>3 DEF PathComplete
<1>5. \A s \in SourceId : PathComplete(s)' => PathComplete(s) \/ sources[s] = p
  BY <1>1, <1>2, <1>3 DEF PathComplete
<1> QED BY <1>3, <1>4, <1>5 DEF CompletePaths, PlayerPaths

\* A source that is added completes at most its own path.
LEMMA AddSourcePaths ==
  ASSUME PathsTypeOK, NEW s \in SourceId, NEW p \in PlayerId, NEW proxy \in StoredProxy,
         AddSource(s, p, proxy)
  PROVE  /\ CompletePaths \subseteq CompletePaths'
         /\ CompletePaths' \subseteq CompletePaths \cup {<<s, p>>}
         /\ CompletePaths' # CompletePaths => ~KnownSource(s) /\ KnownPlayer(p)
<1>1. \A q : KnownPlayer(q)' <=> KnownPlayer(q)
  BY DEF AddSource, KnownPlayer
<1>2. CASE KnownSource(s)
  <2>1. sources' = sources
    BY <1>2 DEF AddSource, StoredPlayerOf, PathsTypeOK
  <2>2. \A t \in SourceId : PathComplete(t)' <=> PathComplete(t)
    BY <1>1, <2>1 DEF PathComplete, KnownSource
  <2> QED BY <2>1, <2>2 DEF CompletePaths
<1>3. CASE ~KnownSource(s)
  <2>1. sources' = [sources EXCEPT ![s] = p]
    BY <1>3 DEF AddSource, StoredPlayerOf
  <2>2. \A t \in SourceId \ {s} : sources'[t] = sources[t]
                                  /\ (PathComplete(t)' <=> PathComplete(t))
    BY <1>1, <2>1 DEF PathComplete, KnownSource, PathsTypeOK
  <2>3. sources'[s] = p /\ ~PathComplete(s) /\ (PathComplete(s)' <=> KnownPlayer(p))
    BY <1>1, <1>3, <2>1 DEF PathComplete, KnownSource, PathsTypeOK
  <2>4. CompletePaths \subseteq CompletePaths'
    BY <2>2, <2>3 DEF CompletePaths
  <2>5. CompletePaths' \subseteq CompletePaths \cup {<<s, p>>}
    BY <2>2, <2>3 DEF CompletePaths
  <2>6. ~KnownPlayer(p) => CompletePaths' \subseteq CompletePaths
    BY <2>2, <2>3 DEF CompletePaths
  <2> QED BY <1>3, <2>4, <2>5, <2>6
<1> QED BY <1>2, <1>3

\* The registry changes only when a proxy is there, and never loses a path.
LEMMA PathsGrowNext == TypeOK /\ [Next]_vars => CompletePaths \subseteq CompletePaths'
<1> SUFFICES ASSUME TypeOK, [Next]_vars PROVE CompletePaths \subseteq CompletePaths'
  OBVIOUS
<1>1. CASE UNCHANGED pathsVars
  BY <1>1 DEF pathsVars, CompletePaths, PathComplete, KnownSource, KnownPlayer
<1>2. ASSUME NEW i \in Invocation, NEW proxy \in StoredProxy,
             PlayerProxyDone(i, proxy) \/ SourceProxyDone(i, proxy)
      PROVE  CompletePaths \subseteq CompletePaths'
  BY <1>2, PlayerDone, SourceDone, AddPlayerPaths, AddSourcePaths DEF TypeOK
<1> QED BY <1>1, <1>2 DEF Next, GetPaths, RegisterPlayer, RegisterSource,
           BeginRegistration, vars

(* A usable path stays usable, with the same player.                       *)
THEOREM PathsOnlyGrowAlways == Spec => PathsOnlyGrow
<1>1. TypeOK /\ [Next]_vars => [CompletePaths \subseteq CompletePaths']_vars
  BY PathsGrowNext
<1> QED BY <1>1, RegistrationTypeCorrect, PTL DEF Spec, PathsOnlyGrow

---------------------------------------------------------------------------
(* The observer.                                                           *)

\* Every step preserves what the observer knows.
LEMMA PathKnownNext == TypeOK /\ EveryPathKnown /\ [Next]_vars => EveryPathKnown'
<1> SUFFICES ASSUME TypeOK, EveryPathKnown, [Next]_vars, watching' PROVE CompletePaths' \subseteq known'
  BY DEF EveryPathKnown
<1> USE DEF EveryPathKnown
<1>1. UNCHANGED pathsVars => CompletePaths' = CompletePaths
  BY DEF pathsVars, CompletePaths, PathComplete, KnownSource, KnownPlayer
<1>2. ASSUME NEW i \in Invocation, NEW proxy \in StoredProxy, PlayerProxyDone(i, proxy)
      PROVE  CompletePaths' \subseteq known'
  <2> DEFINE p == creating[i].player_id
  <2>1. p \in PlayerId /\ CompletePaths' \subseteq CompletePaths \cup PlayerPaths(p)
    BY <1>2, PlayerDone, AddPlayerPaths DEF TypeOK
  <2>2. IsPath(AddPlayerResult(p)) \/ PlayerPaths(p) = {}
    BY DEF IsPath, AddPlayerResult, AddResult, PlayerPaths
  <2>3. watching /\ PlayerPaths(p) \subseteq known' /\ known \subseteq known'
    BY <1>2, <2>2 DEF PlayerProxyDone, EmitPathAvailable
  <2> QED BY <2>1, <2>3
<1>3. ASSUME NEW i \in Invocation, NEW proxy \in StoredProxy, SourceProxyDone(i, proxy)
      PROVE  CompletePaths' \subseteq known'
  <2> DEFINE s == creating[i].source_id
             p == creating[i].player_id
  <2>1. /\ CompletePaths' \subseteq CompletePaths \cup {<<s, p>>}
        /\ CompletePaths' # CompletePaths => ~KnownSource(s) /\ KnownPlayer(p)
    BY <1>3, SourceDone, AddSourcePaths DEF TypeOK
  <2>2. ~KnownSource(s) /\ KnownPlayer(p) => IsPath(AddSourceResult(s, p))
    BY DEF IsPath, AddSourceResult, AddResult, StoredPlayerOf
  <2>3. /\ watching /\ known \subseteq known'
        /\ IsPath(AddSourceResult(s, p)) => <<s, p>> \in known'
    BY <1>3 DEF SourceProxyDone, EmitPathAvailable
  <2> QED BY <2>1, <2>2, <2>3
<1>4. CASE GetPaths
  BY <1>1, <1>4 DEF GetPaths
<1> QED BY <1>1, <1>2, <1>3, <1>4 DEF Next, RegisterPlayer, RegisterSource,
           BeginRegistration, vars

(* Whoever has asked once and listens knows every usable path.             *)
THEOREM EveryPathKnownAlways == Spec => []EveryPathKnown
<1>1. Init => EveryPathKnown
  BY DEF Init, EveryPathKnown
<1> QED BY <1>1, RegistrationTypeCorrect, PathKnownNext, PTL DEF Spec

---------------------------------------------------------------------------
(* The listing.                                                            *)

\* What the registry's type is enough for.
LEMMA TypeListsAll == TypeOK => EveryComponentListed
<1> SUFFICES ASSUME TypeOK PROVE EveryComponentListed
  OBVIOUS
<1> DEFINE listed == CompletePaths \cup UnconnectedSources \cup UnconnectedPlayers
<1> USE DEF TypeOK, PathsTypeOK, CompletePaths, UnconnectedSources, UnconnectedPlayers,
            PathComplete, KnownSource, KnownPlayer
<1>1. ASSUME NEW s \in SourceId
      PROVE  Cardinality({path \in listed : path[1] = s}) = IF KnownSource(s) THEN 1 ELSE 0
  <2>1. CASE KnownSource(s)
    <3> DEFINE partner == IF PathComplete(s) THEN sources[s] ELSE None
    <3>1. {path \in listed : path[1] = s} = {<<s, partner>>}
      BY <2>1
    <3>2. Cardinality({<<s, partner>>}) = 1
      BY FS_Singleton
    <3> QED BY <2>1, <3>1, <3>2
  <2>2. CASE ~KnownSource(s)
    <3>1. {path \in listed : path[1] = s} = {}
      BY <2>2
    <3> QED BY <2>2, <3>1, FS_EmptySet
  <2> QED BY <2>1, <2>2
<1>2. ASSUME NEW p \in PlayerId
      PROVE  (\E path \in listed : path[2] = p) <=> KnownPlayer(p)
  <2>1. KnownPlayer(p) => \E path \in listed : path[2] = p
    <3>1. ASSUME KnownPlayer(p), NEW s \in SourceId, sources[s] = p
          PROVE  \E path \in listed : path[2] = p
      <4>1. <<s, p>> \in listed
        BY <3>1
      <4>2. <<s, p>>[2] = p
        OBVIOUS
      <4> HIDE DEF listed
      <4> QED BY <4>1, <4>2
    <3>2. ASSUME KnownPlayer(p), \A s \in SourceId : sources[s] # p
          PROVE  \E path \in listed : path[2] = p
      <4>1. <<None, p>> \in listed
        BY <3>2
      <4>2. <<None, p>>[2] = p
        OBVIOUS
      <4> HIDE DEF listed
      <4> QED BY <4>1, <4>2
    <3> QED BY <3>1, <3>2
  <2>2. (\E path \in listed : path[2] = p) => KnownPlayer(p)
    OBVIOUS
  <2> QED BY <2>1, <2>2
<1> QED BY <1>1, <1>2 DEF EveryComponentListed

(* GetPaths() leaves out no component and lists no source twice.           *)
THEOREM EveryComponentListedAlways == Spec => []EveryComponentListed
  BY TypeListsAll, RegistrationTypeCorrect, PTL
=============================================================================
