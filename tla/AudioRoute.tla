----------------------------- MODULE AudioRoute -----------------------------
(***************************************************************************)
(* What AudioPath::Switch promises about the route from a source to a      *)
(* player, as its callers see it: one source is selected or held back at a *)
(* time, its player is the active one, and the active player is stopped or *)
(* replaced only while no source is selected or held back.                 *)
(***************************************************************************)

CONSTANTS SourceId, PlayerId, None

VARIABLES
    owner,      \* the player each source plays through, once it is known
    player,     \* the active player
    selected,   \* the source that is selected
    held        \* the source that is held back until the appliance is ready

vars == <<owner, player, selected, held>>

NoSource == selected = None /\ held = None

Init ==
    /\ owner = [s \in SourceId |-> None]
    /\ player = None
    /\ NoSource

\* A source becomes known; its player never changes after that.
Declare(s, p) ==
    /\ owner[s] = None
    /\ owner' = [owner EXCEPT ![s] = p]
    /\ UNCHANGED <<player, selected, held>>

StopPlayer ==
    /\ NoSource
    /\ player # None
    /\ player' = None
    /\ UNCHANGED <<owner, selected, held>>

StartPlayer(p) ==
    /\ NoSource
    /\ player = None
    /\ \E s \in SourceId : owner[s] = p
    /\ player' = p
    /\ UNCHANGED <<owner, selected, held>>

OwnsPlayer(s) == player # None /\ owner[s] = player

Select(s) ==
    /\ NoSource
    /\ OwnsPlayer(s)
    /\ selected' = s
    /\ UNCHANGED <<owner, player, held>>

Hold(s) ==
    /\ NoSource
    /\ OwnsPlayer(s)
    /\ held' = s
    /\ UNCHANGED <<owner, player, selected>>

Deselect ==
    /\ ~NoSource
    /\ selected' = None
    /\ held' = None
    /\ UNCHANGED <<owner, player>>

Next ==
    \/ StopPlayer
    \/ Deselect
    \/ \E p \in PlayerId : StartPlayer(p) \/ \E s \in SourceId : Declare(s, p)
    \/ \E s \in SourceId : Select(s) \/ Hold(s)

Spec == Init /\ [][Next]_vars

\* A source that is selected or held back plays through the active player,
\* and there is at most one such source.
RouteConsistent ==
    /\ selected = None \/ held = None
    /\ \A s \in {selected, held} \ {None} : OwnsPlayer(s)
=============================================================================
