--------------------------- MODULE MCAudioSystem ---------------------------
(***************************************************************************)
(* Two players and two sources, one for each of them; a player and its     *)
(* source may crash once.                                                  *)
(***************************************************************************)
EXTENDS AudioSystem, TLC

CONSTANTS s1, s2, p1, p2, d1

MCSourceId == {s1, s2}
MCPlayerId == {p1, p2}
MCProxy == 1..MaxLives
MCRequestData == {d1}
MCProxyOutcome == Proxy
MCWiring == {<<s1, p1>>, <<s2, p2>>}
MCMortal == {p1, s1}
=============================================================================
