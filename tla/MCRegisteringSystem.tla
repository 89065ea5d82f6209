------------------------ MODULE MCRegisteringSystem ------------------------
(***************************************************************************)
(* Two players and one source, which names either of them whenever it      *)
(* registers; a player may crash twice.                                    *)
(***************************************************************************)
EXTENDS RegisteringSystem, TLC

CONSTANTS s1, p1, p2, d1

MCSourceId == {s1}
MCPlayerId == {p1, p2}
MCProxy == 1..MaxLives
MCRequestData == {d1}
MCProxyOutcome == Proxy
MCWiring == {<<s1, p1>>, <<s1, p2>>}
MCMortal == {p1}
=============================================================================
