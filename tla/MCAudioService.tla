--------------------------- MODULE MCAudioService ---------------------------
(***************************************************************************)
(* Two players, one source that names either of them, and a daemon that is *)
(* started again and again.                                                *)
(***************************************************************************)
EXTENDS AudioService

CONSTANTS s1, p1, p2, d1

MCSourceId == {s1}
MCPlayerId == {p1, p2}
MCProxy == 1..MaxLives
MCRequestData == {d1}
MCProxyOutcome == Proxy
MCWiring == {<<s1, p1>>, <<s1, p2>>}
MCNobody == {}
MCMortal == {s1}
MCFragile == {s1}
=============================================================================
