------------------------- MODULE MCAudioPathSwitch -------------------------
(***************************************************************************)
(* AudioPath::Switch alone, called in every order: every request for every *)
(* source, ready or not, with registrations in between and errors on every *)
(* call.  Three sources and two players: a switch may keep the player,     *)
(* replace it, or find none, with another source selected or on hold.      *)
(***************************************************************************)
EXTENDS AudioPathSwitch

CONSTANTS s1, s2, s3, p1, p2, x, d1, d2

MCSourceId == {s1, s2, s3}
MCPlayerId == {p1, p2}
MCProxy == {x}
MCRequestData == {d1, d2}
MCProxyOutcome == {x}
MCProxyMayFail == {x, NullProxy}
MCWiring == MCSourceId \X MCPlayerId
=============================================================================
