--------------------------- MODULE MCRegistration ---------------------------
(***************************************************************************)
(* Two sources and two players, each of which may register for either, and *)
(* two registrations at a time.                                            *)
(***************************************************************************)
EXTENDS Registration, TLC

CONSTANTS s1, s2, p1, p2, x, i1, i2

MCSourceId == {s1, s2}
MCPlayerId == {p1, p2}
MCProxy == {x}
MCInvocation == {i1, i2}

Symmetry == Permutations(MCSourceId) \cup Permutations(MCPlayerId)
                \cup Permutations(MCInvocation)
=============================================================================
