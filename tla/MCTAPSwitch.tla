---------------------------- MODULE MCTAPSwitch ----------------------------
(***************************************************************************)
(* The handlers with three sources on two players, and calls that overlap: *)
(* while some wait for the appliance, others request, release, or change   *)
(* the state of the appliance.                                             *)
(***************************************************************************)
EXTENDS TAPSwitch, TLC

CONSTANTS s1, s2, s3, p1, p2, x, d1, d2, i1, i2, i3

MCSourceId == {s1, s2, s3}
MCPlayerId == {p1, p2}
MCProxy == {x}
MCRequestData == {d1, d2}
MCTwoSources == {s1, s2}
MCOneData == {d1}
MCProxyOutcome == {x}
MCWiring == {<<s1, p1>>, <<s2, p2>>, <<s3, p1>>}
MCTwoPaths == {<<s1, p1>>, <<s2, p2>>}
MCInvocation == {i1, i2, i3}
MCTwoInvocations == {i1, i2}

\* Invocations and data are interchangeable.
Symmetry == Permutations(MCInvocation) \cup Permutations(MCRequestData)
=============================================================================
