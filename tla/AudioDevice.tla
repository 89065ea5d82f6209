---------------------------- MODULE AudioDevice ----------------------------
(***************************************************************************)
(* The sound device as the README promises it to the players: exclusive.   *)
(* A player takes it only while nobody has it, and it is never handed from *)
(* one player to another without being free in between.                    *)
(*                                                                         *)
(* The promise depends on players that answer in time.  Each call that     *)
(* nobody waits for any more makes up for one user too many.               *)
(***************************************************************************)
EXTENDS FiniteSets, Naturals

CONSTANT PlayerId

VARIABLES
    users,    \* the players that may use the device
    misses    \* calls to processes that have not been answered in time

deviceVars == <<users, misses>>

Init == users = {} /\ misses = 0

Take(p) ==
    /\ p \notin users
    /\ Cardinality(users) <= misses
    /\ users' = users \cup {p}
    /\ UNCHANGED misses

Leave(p) ==
    /\ p \in users
    /\ users' = users \ {p}
    /\ UNCHANGED misses

Miss == misses' = misses + 1 /\ UNCHANGED users

Next == Miss \/ \E p \in PlayerId : Take(p) \/ Leave(p)

Spec == Init /\ [][Next]_deviceVars

\* At most one player uses the device, and one more for each miss.
Exclusive == Cardinality(users) <= 1 + misses
=============================================================================
