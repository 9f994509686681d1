---------------------------- MODULE MCRotationLive ----------------------------
(* Small nights for TLC: who may come, and how many calls of each kind.     *)
EXTENDS RotationLive

CONSTANTS q1, q2

Four  == <<"p1", "p2", "p3", "p4">>
Five  == Four \o <<"p5">>
Six   == Five \o <<"p6">>
Seven == Six \o <<"p7">>
One   == {q1}
Two   == {q1, q2}

\* The two devices do the same things.
Alike == Permutations(Two)

None == [k \in Kinds |-> 0]

\* A newcomer while rounds are closed.
Joining == [advance |-> 3, join |-> 1] @@ None
=============================================================================
