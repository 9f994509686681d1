---------------------------- MODULE MCRegistration ----------------------------
(* Instances of Registration with EntryFees for TLC. *)
EXTENDS EntryFees, TLC

CONSTANTS ann, bob, cem, r1, r2

\* Everybody has a phone of their own.
Phones == [p \in People |-> p]
Alike == Permutations({bob, cem}) \cup Permutations({r1, r2})

Occasion(cap, approval, mates, divisions, signups, adds, waits, removals, pays, faults) ==
    [cap |-> cap, approval |-> approval, contactless |-> 1, mates |-> mates,
     organizers |-> IF approval THEN {ann} ELSE {},
     divisions |-> divisions, signups |-> signups, adds |-> adds, waits |-> waits,
     removals |-> removals, fees |-> pays, faults |-> faults]

\* Two races for the last place; the waitlist; partners in two divisions, at
\* once and waiting for approval; and the fee of one player.
Events ==
    {Occasion(1, FALSE, FALSE, {1}, 3, 1, 0, 1, 0, 1),
     Occasion(2, FALSE, FALSE, {1}, 4, 0, 0, 1, 0, 1),
     Occasion(0, FALSE, FALSE, {1}, 1, 2, 1, 1, 0, 0),
     Occasion(0, FALSE, FALSE, {1}, 1, 1, 1, 1, 0, 1),
     Occasion(0, FALSE, FALSE, {1}, 0, 2, 2, 1, 0, 1),
     Occasion(0, FALSE, TRUE, {1, 2}, 2, 1, 0, 0, 0, 1),
     Occasion(0, FALSE, FALSE, {1, 2}, 2, 0, 1, 0, 0, 0),
     Occasion(0, FALSE, FALSE, {1, 2}, 1, 1, 1, 0, 0, 0),
     Occasion(0, FALSE, TRUE, {1, 2}, 3, 0, 0, 0, 0, 0),
     Occasion(0, TRUE, TRUE, {1, 2}, 2, 0, 0, 1, 0, 1),
     Occasion(0, FALSE, FALSE, {1}, 0, 1, 0, 1, 3, 1)}

\* One sign-up, perhaps with a partner.
WithPartner == {Occasion(0, FALSE, TRUE, {1}, 1, 0, 0, 0, 0, 0)}
=============================================================================
