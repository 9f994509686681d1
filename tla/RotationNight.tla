----------------------------- MODULE RotationNight -----------------------------
(***************************************************************************)
(* What a rotation night is to the people in the room, whatever the server *)
(* does to get there: rounds are closed one after the other, each one      *)
(* crediting a game to exactly those who are on court at that moment; a    *)
(* paused night stands still; an over night stays as it is until it is     *)
(* reopened on the round it ended on; and between rounds the only change   *)
(* on court is somebody handing a seat to a substitute.                    *)
(***************************************************************************)
EXTENDS Naturals

CONSTANTS Players, MaxRounds

VARIABLES phase, round, playing, games

night == <<phase, round, playing, games>>

Init ==
    /\ phase = "playing"
    /\ round = 1
    /\ playing \in SUBSET Players
    /\ games = [p \in Players |-> 0]

CreditGames ==
    games' = [p \in Players |-> IF p \in playing THEN games[p] + 1 ELSE games[p]]

Close ==
    /\ phase = "playing"
    /\ round < MaxRounds
    /\ round' = round + 1
    /\ playing' \in SUBSET Players
    /\ CreditGames
    /\ UNCHANGED phase

End ==
    /\ phase \in {"playing", "paused"}
    /\ phase' = "over"
    /\ CreditGames
    /\ UNCHANGED <<round, playing>>

Pause  == phase = "playing" /\ phase' = "paused" /\ UNCHANGED <<round, playing, games>>
Resume == phase = "paused" /\ phase' = "playing" /\ UNCHANGED <<round, playing, games>>
Reopen == phase = "over" /\ phase' = "playing" /\ UNCHANGED <<round, playing, games>>

HandOver(out, in) ==
    /\ phase # "over"
    /\ out \in playing /\ in \notin playing
    /\ playing' = (playing \ {out}) \cup {in}
    /\ UNCHANGED <<phase, round, games>>

Next ==
    \/ Close \/ End \/ Pause \/ Resume \/ Reopen
    \/ \E out, in \in Players : HandOver(out, in)

Spec == Init /\ [][Next]_night
=============================================================================
