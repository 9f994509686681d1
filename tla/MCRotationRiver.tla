--------------------------- MODULE MCRotationRiver ----------------------------
(* TLC instances of RotationRiver: nights that are under way from the start, *)
(* and nights the organizer sets up first (RotationSetup), which are then    *)
(* played with the courts and the roster the start left behind.              *)
EXTENDS RotationRiver

CONSTANTS
    MaxCourts, MaxPlace, MaxEdits, Draws    \* of RotationSetup

VARIABLES
    status, signed, placed, edits, starting, shuffling, removing,  \* of RotationSetup
    doors                                    \* "closed" while the night is set up

setup == <<status, signed, placed, edits, starting, shuffling, removing>>
everything == <<vars, setup, doors>>

Fifteen == <<"p1", "p2", "p3", "p4", "p5", "p6", "p7", "p8", "p9", "p10",
             "p11", "p12", "p13", "p14", "p15">>
Nine == SubSeq(Fifteen, 1, 9)

S == INSTANCE RotationSetup WITH Order <- Nine, roster <- signed
ASSUME S!SetupAssumption

\* Two courts and people coming and going; three courts that nobody leaves,
\* under each rule.
Mixed == {
    [starters |-> 8,  maxCourts |-> 2, mode |-> "down", rounds |-> 4, comings |-> 2],
    [starters |-> 13, maxCourts |-> 3, mode |-> "down", rounds |-> 4, comings |-> 0],
    [starters |-> 15, maxCourts |-> 3, mode |-> "stay", rounds |-> 6, comings |-> 0]}
\* The night that is set up.
SetUp == [starters |-> 9, maxCourts |-> MaxCourts, mode |-> "stay", rounds |-> 3, comings |-> 0]

\* The roster as it stands, and the other way round.
TwoDraws == {[i \in DOMAIN Nine |-> i], [i \in DOMAIN Nine |-> 10 - i]}

UnderWay ==
    /\ Init
    /\ status = "live" /\ signed = [p \in ToSet(Nine) |-> "active"]
    /\ placed = [p \in ToSet(Nine) |-> 0] /\ edits = 0
    /\ starting = <<>> /\ shuffling = <<>> /\ removing = Blank
    /\ doors = "open"

ToBeSetUp ==
    /\ S!Init
    /\ evening = SetUp /\ roster = [p \in Players |-> "absent"]
    /\ takeover = [p \in {} |-> Blank] /\ games = [p \in Players |-> 0]
    /\ round = 1 /\ result = <<>> /\ comings = 0
    /\ doors = "closed"

\* The first round is on: whoever sits out is there and may come back.
Open ==
    /\ doors = "closed" /\ status = "live"
    /\ doors' = "open"
    /\ roster' = [p \in Players |-> IF p \notin DOMAIN signed \/ signed[p] = "removed" THEN "absent"
                                    ELSE IF signed[p] = "active" THEN "active" ELSE "left"]
    /\ UNCHANGED <<setup, evening, courts, bench, takeover, games, round, result, comings>>

Nights == UnderWay \/ ToBeSetUp
Goes ==
    \/ /\ doors = "closed" /\ status = "setup" /\ S!Next
       /\ UNCHANGED <<doors, evening, roster, takeover, games, round, result, comings>>
    \/ Open
    \/ doors = "open" /\ Next /\ UNCHANGED <<setup, doors>>
NightsSpec == Nights /\ [][Goes]_everything

PlacementHonoured == S!PlacementHonoured
EveryoneOpens     == S!EveryoneOpens
=============================================================================
