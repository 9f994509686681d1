---------------------------- MODULE MCScoreReports ----------------------------
(* Instances of ScoreReports for TLC. *)
EXTENDS ScoreReports

CONSTANTS d1, d2

Tournament(d, devices, rescores, marks, faults, reports) ==
    [draw |-> d, devices |-> devices, rescores |-> rescores, marks |-> marks,
     faults |-> faults, reports |-> reports]

\* Two devices, corrections, marks and failures on the medal bracket, which
\* carries winners and losers; a draw with byes; double elimination with and
\* without byes, once with two devices and once with a correction.
Scored ==
    {Tournament(MedalBracket, {d1, d2}, 1, 0, 0, 0),
     Tournament(MedalBracket, {d1, d2}, 0, 1, 0, 0),
     Tournament(MedalBracket, {d1, d2}, 0, 0, 1, 0),
     Tournament(MedalBracket, {d1}, 2, 0, 1, 0),
     Tournament(Knockout(5), {d1}, 2, 1, 0, 0),
     Tournament(GenerateDoubleElim(3), {d1, d2}, 0, 0, 0, 0),
     Tournament(GenerateDoubleElim(4), {d1}, 1, 0, 0, 0),
     Tournament(GenerateDoubleElim(5), {d1}, 0, 0, 0, 0),
     Tournament(GenerateDoubleElim(6), {d1}, 0, 0, 0, 0)}

\* Games that the players report.
Reported ==
    {Tournament(Knockout(3), {d1, d2}, 1, 0, 0, 1),
     Tournament(Knockout(3), {d1, d2}, 0, 0, 1, 1),
     Tournament(GenerateDoubleElim(3), {d1}, 0, 0, 0, 1)}
Events == Scored \cup Reported

\* The smallest draw with a deciding game, and one correction.
SmallEvent == {Tournament(GenerateDoubleElim(3), {d1}, 1, 0, 0, 0)}

-----------------------------------------------------------------------------
(* The draws that lead one way.                                            *)

\* Who can ever be in slot i of g: who opens there, and whoever can be in a game
\* that leads there.
RECURSIVE CanBe(_, _, _)
CanBe(d, g, i) ==
    ({d.opens[g][i]} \ {Nobody}) \cup
        UNION {CanBe(d, h, 1) \cup CanBe(d, h, 2) :
                  h \in {x \in d.games : Feed(g, i) \in {d.wins[x], d.loses[x]}}}

Leads(d) == OneWay(d, [g \in d.games |-> 10 * g[2] + g[3]],
                      [g \in d.games |-> [i \in 1..2 |-> CanBe(d, g, i)]])

\* Those of the instances above, and all the single-elimination draws and plain
\* brackets of up to nine: what the theorems about carried results assume.
ASSUME OneWayAssumption ==
    /\ \A t \in Events : GrandFinal \notin t.draw.games => Leads(t.draw)
    /\ Leads(MedalBracket)
    /\ \A n \in 2..9 : Leads(Knockout(n)) /\ Leads(GenerateBracket(n))
=============================================================================
