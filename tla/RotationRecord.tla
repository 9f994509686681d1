----------------------------- MODULE RotationRecord ----------------------------
(***************************************************************************)
(* The record of a night: taps, scorecards, corrections, and the recount   *)
(* of everybody's wins.  ReportRotationCourt, SetRotationScores and        *)
(* rederivePastRound of internal/service/ladder_rotation.go;               *)
(* internal/service/rotation_corrections.go.                               *)
(***************************************************************************)
EXTENDS RotationSession

\* A who-won tap: the guard...
ReportCheck(q, k, side) ==
    /\ Call(q, "report")
    /\ status # "done"
    /\ k \in DOMAIN courts[round]
    /\ Step(q, [at |-> "report.write", round |-> round, court |-> k, side |-> side])
    /\ UNCHANGED <<session, record, people, tally>>

\* ...and the write, which looks at nothing.
ReportWrite(q) ==
    /\ At(q, "report.write")
    /\ Patch(req[q].round, req[q])
    /\ Done(q)
    /\ UNCHANGED <<session, courts, scores, people, tally, left>>

-----------------------------------------------------------------------------
(* SetRotationScores.                                                       *)

Cards == {"a", "b", "level", "clear"}

\* What a device sends for a court: a score (or a blank) for each seat.
Entries(court, card) ==
    [i \in 1..4 |->
        [player |-> court[i],
         score  |-> CASE card = "clear" -> NoScore
                      [] card = "level" -> 1
                      [] card = "a"     -> IF i <= 2 THEN 1 ELSE 0
                      [] card = "b"     -> IF i <= 2 THEN 0 ELSE 1]] \o <<>>

ScoreCall(q, r, k, card) ==
    /\ Call(q, "score")
    /\ k \in DOMAIN courts[r]
    /\ Step(q, [at |-> "score.check", round |-> r, entries |-> Entries(courts[r][k], card)])
    /\ UNCHANGED <<session, record, people, tally>>

\* Rounds after the handover belong to whoever took over, rounds before it do
\* not; a score needs a seat.  (Two reads: a substitution that lands between
\* them gets the same scores refused.)
MayScore(e, r) ==
    /\ e.player \in DOMAIN subs => r < subs[e.player].from
    /\ \A out \in DOMAIN subs : subs[out].by = e.player => r >= subs[out].from
    /\ e.score # NoScore => e.player \in Seated(courts[r])

\* The first entry refused ends the call; those before it stay written.
ScoreCheck(q) ==
    LET r == req[q]
    IN  /\ At(q, "score.check")
        /\ IF MayScore(Head(r.entries), r.round)
           THEN Step(q, [r EXCEPT !.at = "score.write"])
           ELSE Done(q)
        /\ UNCHANGED <<session, record, people, tally, left>>

ScoreWrite(q) ==
    LET r == req[q]
        e == Head(r.entries)
    IN  /\ At(q, "score.write")
        /\ scores' = [scores EXCEPT ![r.round][e.player] = e.score]
        /\ Step(q, IF Len(r.entries) > 1
                   THEN [r EXCEPT !.at = "score.check", !.entries = Tail(@)]
                   ELSE [at |-> "rederive", round |-> r.round])
        /\ UNCHANGED <<session, courts, winner, people, tally, left>>
\* Slips: the round in play decided again too; no round decided again.
IsAnyRound(r) == r \in Rounds
IsNoRound(r)  == r \notin Rounds

\* Only a round that is over is decided again.
IsPast(r) == r < round \/ status = "done"

Rederive(q) ==
    /\ At(q, "rederive")
    /\ IF IsPast(req[q].round) THEN Step(q, DeriveWinners(req[q].round, "retally"))
                               ELSE Done(q)
    /\ UNCHANGED <<session, record, people, tally, left>>

-----------------------------------------------------------------------------
(* retallyRotationWins.                                                     *)

\* Every court of every round that has a recorded winner, rounds in play too.
WinsFromCourts ==
    [p \in Players |-> Cardinality(
        {c \in Rounds \X (1..Len(Order)) :
             c[2] \in DOMAIN courts[c[1]] /\ p \in CourtWinners(c[1], c[2])})]

RetallyCourts(q) ==
    /\ At(q, "retally")
    /\ Step(q, [at |-> "retally.wins", want |-> WinsFromCourts])
    /\ UNCHANGED <<session, record, people, tally, left>>

\* Only what differs is written, player by player.
RetallyWins(q) ==
    LET want == req[q].want
    IN  /\ At(q, "retally.wins")
        /\ Step(q, [at |-> "retally.write", want |-> want,
                    todo |-> Picked(Order, {i \in DOMAIN Order :
                                                wins[Order[i]] # want[Order[i]]})])
        /\ UNCHANGED <<session, record, people, tally, left>>

RetallyWrite(q) ==
    LET r == req[q]
    IN  /\ At(q, "retally.write")
        /\ IF r.todo = <<>> THEN Done(q) /\ UNCHANGED wins
           ELSE /\ wins' = [wins EXCEPT ![Head(r.todo)] = r.want[Head(r.todo)]]
                /\ Step(q, [r EXCEPT !.todo = Tail(@)])
        /\ UNCHANGED <<session, record, people, games, tallied, left>>

-----------------------------------------------------------------------------
(* SetRotationCourtWinner, for any round.                                   *)

CorrectCheck(q, r, k, side) ==
    /\ Call(q, "correct")
    /\ k \in DOMAIN courts[r]
    /\ Step(q, [at |-> "correct.write", round |-> r, court |-> k, side |-> side])
    /\ UNCHANGED <<session, record, people, tally>>

CorrectWrite(q) ==
    /\ At(q, "correct.write")
    /\ Patch(req[q].round, req[q])
    /\ Step(q, [at |-> "retally"])
    /\ UNCHANGED <<session, courts, scores, people, tally, left>>

Recording(q) ==
    \/ \E r \in Rounds : \E k \in DOMAIN courts[r] :
           \/ \E card \in Cards : ScoreCall(q, r, k, card)
           \/ \E side \in Sides \cup {Unreported} : CorrectCheck(q, r, k, side)
           \/ \E side \in Sides : r = round /\ ReportCheck(q, k, side)
    \/ ReportWrite(q) \/ ScoreCheck(q) \/ ScoreWrite(q) \/ Rederive(q)
    \/ RetallyCourts(q) \/ RetallyWins(q) \/ RetallyWrite(q) \/ CorrectWrite(q)
=============================================================================
