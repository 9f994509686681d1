------------------------------ MODULE RotationLive -----------------------------
(***************************************************************************)
(* A whole night, from the first buzzer: every request the organizer's,    *)
(* the scorekeepers' and the players' devices can make, the background     *)
(* sweeps and the clock, interleaved statement by statement; and what must *)
(* come out of it.                                                         *)
(***************************************************************************)
EXTENDS RotationRecord, RotationRoster

Next ==
    \/ \E q \in Slots : Lifecycle(q) \/ Recording(q) \/ Roster(q)
    \/ \E out \in Players : Substitute(out)
    \/ Clock

Spec == Init /\ [][Next]_vars

\* The server's tickers keep starting the sweeps, and what a sweep started
\* comes to an end.
Tickers ==
    /\ WF_vars(Sweep) /\ WF_vars(EndAbandoned)
    /\ \A q \in {Sweeper, Janitor} : []<>(req[q] = Idle)

FairSpec == Spec /\ Tickers

-----------------------------------------------------------------------------
(* Type invariant.                                                          *)

\* The statements of AdvanceRotationSession after the session row is read.
Planning == {"adv.courts", "adv.scores", "adv.persist", "adv.subs", "adv.gone",
             "adv.active", "adv.plays", "adv.recheck", "adv.write"}
Deriving   == {"persist.scores", "persist.courts", "persist.winners"}
Recounting == {"retally.wins", "retally.write"}

Labels == Planning \cup Deriving \cup Recounting \cup
          {"idle", "adv.session", "end.round", "end.write", "resume.write",
           "report.write", "score.check", "score.write", "rederive", "retally",
           "correct.write", "join", "roster.write"}

Ages      == {"running", "past", "longPast", "none"}
Deadlines == [age : Ages, of : Rounds, held : Ages]

\* What a request remembers: an advance, the round it closes, which is the one
\* its caller believed in if it named any; a resume, a deadline; a roster
\* edit, where the player goes; a recount, the wins it will write.
RequestOK(r) ==
    /\ "at" \in DOMAIN r /\ r.at \in Labels
    /\ r.at \in Planning => /\ {"round", "expected"} \subseteq DOMAIN r
                            /\ r.round \in 1..(MaxRounds - 1)
                            /\ r.expected \in {0, r.round}
    /\ r.at \in Deriving => /\ "then" \in DOMAIN r
                            /\ r.then \in {"end.write", "idle", "retally"}
    /\ r.at \in Recounting => "want" \in DOMAIN r /\ r.want \in [Players -> Nat]
    /\ r.at = "resume.write" => r.due \in Deadlines
    /\ r.at = "roster.write" => r.now \in {"active", "left"}

\* The books: the clock, the roster, the counters and the requests.
BooksOK ==
    /\ status \in {"live", "paused", "done"}
    /\ round \in Rounds
    /\ due \in Deadlines
    /\ roster \in [Players -> {"absent", "active", "left"}]
    /\ DOMAIN subs \subseteq Players
    /\ wins \in [Players -> Nat] /\ games \in [Players -> Nat]
    /\ tallied \in [Rounds -> Nat]
    /\ left \in [Kinds -> Nat] /\ left["reopen"] <= Budget["reopen"]
    /\ DOMAIN req = Slots /\ \A q \in Slots : RequestOK(req[q])
    /\ DOMAIN courts = Rounds

\* The sheets: a bench is a queue of players, a court has four seats and one
\* result, a scorecard a cell for each player.
SheetsOK ==
    /\ bench \in Seq(Players)
    /\ \A r \in Rounds :
           /\ courts[r] \in Seq([1..4 -> Players])
           /\ winner[r] \in [DOMAIN courts[r] -> Sides \cup {Unreported}]
           /\ scores[r] \in [Players -> {0, 1, NoScore}]

\* Every stored column, and everything a request carries from one statement
\* to the next, holds a value of its kind.
TypeOK == BooksOK /\ SheetsOK

-----------------------------------------------------------------------------
(* Closing a round.                                                         *)

Reopens == Budget["reopen"] - left["reopen"]
Closed(r) == r < round \/ (r = round /\ status = "done")

\* Every round that is over was tallied, and no round was tallied more often
\* than it was closed: once, and once more for every reopening.  However
\* buzzers, sweeps, Pause and End race each other
\* (advance_rotation_session and end_rotation_session, called with the round
\* their handler read).
TalliedPerClose ==
    \A r \in Rounds :
        /\ Closed(r) => tallied[r] \in 1..(1 + Reopens)
        /\ ~Closed(r) => tallied[r] \in 0..Reopens
        /\ r > round => tallied[r] = 0

\* A buzzer that believed another round current changes nothing: rounds go up
\* by one, on behalf of a caller who saw the round being closed
\* (AdvanceRotationSession's expectedRound).
NoRoundSkipped ==
    [][round' # round =>
         /\ round' = round + 1
         /\ \E q \in Slots : At(q, "adv.write") /\ Believed(req[q].expected)]_vars

\* What stands still stays so, whatever was still in flight when it stopped:
\* a paused session stays on its round and nobody's games change unless it is
\* ended, and a finished night keeps its round, seats and everybody's games
\* until it is reopened (PauseRotationSession, add_advance_pause_guard.sql,
\* end_rotation_session).
StandsStill ==
    [][/\ status = "paused" => round' = round /\ (status' = "done" \/ games' = games)
       /\ status = "done" => UNCHANGED <<round, courts, games, tallied>>]_vars

\* A player's games are the closed rounds whose courts seat them, whoever was
\* substituted in the meantime: a substitution never moves a round that has
\* been counted (rotation_substitute's effective round).
GamesMatchBoard ==
    Reopens = 0 =>
        \A p \in Players :
            games[p] = Cardinality({r \in Rounds :
                                        Closed(r) /\ p \in Seated(courts[r])})

\* The stored deadline belongs to the current round (ResumeRotationSession's
\* conditional patch).
DeadlineIsOfThisRound == status # "done" => due.of = round

-----------------------------------------------------------------------------
(* What the room sees.                                                      *)

Room == INSTANCE RotationNight WITH
    phase   <- CASE status = "live" -> "playing" [] status = "done" -> "over"
                 [] OTHER -> status,
    playing <- Seated(courts[round])

\* However the statements of the handlers interleave, the room sees the
\* rounds, pauses and handovers of RotationNight (the stored procedures and
\* conditional patches are where each of them happens).
IsANight == Room!Spec

-----------------------------------------------------------------------------
(* Seats.                                                                   *)

\* No advance is refused for an inconsistent layout: the night never bricks
\* (joinBench and the reconciliation in AdvanceRotationSession).
NeverBricked ==
    \A q \in Slots : At(q, "adv.plays") =>
        \A played \in PlayCounts : ~Plan(req[q], played).stuck

\* Nobody plays and waits at once, and nobody substituted out before a round
\* was opened is seated in it (the reconciliation in AdvanceRotationSession,
\* rotation_substitute, joinBench).
SeatedAsTheRosterSays ==
    /\ Seated(courts[round]) \cap ToSet(bench) = {}
    /\ \A p \in DOMAIN subs : subs[p].from <= round => p \notin Seated(courts[round])

-----------------------------------------------------------------------------
(* The record.                                                              *)

AllIdle == \A q \in Slots : req[q] = Idle

\* Between calls, a player's wins are the recorded wins of the rounds that
\* are over (the tally, retallyRotationWins).
WinsMatchBoard ==
    AllIdle => \A p \in Players :
        wins[p] = Cardinality({r \in Rounds : Closed(r) /\ p \in Credited(r)})

\* Whoever has a score in a round has a seat in it: a substitution leaves the
\* seats of a round whose outgoing player has a score in it (the effective
\* round of rotation_substitute, rotationScoreFor).
ScoresHaveSeats ==
    \A r \in Rounds : \A p \in Players :
        scores[r][p] # NoScore => p \in Seated(courts[r])

\* Between calls, a round that is over has the winners its scorecard says it
\* has (persistScorecardWinners, rederivePastRound).
ScorecardDecides ==
    AllIdle => \A r \in Rounds : Closed(r) =>
        \A k \in DOMAIN courts[r] :
            LET v == Verdict(courts[r][k], scores[r])
            IN  v \in Sides => winner[r][k] = v

-----------------------------------------------------------------------------
(* Progress.                                                                *)

\* Why a round may rightly not advance on its own.
HeldByTie == \E k \in DOMAIN courts[round] :
                 Tied(courts[round][k], winner[round][k], scores[round])

Overdue(r) == status = "live" /\ round = r /\ due.age # "running"

\* Also when every device is gone, a round that is overdue moves on, or the
\* night stops, unless a tied court holds it (SweepOverdueRotationRounds).
OverdueRoundsMoveOn ==
    AutoAdvance => \A r \in 1..(MaxRounds - 1) :
        Overdue(r) ~> (~Overdue(r) \/ HeldByTie)

Abandoned == Running /\ due.age = "longPast"

\* A night nobody came back to is ended, also when it was paused or a tie
\* holds it (EndAbandonedRotationSessions).
AbandonedNightsEnd == Abandoned ~> ~Abandoned
=============================================================================
