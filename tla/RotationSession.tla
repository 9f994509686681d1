---------------------------- MODULE RotationSession ---------------------------
(***************************************************************************)
(* A live rotation session as the server runs it: stateless handlers over  *)
(* a database.  Every statement (a select, a conditional patch, a stored   *)
(* procedure) is atomic; a handler is a sequence of them, and requests     *)
(* interleave between any two.  A request remembers in req what it has     *)
(* read so far.  internal/service/ladder_rotation.go, rotation_sweep.go    *)
(* and rotation_corrections.go; round 1 and its roster come from           *)
(* RotationSetup.                                                          *)
(***************************************************************************)
EXTENDS RotationAdvance, FiniteSets

CONSTANTS
    Order,        \* every player who may ever appear, in order of arrival
    Starters,     \* how many of them round 1 was drawn from
    MaxCourts,    \* court_count (0: no cap)
    Mode,         \* the league's loser rule
    Planned,      \* planned_rounds (0: none)
    AutoAdvance,  \* auto_advance
    Requests,     \* slots in which requests run at the same time
    Sweeper,      \* the slot of the 30-second advance sweep
    Janitor,      \* the slot of the hourly abandoned-session sweep
    MaxRounds,    \* bound: rounds a behaviour reaches
    Budget        \* bound: how often each kind of call is made

Kinds == {"advance", "report", "score", "correct", "end", "reopen", "pause",
          "resume", "sub", "out", "back", "join", "abandon", "fault"}

ASSUME SessionAssumption ==
    /\ Mode \in LoserModes
    /\ Order \in Seq(ToSet(Order)) /\ IsInjective(Order) /\ Blank \notin ToSet(Order)
    /\ Starters \in 4..Len(Order)
    /\ {MaxCourts, Planned} \subseteq Nat
    /\ MaxRounds \in Nat \ {0}
    /\ AutoAdvance \in BOOLEAN
    /\ Sweeper # Janitor /\ {Sweeper, Janitor} \cap Requests = {}
    /\ Budget \in [Kinds -> Nat]

VARIABLES
    status, round, bench,  \* rotation_sessions
    due,          \* its round_ends_at: how far past, which round it was set
                  \* for, and how far past it was when the session paused
    courts,       \* rotation_round_courts: round -> layout
    winner,       \* and round -> one side, or Unreported, per court
    scores,       \* rotation_round_scores: round -> player -> points
    roster,       \* rotation_players: "absent", "active" or "left"
    subs,         \* rotation_substitutions: out -> [by, from]
    wins, games,  \* rotation_players.wins and .games
    req,          \* slot -> the request running in it
    left,         \* kind -> calls that may still be made
    tallied       \* history: round -> how often it was tallied

session == <<status, round, bench, due>>
record  == <<courts, winner, scores>>
people  == <<roster, subs>>
tally   == <<wins, games, tallied>>
vars    == <<session, record, people, tally, req, left>>

Players == ToSet(Order)
Slots   == Requests \cup {Sweeper, Janitor}
Rounds  == 1..MaxRounds

Idle == [at |-> "idle"]

ActiveRow == Within(Order, {p \in Players : roster[p] = "active"})
Gone      == {p \in Players : roster[p] = "left"}

Newcomers    == {i \in DOMAIN Order : roster[Order[i]] = "absent"}
NextNewcomer == Order[CHOOSE i \in Newcomers : \A j \in Newcomers : i <= j]
\* Slip: a deadline set for the wrong round.
DeadlineNext(r) == [age |-> "running", of |-> r + 1, held |-> "running"]

Deadline(r) == [age |-> "running", of |-> r, held |-> "running"]

Fresh(layout) == [k \in DOMAIN layout |-> Unreported] \o <<>>

Init ==
    LET first == SubSeq(Order, 1, Starters)
        open  == SeedCourts(first, MaxCourts)
    IN  /\ status = "live"
        /\ round = 1
        /\ bench = open.bench
        /\ due = Deadline(1)
        /\ courts = [r \in Rounds |-> IF r = 1 THEN open.courts ELSE <<>>]
        /\ winner = [r \in Rounds |-> IF r = 1 THEN Fresh(open.courts) ELSE <<>>]
        /\ scores = [r \in Rounds |-> [p \in Players |-> NoScore]]
        /\ roster = [p \in Players |-> IF p \in ToSet(first) THEN "active"
                                                             ELSE "absent"]
        /\ subs = [p \in {} |-> Blank]
        /\ wins = [p \in Players |-> 0]
        /\ games = [p \in Players |-> 0]
        /\ req = [q \in Slots |-> Idle]
        /\ left = Budget
        /\ tallied = [r \in Rounds |-> 0]

\* A record with these fields set.
Extend(r, fields) ==
    [x \in (DOMAIN r) \cup (DOMAIN fields) |->
        IF x \in DOMAIN fields THEN fields[x] ELSE r[x]]

\* A request moves on, or ends.
Step(q, r) == req' = [req EXCEPT ![q] = r]
Done(q)    == Step(q, Idle)

\* A call of some kind is made, in a slot that is free.
Use(kind)     == left[kind] > 0 /\ left' = [left EXCEPT ![kind] = @ - 1]
Call(q, kind) == q \in Requests /\ req[q] = Idle /\ Use(kind)

\* A call that is a single statement: a slot is free for it, and free again.
Instant(kind) == Use(kind) /\ \E q \in Requests : req[q] = Idle

At(q, label) == req[q].at = label

-----------------------------------------------------------------------------
(* The stored procedures that close a round.                               *)

\* The players on the side recorded as winner.
CourtWinners(r, k) ==
    LET c == courts[r][k]
    IN  CASE winner[r][k] = "a" -> {c[1], c[2]}
          [] winner[r][k] = "b" -> {c[3], c[4]}
          [] OTHER              -> {}

Credited(r) == UNION {CourtWinners(r, k) : k \in DOMAIN courts[r]}

\* A win for every recorded winner, a game for everybody seated.
Tally(r) ==
    /\ wins' = [p \in Players |-> IF p \in Credited(r) THEN wins[p] + 1 ELSE wins[p]]
    /\ games' = CountClosing(games, Seated(courts[r]))
    /\ tallied' = [tallied EXCEPT ![r] = @ + 1]
\* Slips: the pause or the end not looked at.
MoveUnlessDone   == status # "done"
MoveUnlessPaused == status # "paused"

\* advance_rotation_session closes the round its caller read, once; the
\* trigger of add_advance_pause_guard.sql refuses a paused session.
Current(r)   == round = r
MayMoveOn    == status = "live"

-----------------------------------------------------------------------------
(* AdvanceRotationSession.                                                 *)

\* A device asks for the next round, believing some round to be current (0:
\* whichever is).
AdvCall(q, expected) ==
    /\ Call(q, "advance")
    /\ Step(q, [at |-> "adv.session", expected |-> expected])
    /\ UNCHANGED <<session, record, people, tally>>
\* Slip: the sweep expects the round after the current one.
SweepAhead ==
    /\ req[Sweeper] = Idle
    /\ AutoAdvance
    /\ status = "live"
    /\ due.age # "running"
    /\ round < MaxRounds
    /\ Step(Sweeper, [at |-> "adv.session", expected |-> round + 1])
    /\ UNCHANGED <<session, record, people, tally, left>>

\* SweepOverdueRotationRounds picks a live round whose time is long up.
Sweep ==
    /\ req[Sweeper] = Idle
    /\ AutoAdvance
    /\ status = "live"
    /\ due.age # "running"
    /\ round < MaxRounds
    /\ Step(Sweeper, [at |-> "adv.session", expected |-> round])
    /\ UNCHANGED <<session, record, people, tally, left>>

\* The caller's round is still the current one.
Believed(expected) == expected \in {0, round}

\* The session row.  (A round beyond MaxRounds is never opened: the bound.)
AdvSession(q) ==
    /\ At(q, "adv.session")
    /\ IF status = "live" /\ Believed(req[q].expected) /\ round < MaxRounds
       THEN Step(q, [at |-> "adv.courts", expected |-> req[q].expected,
                     round |-> round, bench |-> bench])
       ELSE Done(q)
    /\ UNCHANGED <<session, record, people, tally, left>>

AdvCourts(q) ==
    /\ At(q, "adv.courts")
    /\ Step(q, Extend(req[q], [at |-> "adv.scores", courts |-> courts[req[q].round],
                            taps |-> winner[req[q].round]]))
    /\ UNCHANGED <<session, record, people, tally, left>>

\* A patch for every court on which there is a side to write.
PatchesFor(side) ==
    LET all == [k \in DOMAIN side |-> [court |-> k, side |-> side[k]]] \o <<>>
    IN  Picked(all, {k \in DOMAIN all : all[k].side \in Sides})

\* The scores; with them the verdict on every court, what will be persisted
\* and whether the round is held for a sudden-death point.
AdvScores(q) ==
    LET r        == req[q]
        scoreOf  == scores[r.round]
        side     == [k \in DOMAIN r.courts |->
                        Persisted(r.courts[k], r.taps[k], scoreOf)]
    IN  /\ At(q, "adv.scores")
        /\ Step(q, [at |-> "adv.persist", expected |-> r.expected,
                    round |-> r.round, bench |-> r.bench, courts |-> r.courts,
                    won     |-> [k \in DOMAIN r.courts |->
                                    MovesUp(r.courts[k], r.taps[k], scoreOf)] \o <<>>,
                    patches |-> PatchesFor(side),
                    tied    |-> \E k \in DOMAIN r.courts :
                                    Tied(r.courts[k], r.taps[k], scoreOf)])
        /\ UNCHANGED <<session, record, people, tally, left>>

\* The winners are written back court by court.  Nobody looks at whether a
\* write succeeded.
Patch(r, x) == winner' = [winner EXCEPT ![r][x.court] = x.side]

PersistWinner(q) ==
    LET r == req[q]
    IN  /\ r.at \in {"adv.persist", "persist.winners"}
        /\ r.patches # <<>>
        /\ Step(q, [r EXCEPT !.patches = Tail(@)])
        /\ \/ Patch(r.round, Head(r.patches)) /\ UNCHANGED left
           \/ Use("fault") /\ UNCHANGED winner
        /\ UNCHANGED <<session, courts, scores, people, tally>>

\* Then a tie holds the round.
AdvPersisted(q) ==
    LET r == req[q]
    IN  /\ At(q, "adv.persist")
        /\ r.patches = <<>>
        /\ IF r.tied THEN Done(q)
           ELSE Step(q, [at |-> "adv.subs", expected |-> r.expected,
                         round |-> r.round, bench |-> r.bench,
                         courts |-> r.courts, won |-> r.won])
        /\ UNCHANGED <<session, record, people, tally, left>>

AdvSubs(q) ==
    /\ At(q, "adv.subs")
    /\ Step(q, Extend(req[q], [at |-> "adv.gone",
                            takeover |-> [p \in DOMAIN subs |-> subs[p].by]]))
    /\ UNCHANGED <<session, record, people, tally, left>>

AdvGone(q) ==
    /\ At(q, "adv.gone")
    /\ Step(q, Extend(req[q], [at |-> "adv.active", gone |-> Gone]))
    /\ UNCHANGED <<session, record, people, tally, left>>

\* The active players.  When this read fails the queue is not reconciled.
AdvActive(q) ==
    /\ At(q, "adv.active")
    /\ \/ /\ Step(q, Extend(req[q], [at |-> "adv.plays", active |-> ActiveRow]))
          /\ UNCHANGED left
       \/ /\ Use("fault")
          /\ Step(q, [req[q] EXCEPT !.at = "adv.plays"])
    /\ UNCHANGED <<session, record, people, tally>>

\* The plan for the next round, from what was read and the play counts.
Plan(r, played) == PlanNextRound(Extend(r, [games |-> played]), r.won, Mode, MaxCourts)

\* rotationPlayCounts; when it fails the advance goes on as if nobody had played.
NobodyPlayed == [p \in Players |-> 0]
PlayCounts == {games, NobodyPlayed}

\* The round is held when the engine refuses the layout or fewer than four
\* are left, and the session ends when the planned rounds are up.  (Bound by
\* \E, the plan is computed once.)
AdvPlays(q) ==
    LET r == req[q]
    IN  /\ At(q, "adv.plays")
        /\ \E played \in PlayCounts :
              /\ (played = games /\ UNCHANGED left) \/ (played # games /\ Use("fault"))
              /\ \E plan \in {Plan(r, played)} :
                    IF plan.stuck \/ plan.courts = <<>> THEN Done(q)
                    ELSE IF RotationShouldStop(Planned, r.round)
                         THEN Step(q, [at |-> "end.round"])
                    ELSE Step(q, [at |-> "adv.recheck", expected |-> r.expected,
                                  round |-> r.round, courts |-> plan.courts,
                                  bench |-> plan.bench])
        /\ UNCHANGED <<session, record, people, tally>>

AdvRecheck(q) ==
    /\ At(q, "adv.recheck")
    /\ IF status = "paused" THEN Done(q)
       ELSE Step(q, [req[q] EXCEPT !.at = "adv.write"])
    /\ UNCHANGED <<session, record, people, tally, left>>

\* advance_rotation_session.
AdvWrite(q) ==
    LET r == req[q]
    IN  /\ At(q, "adv.write")
        /\ Done(q)
        /\ IF Current(r.round) /\ MayMoveOn
           THEN /\ Tally(round)
                /\ status' = "live"
                /\ round' = round + 1
                /\ bench' = r.bench
                /\ due' = Deadline(round + 1)
                /\ courts' = [courts EXCEPT ![round + 1] = r.courts]
                /\ winner' = [winner EXCEPT ![round + 1] = Fresh(r.courts)]
           ELSE UNCHANGED <<session, courts, winner, tally>>
        /\ UNCHANGED <<scores, people, left>>

-----------------------------------------------------------------------------
(* The winners of a round from its scorecard, on the way to something else: *)
(* persistScorecardWinners, before an End and in rederivePastRound.         *)

DeriveWinners(r, then) == [at |-> "persist.scores", round |-> r, then |-> then]

PersistScores(q) ==
    /\ At(q, "persist.scores")
    /\ Step(q, Extend(req[q], [at |-> "persist.courts", scores |-> scores[req[q].round]]))
    /\ UNCHANGED <<session, record, people, tally, left>>

PersistCourts(q) ==
    LET r    == req[q]
        cs   == courts[r.round]
        side == [k \in DOMAIN cs |-> Verdict(cs[k], r.scores)]
    IN  /\ At(q, "persist.courts")
        /\ Step(q, [at |-> "persist.winners", round |-> r.round, then |-> r.then,
                    patches |-> PatchesFor(side)])
        /\ UNCHANGED <<session, record, people, tally, left>>

PersistDone(q) ==
    /\ At(q, "persist.winners")
    /\ req[q].patches = <<>>
    /\ Step(q, [at |-> req[q].then])
    /\ UNCHANGED <<session, record, people, tally, left>>

-----------------------------------------------------------------------------
(* EndRotationSession.                                                      *)

EndCall(q) ==
    /\ Call(q, "end")
    /\ Step(q, [at |-> "end.round"])
    /\ UNCHANGED <<session, record, people, tally>>
\* Slip: paused nights overlooked.
EndAbandonedLive ==
    /\ req[Janitor] = Idle
    /\ status = "live"
    /\ due.age = "longPast"
    /\ Step(Janitor, [at |-> "end.round"])
    /\ UNCHANGED <<session, record, people, tally, left>>

\* EndAbandonedRotationSessions ends a night nobody came back to, paused or not.
EndAbandoned ==
    /\ req[Janitor] = Idle
    /\ status \in {"live", "paused"}
    /\ due.age = "longPast"
    /\ Step(Janitor, [at |-> "end.round"])
    /\ UNCHANGED <<session, record, people, tally, left>>

\* When this read fails no winner is derived, and the session ends all the
\* same.
EndRound(q) ==
    /\ At(q, "end.round")
    /\ \/ Step(q, DeriveWinners(round, "end.write")) /\ UNCHANGED left
       \/ Use("fault") /\ Step(q, [at |-> "end.write"])
    /\ UNCHANGED <<session, record, people, tally>>

\* end_rotation_session; a session already done is left alone.
EndWrite(q) ==
    /\ At(q, "end.write")
    /\ Done(q)
    /\ IF status \in {"live", "paused"}
       THEN /\ Tally(round)
            /\ status' = "done"
            /\ due' = [due EXCEPT !.age = "none"]
       ELSE UNCHANGED <<status, due, tally>>
    /\ UNCHANGED <<round, bench, record, people, left>>

-----------------------------------------------------------------------------
(* The clock: PauseRotationSession, ResumeRotationSession, Reopen.          *)

\* One conditional patch.  The deadline stays; paused_at is the moment.
Pause ==
    /\ Instant("pause")
    /\ status = "live"
    /\ status' = "paused"
    /\ due' = [due EXCEPT !.held = due.age]
    /\ UNCHANGED <<round, bench, record, people, tally, req>>

\* Resume works out the deadline from what it reads...
ResumeRead(q) ==
    /\ Call(q, "resume")
    /\ status = "paused"
    /\ Step(q, [at |-> "resume.write", due |-> [due EXCEPT !.age = due.held]])
    /\ UNCHANGED <<session, record, people, tally>>

\* ...and writes it if the session is (still, or again) paused.
ResumeWrite(q) ==
    /\ At(q, "resume.write")
    /\ Done(q)
    /\ IF status = "paused"
       THEN status' = "live" /\ due' = req[q].due
       ELSE UNCHANGED <<status, due>>
    /\ UNCHANGED <<round, bench, record, people, tally, left>>

\* One conditional patch after a read that decides nothing else.
Reopen ==
    /\ Instant("reopen")
    /\ status = "done"
    /\ status' = "live"
    /\ due' = Deadline(round)
    /\ UNCHANGED <<round, bench, record, people, tally, req>>

\* The clock runs past the deadline, and, for hours, further.
TimePasses ==
    /\ \/ due.age = "running" /\ due' = [due EXCEPT !.age = "past"]
          /\ UNCHANGED left
       \/ due.age = "past" /\ Use("abandon")
          /\ due' = [due EXCEPT !.age = "longPast"]
    /\ UNCHANGED <<status, round, bench, record, people, tally, req>>

\* A request ends where it is: a read or write it waits for fails, or the
\* server stops.
Drop(q) ==
    /\ req[q] # Idle
    /\ Use("fault")
    /\ Done(q)
    /\ UNCHANGED <<session, record, people, tally>>

Lifecycle(q) ==
    \/ AdvCall(q, 0) \/ AdvCall(q, round) \/ EndCall(q) \/ ResumeRead(q)
    \/ AdvSession(q) \/ AdvCourts(q) \/ AdvScores(q) \/ PersistWinner(q)
    \/ AdvPersisted(q) \/ AdvSubs(q) \/ AdvGone(q) \/ AdvActive(q)
    \/ AdvPlays(q) \/ AdvRecheck(q) \/ AdvWrite(q)
    \/ PersistScores(q) \/ PersistCourts(q) \/ PersistDone(q)
    \/ EndRound(q) \/ EndWrite(q) \/ ResumeWrite(q) \/ Drop(q)

Clock == Pause \/ Reopen \/ TimePasses \/ Sweep \/ EndAbandoned
=============================================================================
