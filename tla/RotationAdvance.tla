---------------------------- MODULE RotationAdvance ---------------------------
(***************************************************************************)
(* What closing a round computes between its reads and its write: the      *)
(* verdict on every court, the seats of those who were replaced or left,   *)
(* the reconciled queue and the number of courts.  The pure helpers, and   *)
(* the straight-line middle, of AdvanceRotationSession in                  *)
(* internal/service/ladder_rotation.go.                                    *)
(***************************************************************************)
EXTENDS RotationEngine

CONSTANT NoScore   \* a scorecard cell nobody filled in

Sides == {"a", "b"}
Unreported == "none"     \* a court row whose winner is null

-----------------------------------------------------------------------------
(* The scorecard.                                                          *)

Entered(scoreOf, team) == \A i \in 1..2 : scoreOf[team[i]] # NoScore

Points(scoreOf, team) == scoreOf[team[1]] + scoreOf[team[2]]

\* What the scores alone say of a court: a side, "level" when both teams
\* are complete and equal, "open" when they cannot say.
Verdict(court, scoreOf) ==
    LET A == <<court[1], court[2]>>
        B == <<court[3], court[4]>>
    IN  IF ~(Entered(scoreOf, A) /\ Entered(scoreOf, B))   THEN "open"
        ELSE IF Points(scoreOf, A) + Points(scoreOf, B) = 0 THEN "open"
        ELSE IF Points(scoreOf, A) > Points(scoreOf, B)     THEN "a"
        ELSE IF Points(scoreOf, B) > Points(scoreOf, A)     THEN "b"
        ELSE "level"

\* The side an advance writes back to the court's row (Unreported: no write).
\* A level scorecard is settled by the tap, if there was one.
Persisted(court, tap, scoreOf) ==
    LET v == Verdict(court, scoreOf)
    IN  CASE v \in Sides  -> v
          [] v = "level"  -> tap
          [] OTHER        -> Unreported

Tied(court, tap, scoreOf) == Verdict(court, scoreOf) = "level" /\ tap \notin Sides

\* The side that moves up: the scorecard's, else the tap, else team A.
MovesUp(court, tap, scoreOf) ==
    LET w == Persisted(court, tap, scoreOf)
    IN  IF w \in Sides THEN w ELSE IF tap \in Sides THEN tap ELSE "a"

-----------------------------------------------------------------------------
(* Who is still here.                                                      *)

\* The queue without blanks and repeats.
DedupeIDs(s) ==
    Picked(s, {i \in DOMAIN s : s[i] # Blank /\ \A j \in 1..(i - 1) : s[j] # s[i]})

\* takeover maps a substituted-out player to whoever came in.  Follow it for
\* those who have gone, and only for them.
Resolve(id, takeover, gone) ==
    LET hop[h \in 0..Cardinality(DOMAIN takeover) + 1] ==
            IF h = 0 THEN id
            ELSE IF hop[h - 1] \in gone \cap DOMAIN takeover
                 THEN takeover[hop[h - 1]]
                 ELSE hop[h - 1]
    IN  hop[Cardinality(DOMAIN takeover) + 1]

\* Seats and queue after every substitution; the queue then loses repeats
\* and anyone seated.
ApplyTakeover(courts, bench, takeover, gone) ==
    LET seats == [k \in DOMAIN courts |->
                     Court(LAMBDA i : Resolve(courts[k][i], takeover, gone))]
        queue == [i \in DOMAIN bench |-> Resolve(bench[i], takeover, gone)]
    IN  IF DOMAIN takeover = {} THEN Night(courts, bench)
        ELSE Night(seats, Without(DedupeIDs(queue), Seated(seats)))
\* Slips: arrivals forgotten; players on court queued too.
ReconcilePruneOnly(courts, bench, active) ==
    Within(bench, ToSet(active))

ReconcileSeated(courts, bench, active) ==
    Within(bench, ToSet(active))
      \o Without(active, ToSet(bench))

\* The queue keeps those still active, and gains at its back every active
\* player who is neither seated nor queued.  active is in order of arrival.
Reconcile(courts, bench, active) ==
    Within(bench, ToSet(active))
      \o Without(active, Seated(courts) \cup ToSet(bench))

-----------------------------------------------------------------------------
(* The round about to start.                                               *)

\* Seats of players who left go to the front of the queue, bottom court
\* first; when the queue runs out the bottom court closes and its survivors
\* queue at the front, and so on.
SettleDepartures(courts, bench, left) ==
    LET Vacant(cs) == {s \in SeatRefs(cs) : cs[s[1]][s[2]] \in left \cup {Blank}}
        BottomUp(s, t) == s[1] > t[1] \/ (s[1] = t[1] /\ s[2] < t[2])
        Fill(n) ==
            LET vacant == Vacant(n.courts)
                take == Least(Cardinality(vacant), Len(n.bench))
                \* A seat's turn among the vacant ones.
                Turn(s) == 1 + Cardinality({t \in vacant : BottomUp(t, s)})
                Seat(s) == IF s \in vacant /\ Turn(s) <= take
                           THEN n.bench[Turn(s)]
                           ELSE n.courts[s[1]][s[2]]
                full == Night([k \in DOMAIN n.courts |-> Court(LAMBDA i : Seat(<<k, i>>))],
                              n.bench).courts
                rest == SubSeq(n.bench, take + 1, Len(n.bench))
            IN  IF take = Cardinality(vacant) THEN Night(full, rest)
                ELSE IF Len(full) > 1 THEN
                     Night(Front(full), Without(Last(full), left \cup {Blank}) \o rest)
                ELSE Night(<<>>, Without(full[1], left \cup {Blank}) \o rest)
        night[i \in 0..Len(courts)] ==
            IF i = 0 THEN Night(courts, Without(bench, left))
            ELSE IF Vacant(night[i - 1].courts) = {} THEN night[i - 1]
            ELSE Fill(night[i - 1])
    IN  IF left = {} THEN Night(courts, bench) ELSE night[Len(courts)]
\* Slip: whoever takes the new seats keeps waiting too.
GrowKeepsQueue(courts, bench, maxCourts) ==
    IF Len(bench) >= 4 /\ (maxCourts = 0 \/ Len(courts) < maxCourts)
    THEN Night(Append(courts, OpenCourt(bench)), bench)
    ELSE Night(courts, bench)

\* Open courts at the bottom while four are waiting and the venue has room.
GrowCourts(courts, bench, maxCourts) ==
    LET fill == Len(bench) \div 4
        room == maxCourts - Len(courts)
        more == IF maxCourts = 0 \/ fill <= room THEN fill
                ELSE IF room > 0 THEN room ELSE 0
    IN  Night(courts \o [k \in 1..more |-> OpenCourt(SubSeq(bench, 4*k - 3, 4*k))],
              SubSeq(bench, 4*more + 1, Len(bench)))

\* A night that has played its planned rounds does not open another.
RotationShouldStop(planned, closed) == planned > 0 /\ closed >= planned

-----------------------------------------------------------------------------
(* The whole plan, from what the advance read.                             *)
\* Slip: the stored counts, which miss the round just played.
CountStored(games, seated) == games

\* Games played counting the round being closed, which nobody has tallied
\* yet.
CountClosing(games, seated) ==
    [p \in DOMAIN games |-> IF p \in seated THEN games[p] + 1 ELSE games[p]]

\* The round that opens after a movement, for those who are still here.
Opening(moved, left, maxCourts) ==
    LET settled == SettleDepartures(moved.courts, moved.bench, left)
    IN  GrowCourts(settled.courts, settled.bench, maxCourts)

\* From the courts and the queue as the substitutions leave them.  The plan
\* is stuck when the engine refused the layout.
PlanFrom(here, seen, won, mode, maxCourts) ==
    LET queue == IF "active" \in DOMAIN seen
                 THEN Reconcile(here.courts, here.bench, seen.active)
                 ELSE here.bench
        plays == CountClosing(seen.games, Seated(here.courts))
        moved == NextRoundFair(here.courts, won, queue, mode, plays)
        next  == Opening(moved, seen.gone, maxCourts)
    IN  [courts |-> next.courts, bench |-> next.bench,
         stuck  |-> moved.courts = here.courts]

\* seen is the snapshot: the courts and the bench of the closing round, the
\* substitutions, who has gone, who is active (absent when that read failed:
\* the queue is then left as it is), and the games played before this round.
PlanNextRound(seen, won, mode, maxCourts) ==
    PlanFrom(ApplyTakeover(seen.courts, DedupeIDs(seen.bench),
                           seen.takeover, seen.gone),
             seen, won, mode, maxCourts)
=============================================================================
