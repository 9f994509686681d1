----------------------------- MODULE RotationRiver ----------------------------
(***************************************************************************)
(* A rotation night seen as the people in the room see it: rounds are      *)
(* played and closed one after the other, players arrive, leave, come back *)
(* and are substituted between the buzzers.  Every round is closed by the  *)
(* computation AdvanceRotationSession does, with nothing interleaved; the  *)
(* statements of the handlers and their races are in RotationSession.      *)
(***************************************************************************)
EXTENDS RotationAdvance, FiniteSets

CONSTANTS
    Order,       \* every player who may ever appear, in order of arrival
    Evenings     \* the sessions that may be started

\* starters: how many are there at the start; maxCourts: the venue's courts
\* (0: no cap); mode: the ladder's loser rule; rounds: bound on the rounds
\* played; comings: bound on arrivals, departures, returns and substitutions.
ASSUME RiverAssumption ==
    /\ Order \in Seq(ToSet(Order)) /\ IsInjective(Order) /\ Blank \notin ToSet(Order)
    /\ Evenings \subseteq [starters : 4..Len(Order), maxCourts : Nat,
                           mode : LoserModes, rounds : Nat, comings : Nat]

VARIABLES
    evening,     \* the session's settings
    courts,      \* the layout of the current round
    bench,       \* the queue of those sitting it out
    roster,      \* player -> "absent", "active" or "left"
    takeover,    \* substituted-out player -> who came in
    games,       \* player -> rounds played and closed
    round,
    result,      \* the results the last round was closed on
    comings      \* how many comings and goings there have been

vars == <<evening, courts, bench, roster, takeover, games, round, result, comings>>

Players == ToSet(Order)

ActiveIn(r) == Within(Order, {p \in Players : r[p] = "active"})

Active == ToSet(ActiveIn(roster))
Gone   == {p \in Players : roster[p] = "left"}

Newcomers == {i \in DOMAIN Order : roster[Order[i]] = "absent"}
NextNewcomer == Order[CHOOSE i \in Newcomers : \A j \in Newcomers : i <= j]

Init ==
    \E e \in Evenings :
    LET first == SubSeq(Order, 1, e.starters)
        open  == SeedCourts(first, e.maxCourts)
    IN  /\ evening = e
        /\ courts = open.courts
        /\ bench = open.bench
        /\ roster = [p \in Players |-> IF p \in ToSet(first) THEN "active"
                                                             ELSE "absent"]
        /\ takeover = [p \in {} |-> Blank]
        /\ games = [p \in Players |-> 0]
        /\ round = 1
        /\ result = <<>>
        /\ comings = 0

Coming ==
    /\ comings < evening.comings
    /\ comings' = comings + 1
    /\ UNCHANGED evening

\* AddRotationPlayer on a live session: the roster row, then the bench.
Join ==
    /\ Coming
    /\ Newcomers # {}
    /\ roster' = [roster EXCEPT ![NextNewcomer] = "active"]
    /\ bench' = Append(bench, NextNewcomer)
    /\ UNCHANGED <<courts, takeover, games, round, result>>

\* SetRotationPlayerActive(false): the seat is settled at the next advance.
Leave(p) ==
    /\ Coming
    /\ roster[p] = "active"
    /\ Cardinality(Active) > 4
    /\ roster' = [roster EXCEPT ![p] = "left"]
    /\ UNCHANGED <<courts, bench, takeover, games, round, result>>
\* SetRotationPlayerActive(true): refused to anyone who was replaced.
Return(p) ==
    /\ Coming
    /\ roster[p] = "left"
    /\ p \notin DOMAIN takeover
    /\ roster' = [roster EXCEPT ![p] = "active"]
    /\ UNCHANGED <<courts, bench, takeover, games, round, result>>

\* rotation_substitute: the newcomer takes the seat from this round on, or
\* from the next when the one who leaves has already scored this one; a
\* place in the queue passes on either way.
Substitute(out, scored) ==
    LET new == NextNewcomer
    IN  /\ Coming
        /\ Newcomers # {}
        /\ roster[out] = "active"
        /\ out \notin DOMAIN takeover
        /\ scored => out \in Seated(courts)
        /\ roster' = [roster EXCEPT ![out] = "left", ![new] = "active"]
        /\ takeover' = [p \in DOMAIN takeover \cup {out} |->
                            IF p = out THEN new ELSE takeover[p]]
        /\ courts' = IF scored THEN courts
                     ELSE [k \in DOMAIN courts |-> ReplaceAll(courts[k], out, new)]
        /\ bench' = ReplaceAll(bench, out, new)
        /\ UNCHANGED <<games, round, result>>

\* The round closes: everybody seated is credited a game and the next
\* round's courts and bench are written.
CloseRound(won) ==
    LET plan == PlanNextRound(
                  [courts |-> courts, bench |-> bench, takeover |-> takeover,
                   gone |-> Gone, active |-> ActiveIn(roster), games |-> games],
                  won, evening.mode, evening.maxCourts)
    IN  /\ round < evening.rounds
        /\ ~plan.stuck
        /\ plan.courts # <<>>
        /\ courts' = plan.courts
        /\ bench' = plan.bench
        /\ games' = [p \in Players |->
                        games[p] + IF p \in Seated(courts) THEN 1 ELSE 0]
        /\ round' = round + 1
        /\ result' = won
        /\ UNCHANGED <<evening, roster, takeover, comings>>

Next ==
    \/ Join
    \/ \E p \in Players : Leave(p)
    \/ \E p \in Players : Return(p)
    \/ \E p \in Players, scored \in BOOLEAN : Substitute(p, scored)
    \/ \E won \in [DOMAIN courts -> Sides] : CloseRound(won)

Spec == Init /\ [][Next]_vars

-----------------------------------------------------------------------------
(* Properties.                                                             *)

CourtOf(cs, p) == CHOOSE k \in DOMAIN cs : p \in ToSet(cs[k])

Partners(cs) == UNION {{{c[1], c[2]}, {c[3], c[4]}} : c \in ToSet(cs)}

Team(court, side) == IF side = "a" THEN <<court[1], court[2]>>
                                   ELSE <<court[3], court[4]>>
Beaten(court, side) == Team(court, IF side = "a" THEN "b" ELSE "a")

\* Whoever is here without a seat: the queue, and those just back.
Unseated == Active \ Seated(courts)

\* The bottom court's losers who step off for those at the front of the queue.
SteppingOff(won) ==
    ToSet(SubSeq(Beaten(Last(courts), Last(won)), 1, Least(2, Cardinality(Unseated))))

\* No seat has to be settled for somebody who left.
NobodyWalkedOff == Seated(courts) \cap Gone = {}

\* One person never holds two places: two seats, a seat and a place in the
\* queue, or two places in the queue, whatever mix of results, arrivals,
\* departures, returns and substitutions led here (NextRound's guard,
\* ApplyTakeover's dedupe, Reconcile, SettleDepartures, GrowCourts).
NobodyTwice == LayoutAndBenchOK(courts, bench)

\* Closing a round loses nobody and brings back nobody who left: whoever is
\* active has a seat or a place in the queue of the next round, and nobody
\* else has.  It never needs more courts than the venue has, and no court
\* stays shut while four people wait for it (SettleDepartures, GrowCourts).
RoomForEverybody ==
    [][round' # round =>
         /\ Seated(courts') \cup ToSet(bench') = Active
         /\ evening.maxCourts > 0 => Len(courts') <= evening.maxCourts
         /\ Len(bench') >= 4 => evening.maxCourts > 0 /\ Len(courts') = evening.maxCourts]_vars

\* Whoever plays on goes where the ladder's rule says: winners up one court,
\* losers down one ("down") or nowhere ("stay", where only the top court's
\* losers fall, to the bottom).  The equal-time pass must not move them, and
\* with nobody waiting everybody gets a new partner (NextRound's "split and
\* new partner" rule).
RiverRule ==
    [][round' # round /\ NobodyWalkedOff =>
        /\ \A k \in DOMAIN courts :
             LET n    == Len(courts)
                 drop == IF evening.mode = "stay" /\ n > 1 THEN IF k = 1 THEN n ELSE k
                                                   ELSE Least(k + 1, n)
                 On(p) == p \in Seated(SubSeq(courts', 1, n))
             IN  /\ \A p \in ToSet(Team(courts[k], result'[k])) :
                       On(p) => CourtOf(courts', p) = IF k = 1 THEN 1 ELSE k - 1
                 /\ \A p \in ToSet(Beaten(courts[k], result'[k])) \ SteppingOff(result') :
                       On(p) => CourtOf(courts', p) = drop
        /\ Unseated = {} => Partners(courts) \cap Partners(courts') = {}]_vars

\* Nobody is benched for the sake of equal time unless somebody who had
\* played strictly less comes on for them (NextRoundFair).
BenchedOnlyForTheRested ==
    [][round' # round /\ NobodyWalkedOff =>
           \A p \in (Seated(courts) \cap ToSet(bench')) \ SteppingOff(result') :
             \E q \in Seated(courts') :
                /\ games'[q] < games'[p]
                /\ q \notin Seated(courts) \ SteppingOff(result')]_vars

\* Equal court time: while nobody comes or goes, and no more wait than the four
\* a round takes in, no two players are ever more than two games apart, however
\* the results fall (NextRoundFair, fed with counts that include the round
\* being closed).
EqualCourtTime ==
    comings = 0 /\ Len(bench) <= 4 => \A p, q \in Active : games[p] - games[q] <= 2
=============================================================================
