---------------------------- MODULE RotationEngine ----------------------------
(***************************************************************************)
(* The movement engine of a rotation ladder ("up and down the river"):     *)
(* the pure functions of internal/engine/rotation.go.                      *)
(*                                                                         *)
(* A court is the sequence of its four seats <<A1, A2, B1, B2>>; a layout  *)
(* is the sequence of courts, court 1 (the top) first; a bench is the      *)
(* queue of waiting players, longest-waiting first.  Court numbers are the *)
(* positions in the layout, so a layout is contiguous by construction.     *)
(***************************************************************************)
EXTENDS Integers, Sequences, SequencesExt

CONSTANT Blank     \* the empty player id of a seat nobody holds

LoserModes == {"down", "stay"}      \* LosersDown, LosersStay

\* Courts and queue.  (Concatenating the empty sequence changes nothing; it
\* makes TLC compute each element once.)
Night(courts, bench) == [courts |-> courts \o <<>>, bench |-> bench \o <<>>]

\* A court, from who takes each of its seats.
Court(Seat(_)) == <<Seat(1), Seat(2), Seat(3), Seat(4)>>

Least(a, b) == IF a < b THEN a ELSE b

\* The i-th of a finite set under a strict total order.
Nth(S, Before(_, _), i) ==
    CHOOSE x \in S : Cardinality({y \in S : Before(y, x)}) = i - 1

\* The elements of s at the positions I, in order; those in S; those not in X.
Picked(s, I) ==
    LET kept[i \in 0..Len(s)] ==
            IF i = 0 THEN <<>>
            ELSE IF i \in I THEN Append(kept[i - 1], s[i]) ELSE kept[i - 1]
    IN  kept[Len(s)]

Within(s, S)  == Picked(s, {i \in DOMAIN s : s[i] \in S})
Without(s, X) == Picked(s, {i \in DOMAIN s : s[i] \notin X})

\* Every seat of a layout, as <<court, idx>> with idx in the order
\* TeamA[0], TeamA[1], TeamB[0], TeamB[1].
SeatRefs(courts) == (DOMAIN courts) \X (1..4)

Seated(courts) == {courts[s[1]][s[2]] : s \in SeatRefs(courts)}

-----------------------------------------------------------------------------
(* Round 1.                                                                *)
\* Slip: one player twice on a court.
OpenCourtSlip(q) == <<q[1], q[3], q[2], q[3]>>

\* Four players in seeding order open as [1st, 3rd] against [2nd, 4th].
OpenCourt(q) == <<q[1], q[3], q[2], q[4]>>

CourtsFor(n, maxCourts) ==
    IF maxCourts > 0 THEN Least(n \div 4, maxCourts) ELSE n \div 4

SeedCourts(players, maxCourts) ==
    LET c == CourtsFor(Len(players), maxCourts)
    IN  Night([k \in 1..c |-> OpenCourt(SubSeq(players, 4*k - 3, 4*k))],
              SubSeq(players, 4*c + 1, Len(players)))
\* Slip: the placements ignored.
SeedUnplaced(players, maxCourts) ==
    SeedCourts([i \in DOMAIN players |-> players[i].id], maxCourts)

\* players is a sequence of [id, court], strongest first; court 0 is
\* "unplaced".
SeedPlacedCourts(players, maxCourts) ==
    LET c       == CourtsFor(Len(players), maxCourts)
        Ids(s)  == [i \in DOMAIN s |-> s[i].id]
        On(k)   == SelectSeq(players, LAMBDA p : p.court = k)
        \* A court keeps the first four placed on it.
        Kept(k) == SubSeq(On(k), 1, Least(4, Len(On(k))))
        kept    == UNION {ToSet(Kept(k)) : k \in 1..c}
        \* The rest: the unplaced, then those whose placement cannot be
        \* honoured.
        pool    == SelectSeq(players, LAMBDA p : p.court = 0)
                     \o SelectSeq(players,
                                  LAMBDA p : p.court > 0 /\ p \notin kept)
        \* How many of the pool the gaps of courts 1..k take.
        used[k \in 0..c] ==
            IF k = 0 THEN 0
            ELSE Least(used[k - 1] + 4 - Len(Kept(k)), Len(pool))
        Full(k) == Kept(k) \o SubSeq(pool, used[k - 1] + 1, used[k])
    IN  IF c = 0 THEN Night(<<>>, Ids(players))
        ELSE Night([k \in 1..c |-> OpenCourt(Ids(Full(k)))],
                   Ids(SubSeq(pool, used[c] + 1, Len(pool))))

-----------------------------------------------------------------------------
(* The movement.                                                           *)

\* Every seat filled and nobody placed twice, on the courts or the bench.
LayoutAndBenchOK(courts, bench) ==
    /\ Blank \notin Seated(courts) \cup ToSet(bench)
    /\ Seated(courts) \cap ToSet(bench) = {}
    /\ IsInjective(bench)
    /\ \A s, t \in SeatRefs(courts) :
           courts[s[1]][s[2]] = courts[t[1]][t[2]] => s = t

LayoutOK(courts) == LayoutAndBenchOK(courts, <<>>)

\* An unreported court moves as if team A had won.
Winners(court, w) == IF w = "b" THEN <<court[3], court[4]>>
                                ELSE <<court[1], court[2]>>
Losers(court, w)  == IF w = "b" THEN <<court[1], court[2]>>
                                ELSE <<court[3], court[4]>>

\* How many of the bottom court's losers give way to the bench.
Byes(bench) == Least(2, Len(bench))
\* Slip: the other rule.
LosersSwapped(k, n, mode) == IF mode = "down" THEN IF k = n THEN 1 ELSE k ELSE k - 1

\* The court whose losers arrive at court k > 1 from above.  In "stay" the
\* losers hold their court, and only the top court's fall, to the bottom.
LosersFrom(k, n, mode) == IF mode = "stay" THEN IF k = n THEN 1 ELSE k ELSE k - 1

\* Each of the two from below pairs with one of the two from above.
RePair(below, above) == <<below[1], above[1], below[2], above[2]>>

\* won[k] is court k's result.  A layout the movement cannot handle is
\* handed back untouched.
NextRound(courts, won, bench, mode) ==
    LET n        == Len(courts)
        Win(k)   == Winners(courts[k], won[k])
        Lose(k)  == Losers(courts[k], won[k])
        byes     == Byes(bench)
        stay     == [j \in 1..2 |-> IF j <= byes THEN bench[j] ELSE Lose(n)[j]]
        queue    == SubSeq(bench, byes + 1, Len(bench))
                      \o SubSeq(Lose(n), 1, byes)
        Above(k) == IF k = 1 THEN Win(1) ELSE Lose(LosersFrom(k, n, mode))
        Below(k) == IF k = n THEN stay ELSE Win(k + 1)
    IN  IF n = 0 \/ ~LayoutAndBenchOK(courts, bench)
        THEN Night(courts, bench)
        ELSE Night([k \in 1..n |-> RePair(Below(k), Above(k))], queue)
\* Slip: equal counts change places too.
OwedOrLevel(resting, playing) == resting <= playing

\* Whether a resting player's games are few enough to take a seat.
OwedCourtTime(resting, playing) == resting < playing

\* The n seats whose holders have played most; level counts from the bottom
\* court up.
MostPlayed(courts, plays, n) ==
    LET Plays(s) == plays[courts[s[1]][s[2]]]
        Busier(s, t) ==
            \/ Plays(s) > Plays(t)
            \/ Plays(s) = Plays(t) /\ s[1] > t[1]
            \/ Plays(s) = Plays(t) /\ s[1] = t[1] /\ s[2] < t[2]
    IN  [i \in 1..n |-> Nth(SeatRefs(courts), Busier, i)] \o <<>>

\* The n of the bench who have played least; level counts from the front.
LeastPlayed(bench, plays, n) ==
    LET Rested(i, j) ==
            \/ plays[bench[i]] < plays[bench[j]]
            \/ plays[bench[i]] = plays[bench[j]] /\ i < j
    IN  [i \in 1..n |-> bench[Nth(DOMAIN bench, Rested, i)]] \o <<>>

\* The i-th of waiting takes the i-th of the busy seats for as long as that
\* narrows the gap; whoever comes off queues at the back.
TradePlaces(night, busy, waiting, plays) ==
    LET At(s)      == night.courts[s[1]][s[2]]
        Narrows(i) == OwedCourtTime(plays[waiting[i]], plays[At(busy[i])])
        traded     == {i \in DOMAIN busy : \A j \in 1..i : Narrows(j)}
        cameOn     == {waiting[i] : i \in traded}
        tookOff    == [i \in 1..Cardinality(traded) |-> At(busy[i])]
        Seat(s)    == IF \E i \in traded : busy[i] = s
                      THEN waiting[CHOOSE i \in traded : busy[i] = s]
                      ELSE At(s)
    IN  Night([k \in DOMAIN night.courts |-> Court(LAMBDA i : Seat(<<k, i>>))],
              Without(night.bench, cameOn) \o tookOff)

EvenOut(night, plays) ==
    LET most == Least(2, Len(night.bench))
    IN  TradePlaces(night, MostPlayed(night.courts, plays, most),
                    LeastPlayed(night.bench, plays, most), plays)

\* The movement, then the equal-court-time pass: up to two of the most-played
\* seats change places with up to two of the least-played of the bench.
NextRoundFair(courts, won, bench, mode, plays) ==
    LET next == NextRound(courts, won, bench, mode)
    IN  IF \/ next.courts = <<>> \/ next.bench = <<>>
           \/ ~LayoutOK(courts) \/ ~LayoutAndBenchOK(next.courts, next.bench)
        THEN next
        ELSE EvenOut(next, plays)
=============================================================================
