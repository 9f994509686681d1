--------------------------------- MODULE Draw ---------------------------------
(***************************************************************************)
(* The draws a tournament is played on: which games there are, who opens   *)
(* in which of their two slots, and where winners and losers go next.  The *)
(* generators of internal/engine/bracket.go and double_elim.go with what   *)
(* persistBracket, persistMedalBracket and persistDoubleElim store.        *)
(*                                                                         *)
(* A game is <<tier, round, slot>>; an entrant is its seed.  The deciding  *)
(* game of a double elimination is listed, but only exists when needed     *)
(* (resolveGrandFinal).  The winners tier is "main" here as in single      *)
(* elimination, and losers rounds keep their numbers: relabelling them for *)
(* display (renumberLBRounds) changes no route.                            *)
(***************************************************************************)
EXTENDS Integers, Sequences, FiniteSets

Nobody == 0            \* a slot without players
NoFeed == <<>>         \* a result that leads nowhere
Feed(to, slot) == [to |-> to, slot |-> slot]

GrandFinal == <<"final", 1, 0>>
ResetGame  == <<"final", 2, 0>>

\* Rounds of the smallest power of two that holds n entrants (n > 1).
RoundsFor(n) == CHOOSE k \in 1..n : 2^k >= n /\ 2^(k - 1) < n

\* The order in which seeds are drawn from top to bottom of 2^k places.
SeedOrder(k) ==
    LET order[r \in 0..k] ==
            IF r = 0 THEN <<1>>
            ELSE [i \in 1..(2^r) |->
                     IF i % 2 = 1 THEN order[r - 1][(i + 1) \div 2]
                                  ELSE 2^r + 1 - order[r - 1][i \div 2]]
    IN  order[k]

-----------------------------------------------------------------------------
(* Single elimination.                                                     *)

\* The seeds of first-round game s; without an entrant a slot is a bye.
Opening(n, order, s) ==
    [i \in 1..2 |-> IF order[2*s + i] <= n THEN order[2*s + i] ELSE Nobody]
IsBye(pair) == Nobody \in {pair[1], pair[2]}
Through(pair) == IF ~IsBye(pair) THEN Nobody
                 ELSE IF pair[1] = Nobody THEN pair[2] ELSE pair[1]

\* A bye is decided when it is made, and its entrant is already in round 2.
SingleElim(k, first) ==
    LET games == UNION {{<<"main", r, s>> : s \in 0..(2^(k - r) - 1)} : r \in 1..k}
    IN  [games |-> games,
         opens |-> [g \in games |->
                       CASE g[2] = 1 -> first[g[3]]
                         [] g[2] = 2 -> <<Through(first[2*g[3]]), Through(first[2*g[3] + 1])>>
                         [] OTHER    -> <<Nobody, Nobody>>],
         byes  |-> {g \in games : g[2] = 1 /\ IsBye(first[g[3]])},
         wins  |-> [g \in games |->
                       IF g[2] = k THEN NoFeed
                       ELSE Feed(<<"main", g[2] + 1, g[3] \div 2>>, (g[3] % 2) + 1)],
         loses |-> [g \in games |-> NoFeed]]

Drawn(n, k, order) == SingleElim(k, [s \in 0..(2^(k - 1) - 1) |-> Opening(n, order, s)])
GenerateBracket(n) == Drawn(n, RoundsFor(n), SeedOrder(RoundsFor(n)))

\* A single-elimination draw of k rounds with its third-place game: the
\* losers of the two semifinals, a bye among them or not.
WithThirdPlace(k, sf, bronze) ==
    LET games == sf.games \cup {bronze}
    IN  [games |-> games,
         opens |-> [g \in games |-> IF g = bronze THEN <<Nobody, Nobody>> ELSE sf.opens[g]],
         byes  |-> sf.byes,
         wins  |-> [g \in games |-> IF g = bronze THEN NoFeed ELSE sf.wins[g]],
         loses |-> [g \in games |-> IF g # bronze /\ g[2] = k - 1 THEN Feed(bronze, g[3] + 1)
                                    ELSE NoFeed]]

Knockout(n) ==
    IF n < 3 THEN GenerateBracket(n)
    ELSE WithThirdPlace(RoundsFor(n), GenerateBracket(n), <<"main", RoundsFor(n), 1>>)

\* Two semifinals, a game for gold and one for bronze.
MedalBracket ==
    LET Semi(s)  == <<"main", 1, s>>
        Medal(s) == <<"main", 2, s>>
        games    == {Semi(0), Semi(1), Medal(0), Medal(1)}
    IN  [games |-> games,
         opens |-> [g \in games |-> CASE g = Semi(0) -> <<1, 4>>
                                      [] g = Semi(1) -> <<2, 3>>
                                      [] OTHER       -> <<Nobody, Nobody>>],
         byes  |-> {},
         wins  |-> [g \in games |-> IF g[2] = 1 THEN Feed(Medal(0), g[3] + 1) ELSE NoFeed],
         loses |-> [g \in games |-> IF g[2] = 1 THEN Feed(Medal(1), g[3] + 1) ELSE NoFeed]]

-----------------------------------------------------------------------------
(* Double elimination: the losers of a single-elimination draw play on.    *)

\* Games of losers round lr before byes thin them out.
LosersGames(k, lr) == 2^(k - 1 - (lr + 1) \div 2)
\* Slip: one loser drops everywhere.
ComeAroundOne(r, j, count) == 0

\* Which loser of winners round r drops into game j of its losers round:
\* from the other end on even rounds, half way round on odd ones.
ComeAround(r, j, count) ==
    IF r % 2 = 1 /\ count > 1 THEN (j + count \div 2) % count ELSE count - 1 - j

\* Who arrives where is followed as tokens: "the loser of g", "the winner of
\* g", or nobody where a bye leaves a place empty.  A token alone in a game
\* skips it; a game two tokens meet in is played.
Arrives(g, how) == <<g, how>>
Absent == <<>>
Played(pair) == pair[1] # Absent /\ pair[2] # Absent
Out(pair, g) ==
    IF Played(pair) THEN Arrives(g, "winner")
    ELSE IF pair[1] # Absent THEN pair[1] ELSE pair[2]

Loser(byes, r, s) ==
    IF <<"main", r, s>> \in byes THEN Absent ELSE Arrives(<<"main", r, s>>, "loser")

\* Losers round 1 pairs the losers of winners round 1; then rounds in which
\* the next losers drop in alternate with rounds among the survivors.
Meetings(k, byes) ==
    LET meet[lr \in 0..(2 * (k - 1))] ==
            [j \in 0..(LosersGames(k, lr) - 1) |->
                LET Stays(i) == Out(meet[lr - 1][i], <<"losers", lr - 1, i>>)
                    Drops(r) == Loser(byes, r, ComeAround(r, j, LosersGames(k, lr)))
                IN  CASE lr <= 1    -> <<Loser(byes, 1, 2*j), Loser(byes, 1, 2*j + 1)>>
                      [] lr > 1 /\ lr % 2 = 1 -> <<Stays(2*j), Stays(2*j + 1)>>
                      [] OTHER      -> <<Stays(j), Drops(lr \div 2 + 1)>>]
    IN  meet

LowerGames(k, meet) ==
    UNION {{<<"losers", lr, j>> : j \in {i \in DOMAIN meet[lr] : Played(meet[lr][i])}}
              : lr \in 1..(2 * (k - 1))}

\* Where a token plays next: the losers game it meets another in, or the
\* grand final.
PlaysNext(token, lower, meet) ==
    LET here == {place \in lower \X (1..2) : meet[place[1][2]][place[1][3]][place[2]] = token}
    IN  IF here = {} THEN Feed(GrandFinal, 2)
        ELSE LET place == CHOOSE p \in here : TRUE IN Feed(place[1], place[2])

WithLosersBracket(k, wb, lower, meet) ==
    LET games == wb.games \cup lower \cup {GrandFinal, ResetGame}
    IN  [games |-> games,
         opens |-> [g \in games |-> IF g \in wb.games THEN wb.opens[g]
                                    ELSE <<Nobody, Nobody>>],
         byes  |-> wb.byes,
         wins  |-> [g \in games |->
                       CASE g \in {GrandFinal, ResetGame} -> NoFeed
                         [] g \in lower    -> PlaysNext(Arrives(g, "winner"), lower, meet)
                         [] OTHER          -> IF g[2] = k THEN Feed(GrandFinal, 1)
                                              ELSE wb.wins[g]],
         loses |-> [g \in games |->
                       IF g \in wb.games \ wb.byes
                       THEN PlaysNext(Arrives(g, "loser"), lower, meet) ELSE NoFeed]]

Doubled(k, wb, meet) == WithLosersBracket(k, wb, LowerGames(k, meet), meet)
ThenDoubled(k, wb) == Doubled(k, wb, Meetings(k, wb.byes))
GenerateDoubleElim(n) == ThenDoubled(RoundsFor(n), GenerateBracket(n))

-----------------------------------------------------------------------------
(* What all these draws but double elimination have in common.             *)

\* Where the winner of g goes, and where its loser.
Way(d, g, k) == IF k = 1 THEN d.wins[g] ELSE d.loses[g]

\* Games lead to later ones, a slot waits for one result, and it is empty
\* until then unless that is a bye; the entrants who can ever arrive in one
\* slot of a game cannot arrive in the other (from).
OneWay(d, later, from) ==
    /\ GrandFinal \notin d.games /\ later \in [d.games -> Nat]
    /\ \A g \in d.games :
           /\ from[g][1] \cap from[g][2] = {} /\ Nobody \notin from[g][1] \cup from[g][2]
           /\ \A i \in 1..2 : d.opens[g][i] \in from[g][i] \cup {Nobody}
    /\ \A g \in d.games : \A k \in {j \in 1..2 : Way(d, g, j) # NoFeed} :
           LET feed == Way(d, g, k)
           IN  /\ later[g] < later[feed.to]
               /\ from[g][1] \cup from[g][2] \subseteq from[feed.to][feed.slot]
               /\ g \notin d.byes => d.opens[feed.to][feed.slot] = Nobody
               /\ \A h \in d.games : \A j \in 1..2 :
                      Way(d, h, j) = feed => h = g /\ j = k
=============================================================================
