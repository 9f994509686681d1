-------------------------- MODULE RotationRiverProofs --------------------------
(***************************************************************************)
(* A rotation night with any number of players, courts, arrivals,          *)
(* departures, returns and substitutions: nobody ever holds two places,    *)
(* every round that opens has room for everybody who is there, people move *)
(* by the ladder's rule, and every round can be closed.                    *)
(***************************************************************************)
EXTENDS RotationRiver, RotationEngineProofs

-----------------------------------------------------------------------------
(* The players.                                                            *)

LEMMA OrderFacts ==
    /\ Order \in Seq(Players) /\ IsInjective(Order) /\ Blank \notin Players
    /\ Len(Order) \in Nat /\ DOMAIN Order = 1..Len(Order)
    /\ IsFiniteSet(Players)
<1>1. Order \in Seq(Players) /\ IsInjective(Order) /\ Blank \notin Players
  BY RiverAssumption DEF Players
<1>2. Len(Order) \in Nat /\ DOMAIN Order = 1..Len(Order)
  BY <1>1
<1>3. Order \in Surjection(1..Len(Order), Players)
  BY <1>1, <1>2 DEF Surjection, Players, ToSet
<1>4. IsFiniteSet(1..Len(Order))
  <2> 1 \in Int /\ Len(Order) \in Int BY <1>2
  <2> QED BY FS_Interval
<1> QED BY <1>1, <1>2, <1>3, <1>4, FS_Surjection

ActivePlayers(r) == {p \in Players : r[p] = "active"}
LeftPlayers(r)   == {p \in Players : r[p] = "left"}
AwayPlayers(r)   == {p \in Players : r[p] = "absent"}

LEMMA ActiveInHolds ==
    ASSUME NEW r
    PROVE  /\ ActiveIn(r) \in Seq(Players) /\ IsInjective(ActiveIn(r))
           /\ ToSet(ActiveIn(r)) = ActivePlayers(r)
<1> DEFINE A == ActivePlayers(r)
<1>1. /\ Within(Order, A) \in Seq(Players) /\ IsInjective(Within(Order, A))
      /\ ToSet(Within(Order, A)) = ToSet(Order) \cap A
  <2> HIDE DEF A
  <2> QED BY OrderFacts, WithinHolds
<1>2. ActiveIn(r) = Within(Order, A)
  BY DEF ActiveIn, ActivePlayers
<1>3. ToSet(Order) \cap A = A
  BY DEF ActivePlayers, Players
<1> QED BY <1>1, <1>2, <1>3

LEMMA NewcomerIsAway ==
    ASSUME Newcomers # {}
    PROVE  NextNewcomer \in AwayPlayers(roster)
<1>1. Newcomers \in SUBSET Nat
  BY OrderFacts DEF Newcomers
<1>2. PICK i \in Newcomers : \A j \in Newcomers : i <= j
  <2> HIDE DEF Newcomers
  <2> QED BY <1>1, LeastNat
<1>3. PICK j \in Newcomers : NextNewcomer = Order[j]
  BY <1>2 DEF NextNewcomer
<1>4. Order[j] \in Players /\ roster[Order[j]] = "absent"
  BY <1>3, OrderFacts DEF Newcomers
<1> QED BY <1>3, <1>4 DEF AwayPlayers

-----------------------------------------------------------------------------
(* Substitutions and arrivals on the board.                                *)

\* One player's name for another's.
LEMMA ReplaceHolds ==
    ASSUME NEW S, NEW s \in Seq(S), NEW out, NEW new \in S
    PROVE  LET t == ReplaceAll(s, out, new)
           IN  /\ t \in Seq(S) /\ Len(t) = Len(s)
               /\ \A i \in 1..Len(s) : t[i] = IF s[i] = out THEN new ELSE s[i]
BY DEF ReplaceAll

ReplacedOn(c, out, new) == [k \in DOMAIN c |-> ReplaceAll(c[k], out, new)]

LEMMA ReplacedSeats ==
    ASSUME NEW S, NEW c \in Layouts(S), NEW out, NEW new \in S
    PROVE  /\ ReplacedOn(c, out, new) \in Layouts(S)
           /\ Len(ReplacedOn(c, out, new)) = Len(c)
           /\ \A k \in 1..Len(c), i \in 1..4 :
                 ReplacedOn(c, out, new)[k][i] = IF c[k][i] = out THEN new ELSE c[k][i]
<1> DEFINE cc == ReplacedOn(c, out, new)
<1>1. Len(c) \in Nat /\ DOMAIN c = 1..Len(c) /\ \A k \in 1..Len(c) : c[k] \in [1..4 -> S]
  BY Seats
<1>2. ASSUME NEW x \in [1..4 -> S]
      PROVE  /\ ReplaceAll(x, out, new) \in [1..4 -> S]
             /\ \A i \in 1..4 : ReplaceAll(x, out, new)[i] = IF x[i] = out THEN new ELSE x[i]
  <2>1. Len(x) = 4 OBVIOUS
  <2>2. ReplaceAll(x, out, new) = [i \in 1..4 |-> IF x[i] = out THEN new ELSE x[i]]
    BY <2>1 DEF ReplaceAll
  <2> QED BY <2>2
<1>3. \A k \in 1..Len(c) : cc[k] = ReplaceAll(c[k], out, new)
  BY <1>1 DEF ReplacedOn
<1>4. cc \in [1..Len(c) -> [1..4 -> S]]
  <2>1. \A k \in 1..Len(c) : ReplaceAll(c[k], out, new) \in [1..4 -> S] BY <1>1, <1>2
  <2> QED BY <1>1, <2>1 DEF ReplacedOn
<1>5. \A k \in 1..Len(c), i \in 1..4 : cc[k][i] = IF c[k][i] = out THEN new ELSE c[k][i]
  BY <1>1, <1>2, <1>3
<1> HIDE DEF cc
<1>6. cc \in Layouts(S) /\ Len(cc) = Len(c)
  BY <1>1, <1>4 DEF Layouts
<1> QED BY <1>5, <1>6 DEF cc

\* Somebody who is not there takes every place of out, on the courts and in
\* the queue.
LEMMA SubstituteSound ==
    ASSUME NEW S, Blank \notin S, NEW c \in Layouts(S), NEW b \in Seq(S), LayoutAndBenchOK(c, b),
           NEW out, NEW new \in S, new \notin People(c, b)
    PROVE  LET cc == ReplacedOn(c, out, new)
               bb == ReplaceAll(b, out, new)
           IN  /\ LayoutAndBenchOK(cc, bb)
               /\ People(cc, bb) = {IF p = out THEN new ELSE p : p \in People(c, b)}
<1> DEFINE cc == ReplacedOn(c, out, new)
           bb == ReplaceAll(b, out, new)
           name == [p \in S |-> IF p = out THEN new ELSE p]
<1>1. /\ cc \in Layouts(S) /\ Len(cc) = Len(c)
      /\ \A k \in 1..Len(c), i \in 1..4 : cc[k][i] = IF c[k][i] = out THEN new ELSE c[k][i]
  BY ReplacedSeats
<1>2. /\ bb \in Seq(S) /\ Len(bb) = Len(b)
      /\ \A i \in 1..Len(b) : bb[i] = IF b[i] = out THEN new ELSE b[i]
  BY ReplaceHolds
<1> HIDE DEF cc, bb
<1>3. People(c, b) \subseteq S
  <2> Seated(c) \subseteq S BY Seats
  <2> QED BY DEF People, ToSet
<1>4. \A p, q \in People(c, b) : name[p] = name[q] => p = q
  BY <1>3
<1>5. NamesPlaces(name, c, b, cc, bb)
  <2>1. ASSUME NEW p \in Places(c, b) PROVE Holder(cc, bb, p) = name[Holder(c, b, p)]
    <3>1. CASE p \in SeatRefs(c)
      <4>1. p[1] \in 1..Len(c) /\ p[2] \in 1..4 /\ p[1] # 0 BY <3>1, Seats
      <4>2. c[p[1]][p[2]] \in S BY <4>1, Seats
      <4> QED BY <1>1, <4>1, <4>2 DEF Holder
    <3>2. CASE p \in {0} \X DOMAIN b
      <4>1. p[1] = 0 /\ p[2] \in 1..Len(b) BY <3>2
      <4>2. b[p[2]] \in S BY <4>1
      <4> QED BY <1>2, <4>1, <4>2 DEF Holder
    <3> QED BY <3>1, <3>2 DEF Places
  <2> QED BY <2>1 DEF NamesPlaces
<1>6. LayoutAndBenchOK(cc, bb) /\ People(cc, bb) = {name[p] : p \in People(c, b)}
  <2> HIDE DEF name
  <2> QED BY <1>1, <1>2, <1>4, <1>5, NamedSound
<1>7. {name[p] : p \in People(c, b)} = {IF p = out THEN new ELSE p : p \in People(c, b)}
  BY <1>3
<1> QED BY <1>6, <1>7 DEF cc, bb

\* Somebody who is not there queues at the back.
LEMMA JoinSound ==
    ASSUME NEW S, Blank \notin S, NEW c \in Layouts(S), NEW b \in Seq(S), LayoutAndBenchOK(c, b),
           NEW new \in S, new \notin People(c, b)
    PROVE  /\ Append(b, new) \in Seq(S) /\ LayoutAndBenchOK(c, Append(b, new))
           /\ People(c, Append(b, new)) = People(c, b) \cup {new}
<1> DEFINE n == Len(b)
           bb == Append(b, new)
<1>1. /\ n \in Nat /\ DOMAIN b = 1..n /\ bb \in Seq(S) /\ DOMAIN bb = 1..(n + 1)
      /\ bb[n + 1] = new /\ \A i \in 1..n : bb[i] = b[i]
  OBVIOUS
<1> HIDE DEF n, bb
<1>2. \A i \in 1..(n + 1) : i \in 1..n \/ i = n + 1
  BY <1>1
<1>3. ToSet(bb) = ToSet(b) \cup {new}
  <2>1. ToSet(bb) \subseteq ToSet(b) \cup {new} BY <1>1, <1>2 DEF ToSet
  <2>2. ASSUME NEW p \in ToSet(b) \cup {new} PROVE p \in ToSet(bb)
    <3>1. 1..n \subseteq 1..(n + 1) /\ n + 1 \in 1..(n + 1) BY <1>1
    <3> QED BY <1>1, <3>1 DEF ToSet
  <2> QED BY <2>1, <2>2
<1>4. new \notin ToSet(b) /\ new \notin Seated(c)
  BY DEF People
<1>5. IsInjective(bb)
  <2> SUFFICES ASSUME NEW i \in 1..(n + 1), NEW j \in 1..(n + 1), bb[i] = bb[j] PROVE i = j
    BY <1>1 DEF IsInjective
  <2>1. \A k \in 1..n : bb[k] \in ToSet(b) BY <1>1 DEF ToSet
  <2> QED BY <1>1, <1>2, <1>4, <2>1 DEF LayoutAndBenchOK, IsInjective
<1>6. LayoutAndBenchOK(c, bb)
  BY <1>3, <1>4, <1>5 DEF LayoutAndBenchOK
<1> QED BY <1>1, <1>3, <1>6 DEF People, bb

-----------------------------------------------------------------------------
(* The invariant.                                                          *)

\* The board is sound and fits the venue.
Placed ==
    /\ courts \in Layouts(Players) /\ bench \in Seq(Players)
    /\ LayoutAndBenchOK(courts, bench)
    /\ evening.maxCourts > 0 => Len(courts) <= evening.maxCourts

\* Whoever was replaced has left, by somebody who came; who never came is
\* nowhere on the board.
Known ==
    /\ roster \in [Players -> {"absent", "active", "left"}]
    /\ takeover \in [DOMAIN takeover -> Players]
    /\ DOMAIN takeover \subseteq LeftPlayers(roster)
    /\ \A p \in DOMAIN takeover : takeover[p] \notin AwayPlayers(roster)
    /\ People(courts, bench) \cap AwayPlayers(roster) = {}

\* No two people on the board are of one line of substitutions.
Lines == HasLine(takeover, People(courts, bench), AwayPlayers(roster), Players)

RiverInv ==
    /\ evening \in Evenings /\ games \in [Players -> Nat]
    /\ Placed /\ Known /\ Lines

LEMMA PeopleAre ==
    ASSUME NEW S, NEW c \in Layouts(S), NEW b \in Seq(S)
    PROVE  People(c, b) \subseteq S
<1>1. Seated(c) \subseteq S BY Seats
<1> QED BY <1>1 DEF People, ToSet

LEMMA RiverInit == Init => RiverInv
<1> SUFFICES ASSUME Init PROVE RiverInv
  OBVIOUS
<1>1. PICK e \in Evenings :
         /\ evening = e
         /\ courts = SeedCourts(SubSeq(Order, 1, e.starters), e.maxCourts).courts
         /\ bench = SeedCourts(SubSeq(Order, 1, e.starters), e.maxCourts).bench
         /\ roster = [p \in Players |-> IF p \in ToSet(SubSeq(Order, 1, e.starters))
                                        THEN "active" ELSE "absent"]
         /\ takeover = [p \in {} |-> Blank]
         /\ games = [p \in Players |-> 0]
  BY DEF Init
<1>2. e.starters \in 4..Len(Order) /\ e.maxCourts \in Nat
  BY RiverAssumption
<1> DEFINE first == SubSeq(Order, 1, e.starters)
           m == e.maxCourts
<1>3. first \in Seq(Players) /\ IsInjective(first)
  <2> DEFINE k == e.starters
  <2>1. k \in Nat /\ k <= Len(Order) /\ 1 \in Nat \ {0} BY <1>2, OrderFacts
  <2> HIDE DEF k
  <2>2. SubSeq(Order, 1, k) \in Seq(Players) /\ IsInjective(SubSeq(Order, 1, k))
    BY <2>1, OrderFacts, SubSeqHolds
  <2> QED BY <2>2 DEF k
<1> HIDE DEF first
<1> m \in Nat
  BY <1>2
<1> HIDE DEF m
<1>4. Accommodated(SeedCourts(first, m), Players, ToSet(first), m)
  BY <1>3, OrderFacts, RoundOneSeatsEverybodyOnce
<1>5. /\ courts \in Layouts(Players) /\ bench \in Seq(Players) /\ LayoutAndBenchOK(courts, bench)
      /\ m > 0 => Len(courts) <= m
      /\ People(courts, bench) = ToSet(first)
  BY <1>1, <1>4 DEF Accommodated, first, m
<1>6. Placed
  BY <1>1, <1>5 DEF Placed, m
<1>7. ToSet(first) \subseteq Players /\ AwayPlayers(roster) = Players \ ToSet(first)
  BY <1>1, <1>3 DEF AwayPlayers, first, ToSet
<1>8. DOMAIN takeover = {} /\ takeover \in [DOMAIN takeover -> Players]
  BY <1>1
<1>9. Known
  BY <1>1, <1>5, <1>7, <1>8 DEF Known
<1>10. Lines
  <2> DEFINE rep == [p \in Players |-> p]
  <2>1. Line(rep, takeover, People(courts, bench), AwayPlayers(roster), Players)
    BY <1>5, <1>7, <1>8 DEF Line
  <2> QED BY <2>1 DEF Lines, HasLine
<1>11. evening \in Evenings /\ games \in [Players -> Nat]
  BY <1>1
<1> QED BY <1>6, <1>9, <1>10, <1>11 DEF RiverInv

\* Somebody joins: the back of the queue.
LEMMA JoinKeeps == RiverInv /\ Join => RiverInv'
<1> SUFFICES ASSUME RiverInv, Join PROVE RiverInv'
  OBVIOUS
<1> DEFINE new == NextNewcomer
           people == People(courts, bench)
           away == AwayPlayers(roster)
<1>1. new \in away
  BY NewcomerIsAway DEF Join
<1>2. new \in Players /\ new \notin people /\ people \cap away = {} /\ away \subseteq Players
  BY <1>1 DEF RiverInv, Known, AwayPlayers
<1> HIDE DEF new
<1>3. /\ roster' = [roster EXCEPT ![new] = "active"] /\ bench' = Append(bench, new)
      /\ courts' = courts /\ takeover' = takeover /\ games' = games /\ evening' = evening
  BY DEF Join, Coming, new
<1>4. /\ bench' \in Seq(Players) /\ LayoutAndBenchOK(courts', bench')
      /\ People(courts', bench') = people \cup {new}
  BY <1>2, <1>3, OrderFacts, JoinSound DEF RiverInv, Placed
<1>5. Placed'
  BY <1>3, <1>4 DEF RiverInv, Placed
<1>6. /\ AwayPlayers(roster') = away \ {new}
      /\ LeftPlayers(roster') = LeftPlayers(roster)
      /\ roster' \in [Players -> {"absent", "active", "left"}]
  BY <1>1, <1>2, <1>3 DEF RiverInv, Known, AwayPlayers, LeftPlayers
<1>7. Known'
  BY <1>2, <1>3, <1>4, <1>6 DEF RiverInv, Known
<1>8. Lines'
  <2>1. PICK rep : Line(rep, takeover, people, away, Players) BY DEF RiverInv, Lines, HasLine
  <2>2. Line(rep, takeover, people \cup {new}, away \ {new}, Players)
    <3>1. people \subseteq Players BY PeopleAre DEF RiverInv, Placed
    <3> HIDE DEF people, away
    <3>2. \A p \in people : rep[p] # rep[new] BY <1>1, <1>2, <2>1, <3>1 DEF Line
    <3> QED BY <1>1, <1>2, <2>1, <3>2 DEF Line
  <2> QED BY <1>3, <1>4, <1>6, <2>2 DEF Lines, HasLine
<1> QED BY <1>3, <1>5, <1>7, <1>8 DEF RiverInv

\* Somebody leaves, or comes back: only the roster.
LEMMA RosterKeeps ==
    ASSUME RiverInv, NEW p \in Players, NEW role \in {"active", "left"},
           roster[p] # "absent", p \notin DOMAIN takeover,
           roster' = [roster EXCEPT ![p] = role],
           UNCHANGED <<evening, courts, bench, takeover, games>>
    PROVE  RiverInv'
<1>1. roster \in [Players -> {"absent", "active", "left"}]
  BY DEF RiverInv, Known
<1>2. AwayPlayers(roster') = AwayPlayers(roster)
  BY <1>1 DEF AwayPlayers
<1>3. DOMAIN takeover \subseteq LeftPlayers(roster')
  BY <1>1 DEF RiverInv, Known, LeftPlayers
<1>4. Known'
  BY <1>1, <1>2, <1>3 DEF RiverInv, Known
<1>5. Placed' /\ Lines'
  BY <1>2 DEF RiverInv, Placed, Lines, HasLine
<1> QED BY <1>4, <1>5 DEF RiverInv

\* A substitution: in the seat at once, or at the next round.
LEMMA SubstituteKeeps ==
    ASSUME RiverInv, NEW out \in Players, NEW scored \in BOOLEAN, Substitute(out, scored)
    PROVE  RiverInv'
<1> DEFINE new == NextNewcomer
           people == People(courts, bench)
           away == AwayPlayers(roster)
<1>1. new \in away
  BY NewcomerIsAway DEF Substitute
<1>2. /\ new \in Players /\ new \notin people /\ people \cap away = {} /\ away \subseteq Players
      /\ roster \in [Players -> {"absent", "active", "left"}]
  BY <1>1 DEF RiverInv, Known, AwayPlayers
<1>3. people \subseteq Players
  BY PeopleAre DEF RiverInv, Placed
<1> HIDE DEF new
<1>4. /\ roster[out] = "active" /\ out \notin DOMAIN takeover
      /\ (scored => out \in Seated(courts))
      /\ roster' = [roster EXCEPT ![out] = "left", ![new] = "active"]
      /\ takeover' = [p \in DOMAIN takeover \cup {out} |->
                          IF p = out THEN new ELSE takeover[p]]
      /\ courts' = IF scored THEN courts ELSE ReplacedOn(courts, out, new)
      /\ bench' = ReplaceAll(bench, out, new)
      /\ games' = games /\ evening' = evening
  BY DEF Substitute, Coming, new, ReplacedOn
<1>5. out # new /\ out \notin away
  BY <1>1, <1>4 DEF AwayPlayers
<1>6. /\ DOMAIN takeover' = DOMAIN takeover \cup {out} /\ takeover'[out] = new
      /\ \A p \in DOMAIN takeover : takeover'[p] = takeover[p]
      /\ takeover' \in [DOMAIN takeover' -> Players]
  <2>1. \A p \in DOMAIN takeover : takeover[p] \in Players
    BY DEF RiverInv, Known
  <2> QED BY <1>2, <1>4, <2>1
<1>7. /\ AwayPlayers(roster') = away \ {new}
      /\ LeftPlayers(roster') = LeftPlayers(roster) \cup {out}
      /\ roster' \in [Players -> {"absent", "active", "left"}]
  <2>1. \A p \in Players : roster'[p] = IF p = new THEN "active"
                                        ELSE IF p = out THEN "left" ELSE roster[p]
    BY <1>2, <1>4
  <2>2. roster' \in [Players -> {"absent", "active", "left"}] BY <1>2, <1>4
  <2>3. roster[new] = "absent" BY <1>1 DEF AwayPlayers
  <2> QED BY <1>5, <2>1, <2>2, <2>3 DEF AwayPlayers, LeftPlayers
<1> DEFINE people2 == People(courts', bench')
<1>8. /\ Placed' /\ people2 \subseteq people \cup {new}
      /\ (new \in people2 => out \in people /\ out \notin people2)
  <2>1. /\ courts \in Layouts(Players) /\ bench \in Seq(Players) /\ LayoutAndBenchOK(courts, bench)
        /\ (evening.maxCourts > 0 => Len(courts) <= evening.maxCourts)
    BY DEF RiverInv, Placed
  <2>2. CASE scored
    <3>1. out \notin ToSet(bench) BY <1>4, <2>1, <2>2 DEF LayoutAndBenchOK
    <3>2. bench' = bench
      <4>1. \A i \in 1..Len(bench) : bench[i] # out BY <2>1, <3>1 DEF ToSet
      <4>2. bench' = [i \in 1..Len(bench) |-> IF bench[i] = out THEN new ELSE bench[i]]
        BY <1>4 DEF ReplaceAll
      <4>3. bench' = [i \in 1..Len(bench) |-> bench[i]] BY <4>1, <4>2
      <4>4. bench = [i \in 1..Len(bench) |-> bench[i]] BY <2>1
      <4> QED BY <4>3, <4>4
    <3>3. courts' = courts BY <1>4, <2>2
    <3> QED BY <1>2, <1>4, <2>1, <3>2, <3>3 DEF Placed
  <2>3. CASE ~scored
    <3>1. courts' = ReplacedOn(courts, out, new) BY <1>4, <2>3
    <3>2. /\ courts' \in Layouts(Players) /\ Len(courts') = Len(courts)
      BY <1>2, <2>1, <3>1, ReplacedSeats
    <3>3. bench' \in Seq(Players) BY <1>2, <1>4, <2>1, ReplaceHolds
    <3>4. /\ LayoutAndBenchOK(courts', bench')
          /\ people2 = {IF p = out THEN new ELSE p : p \in people}
      BY <1>2, <1>4, <2>1, <3>1, OrderFacts, SubstituteSound
    <3>5. Placed' BY <1>4, <2>1, <3>2, <3>3, <3>4 DEF Placed
    <3> HIDE DEF people, people2
    <3>6. people2 \subseteq people \cup {new} /\ out \notin people2 BY <1>5, <3>4
    <3>7. new \in people2 => out \in people BY <1>2, <3>4
    <3> QED BY <3>5, <3>6, <3>7
  <2> QED BY <2>2, <2>3
<1>9. Known'
  <2>1. DOMAIN takeover' \subseteq LeftPlayers(roster')
    BY <1>6, <1>7 DEF RiverInv, Known
  <2>2. \A p \in DOMAIN takeover' : takeover'[p] \notin AwayPlayers(roster')
    BY <1>6, <1>7 DEF RiverInv, Known
  <2>3. people2 \cap AwayPlayers(roster') = {}
    BY <1>2, <1>7, <1>8
  <2> QED BY <1>6, <1>7, <2>1, <2>2, <2>3 DEF Known
<1>10. Lines'
  <2>1. PICK rep : Line(rep, takeover, people, away, Players) BY DEF RiverInv, Lines, HasLine
  <2>2. takeover \in [DOMAIN takeover -> Players] /\ DOMAIN takeover \subseteq Players
    BY DEF RiverInv, Known, LeftPlayers
  <2> HIDE DEF people, away, people2
  <2>3. HasLine(takeover', people2, away \ {new}, Players)
    <3> DEFINE take2 == takeover'
    <3>1. /\ people \in SUBSET Players /\ away \in SUBSET Players /\ away \cap people = {}
          /\ out \in Players \ DOMAIN takeover /\ out \notin away /\ new \in away
      BY <1>1, <1>2, <1>3, <1>4, <1>5
    <3>2. Adds(take2, takeover, out, new)
      BY <1>6 DEF Adds
    <3>3. people2 \subseteq people \cup {new} /\ (new \in people2 => out \in people /\ out \notin people2)
      BY <1>8
    <3> HIDE DEF take2
    <3>4. HasLine(take2, people2, away \ {new}, Players)
      BY <2>1, <2>2, <3>1, <3>2, <3>3, LineGrows
    <3> QED BY <3>4 DEF take2
  <2> QED BY <1>7, <2>3 DEF Lines, HasLine, people2, away
<1> QED BY <1>4, <1>8, <1>9, <1>10 DEF RiverInv

\* The round closes on any results: the next one has room for whoever is
\* there.
CloseOf == [courts |-> courts, bench |-> bench, takeover |-> takeover,
            gone |-> Gone, active |-> ActiveIn(roster), games |-> games]

LEMMA ClosingReadsASnapshot == RiverInv => Snapshot(CloseOf, Players)
<1> SUFFICES ASSUME RiverInv PROVE Snapshot(CloseOf, Players)
  OBVIOUS
<1> DEFINE seen == CloseOf
           A == ActivePlayers(roster)
           L == LeftPlayers(roster)
<1>1. /\ seen.courts = courts /\ seen.bench = bench /\ seen.takeover = takeover
      /\ seen.gone = L /\ seen.active = ActiveIn(roster) /\ seen.games = games
      /\ "active" \in DOMAIN seen
  BY DEF CloseOf, Gone, LeftPlayers
<1>2. /\ ActiveIn(roster) \in Seq(Players) /\ IsInjective(ActiveIn(roster))
      /\ ToSet(ActiveIn(roster)) = A
  BY ActiveInHolds
<1>3. DOMAIN takeover \subseteq Players /\ takeover \in [DOMAIN takeover -> Players]
      /\ DOMAIN takeover \subseteq L
  BY DEF RiverInv, Known, LeftPlayers
<1>4. Cardinality(DOMAIN takeover) \in Nat
  BY <1>3, OrderFacts, FS_Subset, FS_CardinalityType
<1>5. \A p \in Players : Hop(p, takeover, L) \in Players
  BY <1>3 DEF Hop
<1>6. A \cap L = {} /\ A \cup L = Players \ AwayPlayers(roster)
  BY DEF RiverInv, Known, ActivePlayers, LeftPlayers, AwayPlayers
<1>7. People(courts, bench) \subseteq Players
  BY PeopleAre DEF RiverInv, Placed
<1>8. Seated(courts) \subseteq People(courts, bench)
  BY DEF People
<1>9. Seated(courts) \subseteq A \cup L
  BY <1>6, <1>7, <1>8 DEF RiverInv, Known
<1>10. \A p \in A \cup L : Hop(p, takeover, L) \in A \cup L
  BY <1>3, <1>6 DEF Hop, RiverInv, Known
<1>11. Apart(courts, takeover, L)
  <2>1. PICK rep : Line(rep, takeover, People(courts, bench), AwayPlayers(roster), Players)
    BY DEF RiverInv, Lines, HasLine
  <2> QED BY <1>3, <1>4, <1>7, <1>8, <2>1, LineApart
<1> HIDE DEF seen, A, L
<1> QED BY <1>1, <1>2, <1>4, <1>5, <1>6, <1>9, <1>10, <1>11 DEF Snapshot, RiverInv, Placed, seen

LEMMA CloseSeats ==
    ASSUME RiverInv, NEW won, CloseRound(won)
    PROVE  /\ courts' \in Layouts(Players) /\ bench' \in Seq(Players)
           /\ LayoutAndBenchOK(courts', bench')
           /\ People(courts', bench') = ActivePlayers(roster)
           /\ evening.maxCourts > 0 => Len(courts') <= evening.maxCourts
           /\ Len(bench') >= 4 => evening.maxCourts > 0 /\ Len(courts') >= evening.maxCourts
<1> DEFINE seen == CloseOf
           m == evening.maxCourts
           plan == PlanNextRound(seen, won, evening.mode, m)
<1>1. courts' = plan.courts /\ bench' = plan.bench
  BY DEF CloseRound, CloseOf
<1>2. m \in Nat
  BY RiverAssumption DEF RiverInv
<1>3. Snapshot(seen, Players)
  BY ClosingReadsASnapshot
<1>4. seen.courts = courts /\ seen.active = ActiveIn(roster)
  BY DEF CloseOf
<1>5. m > 0 => Len(courts) <= m
  BY DEF RiverInv, Placed
<1> HIDE DEF seen, m
<1>6. Accommodated(plan, Players, ToSet(seen.active), m)
  BY <1>2, <1>3, <1>4, <1>5, OrderFacts, PlanSeatsWhoeverIsHere
<1>7. ToSet(seen.active) = ActivePlayers(roster)
  BY <1>4, ActiveInHolds
<1> HIDE DEF plan
<1> QED BY <1>1, <1>6, <1>7 DEF Accommodated, m

LEMMA CloseKeeps ==
    ASSUME RiverInv, NEW won, CloseRound(won)
    PROVE  RiverInv'
<1>1. /\ courts' \in Layouts(Players) /\ bench' \in Seq(Players)
      /\ LayoutAndBenchOK(courts', bench')
      /\ People(courts', bench') = ActivePlayers(roster)
      /\ evening.maxCourts > 0 => Len(courts') <= evening.maxCourts
  BY CloseSeats
<1>2. /\ evening' = evening /\ roster' = roster /\ takeover' = takeover
      /\ games' = [p \in Players |-> games[p] + IF p \in Seated(courts) THEN 1 ELSE 0]
  BY DEF CloseRound
<1>3. games' \in [Players -> Nat]
  BY <1>2 DEF RiverInv
<1>4. Placed'
  BY <1>1, <1>2 DEF Placed
<1>5. Known'
  BY <1>1, <1>2 DEF RiverInv, Known, ActivePlayers, AwayPlayers
<1>6. Lines'
  <2>1. PICK rep : Line(rep, takeover, People(courts, bench), AwayPlayers(roster), Players)
    BY DEF RiverInv, Lines, HasLine
  <2>2. ActivePlayers(roster) \subseteq Players \ DOMAIN takeover
    BY DEF RiverInv, Known, ActivePlayers, LeftPlayers
  <2>3. Line(rep, takeover, ActivePlayers(roster), AwayPlayers(roster), Players)
    BY <2>1, <2>2 DEF Line
  <2> QED BY <1>1, <1>2, <2>3 DEF Lines, HasLine
<1> QED BY <1>2, <1>3, <1>4, <1>5, <1>6 DEF RiverInv

LEMMA RiverStep == RiverInv /\ [Next]_vars => RiverInv'
<1> SUFFICES ASSUME RiverInv, [Next]_vars PROVE RiverInv'
  OBVIOUS
<1>1. CASE Join
  BY <1>1, JoinKeeps
<1>2. ASSUME NEW p \in Players, Leave(p) PROVE RiverInv'
  <2>1. /\ roster[p] = "active" /\ roster' = [roster EXCEPT ![p] = "left"]
        /\ UNCHANGED <<evening, courts, bench, takeover, games>>
    BY <1>2 DEF Leave, Coming
  <2>2. p \notin DOMAIN takeover BY <2>1 DEF RiverInv, Known, LeftPlayers
  <2> QED BY <2>1, <2>2, RosterKeeps
<1>3. ASSUME NEW p \in Players, Return(p) PROVE RiverInv'
  <2>1. /\ roster[p] = "left" /\ roster' = [roster EXCEPT ![p] = "active"]
        /\ p \notin DOMAIN takeover
        /\ UNCHANGED <<evening, courts, bench, takeover, games>>
    BY <1>3 DEF Return, Coming
  <2> QED BY <2>1, RosterKeeps
<1>4. ASSUME NEW p \in Players, NEW scored \in BOOLEAN, Substitute(p, scored) PROVE RiverInv'
  BY <1>4, SubstituteKeeps
<1>5. ASSUME NEW won \in [DOMAIN courts -> Sides], CloseRound(won) PROVE RiverInv'
  BY <1>5, CloseKeeps
<1>6. CASE UNCHANGED vars
  BY <1>6 DEF vars, RiverInv, Placed, Known, Lines
<1> QED BY <1>1, <1>2, <1>3, <1>4, <1>5, <1>6 DEF Next

-----------------------------------------------------------------------------
(* Rounds nobody walked off in.                                            *)

\* What the plan counts is what the round leaves on the books.
LEMMA CountsAgree ==
    ASSUME RiverInv, NEW won, CloseRound(won)
    PROVE  CountClosing(games, Seated(courts)) = games' /\ games' \in [Players -> Nat]
<1>1. games' = [p \in Players |-> games[p] + IF p \in Seated(courts) THEN 1 ELSE 0]
  BY DEF CloseRound
<1>2. games \in [Players -> Nat] /\ DOMAIN games = Players
  BY DEF RiverInv
<1> DEFINE f == [p \in Players |-> IF p \in Seated(courts) THEN games[p] + 1 ELSE games[p]]
<1>3. \A p \in Players : f[p] = games[p] + IF p \in Seated(courts) THEN 1 ELSE 0
  BY <1>2
<1>4. CountClosing(games, Seated(courts)) = f
  BY <1>2 DEF CountClosing
<1>5. f = games'
  BY <1>1, <1>3
<1>6. games' \in [Players -> Nat]
  BY <1>1, <1>2
<1> QED BY <1>4, <1>5, <1>6

LEMMA CloseUndisturbed ==
    ASSUME RiverInv, NobodyWalkedOff, NEW won, CloseRound(won)
    PROVE  \E q : OpensAs([courts |-> courts', bench |-> bench'], Players, courts, q, Active,
                          won, evening.mode, games')
<1> DEFINE seen == CloseOf
           plan == PlanNextRound(seen, won, evening.mode, evening.maxCourts)
           next == [courts |-> courts', bench |-> bench']
<1>1. courts' = plan.courts /\ bench' = plan.bench
  BY DEF CloseRound, CloseOf
<1>2. evening.maxCourts \in Nat
  BY RiverAssumption DEF RiverInv
<1>3. Snapshot(seen, Players)
  BY ClosingReadsASnapshot
<1>4. /\ seen.courts = courts /\ seen.active = ActiveIn(roster) /\ seen.gone = Gone
      /\ seen.games = games
  BY DEF CloseOf
<1>5. Seated(seen.courts) \cap seen.gone = {}
  BY <1>4 DEF NobodyWalkedOff
<1> HIDE DEF seen
<1>6. OpensUndisturbed(plan, Players, seen.courts, ToSet(seen.active), won, evening.mode,
                       CountClosing(seen.games, Seated(seen.courts)))
  BY <1>2, <1>3, <1>5, OrderFacts, PlanOfTheUndisturbed
<1> HIDE DEF plan
<1>7. OpensUndisturbed(plan, Players, courts, Active, won, evening.mode, games')
  BY <1>4, <1>6, CountsAgree DEF Active
<1>8. PICK q : OpensAs(plan, Players, courts, q, Active, won, evening.mode, games')
  BY <1>7 DEF OpensUndisturbed
<1>9. next.courts = plan.courts /\ next.bench = plan.bench
  BY <1>1
<1> HIDE DEF next
<1>10. OpensAs(next, Players, courts, q, Active, won, evening.mode, games')
  BY <1>8, <1>9 DEF OpensAs
<1> QED BY <1>10 DEF next

\* The side that lost, as the engine takes it.
LEMMA SidesAre ==
    ASSUME NEW court, NEW side \in Sides
    PROVE  Team(court, side) = Winners(court, side) /\ Beaten(court, side) = Losers(court, side)
BY DEF Team, Beaten, Winners, Losers, Sides

LEMMA SteppingOffIs ==
    ASSUME RiverInv, NEW won \in [DOMAIN courts -> Sides], Len(courts) # 0,
           NEW q \in Seq(Players), LayoutAndBenchOK(courts, q), ToSet(q) = Unseated
    PROVE  SteppingOff(won) = SteppedOff(courts, won, q)
<1> DEFINE n == Len(courts)
           k == Byes(q)
           t == Losers(courts[n], won[n])
<1>1. /\ n \in Nat \ {0} /\ DOMAIN courts = 1..n /\ courts[n] \in [1..4 -> Players]
  BY Seats DEF RiverInv, Placed
<1>2. Len(won) = n /\ won[n] \in Sides
  BY <1>1
<1>3. Last(courts) = courts[n] /\ Last(won) = won[n]
  BY <1>2 DEF Last
<1>4. Beaten(Last(courts), Last(won)) = t
  BY <1>2, <1>3, SidesAre
<1>5. Cardinality(Unseated) = Len(q)
  BY QueueCounts DEF LayoutAndBenchOK
<1>6. Least(2, Cardinality(Unseated)) = k
  BY <1>5 DEF Byes
<1>7. k \in 0..2
  BY ByesIs
<1>8. t \in Seq(Players) /\ Len(t) = 2
  BY <1>1 DEF Losers
<1> HIDE DEF n, k, t
<1>9. ToSet(SubSeq(t, 1, k)) = {t[j] : j \in 1..k}
  <2>1. 1 \in Nat \ {0} /\ k \in Nat /\ k <= Len(t) BY <1>7, <1>8
  <2> QED BY <1>8, <2>1, SubSeqHolds
<1> QED BY <1>4, <1>6, <1>9 DEF SteppingOff, SteppedOff, n, k, t

\* The court somebody sits on.
LEMMA CourtOfSeat ==
    ASSUME NEW S, NEW cs \in Layouts(S), NEW b, LayoutAndBenchOK(cs, b),
           NEW m \in 1..Len(cs), NEW i \in 1..4
    PROVE  CourtOf(cs, cs[m][i]) = m
<1>1. /\ DOMAIN cs = 1..Len(cs) /\ SeatRefs(cs) = (1..Len(cs)) \X (1..4)
      /\ \A k \in 1..Len(cs) : cs[k] \in [1..4 -> S]
  BY Seats
<1>2. \A k \in 1..Len(cs) : ToSet(cs[k]) = {cs[k][j] : j \in 1..4}
  BY <1>1 DEF ToSet
<1>3. cs[m][i] \in ToSet(cs[m])
  BY <1>2
<1>4. ASSUME NEW k \in 1..Len(cs), cs[m][i] \in ToSet(cs[k]) PROVE k = m
  <2>1. PICK j \in 1..4 : cs[k][j] = cs[m][i] BY <1>2, <1>4
  <2>2. <<k, j>> \in SeatRefs(cs) /\ <<m, i>> \in SeatRefs(cs) BY <1>1
  <2>3. <<k, j>> = <<m, i>> BY <2>1, <2>2 DEF LayoutAndBenchOK
  <2> QED BY <2>3
<1> QED BY <1>1, <1>3, <1>4 DEF CourtOf

LEMMA OnTheFirst ==
    ASSUME NEW S, NEW cs \in Layouts(S), NEW n \in Nat, n <= Len(cs),
           NEW p \in Seated(SubSeq(cs, 1, n))
    PROVE  \E m \in 1..n, i \in 1..4 : cs[m][i] = p
<1> DEFINE V == [1..4 -> S]
           t == SubSeq(cs, 1, n)
<1>1. cs \in Seq(V) /\ Layouts(S) = Seq(V)
  BY DEF Layouts
<1> HIDE DEF V
<1>2. /\ t \in Seq(V) /\ DOMAIN t = 1..n
      /\ \A k \in 1..n : t[k] = cs[k]
  <2>1. 1 \in Nat \ {0} /\ n - 1 + 1 = n /\ \A k \in 1..n : 1 + k - 1 = k OBVIOUS
  <2>2. /\ t \in Seq(V) /\ DOMAIN t = 1..(n - 1 + 1)
        /\ \A k \in 1..(n - 1 + 1) : t[k] = cs[1 + k - 1]
    BY <1>1, <2>1, SubSeqHolds
  <2> QED BY <2>1, <2>2
<1>3. t \in Layouts(S)
  BY <1>1, <1>2
<1> HIDE DEF t
<1>4. PICK s \in SeatRefs(t) : t[s[1]][s[2]] = p
  BY DEF Seated, t
<1>5. s[1] \in 1..n /\ s[2] \in 1..4
  BY <1>2, <1>4 DEF SeatRefs
<1> QED BY <1>2, <1>4, <1>5

LEMMA PartnersAre ==
    ASSUME NEW S, NEW cs \in Layouts(S)
    PROVE  Partners(cs) = Pairs(cs)
<1>1. Len(cs) \in Nat /\ DOMAIN cs = 1..Len(cs)
  BY Seats
<1>2. 1 + 1 = 2 /\ 3 + 1 = 4
  OBVIOUS
<1>3. ASSUME NEW P PROVE P \in Partners(cs) <=> P \in Pairs(cs)
  <2>1. P \in Partners(cs)
          <=> \E k \in 1..Len(cs) : P \in {{cs[k][1], cs[k][2]}, {cs[k][3], cs[k][4]}}
    BY <1>1 DEF Partners, ToSet
  <2>2. P \in Pairs(cs) <=> \E k \in 1..Len(cs), x \in {1, 3} : P = {cs[k][x], cs[k][x + 1]}
    BY DEF Pairs, PairAt
  <2>3. \A k \in 1..Len(cs) : (\E x \in {1, 3} : P = {cs[k][x], cs[k][x + 1]})
           <=> P \in {{cs[k][1], cs[k][2]}, {cs[k][3], cs[k][4]}}
    BY <1>2
  <2> QED BY <2>1, <2>2, <2>3
<1> QED BY <1>3

\* A closing round nobody walked off in: the queue the engine was given, the
\* movement it made, and who stepped off for the queue.
Undisturbed(won, q, moved) ==
    /\ Len(courts) # 0 /\ courts \in Layouts(Players) /\ LayoutAndBenchOK(courts, q)
    /\ q \in Seq(Players) /\ ToSet(q) = Unseated
    /\ games' \in [Players -> Nat]
    /\ moved = NextRoundFair(courts, won, q, evening.mode, games')
    /\ courts' \in Layouts(Players) /\ LayoutAndBenchOK(courts', bench')
    /\ Len(courts) <= Len(courts') /\ \A k \in 1..Len(courts) : courts'[k] = moved.courts[k]
    /\ ToSet(bench') \subseteq ToSet(moved.bench)
    /\ moved.courts \in Layouts(Players) /\ Len(moved.courts) = Len(courts)
    /\ People(moved.courts, moved.bench) = People(courts, q)
    /\ SteppingOff(won) = SteppedOff(courts, won, q)

LEMMA ClosesUndisturbed ==
    ASSUME RiverInv, NobodyWalkedOff, NEW won \in [DOMAIN courts -> Sides], CloseRound(won),
           Len(courts) # 0
    PROVE  \E q, moved : Undisturbed(won, q, moved)
<1>1. PICK q : OpensAs([courts |-> courts', bench |-> bench'], Players, courts, q, Active,
                       won, evening.mode, games')
  BY CloseUndisturbed
<1> DEFINE moved == NextRoundFair(courts, won, q, evening.mode, games')
<1>2. courts \in Layouts(Players) /\ games' \in [Players -> Nat]
  BY CountsAgree DEF RiverInv, Placed
<1>3. /\ q \in Seq(Players) /\ LayoutAndBenchOK(courts, q) /\ ToSet(q) = Unseated
      /\ Len(courts) <= Len(courts') /\ \A k \in 1..Len(courts) : courts'[k] = moved.courts[k]
      /\ ToSet(bench') \subseteq ToSet(moved.bench)
  BY <1>1 DEF OpensAs, Unseated
<1>4. KeepsEverybody(moved, Players, courts, q)
  BY <1>2, <1>3, FairRoundSeatsEverybodyOnce
<1>5. courts' \in Layouts(Players) /\ LayoutAndBenchOK(courts', bench')
  BY CloseSeats
<1>6. SteppingOff(won) = SteppedOff(courts, won, q)
  BY <1>3, SteppingOffIs
<1>7. moved = NextRoundFair(courts, won, q, evening.mode, games')
  OBVIOUS
<1> HIDE DEF moved
<1>8. Undisturbed(won, q, moved)
  BY <1>2, <1>3, <1>4, <1>5, <1>6, <1>7 DEF Undisturbed, KeepsEverybody
<1> QED BY <1>8

\* Whoever plays on sits where the movement put them.
LEMMA SitsByTheMovement ==
    ASSUME RiverInv, NEW won, NEW q, NEW moved, Undisturbed(won, q, moved),
           NEW p \in Seated(SubSeq(courts', 1, Len(courts)))
    PROVE  \E m \in 1..Len(courts), i \in 1..4 :
              moved.courts[m][i] = p /\ CourtOf(courts', p) = m
<1>1. /\ courts' \in Layouts(Players) /\ LayoutAndBenchOK(courts', bench')
      /\ Len(courts) <= Len(courts') /\ \A k \in 1..Len(courts) : courts'[k] = moved.courts[k]
      /\ Len(courts) \in Nat /\ Len(courts') \in Nat
  BY Seats DEF Undisturbed
<1>2. PICK m \in 1..Len(courts), i \in 1..4 : courts'[m][i] = p
  BY <1>1, OnTheFirst
<1>3. m \in 1..Len(courts')
  BY <1>1
<1>4. CourtOf(courts', courts'[m][i]) = m
  BY <1>1, <1>3, CourtOfSeat
<1> QED BY <1>1, <1>2, <1>4

\* Winners up, losers down or nowhere.
LEMMA RuleKept ==
    ASSUME RiverInv, NEW won \in [DOMAIN courts -> Sides], NEW q, NEW moved,
           Undisturbed(won, q, moved), NEW k \in DOMAIN courts,
           NEW p \in Seated(SubSeq(courts', 1, Len(courts)))
    PROVE  /\ p \in ToSet(Team(courts[k], won[k])) => CourtOf(courts', p) = WinnersTo(k)
           /\ p \in ToSet(Beaten(courts[k], won[k])) \ SteppingOff(won) =>
                 CourtOf(courts', p) = LosersTo(k, Len(courts), evening.mode)
<1>1. PICK m \in 1..Len(courts), i \in 1..4 :
         moved.courts[m][i] = p /\ CourtOf(courts', p) = m
  BY SitsByTheMovement
<1>2. FollowsRule(moved.courts, courts, won, q, evening.mode)
  BY MovementFollowsTheRule DEF Undisturbed
<1>3. /\ DOMAIN courts = 1..Len(courts) /\ k \in 1..Len(courts)
      /\ won[k] \in Sides /\ courts[k] \in [1..4 -> Players]
  BY Seats DEF Undisturbed
<1>4. /\ ToSet(Team(courts[k], won[k])) = {Winners(courts[k], won[k])[j] : j \in 1..2}
      /\ ToSet(Beaten(courts[k], won[k])) = {Losers(courts[k], won[k])[j] : j \in 1..2}
  <2>1. /\ Team(courts[k], won[k]) = Winners(courts[k], won[k])
        /\ Beaten(courts[k], won[k]) = Losers(courts[k], won[k])
    BY <1>3, SidesAre
  <2>2. DOMAIN Winners(courts[k], won[k]) = 1..2 /\ DOMAIN Losers(courts[k], won[k]) = 1..2
    BY DEF Winners, Losers
  <2> QED BY <2>1, <2>2 DEF ToSet
<1>5. ASSUME p \in ToSet(Team(courts[k], won[k])) PROVE CourtOf(courts', p) = WinnersTo(k)
  <2>1. PICK j \in 1..2 : p = Winners(courts[k], won[k])[j] BY <1>4, <1>5
  <2>2. m = WinnersTo(k) BY <1>1, <1>2, <1>3, <2>1 DEF FollowsRule
  <2> QED BY <1>1, <2>2
<1>6. ASSUME p \in ToSet(Beaten(courts[k], won[k])) \ SteppingOff(won)
      PROVE  CourtOf(courts', p) = LosersTo(k, Len(courts), evening.mode)
  <2>1. PICK j \in 1..2 : p = Losers(courts[k], won[k])[j] BY <1>4, <1>6
  <2>2. p \notin SteppedOff(courts, won, q) BY <1>6 DEF Undisturbed
  <2>3. m = LosersTo(k, Len(courts), evening.mode)
    BY <1>1, <1>2, <1>3, <2>1, <2>2 DEF FollowsRule
  <2> QED BY <1>1, <2>3
<1> QED BY <1>5, <1>6

\* With nobody waiting, new partners all round.
LEMMA PartnersKept ==
    ASSUME RiverInv, NEW won, NEW q, NEW moved, Undisturbed(won, q, moved), Unseated = {}
    PROVE  Partners(courts) \cap Partners(courts') = {}
<1>1. /\ courts \in Layouts(Players) /\ courts' \in Layouts(Players)
      /\ moved.courts \in Layouts(Players) /\ Len(moved.courts) = Len(courts)
      /\ Len(courts) \in Nat /\ Len(courts') \in Nat
      /\ Len(courts) <= Len(courts') /\ \A k \in 1..Len(courts) : courts'[k] = moved.courts[k]
      /\ LayoutAndBenchOK(courts', bench')
  BY Seats DEF Undisturbed
<1>2. NobodyWaits(q)
  <2>1. q \in Seq(Players) /\ ToSet(q) = {} BY DEF Undisturbed
  <2>2. Len(q) # 0 => q[1] \in ToSet(q) BY <2>1 DEF ToSet
  <2> QED BY <2>1, <2>2 DEF NobodyWaits
<1>3. Pairs(courts) \cap Pairs(moved.courts) = {} /\ moved.bench = <<>>
  BY <1>2, EverybodyHasANewPartner DEF Undisturbed
<1>4. Seated(courts) \subseteq Seated(moved.courts)
  <2>1. ToSet(moved.bench) = {} BY <1>3 DEF ToSet
  <2> QED BY <2>1 DEF Undisturbed, People
<1>5. ASSUME NEW P \in Pairs(courts), NEW k \in 1..Len(courts'), NEW x \in {1, 3},
             P = PairAt(courts', k, x)
      PROVE  k \in 1..Len(courts)
  <2>1. P \subseteq Seated(courts)
    <3>1. PICK l \in 1..Len(courts), y \in {1, 3} : P = PairAt(courts, l, y) BY DEF Pairs
    <3>2. y \in 1..4 /\ y + 1 \in 1..4 OBVIOUS
    <3> QED BY <1>1, <3>1, <3>2, Seats DEF PairAt
  <2>2. courts'[k][x] \in Seated(moved.courts) BY <1>4, <1>5, <2>1 DEF PairAt
  <2>3. PICK s \in SeatRefs(moved.courts) : moved.courts[s[1]][s[2]] = courts'[k][x]
    BY <2>2 DEF Seated
  <2>4. s \in (1..Len(courts)) \X (1..4) BY <1>1, <2>3, Seats
  <2>5. courts'[s[1]][s[2]] = courts'[k][x] BY <1>1, <2>3, <2>4
  <2>6. s \in SeatRefs(courts') /\ <<k, x>> \in SeatRefs(courts')
    <3>1. SeatRefs(courts') = (1..Len(courts')) \X (1..4) BY <1>1, Seats
    <3> QED BY <1>1, <2>4, <3>1
  <2>7. s = <<k, x>> BY <1>1, <2>5, <2>6 DEF LayoutAndBenchOK
  <2> QED BY <2>4, <2>7
<1>6. ASSUME NEW P \in Pairs(courts), P \in Pairs(courts') PROVE FALSE
  <2>1. PICK k \in 1..Len(courts'), x \in {1, 3} : P = PairAt(courts', k, x)
    BY <1>6 DEF Pairs
  <2>2. k \in 1..Len(courts) BY <1>5, <2>1
  <2>3. PairAt(courts', k, x) = PairAt(moved.courts, k, x) BY <1>1, <2>2 DEF PairAt
  <2>4. P \in Pairs(moved.courts) BY <1>1, <2>1, <2>2, <2>3 DEF Pairs
  <2> QED BY <1>3, <2>4
<1> QED BY <1>1, <1>6, PartnersAre

\* Whoever is benched makes room for somebody who had played less.
LEMMA RestKept ==
    ASSUME RiverInv, NEW won, NEW q, NEW moved, Undisturbed(won, q, moved),
           NEW p \in (Seated(courts) \cap ToSet(bench')) \ SteppingOff(won)
    PROVE  \E r \in Seated(courts') :
              games'[r] < games'[p] /\ r \notin Seated(courts) \ SteppingOff(won)
<1>1. BenchedForTheRested(moved, courts, won, q, games')
  BY BenchedOnlyForWhoPlayedLess DEF Undisturbed
<1>2. p \in (Seated(courts) \cap ToSet(moved.bench)) \ SteppedOff(courts, won, q)
  BY DEF Undisturbed
<1>3. PICK r \in Seated(moved.courts) :
         games'[r] < games'[p] /\ r \notin Seated(courts) \ SteppedOff(courts, won, q)
  BY <1>1, <1>2 DEF BenchedForTheRested
<1>4. Seated(moved.courts) \subseteq Seated(courts')
  <2>1. /\ SeatRefs(moved.courts) = (1..Len(courts)) \X (1..4)
        /\ SeatRefs(courts') = (1..Len(courts')) \X (1..4)
        /\ Len(courts) \in Nat /\ Len(courts') \in Nat /\ Len(courts) <= Len(courts')
        /\ \A k \in 1..Len(courts) : courts'[k] = moved.courts[k]
    BY Seats DEF Undisturbed
  <2>2. SeatRefs(moved.courts) \subseteq SeatRefs(courts') BY <2>1
  <2>3. \A s \in SeatRefs(moved.courts) : courts'[s[1]][s[2]] = moved.courts[s[1]][s[2]]
    BY <2>1
  <2> QED BY <2>2, <2>3 DEF Seated
<1> QED BY <1>3, <1>4 DEF Undisturbed

-----------------------------------------------------------------------------
(* Every round can be closed.                                              *)

\* Enough people for a court, and a court to close.
Playable == Cardinality(ActivePlayers(roster)) >= 4 /\ Len(courts) # 0

LEMMA PlayableFirst == Init => Playable
<1> SUFFICES ASSUME Init PROVE Playable
  OBVIOUS
<1>1. PICK e \in Evenings :
         /\ courts = SeedCourts(SubSeq(Order, 1, e.starters), e.maxCourts).courts
         /\ roster = [p \in Players |-> IF p \in ToSet(SubSeq(Order, 1, e.starters))
                                        THEN "active" ELSE "absent"]
  BY DEF Init
<1>2. e.starters \in 4..Len(Order) /\ e.maxCourts \in Nat
  BY RiverAssumption
<1> DEFINE first == SubSeq(Order, 1, e.starters)
           m == e.maxCourts
<1>3. first \in Seq(Players) /\ IsInjective(first) /\ Len(first) >= 4
  <2> DEFINE k == e.starters
  <2>1. k \in Nat /\ 4 <= k /\ k <= Len(Order) /\ 1 \in Nat \ {0} /\ k - 1 + 1 = k
    BY <1>2, OrderFacts
  <2> HIDE DEF k
  <2>2. /\ SubSeq(Order, 1, k) \in Seq(Players) /\ IsInjective(SubSeq(Order, 1, k))
        /\ Len(SubSeq(Order, 1, k)) = IF 1 <= k THEN k - 1 + 1 ELSE 0
    BY <2>1, OrderFacts, SubSeqHolds
  <2> QED BY <2>1, <2>2 DEF k
<1>4. courts = SeedCourts(first, m).courts
      /\ roster = [p \in Players |-> IF p \in ToSet(first) THEN "active" ELSE "absent"]
      /\ m \in Nat
  BY <1>1, <1>2
<1> HIDE DEF first, m
<1>5. ActivePlayers(roster) = ToSet(first)
  BY <1>3, <1>4 DEF ActivePlayers, ToSet
<1>6. Cardinality(ToSet(first)) >= 4
  BY <1>3, QueueCounts
<1>7. Accommodated(SeedCourts(first, m), Players, ToSet(first), m)
  BY <1>3, <1>4, OrderFacts, RoundOneSeatsEverybodyOnce
<1>8. Len(courts) # 0
  BY <1>4, <1>6, <1>7, CourtForFour
<1> QED BY <1>5, <1>6, <1>8 DEF Playable

\* The plan for any results: a board for whoever is active, never refused.
LEMMA ClosingGoesOn ==
    ASSUME RiverInv, Playable, NEW won
    PROVE  LET plan == PlanNextRound(CloseOf, won, evening.mode, evening.maxCourts)
           IN  ~plan.stuck /\ Len(plan.courts) # 0
<1> DEFINE seen == CloseOf
           m == evening.maxCourts
           plan == PlanNextRound(seen, won, evening.mode, m)
<1>1. m \in Nat /\ (m > 0 => Len(courts) <= m)
  BY RiverAssumption DEF RiverInv, Placed
<1>2. Snapshot(seen, Players)
  BY ClosingReadsASnapshot
<1>3. seen.courts = courts /\ ToSet(seen.active) = ActivePlayers(roster)
  BY ActiveInHolds DEF CloseOf
<1> HIDE DEF seen, m
<1>4. /\ Accommodated(plan, Players, ToSet(seen.active), m)
      /\ Len(seen.courts) # 0 => ~plan.stuck
  BY <1>1, <1>2, <1>3, OrderFacts, PlanSeatsWhoeverIsHere
<1> HIDE DEF plan
<1>5. Len(plan.courts) # 0
  BY <1>1, <1>3, <1>4, CourtForFour DEF Playable
<1> QED BY <1>3, <1>4, <1>5 DEF Playable, plan, seen, m

LEMMA PlayableStays == RiverInv /\ Playable /\ [Next]_vars => Playable'
<1> SUFFICES ASSUME RiverInv, Playable, [Next]_vars PROVE Playable'
  OBVIOUS
<1> DEFINE A == ActivePlayers(roster)
<1>0. /\ roster \in [Players -> {"absent", "active", "left"}] /\ courts \in Layouts(Players)
      /\ IsFiniteSet(A) /\ Cardinality(A) \in Nat /\ Cardinality(A) >= 4 /\ Len(courts) # 0
      /\ Active = A
  <2>1. A \subseteq Players BY DEF ActivePlayers
  <2>2. IsFiniteSet(A) /\ Cardinality(A) \in Nat
    <3> HIDE DEF A
    <3> QED BY <2>1, OrderFacts, FS_Subset, FS_CardinalityType
  <2>3. Active = A BY ActiveInHolds DEF Active
  <2> QED BY <2>2, <2>3 DEF RiverInv, Known, Placed, Playable
<1>1. CASE Join
  <2> DEFINE new == NextNewcomer
  <2>1. roster' = [roster EXCEPT ![new] = "active"] /\ courts' = courts /\ new \in Players
        /\ roster[new] = "absent"
    BY <1>1, NewcomerIsAway DEF Join, AwayPlayers
  <2> HIDE DEF new
  <2>2. ActivePlayers(roster') = A \cup {new} BY <1>0, <2>1 DEF ActivePlayers
  <2> HIDE DEF A
  <2>3. Cardinality(A \cup {new}) \in {Cardinality(A), Cardinality(A) + 1} BY <1>0, FS_AddElement
  <2>4. Cardinality(A \cup {new}) >= 4 BY <1>0, <2>1, <2>3
  <2> QED BY <1>0, <2>1, <2>2, <2>4 DEF Playable
<1>2. ASSUME NEW p \in Players, Leave(p) PROVE Playable'
  <2>1. /\ roster' = [roster EXCEPT ![p] = "left"] /\ courts' = courts
        /\ Cardinality(Active) > 4
    BY <1>2 DEF Leave
  <2>2. ActivePlayers(roster') = A \ {p} BY <1>0, <2>1 DEF ActivePlayers
  <2> HIDE DEF A
  <2>3. Cardinality(A \ {p}) \in {Cardinality(A), Cardinality(A) - 1} BY <1>0, FS_RemoveElement
  <2>4. Cardinality(A \ {p}) >= 4 BY <1>0, <2>1, <2>3
  <2> QED BY <1>0, <2>1, <2>2, <2>4 DEF Playable
<1>3. ASSUME NEW p \in Players, Return(p) PROVE Playable'
  <2>1. roster' = [roster EXCEPT ![p] = "active"] /\ courts' = courts
    BY <1>3 DEF Return
  <2>2. ActivePlayers(roster') = A \cup {p} BY <1>0, <2>1 DEF ActivePlayers
  <2> HIDE DEF A
  <2>3. Cardinality(A \cup {p}) \in {Cardinality(A), Cardinality(A) + 1} BY <1>0, FS_AddElement
  <2>4. Cardinality(A \cup {p}) >= 4 BY <1>0, <2>1, <2>3
  <2> QED BY <1>0, <2>1, <2>2, <2>4 DEF Playable
<1>4. ASSUME NEW p \in Players, NEW scored \in BOOLEAN, Substitute(p, scored) PROVE Playable'
  <2> DEFINE new == NextNewcomer
  <2>1. /\ new \in Players /\ roster[new] = "absent" /\ roster[p] = "active"
        /\ roster' = [roster EXCEPT ![p] = "left", ![new] = "active"]
        /\ courts' = IF scored THEN courts ELSE ReplacedOn(courts, p, new)
    BY <1>4, NewcomerIsAway DEF Substitute, AwayPlayers, ReplacedOn
  <2> HIDE DEF new
  <2>2. ActivePlayers(roster') = (A \ {p}) \cup {new} /\ p \in A /\ new \notin A \ {p}
    BY <1>0, <2>1 DEF ActivePlayers
  <2>3. Len(courts') = Len(courts)
    BY <1>0, <2>1, ReplacedSeats
  <2> DEFINE B == A \ {p}
  <2>4. IsFiniteSet(B) /\ Cardinality(B) = Cardinality(A) - 1
    <3> HIDE DEF A
    <3> QED BY <1>0, <2>2, FS_RemoveElement
  <2>5. new \notin B /\ ActivePlayers(roster') = B \cup {new} BY <2>2
  <2> HIDE DEF A, B
  <2>6. Cardinality(B \cup {new}) = Cardinality(B) + 1 BY <2>4, <2>5, FS_AddElement
  <2> QED BY <1>0, <2>3, <2>4, <2>5, <2>6 DEF Playable
<1>5. ASSUME NEW won \in [DOMAIN courts -> Sides], CloseRound(won) PROVE Playable'
  <2>1. /\ roster' = roster
        /\ courts' = PlanNextRound(CloseOf, won, evening.mode, evening.maxCourts).courts
    BY <1>5 DEF CloseRound, CloseOf
  <2>2. Len(courts') # 0 BY <2>1, ClosingGoesOn
  <2> QED BY <2>1, <2>2 DEF Playable
<1>6. CASE UNCHANGED vars
  BY <1>6 DEF vars, Playable
<1> QED BY <1>1, <1>2, <1>3, <1>4, <1>5, <1>6 DEF Next

-----------------------------------------------------------------------------
(* The theorems.                                                           *)

\* Through arrivals, departures, returns, substitutions and closing rounds the
\* board holds everybody once, knows only those who came, and keeps the lines
\* of substitutes apart (Join, Leave, Return, Substitute, CloseRound).
THEOREM RiverInvariant == Spec => []RiverInv
<1> QED BY RiverInit, RiverStep, PTL DEF Spec

\* One person never holds two places, whatever mix of results, arrivals,
\* departures, returns and substitutions led here (NextRound, ApplyTakeover,
\* Reconcile, SettleDepartures, GrowCourts).
THEOREM NobodyTwiceHolds == Spec => []NobodyTwice
<1>1. RiverInv => NobodyTwice
  BY DEF RiverInv, Placed, NobodyTwice
<1> QED BY <1>1, RiverInvariant, PTL

\* Every round that opens seats or queues whoever is active and nobody else,
\* on no more courts than the venue has, with none shut while four wait.
THEOREM RoomForEverybodyHolds == Spec => RoomForEverybody
<1> DEFINE Room == round' # round =>
              /\ Seated(courts') \cup ToSet(bench') = Active
              /\ evening.maxCourts > 0 => Len(courts') <= evening.maxCourts
              /\ Len(bench') >= 4 => evening.maxCourts > 0 /\ Len(courts') = evening.maxCourts
<1>1. ASSUME RiverInv, [Next]_vars PROVE [Room]_vars
  <2> SUFFICES ASSUME Next, round' # round PROVE Room
    BY <1>1
  <2>1. PICK won : CloseRound(won)
    BY DEF Next, Join, Leave, Return, Substitute
  <2>2. /\ courts' \in Layouts(Players)
        /\ People(courts', bench') = ActivePlayers(roster)
        /\ evening.maxCourts > 0 => Len(courts') <= evening.maxCourts
        /\ Len(bench') >= 4 => evening.maxCourts > 0 /\ Len(courts') >= evening.maxCourts
    BY <1>1, <2>1, CloseSeats
  <2>3. Active = ActivePlayers(roster) BY ActiveInHolds DEF Active
  <2>4. evening.maxCourts \in Nat BY <1>1, RiverAssumption DEF RiverInv
  <2>5. Len(courts') \in Nat BY <2>2, Seats
  <2> QED BY <2>2, <2>3, <2>4, <2>5 DEF People
<1> QED BY <1>1, RiverInvariant, PTL DEF Spec, RoomForEverybody

\* Whoever plays on goes where the ladder's rule says, past the equal-time pass,
\* the departures and the new courts; with nobody waiting everybody has a new
\* partner (NextRound, NextRoundFair, AdvanceRotationSession).
THEOREM RiverRuleHolds == Spec => RiverRule
<1> DEFINE Rule ==
        /\ \A k \in DOMAIN courts :
             LET n    == Len(courts)
                 drop == IF evening.mode = "stay" /\ n > 1 THEN IF k = 1 THEN n ELSE k
                                                   ELSE Least(k + 1, n)
                 On(p) == p \in Seated(SubSeq(courts', 1, n))
             IN  /\ \A p \in ToSet(Team(courts[k], result'[k])) :
                       On(p) => CourtOf(courts', p) = IF k = 1 THEN 1 ELSE k - 1
                 /\ \A p \in ToSet(Beaten(courts[k], result'[k])) \ SteppingOff(result') :
                       On(p) => CourtOf(courts', p) = drop
        /\ Unseated = {} => Partners(courts) \cap Partners(courts') = {}
<1>1. ASSUME RiverInv, [Next]_vars PROVE [round' # round /\ NobodyWalkedOff => Rule]_vars
  <2> SUFFICES ASSUME Next, round' # round, NobodyWalkedOff PROVE Rule
    BY <1>1
  <2>1. PICK won \in [DOMAIN courts -> Sides] : CloseRound(won)
    BY DEF Next, Join, Leave, Return, Substitute
  <2>2. result' = won BY <2>1 DEF CloseRound
  <2>3. CASE Len(courts) = 0
    <3>1. DOMAIN courts = {} BY <1>1, <2>3, Seats DEF RiverInv, Placed
    <3>2. Partners(courts) = {} BY <3>1 DEF Partners, ToSet
    <3> QED BY <3>1, <3>2
  <2>4. CASE Len(courts) # 0
    <3>1. PICK q, moved : Undisturbed(won, q, moved) BY <1>1, <2>1, <2>4, ClosesUndisturbed
    <3>2. ASSUME NEW k \in DOMAIN courts, NEW p \in Seated(SubSeq(courts', 1, Len(courts)))
          PROVE  /\ p \in ToSet(Team(courts[k], won[k])) => CourtOf(courts', p) = WinnersTo(k)
                 /\ p \in ToSet(Beaten(courts[k], won[k])) \ SteppingOff(won) =>
                       CourtOf(courts', p) = LosersTo(k, Len(courts), evening.mode)
      BY <1>1, <3>1, RuleKept
    <3>3. Unseated = {} => Partners(courts) \cap Partners(courts') = {}
      BY <1>1, <3>1, PartnersKept
    <3> QED BY <2>2, <3>2, <3>3 DEF WinnersTo, LosersTo
  <2> QED BY <2>3, <2>4
<1> QED BY <1>1, RiverInvariant, PTL DEF Spec, RiverRule

\* Nobody is benched for the sake of equal time unless somebody who had played
\* strictly less comes on for them (NextRoundFair).
THEOREM BenchedOnlyForTheRestedHolds == Spec => BenchedOnlyForTheRested
<1> DEFINE Rest == \A p \in (Seated(courts) \cap ToSet(bench')) \ SteppingOff(result') :
                     \E q \in Seated(courts') :
                        /\ games'[q] < games'[p]
                        /\ q \notin Seated(courts) \ SteppingOff(result')
<1>1. ASSUME RiverInv, [Next]_vars PROVE [round' # round /\ NobodyWalkedOff => Rest]_vars
  <2> SUFFICES ASSUME Next, round' # round, NobodyWalkedOff PROVE Rest
    BY <1>1
  <2>1. PICK won \in [DOMAIN courts -> Sides] : CloseRound(won)
    BY DEF Next, Join, Leave, Return, Substitute
  <2>2. result' = won BY <2>1 DEF CloseRound
  <2>3. CASE Len(courts) = 0
    <3>1. DOMAIN courts = {} BY <1>1, <2>3, Seats DEF RiverInv, Placed
    <3>2. Seated(courts) = {} BY <3>1 DEF Seated, SeatRefs
    <3> QED BY <3>2
  <2>4. CASE Len(courts) # 0
    <3>1. PICK q, moved : Undisturbed(won, q, moved) BY <1>1, <2>1, <2>4, ClosesUndisturbed
    <3>2. ASSUME NEW p \in (Seated(courts) \cap ToSet(bench')) \ SteppingOff(won)
          PROVE  \E r \in Seated(courts') :
                    games'[r] < games'[p] /\ r \notin Seated(courts) \ SteppingOff(won)
      BY <1>1, <3>1, RestKept
    <3> QED BY <2>2, <3>2
  <2> QED BY <2>3, <2>4
<1> QED BY <1>1, RiverInvariant, PTL DEF Spec, BenchedOnlyForTheRested

\* Whatever the results, the round on the courts can be closed: the engine does
\* not hand the layout back, and the next round has a court (the two refusals of
\* AdvanceRotationSession).
NeverRefused ==
    \A won \in [DOMAIN courts -> Sides] :
       LET plan == PlanNextRound(CloseOf, won, evening.mode, evening.maxCourts)
       IN  ~plan.stuck /\ plan.courts # <<>>

THEOREM NeverRefusedHolds == Spec => []NeverRefused
<1>1. RiverInv /\ Playable => NeverRefused
  <2> SUFFICES ASSUME RiverInv, Playable, NEW won \in [DOMAIN courts -> Sides]
               PROVE  LET plan == PlanNextRound(CloseOf, won, evening.mode, evening.maxCourts)
                      IN  ~plan.stuck /\ plan.courts # <<>>
    BY DEF NeverRefused
  <2> DEFINE plan == PlanNextRound(CloseOf, won, evening.mode, evening.maxCourts)
  <2>1. ~plan.stuck /\ Len(plan.courts) # 0 BY ClosingGoesOn
  <2> HIDE DEF plan
  <2>2. plan.courts # <<>> BY <2>1
  <2> QED BY <2>1, <2>2 DEF plan
<1> QED BY <1>1, PlayableFirst, PlayableStays, RiverInvariant, PTL DEF Spec
=============================================================================
