----------------------------- MODULE RotationSetup ----------------------------
(***************************************************************************)
(* A rotation night before round 1: the organizer places, shuffles, sits   *)
(* out and removes players, and starts the session.  Each handler of       *)
(* internal/service/ladder_rotation.go that reads and then writes does so  *)
(* in two statements, and the roster may change between them.              *)
(***************************************************************************)
EXTENDS RotationAdvance, FiniteSets

CONSTANTS
    Order,       \* the roster, strongest self-rating first
    MaxCourts,   \* the session's court_count (0: no cap)
    MaxPlace,    \* bound: court numbers the organizer types
    Draws,       \* bound: the outcomes of rand.Shuffle considered, each a
                 \* permutation of the positions of Order
    MaxEdits     \* bound: roster edits before the start

SetupAssumption ==
    /\ IsInjective(Order) /\ Blank \notin ToSet(Order)
    /\ {MaxCourts, MaxPlace, MaxEdits} \subseteq Nat
    /\ \A d \in Draws : d \in [DOMAIN Order -> DOMAIN Order] /\ IsInjective(d)

Players == ToSet(Order)

VARIABLES
    status,      \* rotation_sessions.status
    courts,      \* rotation_round_courts of round 1
    bench,       \* rotation_sessions.bench
    roster,      \* player -> "active", "sitting" or "removed"
    placed,      \* player -> start_court, 0 when null
    edits,       \* how many edits there have been
    starting,    \* the seats a StartRotationSession has read, <<>> when none
    shuffling,   \* the row of players a shuffle has drawn, <<>> when none
    removing     \* the player a removal has been allowed for, Blank when none

vars == <<status, courts, bench, roster, placed, edits, starting, shuffling,
          removing>>

Init ==
    /\ status = "setup"
    /\ courts = <<>>
    /\ bench = <<>>
    /\ roster = [p \in Players |-> "active"]
    /\ placed = [p \in Players |-> 0]
    /\ edits = 0
    /\ starting = <<>>
    /\ shuffling = <<>>
    /\ removing = Blank

Edit == edits < MaxEdits /\ edits' = edits + 1

ActiveRow == SelectSeq(Order, LAMBDA p : roster[p] = "active")
\* SetRotationPlayerStartCourt; 0 takes the placement back.
SetStartCourt(p, k) ==
    /\ Edit
    /\ status = "setup"
    /\ roster[p] # "removed"
    /\ placed' = [placed EXCEPT ![p] = k]
    /\ UNCHANGED <<status, courts, bench, roster, starting, shuffling, removing>>

\* SetRotationPlayerActive before the start: no conditions.
SetActive(p, on) ==
    /\ Edit
    /\ status = "setup"
    /\ roster[p] # "removed"
    /\ roster' = [roster EXCEPT ![p] = IF on THEN "active" ELSE "sitting"]
    /\ UNCHANGED <<status, courts, bench, placed, starting, shuffling, removing>>

\* RemoveRotationPlayer: rosterEditable reads the status ...
RemoveCheck(p) ==
    /\ Edit
    /\ removing = Blank
    /\ status = "setup"
    /\ roster[p] # "removed"
    /\ removing' = p
    /\ UNCHANGED <<status, courts, bench, roster, placed, starting, shuffling>>

\* ... and the row is deleted; a court seat that names it becomes null.
RemoveDelete ==
    /\ removing # Blank
    /\ roster' = [roster EXCEPT ![removing] = "removed"]
    /\ courts' = [k \in DOMAIN courts |-> ReplaceAll(courts[k], removing, Blank)]
    /\ removing' = Blank
    /\ UNCHANGED <<status, bench, placed, edits, starting, shuffling>>

Drawn(row, d) ==
    LET order == [i \in DOMAIN Order |-> Order[d[i]]] \o <<>>
    IN  SelectSeq(order, LAMBDA p : p \in ToSet(row))

\* ShuffleRotationStartCourts: the roster is read and drawn ...
ShuffleDraw(d) ==
    /\ Edit
    /\ shuffling = <<>>
    /\ status = "setup"
    /\ ActiveRow # <<>>
    /\ shuffling' = Drawn(ActiveRow, d)
    /\ UNCHANGED <<status, courts, bench, roster, placed, starting, removing>>

\* ... and upserted in one statement, four to a court, the rest unplaced.  A
\* row deleted meanwhile is inserted again.
ShuffleUpsert ==
    /\ shuffling # <<>>
    /\ placed' = [p \in Players |->
                    IF p \in ToSet(shuffling)
                    THEN ((CHOOSE i \in DOMAIN shuffling : shuffling[i] = p) - 1)
                            \div 4 + 1
                    ELSE 0]
    /\ roster' = [p \in Players |->
                    IF p \in ToSet(shuffling) /\ roster[p] = "removed"
                    THEN "active" ELSE roster[p]]
    /\ shuffling' = <<>>
    /\ UNCHANGED <<status, courts, bench, edits, starting, removing>>

\* StartRotationSession: status and roster are read, and the order of play
\* drawn when nobody was placed ...
StartRead(d) ==
    /\ starting = <<>>
    /\ status = "setup"
    /\ Len(ActiveRow) >= 4
    /\ LET row  == IF \E p \in ToSet(ActiveRow) : placed[p] > 0
                   THEN ActiveRow ELSE Drawn(ActiveRow, d)
       IN  starting' = [i \in DOMAIN row |->
                           [id |-> row[i], court |-> placed[row[i]]]]
    /\ UNCHANGED <<status, courts, bench, roster, placed, edits, shuffling, removing>>

\* ... and start_rotation_session writes round 1.  It starts a session once,
\* and a seat has to name an existing player.
StartWrite ==
    LET open == SeedPlacedCourts(starting, MaxCourts)
    IN  /\ starting # <<>>
        /\ starting' = <<>>
        /\ IF status = "setup" /\ \A p \in Seated(open.courts) : roster[p] # "removed"
           THEN /\ status' = "live"
                /\ courts' = open.courts
                /\ bench' = open.bench
           ELSE UNCHANGED <<status, courts, bench>>
        /\ UNCHANGED <<roster, placed, edits, shuffling, removing>>

Next ==
    \/ \E p \in Players, k \in 0..MaxPlace : SetStartCourt(p, k)
    \/ \E p \in Players, on \in BOOLEAN : SetActive(p, on)
    \/ \E p \in Players : RemoveCheck(p)
    \/ RemoveDelete
    \/ \E d \in Draws : ShuffleDraw(d)
    \/ ShuffleUpsert
    \/ \E d \in Draws : StartRead(d)
    \/ StartWrite

Spec == Init /\ [][Next]_vars

-----------------------------------------------------------------------------
(* Properties.                                                             *)

Opens == status = "setup" /\ status' = "live"

\* The courts of the layout that seat p.
CourtsOf(cs, p) == {k \in DOMAIN cs : p \in ToSet(cs[k])}

\* Those of the read roster the organizer sent to court k, strongest first.
SentTo(k) == SelectSeq(starting, LAMBDA s : s.court = k)

\* The start seats everyone it read exactly once, on courts that are full.
EveryoneOpens ==
    [][Opens => /\ LayoutAndBenchOK(courts', bench')
                /\ Seated(courts') \cup ToSet(bench')
                     = {starting[i].id : i \in DOMAIN starting}
                /\ Len(courts') = CourtsFor(Len(starting), MaxCourts)]_vars

\* A court number is a destination and not a ranking: the first four sent to
\* a court that runs tonight open on it.  Whoever was sent nowhere is never
\* seated below, or benched behind, a weaker player who was sent nowhere
\* either, nor behind one whose court could not be honoured (the pool of
\* SeedPlacedCourts).
PlacementHonoured ==
    [][Opens =>
         LET Place(p) == IF CourtsOf(courts', p) = {} THEN Len(courts') + 1
                         ELSE CHOOSE k \in CourtsOf(courts', p) : TRUE
             Honoured(s) == Place(s.id) = s.court
         IN  /\ \A k \in DOMAIN courts' :
                  LET sent == SentTo(k)
                  IN  \A i \in 1..Least(4, Len(sent)) :
                        CourtsOf(courts', sent[i].id) = {k}
             /\ \A i, j \in DOMAIN starting :
                  starting[i].court = 0
                    /\ \/ i < j /\ starting[j].court = 0
                       \/ starting[j].court > 0 /\ ~Honoured(starting[j])
                    => Place(starting[i].id) <= Place(starting[j].id)]_vars
=============================================================================
