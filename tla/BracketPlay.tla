------------------------------ MODULE BracketPlay ------------------------------
(***************************************************************************)
(* Scoring a bracket: results and forfeits come in from several devices,   *)
(* each carries its winner (and in some draws its loser) on to the next    *)
(* game, and a result that is corrected unwinds what was played on it.     *)
(* RecordSeries, ForfeitMatch, StartMatch and the game marks of            *)
(* internal/service/service.go.  A result holds the event's score lock     *)
(* from before its write to its end.  Each action is one statement that    *)
(* writes, with the reads just before it: what they read is only written   *)
(* under the lock.                                                         *)
(*                                                                         *)
(* A side is an entrant: its players are written and removed together.  A  *)
(* statement after the lock may fail and ends its request; the two reads   *)
(* before it are taken to succeed.                                         *)
(***************************************************************************)
EXTENDS Draw

CONSTANTS
    Tournaments,   \* the events that may be played
    Devices,       \* who can have a request in flight
    Free           \* the score lock when nobody holds it

\* draw: what is played; devices: who scores; rescores, marks, faults: bounds
\* on corrections of completed games, on starts, cancellations and their
\* undoing, and on failed statements.
ASSUME TournamentsAssumption ==
    /\ Free \notin Devices
    /\ \A t \in Tournaments :
           /\ t.devices \subseteq Devices
           /\ t.rescores \in Nat /\ t.marks \in Nat /\ t.faults \in Nat
           /\ t.draw.opens \in [t.draw.games -> [1..2 -> Nat]]
           /\ {t.draw.wins, t.draw.loses} \subseteq
                  [t.draw.games -> [to : t.draw.games, slot : 1..2] \cup {NoFeed}]
           /\ t.draw.byes \subseteq t.draw.games
           /\ \E g \in t.draw.games : g # ResetGame /\ g \notin t.draw.byes
           /\ GrandFinal \in t.draw.games <=> ResetGame \in t.draw.games
           /\ ResetGame \notin t.draw.byes

VARIABLES
    event,     \* the tournament being played
    side,      \* match_participants: game -> who is in slot 1 and in slot 2
    status,    \* game -> "absent", "scheduled", "in_progress", "canceled", "completed"
    winner,    \* game -> 1, 2, or 0 while undecided
    over,      \* events.status = "completed"
    lock,      \* lockScoreEvent
    todo,      \* device -> the statements its request has still to execute
    left,      \* what is left of the bounds
    playedBy,  \* history: game -> the two sides its result was written for
    routed     \* history: games whose last result was routed to the end

vars == <<event, side, status, winner, over, lock, todo, left, playedBy, routed>>

draw  == event.draw
Games == draw.games
WinsTo(g)  == draw.wins[g]
LosesTo(g) == draw.loses[g]

Ready(g) == side[g][1] # Nobody /\ side[g][2] # Nobody

Init ==
    /\ event \in Tournaments
    /\ side = draw.opens
    /\ status = [g \in Games |-> CASE g = ResetGame     -> "absent"
                                   [] g \in draw.byes   -> "completed"
                                   [] OTHER             -> "scheduled"]
    /\ winner = [g \in Games |-> IF g \notin draw.byes THEN 0
                                 ELSE IF side[g][1] # Nobody THEN 1 ELSE 2]
    /\ over = FALSE
    /\ lock = Free
    /\ todo = [d \in Devices |-> <<>>]
    /\ left = [k \in {"rescores", "marks", "faults"} |-> event[k]]
    /\ playedBy = side
    /\ routed = draw.byes

-----------------------------------------------------------------------------
(* Requests.                                                               *)

Idle(d) == todo[d] = <<>>
Now(d) == Head(todo[d])
At(d, op) == ~Idle(d) /\ Now(d).op = op

\* The statement is done and more has come up before the rest; a request
\* with nothing left to do returns and its deferred unlock runs.
Continue(d, more) ==
    LET rest == more \o Tail(todo[d])
    IN  /\ todo' = [todo EXCEPT ![d] = rest]
        /\ lock' = IF rest = <<>> /\ lock = d THEN Free ELSE lock

Return(d) ==
    /\ todo' = [todo EXCEPT ![d] = <<>>]
    /\ lock' = IF lock = d THEN Free ELSE lock

Spend(k) == left[k] > 0 /\ left' = [left EXCEPT ![k] = @ - 1]

\* RecordSeries, or ForfeitMatch in favour of side w.
Score(d, g, w) ==
    /\ d \in event.devices /\ Idle(d)
    /\ status[g] # "absent"
    /\ IF status[g] = "completed" THEN Spend("rescores") ELSE UNCHANGED left
    /\ todo' = [todo EXCEPT ![d] = <<[op |-> "check", game |-> g, won |-> w]>>]
    /\ UNCHANGED <<event, side, status, winner, over, lock, playedBy, routed>>

\* bothSidesPresent, before the lock.
Check(d) ==
    /\ At(d, "check")
    /\ IF Ready(Now(d).game) THEN Continue(d, <<[Now(d) EXCEPT !.op = "lock"]>>)
                              ELSE Return(d)
    /\ UNCHANGED <<event, side, status, winner, over, left, playedBy, routed>>

Lock(d) ==
    /\ At(d, "lock")
    /\ lock = Free
    /\ lock' = d
    /\ todo' = [todo EXCEPT ![d] = <<[Now(d) EXCEPT !.op = "write"]>>]
    /\ UNCHANGED <<event, side, status, winner, over, left, playedBy, routed>>

\* A side of g that goes on to a feed.
Carry(feed, g, slot) ==
    IF feed = NoFeed THEN <<>>
    ELSE <<[op |-> "clear", to |-> feed, from |-> g, slot |-> slot]>>
\* Slip: the loser stays where it is.
RoutingWinnersOnly(g, w) == Carry(WinsTo(g), g, w)

\* What follows the result of g: winner, loser, the deciding game, the event.
Routing(g, w) ==
    Carry(WinsTo(g), g, w) \o Carry(LosesTo(g), g, 3 - w)
      \o (IF g = GrandFinal THEN <<[op |-> "decide", won |-> w]>> ELSE <<>>)

Write(d) ==
    LET g == Now(d).game
        w == Now(d).won
    IN  /\ At(d, "write")
        /\ IF status[g] = "absent"
           THEN Return(d) /\ UNCHANGED <<status, winner, playedBy, routed>>
           ELSE /\ status' = [status EXCEPT ![g] = "completed"]
                /\ winner' = [winner EXCEPT ![g] = w]
                /\ playedBy' = [playedBy EXCEPT ![g] = side[g]]
                /\ routed' = routed \ {g}
                /\ Continue(d, Routing(g, w) \o <<[op |-> "sync", game |-> g]>>)
        /\ UNCHANGED <<event, side, over, left>>

-----------------------------------------------------------------------------
(* advanceTeam and resetCompletedDownstream.                               *)

\* Read who is in the slot, then empty it.
Clear(d) ==
    LET s == Now(d)
    IN  /\ At(d, "clear")
        /\ side' = [side EXCEPT ![s.to.to][s.to.slot] = Nobody]
        /\ Continue(d, <<[op |-> "fill", to |-> s.to, from |-> s.from, slot |-> s.slot,
                          before |-> side[s.to.to][s.to.slot]]>>)
        /\ UNCHANGED <<event, status, winner, over, left, playedBy, routed>>

\* A player has one row a game: put into one slot, it leaves the other.
Put(sides, slot, e) ==
    [i \in 1..2 |-> IF i = slot THEN e
                    ELSE IF sides[i] = e THEN Nobody ELSE sides[i]]
\* Slips: whatever was played on the old result stands; or nothing of it.
UnwindNever(before, now, g) == <<>>
UnwindAlways(before, now, g) == <<[op |-> "reset", game |-> g]>>

\* A different side in the slot: what was played with the old one is undone.
Unwind(before, now, g) ==
    IF before = now THEN <<>> ELSE <<[op |-> "reset", game |-> g]>>

Fill(d) ==
    LET s == Now(d)
        e == side[s.from][s.slot]
    IN  /\ At(d, "fill")
        /\ side' = IF e = Nobody THEN side
                   ELSE [side EXCEPT ![s.to.to] = Put(@, s.to.slot, e)]
        /\ Continue(d, Unwind(s.before, e, s.to.to))
        /\ UNCHANGED <<event, status, winner, over, left, playedBy, routed>>

WipeAndReset(feed) ==
    IF feed = NoFeed THEN <<>>
    ELSE <<[op |-> "wipe", to |-> feed], [op |-> "reset", game |-> feed.to]>>

Unplayed(g) == [winner EXCEPT ![g] = 0]

Reset(d) ==
    LET g == Now(d).game
    IN  /\ At(d, "reset")
        /\ IF status[g] # "completed"
           THEN Continue(d, <<>>) /\ UNCHANGED <<status, winner>>
           ELSE /\ status' = [status EXCEPT ![g] = "scheduled"]
                /\ winner' = Unplayed(g)
                /\ Continue(d, WipeAndReset(WinsTo(g)) \o WipeAndReset(LosesTo(g)))
        /\ UNCHANGED <<event, side, over, left, playedBy, routed>>

Wipe(d) ==
    /\ At(d, "wipe")
    /\ side' = [side EXCEPT ![Now(d).to.to][Now(d).to.slot] = Nobody]
    /\ Continue(d, <<>>)
    /\ UNCHANGED <<event, status, winner, over, left, playedBy, routed>>

-----------------------------------------------------------------------------
(* resolveGrandFinal: the deciding game exists when it is needed.          *)

Statement(op) == <<[op |-> op]>>

Decide(d) ==
    /\ At(d, "decide")
    /\ Continue(d, IF Now(d).won = 1
                   THEN IF status[ResetGame] = "absent" THEN <<>>
                        ELSE Statement("strip") \o Statement("drop")
                   ELSE IF status[ResetGame] = "absent"
                        THEN Statement("make") \o Statement("compare")
                        ELSE Statement("compare"))
    /\ UNCHANGED <<event, side, status, winner, over, left, playedBy, routed>>

Strip(d) ==
    /\ At(d, "strip") \/ At(d, "empty")
    /\ side' = [side EXCEPT ![ResetGame] = <<Nobody, Nobody>>]
    /\ Continue(d, <<>>)
    /\ UNCHANGED <<event, status, winner, over, left, playedBy, routed>>

\* The row is gone: a request about it that is still waiting will find
\* nothing, also when a new deciding game has been made meanwhile.
Drop(d) ==
    LET Lost(e) == ~Idle(e) /\ Now(e).op \in {"check", "lock", "write", "start"}
                            /\ Now(e).game = ResetGame
    IN  /\ At(d, "drop")
        /\ status' = [status EXCEPT ![ResetGame] = "absent"]
        /\ winner' = [winner EXCEPT ![ResetGame] = 0]
        /\ todo' = [e \in Devices |-> CASE e = d   -> Tail(todo[d])
                                        [] Lost(e) -> <<>>
                                        [] OTHER   -> todo[e]]
        /\ UNCHANGED <<event, side, over, lock, left, playedBy, routed>>

Make(d) ==
    /\ At(d, "make")
    /\ status' = [status EXCEPT ![ResetGame] = "scheduled"]
    /\ winner' = [winner EXCEPT ![ResetGame] = 0]
    /\ Continue(d, <<>>)
    /\ UNCHANGED <<event, side, over, left, playedBy, routed>>

\* copyGrandFinalTeams reads both games; unless they agree, it empties the
\* deciding game and writes the sides it read.
Compare(d) ==
    /\ At(d, "compare")
    /\ Continue(d, IF side[ResetGame] = side[GrandFinal] THEN <<>>
                   ELSE Statement("empty") \o <<[op |-> "copy", sides |-> side[GrandFinal]]>>)
    /\ UNCHANGED <<event, side, status, winner, over, left, playedBy, routed>>

Copy(d) ==
    /\ At(d, "copy")
    /\ side' = [side EXCEPT ![ResetGame] = Now(d).sides]
    /\ Continue(d, <<>>)
    /\ UNCHANGED <<event, status, winner, over, left, playedBy, routed>>

-----------------------------------------------------------------------------
(* The end of a request, the marks, and failures.                          *)

AllPlayed == \A g \in Games : status[g] \in {"absent", "completed"}

\* Slip: an event that was over stays over.
SyncedOnce == over \/ AllPlayed

\* syncEventStatus: its read and its update are one step, as only results
\* complete or reopen a game, and they are serialised by the lock.
Synced == AllPlayed

Sync(d) ==
    /\ At(d, "sync")
    /\ over' = Synced
    /\ routed' = routed \cup {Now(d).game}
    /\ Continue(d, <<>>)
    /\ UNCHANGED <<event, side, status, winner, left, playedBy>>

\* StartMatch reads the sides, then flips a game that is still scheduled.
Start(d, g) ==
    /\ d \in event.devices /\ Idle(d)
    /\ status[g] = "scheduled" /\ Ready(g)
    /\ Spend("marks")
    /\ todo' = [todo EXCEPT ![d] = <<[op |-> "start", game |-> g]>>]
    /\ UNCHANGED <<event, side, status, winner, over, lock, playedBy, routed>>

StartWrite(d) ==
    /\ At(d, "start")
    /\ status' = IF status[Now(d).game] = "scheduled"
                 THEN [status EXCEPT ![Now(d).game] = "in_progress"] ELSE status
    /\ Continue(d, <<>>)
    /\ UNCHANGED <<event, side, winner, over, left, playedBy, routed>>

\* UnstartMatch, CancelMatch and RestoreMatch: what their guarded update does.
Mark(g, from, to) ==
    /\ status[g] \in from
    /\ Spend("marks")
    /\ status' = [status EXCEPT ![g] = to]
    /\ UNCHANGED <<event, side, winner, over, lock, todo, playedBy, routed>>

UnstartMatch(g) == Mark(g, {"in_progress"}, "scheduled")
CancelMatch(g)  == Mark(g, {"scheduled", "in_progress"}, "canceled")
RestoreMatch(g) == Mark(g, {"canceled"}, "scheduled")

\* A statement under the lock fails: the request returns its error.
Fail(d) ==
    /\ lock = d
    /\ Now(d).op # "sync"
    /\ Spend("faults")
    /\ Return(d)
    /\ UNCHANGED <<event, side, status, winner, over, playedBy, routed>>

\* The reconciliation of the event's status may fail without a word.
FailSync(d) ==
    /\ At(d, "sync")
    /\ Spend("faults")
    /\ routed' = routed \cup {Now(d).game}
    /\ Return(d)
    /\ UNCHANGED <<event, side, status, winner, over, playedBy>>

-----------------------------------------------------------------------------
Step(d) ==
    \/ Check(d) \/ Lock(d) \/ Write(d)
    \/ Clear(d) \/ Fill(d) \/ Reset(d) \/ Wipe(d)
    \/ Decide(d) \/ Strip(d) \/ Drop(d) \/ Make(d) \/ Compare(d) \/ Copy(d)
    \/ Sync(d) \/ StartWrite(d)
    \/ Fail(d) \/ FailSync(d)

Next ==
    \/ \E d \in Devices : Step(d)
    \/ \E d \in Devices, g \in Games : Start(d, g) \/ \E w \in 1..2 : Score(d, g, w)
    \/ \E g \in Games : UnstartMatch(g) \/ CancelMatch(g) \/ RestoreMatch(g)

Spec == Init /\ [][Next]_vars

-----------------------------------------------------------------------------
(* Properties.                                                             *)

Statuses == {"absent", "scheduled", "in_progress", "canceled", "completed"}
Sides    == {draw.opens[g][i] : g \in Games, i \in 1..2} \cup {Nobody}
Ops      == {"check", "lock", "write", "clear", "fill", "reset", "wipe", "decide", "strip",
             "drop", "make", "compare", "empty", "copy", "sync", "start"}

\* Every variable keeps its kind (the event never changes); a game has a
\* winner when it is completed, only the deciding game comes and goes, and the
\* lock is held by a request that is still running (RecordSeries,
\* resetCompletedDownstream, resolveGrandFinal).
TypeOK ==
    /\ side \in [Games -> [1..2 -> Sides]]
    /\ status \in [Games -> Statuses]
    /\ winner \in [Games -> 0..2]
    /\ \A g \in Games : /\ winner[g] # 0 <=> status[g] = "completed"
                        /\ status[g] = "absent" => g = ResetGame
    /\ over \in BOOLEAN
    /\ lock \in Devices \cup {Free}
    /\ \A d \in Devices : /\ \A i \in DOMAIN todo[d] : todo[d][i].op \in Ops
                          /\ lock = d => ~Idle(d)
    /\ left \in [{"rescores", "marks", "faults"} -> Nat]
    /\ playedBy \in [Games -> [1..2 -> Sides]]
    /\ routed \subseteq Games

\* Nothing is being written: requests are idle, about to start, or waiting.
AtRest == \A d \in Devices : Idle(d) \/ Now(d).op \in {"check", "lock", "write", "start"}

Undisturbed == left.faults = event.faults

\* The winner and the loser of g, as it was played.
Went(g, slot) == playedBy[g][slot]

\* After any scores, corrections and forfeits from several devices, the next
\* games hold the winner (and loser) of the games that feed them, and nobody
\* where a feeder is not decided; if statements failed, at least what the
\* last complete request for a game sent on is there (advanceTeam,
\* resetCompletedDownstream).
ResultsCarried ==
    AtRest => \A g \in Games \ draw.byes :
        \A out \in {<<WinsTo(g), winner[g]>>, <<LosesTo(g), 3 - winner[g]>>} :
            out[1] # NoFeed =>
                LET there == side[out[1].to][out[1].slot]
                IN  /\ status[g] = "completed" /\ g \in routed => there = Went(g, out[2])
                    /\ status[g] # "completed" /\ Undisturbed => there = Nobody

\* A result belongs to the sides it was written for: when a correction
\* upstream changes who plays, what they had played is undone
\* (service.go:13887).
PlayedByThoseInIt ==
    AtRest /\ Undisturbed =>
        \A g \in Games \ {ResetGame} : status[g] = "completed" => side[g] = playedBy[g]

\* The other way round: a result is undone only when its sides have changed or
\* one has gone; correcting a score without changing the winner leaves what was
\* played since alone (service.go:13889).
ResultsStand ==
    [][\A g \in Games \ {ResetGame} :
           status[g] = "completed" /\ status'[g] # "completed" /\ Undisturbed
               => side[g] # playedBy[g] \/ ~Ready(g)]_vars

\* The event is over when every game has a result, and reopens when a
\* correction takes one away (syncEventStatus).
EventOver == AtRest /\ Undisturbed => (over <=> AllPlayed)

PlayedBy(e) == {g \in Games \ draw.byes : status[g] = "completed"
                                           /\ e \in {side[g][1], side[g][2]}}
LostBy(e) == {g \in PlayedBy(e) : side[g][3 - winner[g]] = e}
Waits(e) == {g \in Games : status[g] \notin {"absent", "completed"}
                           /\ e \in {side[g][1], side[g][2]}}
Entrants == Sides \ {Nobody}

\* In double elimination nobody is out before a second loss and nobody plays
\* on after it; everyone still in has exactly one game to play, unless the
\* title is decided (GenerateDoubleElim's routing with resolveGrandFinal).
\* With one result at a time and until one is corrected: the draw is then
\* replayed in part.
TwoLossesAndOut ==
    GrandFinal \in Games /\ AtRest
    /\ Cardinality(event.devices) = 1 /\ left.rescores = event.rescores =>
        \A e \in Entrants :
            /\ Cardinality(LostBy(e)) <= 2
            /\ Cardinality(Waits(e)) =
                   IF AllPlayed \/ Cardinality(LostBy(e)) = 2 THEN 0 ELSE 1

\* What service.go:9555 says: re-scoring game 1 of the grand final reconciles
\* the deciding game, whose result is then that of the two sides in it.
DeciderIsOfThisFinal ==
    AtRest /\ {status[GrandFinal], status[ResetGame]} = {"completed"}
        => side[ResetGame] = playedBy[ResetGame]
=============================================================================
