-------------------------- MODULE MCDuprSubmissions ---------------------------
(* Small events for TLC. *)
EXTENDS DuprSubmissions

CONSTANTS q1, q2, g1, g2

Event(games, before, alone, chunk, calls) ==
    [games |-> games, earlier |-> before, unlinked |-> alone, chunk |-> chunk,
     calls |-> calls @@ [k \in Kinds |-> 0]]

\* One game, all of it in one chunk.
OneGame(calls) == Event({g1}, {}, {}, 80, calls)

\* Corrections, removals and an undoing against imports.
Corrected == OneGame([rescore |-> 2, import |-> 2, remove |-> 1, undo |-> 1])
\* Answers of DUPR are lost.
Lost == OneGame([rescore |-> 1, import |-> 2, remove |-> 1, lost |-> 2])
\* Statements fail, and the process restarts.
Broken == OneGame([rescore |-> 1, import |-> 2, remove |-> 1,
                   fault |-> 2, restart |-> 1])
\* A forfeit and a wipe while DUPR is down.
Down == OneGame([import |-> 2, award |-> 1, wipe |-> 1, down |-> 2])
\* A game is deleted.
Dropped == OneGame([rescore |-> 1, import |-> 2, award |-> 1, drop |-> 1, down |-> 1])
\* A reversal cannot be queued.
Unqueued == OneGame([import |-> 1, award |-> 1, wipe |-> 1, fault |-> 1, lost |-> 1])
\* Two games in chunks of one: one played before the event was sanctioned, and
\* one with a player still to be linked.
Chunked == Event({g1, g2}, {g1}, {g2}, 1, [import |-> 1, remove |-> 1, down |-> 1])

Events == {Corrected, Lost, Broken, Down, Dropped, Unqueued, Chunked}
=============================================================================
