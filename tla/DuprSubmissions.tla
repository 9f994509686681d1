---------------------------- MODULE DuprSubmissions ----------------------------
(***************************************************************************)
(* Results of a sanctioned event on DUPR, which keeps official ratings and *)
(* answers late, twice or not at all: the queue of submissions, imports in *)
(* chunks, retries, corrections, and the reversal of results whose game is *)
(* removed, forfeited or wiped (internal/service/service.go, dupr_reverse  *)
(* .go, gateway/dupr.go).  Each action is one statement or one call of     *)
(* DUPR, with the reads just before it.                                    *)
(*                                                                         *)
(* A game has one submission row: a second insert is taken to be refused.  *)
(* The drain that a reversal kicks off is the first half of what the       *)
(* ticker does, under the same mutex, and is left to the ticker.           *)
(***************************************************************************)
EXTENDS Integers, Sequences, FiniteSets, TLC

CONSTANTS
    Games,
    Requests,   \* handlers and continuations that may run at once
    Ticker,     \* the reconciler
    Free,
    Occasions,  \* the events to look at, with the bounds on each:
                \*   games: its games, and earlier: those played before it was
                \*     sanctioned
                \*   unlinked: games with a player who has no DUPR id yet
                \*   chunk: duprSubmitChunk
                \*   calls: how many of each kind of call and of fault
    duprMaxAttempts, duprPendingDeleteMaxAttempts

Callers == Requests \cup {Ticker}
Kinds == {"rescore", "undo", "award", "import", "remove", "drop", "wipe",
          "fault", "lost", "down", "restart"}

ASSUME DuprAssumption ==
    /\ Ticker \notin Requests /\ Free \notin Callers
    /\ {duprMaxAttempts, duprPendingDeleteMaxAttempts} \subseteq Nat \ {0}
    /\ \A o \in Occasions : /\ {o.games, o.earlier, o.unlinked} \subseteq SUBSET Games
                            /\ o.chunk \in Nat \ {0}
                            /\ o.calls \in [Kinds -> Nat]

VARIABLES
    event,
    result,    \* game -> its result, which a score replaces
    unlinked,  \* games with a player without a DUPR id
    row,       \* dupr_submissions: game -> its row
    queue,     \* dupr_pending_deletes
    inline,    \* reversals in memory, when the queue could not be written
    dupr,      \* what was created on DUPR, in order; a matchCode is an index
    lock,      \* lockDuprEvent
    desk,      \* lockScoreEvent
    req,       \* caller -> the statement it is at
    waves,     \* rows that an import has left to its continuation
    left,
    crossed,   \* history: games scored while a flush had them in hand
    missed     \* history: games on DUPR that a reversal does not see

base    == <<event, result, unlinked>>
tables  == <<row, queue, inline>>
locks   == <<lock, desk>>
history == <<crossed, missed>>
vars == <<base, tables, dupr, locks, req, waves, left, history>>

Result(kind, score) == [kind |-> kind, score |-> score]
Open    == Result("open", 0)
Awarded == Result("awarded", 0)
Gone    == Result("gone", 0)
Played(m) == result[m].kind = "played"

NoRow == [status |-> "none", ref |-> 0, gen |-> 0, attempts |-> 0, wait |-> FALSE]
Fresh == [NoRow EXCEPT !.status = "pending"]
Queued(m) == row[m] # NoRow
Idle == [at |-> "idle"]

Init ==
    /\ event \in Occasions
    /\ result = [m \in Games |-> IF m \notin event.games THEN Gone
                                 ELSE IF m \in event.earlier THEN Result("played", 1) ELSE Open]
    /\ unlinked = event.unlinked
    /\ row = [m \in Games |-> NoRow]
    /\ queue = {} /\ inline = {} /\ dupr = <<>>
    /\ lock = Free /\ desk = Free
    /\ req = [q \in Callers |-> Idle]
    /\ waves = {}
    /\ left = event.calls
    /\ crossed = {} /\ missed = {}

At(q, statement) == req[q].at = statement
GoTo(q, r) == req' = [req EXCEPT ![q] = r]
Spend(k) == left[k] > 0 /\ left' = [left EXCEPT ![k] = @ - 1]

\* The deferred unlocks run.
Return(q) ==
    /\ GoTo(q, Idle)
    /\ lock' = IF lock = q THEN Free ELSE lock
    /\ desk' = IF desk = q THEN Free ELSE desk

\* A statement that may fail, and whose error is ignored.
Writes(rows) == \/ row' = rows /\ UNCHANGED left
                \/ row' = row /\ Spend("fault")

\* An update by id touches a row that is still there.
Updated(m, r) == IF Queued(m) THEN [row EXCEPT ![m] = r] ELSE row

Acquire(q, statement, r) ==
    /\ At(q, statement) /\ lock = Free
    /\ lock' = q
    /\ GoTo(q, r)
    /\ UNCHANGED <<base, tables, dupr, desk, waves, left, history>>

-----------------------------------------------------------------------------
(* Results, and their place in the queue.                                    *)

\* A flush has read the game's result and not yet written what became of it.
InHand(q, m) == req[q].at \in {"flush.call", "flush.mark", "flush.retry"} /\ req[q].item.game = m

\* Slip: a game that has a row keeps it as it is.
RequeueOnce(r) == r
Requeue(r) == [r EXCEPT !.status = "pending", !.attempts = 0, !.wait = FALSE]

Queueing(games, then) ==
    IF games # {} THEN [at |-> "queue", games |-> games, then |-> then]
    ELSE IF then = "flush" THEN [at |-> "flush.lock", retry |-> FALSE, only |-> Games]
    ELSE Idle

\* All that matters of a score is whether it is another one.
Scores(m) == IF dupr = <<>> /\ result[m] = Open THEN {1} ELSE {1, 2} \ {result[m].score}

\* applySeries up to queueDuprSubmission: a score, or another one.
Score(q, m, s) ==
    /\ req[q] = Idle /\ desk = Free
    /\ result[m] # Gone
    /\ IF result[m] = Open THEN UNCHANGED left ELSE Spend("rescore")
    /\ result' = [result EXCEPT ![m] = Result("played", s)]
    /\ crossed' = crossed \cup {n \in {m} : \E f \in Callers : InHand(f, n)}
    /\ desk' = q
    /\ GoTo(q, Queueing({m}, "return"))
    /\ UNCHANGED <<event, unlinked, tables, dupr, lock, waves, missed>>

\* resetCompletedDownstream.
Undo(m) ==
    /\ desk = Free /\ Played(m)
    /\ Spend("undo")
    /\ result' = [result EXCEPT ![m] = Open]
    /\ UNCHANGED <<event, unlinked, tables, dupr, locks, req, waves, history>>

\* A player connects to DUPR.
Link(m) ==
    /\ m \in unlinked
    /\ unlinked' = unlinked \ {m}
    /\ UNCHANGED <<event, result, tables, dupr, locks, req, waves, left, history>>

\* queueDuprSubmission reads whether there is a row, then inserts or updates.
QueueRead(q) ==
    /\ At(q, "queue")
    /\ \E m \in req[q].games :
           GoTo(q, [at |-> "queue.write", game |-> m, known |-> Queued(m),
                    games |-> req[q].games \ {m}, then |-> req[q].then])
    /\ UNCHANGED <<base, tables, dupr, locks, waves, left, history>>

QueueWrite(q) ==
    LET m == req[q].game
        next == Queueing(req[q].games, req[q].then)
    IN  /\ At(q, "queue.write")
        /\ Writes(IF req[q].known THEN Updated(m, Requeue(row[m]))
                  ELSE IF Queued(m) \/ result[m] = Gone THEN row
                  ELSE [row EXCEPT ![m] = Fresh])
        /\ missed' = missed \cup {n \in {m} : row[n].ref # 0}
        /\ IF next = Idle THEN Return(q) ELSE GoTo(q, next) /\ UNCHANGED locks
        /\ UNCHANGED <<base, queue, inline, dupr, waves, crossed>>

-----------------------------------------------------------------------------
(* SubmitPendingToDupr and flushDuprSubmissions.                             *)

\* Its backfill queues the completed games without a row: all completed games
\* if the rows cannot be read, none if the event or its games cannot.
Import(q) ==
    LET completed == {m \in Games : Played(m)}
    IN  /\ req[q] = Idle /\ left["import"] > 0
        /\ \/ /\ GoTo(q, Queueing({m \in completed : ~Queued(m)}, "flush"))
              /\ Spend("import")
           \/ /\ \E games \in {completed, {}} : GoTo(q, Queueing(games, "flush"))
              /\ left["fault"] > 0
              /\ left' = [left EXCEPT !["import"] = @ - 1, !["fault"] = @ - 1]
        /\ UNCHANGED <<base, tables, dupr, locks, waves, history>>

\* The next chunk of an import, after its pause.
Continue(q, wave) ==
    /\ req[q] = Idle /\ wave \in waves
    /\ waves' = waves \ {wave}
    /\ GoTo(q, [at |-> "flush.lock", retry |-> FALSE, only |-> wave])
    /\ UNCHANGED <<base, tables, dupr, locks, left, history>>

FlushLock(q) ==
    Acquire(q, "flush.lock", [at |-> "flush.select", retry |-> req[q].retry, only |-> req[q].only])

\* Slip: a retry looks at what has given up.
SelectedFailed(retry) == {m \in Games : row[m].status \in IF retry THEN {"failed"} ELSE {"pending", "failed"}}
Selected(retry) == {m \in Games : row[m].status \in IF retry THEN {"pending"} ELSE {"pending", "failed"}}

\* A flush that goes to its next row, with what it keeps between statements.
Rows(f) == [at |-> "flush.rows", flush |-> f]

\* A retry leaves alone what is not due and what nobody has imported.
FlushSelect(q) ==
    LET due(m) == ~req[q].retry \/ (~row[m].wait /\ row[m].attempts > 0)
    IN  /\ At(q, "flush.select")
        /\ GoTo(q, Rows([retry |-> req[q].retry, calls |-> 0, deferred |-> {},
                         rows |-> {[game |-> m, row |-> row[m]] :
                                       m \in {n \in Selected(req[q].retry) \cap req[q].only : due(n)}}]))
        /\ UNCHANGED <<base, tables, dupr, locks, waves, left, history>>

FlushDefer(q) ==
    /\ At(q, "flush.rows") /\ req[q].flush.rows # {}
    /\ req[q].flush.calls >= event.chunk
    /\ GoTo(q, Rows([req[q].flush EXCEPT !.rows = {},
                                         !.deferred = {i.game : i \in req[q].flush.rows}]))
    /\ UNCHANGED <<base, tables, dupr, locks, waves, left, history>>

\* markSubmission: what is written once nothing is to be retried.
Mark(f, i, status, ref) ==
    [at |-> "flush.mark", flush |-> f, item |-> i, status |-> status, ref |-> ref, tries |-> 0]

\* The game and its players are read; some results are not for DUPR.
FlushRead(q) ==
    /\ At(q, "flush.rows") /\ req[q].flush.calls < event.chunk
    /\ \E i \in req[q].flush.rows :
           LET m == i.game
               f == [req[q].flush EXCEPT !.rows = @ \ {i}]
           IN  GoTo(q, CASE result[m] \in {Open, Gone}  -> Mark(f, i, "failed", 0)
                         [] result[m] = Awarded         -> Mark(f, i, "skipped", 0)
                         [] Played(m) /\ m \in unlinked -> Mark(f, i, "failed", 0)
                         [] OTHER -> [at |-> "flush.call", flush |-> [f EXCEPT !.calls = @ + 1],
                                      item |-> i, score |-> result[m].score])
    /\ UNCHANGED <<base, tables, dupr, locks, waves, left, history>>

\* DUPR takes an identifier, the game with its generation, once and for all.
Taken(i) == \E c \in DOMAIN dupr : dupr[c].game = i.game /\ dupr[c].gen = i.row.gen

\* Slip: another generation for a game that DUPR has already.
ConflictAnew(q, i) ==
    /\ row' = Updated(i.game, [Fresh EXCEPT !.gen = i.row.gen + 1])
    /\ GoTo(q, Rows(req[q].flush))

\* The record was lost, the result is there: never created again.
Conflict(q, i) ==
    /\ row' = row
    /\ GoTo(q, Mark(req[q].flush, i, "orphaned", 0))

Retry(q) == GoTo(q, [at |-> "flush.retry", flush |-> req[q].flush, item |-> req[q].item])

\* SubmitMatch.  An answer may be lost, after the call or before it.
Create(q) ==
    LET i == req[q].item
        new == Append(dupr, [game |-> i.game, gen |-> i.row.gen, score |-> req[q].score, live |-> TRUE])
    IN  /\ At(q, "flush.call") /\ i.row.ref = 0
        /\ \/ /\ Taken(i)
              /\ Conflict(q, i)
              /\ UNCHANGED <<dupr, left>>
           \/ /\ ~Taken(i)
              /\ dupr' = new /\ row' = row
              /\ \/ GoTo(q, Mark(req[q].flush, i, "submitted", Len(new))) /\ UNCHANGED left
                 \/ Retry(q) /\ Spend("lost")
        /\ UNCHANGED <<base, queue, inline, locks, waves, history>>

\* UpdateMatch, on the match and the identifier it was created with.
Correct(q) ==
    LET i == req[q].item
        there == dupr[i.row.ref].live /\ dupr[i.row.ref].gen = i.row.gen
    IN  /\ At(q, "flush.call") /\ i.row.ref # 0
        /\ dupr' = IF there THEN [dupr EXCEPT ![i.row.ref].score = req[q].score] ELSE dupr
        /\ \/ /\ GoTo(q, Mark(req[q].flush, i, IF there THEN "submitted" ELSE "failed", i.row.ref))
              /\ UNCHANGED left
           \/ there /\ Retry(q) /\ Spend("lost")
        /\ UNCHANGED <<base, tables, locks, waves, history>>

\* DUPR is down, or refuses for good.
FlushFails(q) ==
    LET i == req[q].item
    IN  /\ At(q, "flush.call")
        /\ Spend("down")
        /\ Retry(q) \/ GoTo(q, Mark(req[q].flush, i, "failed", i.row.ref))
        /\ UNCHANGED <<base, tables, dupr, locks, waves, history>>

\* Deleted, or past the reversal that comes before its deletion.
Leaving(m) == result[m] = Gone \/ \E q \in Requests : At(q, "delete") /\ m \in req[q].games

\* A submission is written once more if that fails, nothing else is.
FlushMark(q) ==
    LET m == req[q].item.game
    IN  /\ At(q, "flush.mark")
        /\ \/ /\ row' = Updated(m, [row[m] EXCEPT !.status = req[q].status, !.ref = req[q].ref,
                                                 !.wait = FALSE])
              /\ GoTo(q, Rows(req[q].flush)) /\ UNCHANGED left
           \/ /\ Spend("fault") /\ row' = row
              /\ GoTo(q, IF req[q].status = "submitted" /\ req[q].tries = 0
                         THEN [req[q] EXCEPT !.tries = 1] ELSE Rows(req[q].flush))
        /\ missed' = missed \cup {n \in {m} : req[q].status = "submitted" /\ Leaving(n)}
        /\ UNCHANGED <<base, queue, inline, dupr, locks, waves, crossed>>

\* markSubmissionRetry.
FlushRetry(q) ==
    LET i == req[q].item
        n == i.row.attempts + 1
    IN  /\ At(q, "flush.retry")
        /\ Writes(Updated(i.game, [row[i.game] EXCEPT !.attempts = n,
                                      !.status = IF n >= duprMaxAttempts THEN "failed" ELSE "pending",
                                      !.wait = n < duprMaxAttempts]))
        /\ GoTo(q, Rows(req[q].flush))
        /\ UNCHANGED <<base, queue, inline, dupr, locks, waves, history>>

FlushEnd(q) ==
    /\ At(q, "flush.rows") /\ req[q].flush.rows = {}
    /\ waves' = IF req[q].flush.retry \/ req[q].flush.deferred = {} THEN waves
                ELSE waves \cup {req[q].flush.deferred}
    /\ Return(q)
    /\ UNCHANGED <<base, tables, dupr, left, history>>

-----------------------------------------------------------------------------
(* DUPR deletes a match on its code and the identifier it was created with;  *)
(* one that is gone already is no error.                                     *)

Deletes(c, gen) == dupr' = [dupr EXCEPT ![c].live = @ /\ dupr[c].gen # gen]
Refused(c, gen) == dupr[c].live /\ dupr[c].gen # gen

\* Whether DeleteMatch returns no error.
DeleteMatch(c, gen, answered) ==
    \/ answered = ~Refused(c, gen) /\ Deletes(c, gen) /\ UNCHANGED left
    \/ ~answered /\ Deletes(c, gen) /\ Spend("lost")
    \/ ~answered /\ UNCHANGED dupr /\ Spend("down")

Removal(m) == [game |-> m, ref |-> row[m].ref, gen |-> row[m].gen]

\* RemoveEventFromDupr and RemoveMatchFromDupr.
Remove(q, games) ==
    /\ req[q] = Idle
    /\ games = Games \/ \E m \in Games : games = {m} /\ Queued(m)
    /\ Spend("remove")
    /\ GoTo(q, [at |-> "remove.lock", games |-> games])
    /\ UNCHANGED <<base, tables, dupr, locks, waves, history>>

RemoveLock(q) == Acquire(q, "remove.lock", [at |-> "remove.select", games |-> req[q].games])

\* The whole event is about submitted rows only.
RemoveSelect(q) ==
    /\ At(q, "remove.select")
    /\ GoTo(q, [at |-> "remove.rows",
                items |-> {Removal(m) : m \in {n \in req[q].games :
                              row[n].ref # 0 /\ (req[q].games = Games => row[n].status = "submitted")}}])
    /\ UNCHANGED <<base, tables, dupr, locks, waves, left, history>>

RemoveCall(q) ==
    /\ At(q, "remove.rows")
    /\ \E i \in req[q].items, answered \in BOOLEAN :
           /\ DeleteMatch(i.ref, i.gen, answered)
           /\ GoTo(q, IF answered
                      THEN [at |-> "remove.row", item |-> i, items |-> req[q].items \ {i}]
                      ELSE [at |-> "remove.rows", items |-> req[q].items \ {i}])
    /\ UNCHANGED <<base, tables, locks, waves, history>>

\* The next import creates it under a new generation.
RemoveRow(q) ==
    LET i == req[q].item
    IN  /\ At(q, "remove.row")
        /\ Writes(Updated(i.game, [Fresh EXCEPT !.gen = i.gen + 1]))
        /\ GoTo(q, [at |-> "remove.rows", items |-> req[q].items])
        /\ UNCHANGED <<base, queue, inline, dupr, locks, waves, history>>

RemoveEnd(q) ==
    /\ At(q, "remove.rows") /\ req[q].items = {}
    /\ Return(q)
    /\ UNCHANGED <<base, tables, dupr, waves, left, history>>

-----------------------------------------------------------------------------
(* Reversals: reverseDuprForMatches after a forfeit or before games are      *)
(* deleted, and the same within wipeAllMatches.                              *)

Reversing(games, then) == [at |-> "reverse.lock", games |-> games, then |-> then]

\* ForfeitMatch.
Award(q, m) ==
    /\ req[q] = Idle /\ desk = Free
    /\ result[m] # Gone
    /\ Spend("award")
    /\ result' = [result EXCEPT ![m] = Awarded]
    /\ desk' = q
    /\ GoTo(q, Reversing({m}, "return"))
    /\ UNCHANGED <<event, unlinked, tables, dupr, lock, waves, history>>

\* A deciding game, a play-off or the lines of a tie are made unnecessary.
Drop(q, m) ==
    /\ req[q] = Idle /\ desk = Free
    /\ result[m] # Gone
    /\ Spend("drop")
    /\ desk' = q
    /\ GoTo(q, Reversing({m}, "delete"))
    /\ UNCHANGED <<base, tables, dupr, lock, waves, history>>

\* wipeAllMatches.
WipeAll(q) ==
    /\ req[q] = Idle
    /\ Spend("wipe")
    /\ GoTo(q, Reversing(Games, "wipe"))
    /\ UNCHANGED <<base, tables, dupr, locks, waves, history>>

ReverseLock(q) == Acquire(q, "reverse.lock", [req[q] EXCEPT !.at = "reverse.select"])

\* Only a wipe goes on when nothing is to be reversed.
ReverseNothing(q) ==
    CASE req[q].then = "return" -> Return(q)
      [] req[q].then = "delete" -> GoTo(q, [req[q] EXCEPT !.at = "delete"]) /\ lock' = Free /\ desk' = desk
      [] req[q].then = "wipe"   -> GoTo(q, [req[q] EXCEPT !.at = "reverse.rows"]) /\ UNCHANGED locks

Submitted(games) == {Removal(m) : m \in {n \in games : row[n].status = "submitted" /\ row[n].ref # 0}}

ReverseSelect(q) ==
    /\ At(q, "reverse.select")
    /\ \/ /\ Submitted(req[q].games) # {}
          /\ GoTo(q, [at |-> "reverse.queue", games |-> req[q].games, then |-> req[q].then,
                      items |-> Submitted(req[q].games)])
          /\ UNCHANGED <<left, locks>>
       \/ Submitted(req[q].games) = {} /\ ReverseNothing(q) /\ UNCHANGED left
       \/ Spend("fault") /\ ReverseNothing(q)
    /\ UNCHANGED <<base, tables, dupr, waves, history>>

ReverseQueue(q) ==
    LET items == {[ref |-> i.ref, gen |-> i.gen, attempts |-> 0, wait |-> FALSE] : i \in req[q].items}
    IN  /\ At(q, "reverse.queue")
        /\ \/ queue' = queue \cup items /\ UNCHANGED <<inline, left>>
           \/ inline' = inline \cup items /\ UNCHANGED queue /\ Spend("fault")
        /\ GoTo(q, [at |-> "reverse.rows", games |-> req[q].games, then |-> req[q].then])
        /\ UNCHANGED <<base, row, dupr, locks, waves, history>>

ReverseRows(q) ==
    /\ At(q, "reverse.rows")
    /\ Writes([m \in Games |-> IF m \in req[q].games THEN NoRow ELSE row[m]])
    /\ CASE req[q].then = "return" -> Return(q)
         [] req[q].then = "delete" -> GoTo(q, [req[q] EXCEPT !.at = "delete"]) /\ lock' = Free /\ desk' = desk
         [] req[q].then = "wipe"   -> GoTo(q, [req[q] EXCEPT !.at = "delete"]) /\ UNCHANGED locks
    /\ UNCHANGED <<base, queue, inline, dupr, waves, history>>

\* A row goes with its game.
DeleteGames(q) ==
    /\ At(q, "delete")
    /\ \/ /\ result' = [m \in Games |-> IF m \in req[q].games THEN Gone ELSE result[m]]
          /\ row' = [m \in Games |-> IF m \in req[q].games THEN NoRow ELSE row[m]]
          /\ UNCHANGED left
       \/ Spend("fault") /\ UNCHANGED <<result, row>>
    /\ Return(q)
    /\ UNCHANGED <<event, unlinked, queue, inline, dupr, waves, history>>

\* Three attempts in memory.
InlineDelete(d) ==
    /\ d \in inline
    /\ \E answered \in BOOLEAN :
           /\ DeleteMatch(d.ref, d.gen, answered)
           /\ inline' = (inline \ {d}) \cup {e \in {[d EXCEPT !.attempts = @ + 1]} :
                                                 ~answered /\ e.attempts < 3}
    /\ UNCHANGED <<base, row, queue, locks, req, waves, history>>

-----------------------------------------------------------------------------
(* ReconcileDuprSubmissions: DrainDuprPendingDeletes, then the retries.      *)

Drain ==
    /\ req[Ticker] = Idle
    /\ \/ /\ GoTo(Ticker, [at |-> "drain",
                            items |-> {d \in queue : /\ d.attempts < duprPendingDeleteMaxAttempts
                                                    /\ ~d.wait}])
          /\ UNCHANGED left
       \/ GoTo(Ticker, [at |-> "drain", items |-> {}]) /\ Spend("fault")
    /\ UNCHANGED <<base, tables, dupr, locks, waves, history>>

DrainCall ==
    /\ At(Ticker, "drain")
    /\ \E d \in req[Ticker].items, answered \in BOOLEAN :
           /\ DeleteMatch(d.ref, d.gen, answered)
           /\ GoTo(Ticker, [at |-> "drain.write", item |-> d, done |-> answered,
                            items |-> req[Ticker].items \ {d}])
    /\ UNCHANGED <<base, tables, locks, waves, history>>

DrainWrite ==
    LET d == req[Ticker].item
    IN  /\ At(Ticker, "drain.write")
        /\ \/ /\ queue' = (queue \ {d}) \cup {e \in {[d EXCEPT !.attempts = @ + 1, !.wait = TRUE]} :
                                                  ~req[Ticker].done}
              /\ UNCHANGED left
           \/ Spend("fault") /\ UNCHANGED queue
        /\ GoTo(Ticker, [at |-> "drain", items |-> req[Ticker].items])
        /\ UNCHANGED <<base, row, inline, dupr, locks, waves, history>>

\* The event has a row that is due, or there is nothing to retry.
Reconcile ==
    /\ At(Ticker, "drain") /\ req[Ticker].items = {}
    /\ GoTo(Ticker, IF \E m \in Games : /\ row[m].status = "pending" /\ row[m].attempts > 0
                                        /\ ~row[m].wait
                    THEN [at |-> "flush.lock", retry |-> TRUE, only |-> Games] ELSE Idle)
    /\ UNCHANGED <<base, tables, dupr, locks, waves, left, history>>

\* next_attempt_at comes.
Due ==
    /\ \/ \E m \in Games : row[m].wait /\ row' = [row EXCEPT ![m].wait = FALSE] /\ UNCHANGED queue
       \/ \E d \in queue : d.wait /\ queue' = (queue \ {d}) \cup {[d EXCEPT !.wait = FALSE]} /\ UNCHANGED row
    /\ UNCHANGED <<base, inline, dupr, locks, req, waves, left, history>>

-----------------------------------------------------------------------------
\* A select fails: its handler, or the reconciler, returns the error.
SelectFails(q) ==
    /\ \/ req[q].at \in {"flush.select", "flush.rows", "remove.select"}
       \/ At(q, "drain") /\ req[q].items = {}
    /\ Spend("fault")
    /\ Return(q)
    /\ UNCHANGED <<base, tables, dupr, waves, history>>

\* The process stops, and what it had in memory is gone.
Restart ==
    /\ Spend("restart")
    /\ req' = [q \in Callers |-> Idle]
    /\ lock' = Free /\ desk' = Free
    /\ waves' = {} /\ inline' = {}
    /\ UNCHANGED <<base, row, queue, dupr, history>>

Flush(q) ==
    \/ FlushLock(q) \/ FlushSelect(q) \/ FlushDefer(q) \/ FlushRead(q)
    \/ Create(q) \/ Correct(q) \/ FlushFails(q)
    \/ FlushMark(q) \/ FlushRetry(q) \/ FlushEnd(q)
    \/ SelectFails(q)

Handle(q) ==
    \/ QueueRead(q) \/ QueueWrite(q)
    \/ RemoveLock(q) \/ RemoveSelect(q) \/ RemoveCall(q) \/ RemoveRow(q) \/ RemoveEnd(q)
    \/ ReverseLock(q) \/ ReverseSelect(q) \/ ReverseQueue(q) \/ ReverseRows(q)
    \/ DeleteGames(q)

Tick == Drain \/ DrainCall \/ DrainWrite \/ Reconcile

Next ==
    \/ \E q \in Requests :
          \/ Import(q) \/ Remove(q, Games) \/ WipeAll(q)
          \/ \E m \in Games : Remove(q, {m}) \/ Award(q, m) \/ Drop(q, m)
                             \/ \E s \in Scores(m) : Score(q, m, s)
          \/ \E wave \in waves : Continue(q, wave)
          \/ Handle(q)
    \/ \E q \in Callers : Flush(q)
    \/ Tick \/ Due
    \/ \E m \in Games : Undo(m) \/ Link(m)
    \/ \E d \in inline : InlineDelete(d)
    \/ Restart

Spec == Init /\ [][Next]_vars

\* Handlers go on, the ticker comes round, and deadlines pass.
FairSpec ==
    /\ Spec
    /\ \A q \in Callers : WF_vars(Flush(q))
    /\ \A q \in Requests : WF_vars(Handle(q))
    /\ WF_vars(Tick) /\ WF_vars(Due)

-----------------------------------------------------------------------------
(* Properties.                                                               *)

OnDupr(m) == {c \in DOMAIN dupr : dupr[c].game = m /\ dupr[c].live}

\* Whatever is imported twice, retried, lost on the way, removed and imported
\* again, a game's result never counts twice on official ratings
\* (duprIdentifier, service.go:13297, and the conflict at :13579).
OnDuprOnce == \A m \in Games : Cardinality(OnDupr(m)) <= 1

Attending(m) ==
    \E q \in Callers : \/ InHand(q, m)
                       \/ req[q].at \in {"queue", "reverse.lock", "reverse.select", "reverse.queue",
                                          "reverse.rows", "delete"} /\ m \in req[q].games
                       \/ At(q, "queue.write") /\ m \in req[q].games \cup {req[q].game}
                       \/ At(q, "remove.row") /\ m = req[q].item.game

Spent(kinds) == \E k \in kinds : left[k] # event.calls[k]

\* A game marked as submitted has its latest score on DUPR, however often it
\* was corrected, imported, removed and retried, unless it was scored while an
\* import had it in hand, a statement failed or the process stopped
\* (queueDuprSubmission, service.go:13275; flushDuprSubmissions).
CorrectionsArrive ==
    \A m \in Games \ crossed :
        row[m].status = "submitted" /\ ~Attending(m) /\ ~Spent({"fault", "restart"})
            => \/ result[m] = Open /\ Spent({"undo"})
               \/ LET c == row[m].ref
                  IN  /\ Played(m) /\ c # 0
                      /\ IF dupr[c].live THEN dupr[c].score = result[m].score ELSE Spent({"lost"})

Retrying(m) == row[m].status = "pending" /\ row[m].attempts > 0
Untrue(m) == result[m] \in {Awarded, Gone} /\ OnDupr(m) # {}

\* What failed for a time is tried until it is decided, also after a restart;
\* and the result of a game that was forfeited or deleted does not stay on
\* DUPR, also when DUPR is down for a time.  The latter unless it was put
\* back into the queue, or submitted while its game was being deleted, or a
\* statement or an answer was lost (ReconcileDuprSubmissions,
\* service.go:13828; reverseDuprForMatches).
BacklogsDrain ==
    \A m \in Games :
        /\ Retrying(m) ~> ~Retrying(m)
        /\ Untrue(m) ~> ~Untrue(m) \/ m \in missed \/ Spent({"fault", "lost", "restart"})
=============================================================================
