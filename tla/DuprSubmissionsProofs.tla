------------------------- MODULE DuprSubmissionsProofs -------------------------
(* Proofs about DuprSubmissions: for every set of games and of requests, every *)
(* chunk, number of attempts and budget of calls and faults.                   *)
EXTENDS DuprSubmissions, FiniteSetTheorems, TLAPS

USE DuprAssumption

-----------------------------------------------------------------------------
(* Types.                                                                    *)

Grade == [kind : {"open", "awarded", "gone"}, score : {0}] \cup [kind : {"played"}, score : Nat]
Standing == {"none", "pending", "submitted", "failed", "skipped", "orphaned"}
Row == [status : Standing, ref : Nat, gen : Nat, attempts : Nat, wait : BOOLEAN]
Item == [game : Games, row : Row]
FlushState == [retry : BOOLEAN, rows : SUBSET Item, calls : Nat, deferred : SUBSET Games]
Reversal == [game : Games, ref : Nat, gen : Nat]
Pending == [ref : Nat, gen : Nat, attempts : Nat, wait : BOOLEAN]
Entry == [game : Games, gen : Nat, score : Nat, live : BOOLEAN]
Ends == {"return", "delete", "wipe"}
Nexts == {"return", "flush"}

\* A caller's statement, by its label.
Waiting  == [at : {"idle"}]
          \cup [at : {"queue"}, games : SUBSET Games, then : Nexts]
          \cup [at : {"queue.write"}, game : Games, known : BOOLEAN, games : SUBSET Games, then : Nexts]
          \cup [at : {"flush.lock"}, retry : BOOLEAN, only : SUBSET Games]
          \cup [at : {"remove.lock"}, games : SUBSET Games]
          \cup [at : {"reverse.lock", "delete"}, games : SUBSET Games, then : Ends]
          \cup [at : {"drain"}, items : SUBSET Pending]
          \cup [at : {"drain.write"}, item : Pending, done : BOOLEAN, items : SUBSET Pending]
Importing == [at : {"flush.select"}, retry : BOOLEAN, only : SUBSET Games]
          \cup [at : {"flush.rows"}, flush : FlushState]
          \cup [at : {"flush.call"}, flush : FlushState, item : Item, score : Nat]
          \cup [at : {"flush.mark"}, flush : FlushState, item : Item, status : Standing,
                ref : Nat, tries : Nat]
          \cup [at : {"flush.retry"}, flush : FlushState, item : Item]
Removing == [at : {"remove.select"}, games : SUBSET Games]
          \cup [at : {"remove.rows"}, items : SUBSET Reversal]
          \cup [at : {"remove.row"}, item : Reversal, items : SUBSET Reversal]
Withdrawing == [at : {"reverse.select", "reverse.rows"}, games : SUBSET Games, then : Ends]
          \cup [at : {"reverse.queue"}, games : SUBSET Games, then : Ends, items : SUBSET Reversal]

Callings == Waiting \cup Importing \cup Removing \cup Withdrawing

TypeOK ==
    /\ event \in Occasions
    /\ result \in [Games -> Grade] /\ unlinked \subseteq Games
    /\ row \in [Games -> Row]
    /\ queue \subseteq Pending /\ inline \subseteq Pending
    /\ dupr \in Seq(Entry)
    /\ lock \in Callers \cup {Free} /\ desk \in Callers \cup {Free}
    /\ req \in [Callers -> Callings]
    /\ waves \subseteq SUBSET Games
    /\ left \in [Kinds -> Nat]
    /\ crossed \subseteq Games /\ missed \subseteq Games


\* What is known of a caller from the statement it is at.
LEMMA Shapes ==
  ASSUME NEW r \in Callings
  PROVE  /\ r.at \in {"queue", "queue.write"} => r.games \in SUBSET Games /\ r.then \in Nexts
         /\ r.at \in {"reverse.lock", "delete", "reverse.select", "reverse.queue", "reverse.rows"}
              => r.games \in SUBSET Games /\ r.then \in Ends
         /\ r.at = "queue.write" => r.game \in Games
         /\ r.at \in {"flush.lock", "flush.select"} => r.retry \in BOOLEAN /\ r.only \in SUBSET Games
         /\ r.at \in {"flush.rows", "flush.call", "flush.mark", "flush.retry"} => r.flush \in FlushState
         /\ r.at \in {"flush.call", "flush.mark", "flush.retry"} => r.item \in Item
         /\ r.at = "flush.call" => r.score \in Nat
         /\ r.at = "flush.mark" => r.status \in Standing /\ r.ref \in Nat /\ r.tries \in Nat
         /\ r.at \in {"remove.lock", "remove.select"} => r.games \in SUBSET Games
         /\ r.at \in {"remove.rows", "remove.row", "reverse.queue"} => r.items \in SUBSET Reversal
         /\ r.at = "remove.row" => r.item \in Reversal
         /\ r.at \in {"drain", "drain.write"} => r.items \in SUBSET Pending
         /\ r.at = "drain.write" => r.item \in Pending /\ r.done \in BOOLEAN
<1>1. CASE r \in Waiting
  BY <1>1 DEF Waiting
<1>2. CASE r \in Importing
  BY <1>2 DEF Importing
<1>3. CASE r \in Removing
  BY <1>3 DEF Removing
<1>4. CASE r \in Withdrawing
  BY <1>4 DEF Withdrawing
<1> QED
  BY <1>1, <1>2, <1>3, <1>4 DEF Callings

\* The label tells who waits.
LEMMA Labels ==
  ASSUME NEW r \in Callings
  PROVE  /\ r \in Waiting <=> r.at \in {"idle", "queue", "queue.write", "flush.lock", "remove.lock",
                                      "reverse.lock", "delete", "drain", "drain.write"}
         /\ r \in Importing <=> r.at \in {"flush.select", "flush.rows", "flush.call", "flush.mark",
                                         "flush.retry"}
         /\ r \in Removing <=> r.at \in {"remove.select", "remove.rows", "remove.row"}
         /\ r \in Withdrawing <=> r.at \in {"reverse.select", "reverse.queue", "reverse.rows"}
<1>1. CASE r \in Waiting
  BY <1>1 DEF Waiting, Importing, Removing, Withdrawing
<1>2. CASE r \in Importing
  BY <1>2 DEF Waiting, Importing, Removing, Withdrawing
<1>3. CASE r \in Removing
  BY <1>3 DEF Waiting, Importing, Removing, Withdrawing
<1>4. CASE r \in Withdrawing
  BY <1>4 DEF Waiting, Importing, Removing, Withdrawing
<1> QED
  BY <1>1, <1>2, <1>3, <1>4 DEF Callings

\* Where a statement leads.
LEMMA Leads ==
  /\ Idle \in Waiting
  /\ \A f \in FlushState : Rows(f) \in Importing
  /\ \A f \in FlushState, i \in Item, s \in Standing, c \in Nat : Mark(f, i, s, c) \in Importing
  /\ \A games \in SUBSET Games, then \in Nexts : Queueing(games, then) \in Waiting
  /\ \A games \in SUBSET Games, then \in Ends : Reversing(games, then) \in Waiting
  BY DEF Waiting, Importing, Idle, Rows, Mark, Queueing, Reversing

LEMMA GoToOK ==
  ASSUME TypeOK, NEW q \in Callers, NEW r \in Callings, GoTo(q, r)
  PROVE  req' \in [Callers -> Callings] /\ req'[q] = r /\ \A p \in Callers \ {q} : req'[p] = req[p]
  BY DEF GoTo, TypeOK

LEMMA SpendOK ==
  ASSUME TypeOK, NEW k \in Kinds, Spend(k)
  PROVE  left' \in [Kinds -> Nat]
  BY DEF Spend, TypeOK

LEMMA AllKinds == {"rescore", "undo", "award", "import", "remove", "drop", "wipe",
                   "fault", "lost", "down", "restart"} \subseteq Kinds
  BY DEF Kinds

LEMMA ReturnOK ==
  ASSUME TypeOK, NEW q \in Callers, Return(q)
  PROVE  /\ req' \in [Callers -> Callings] /\ req'[q] = Idle
         /\ \A p \in Callers \ {q} : req'[p] = req[p]
         /\ lock' \in Callers \cup {Free} /\ desk' \in Callers \cup {Free}
<1>1. Idle \in Callings
  BY Leads DEF Callings
<1> QED
  BY <1>1, GoToOK DEF Return, TypeOK

LEMMA AcquireOK ==
  ASSUME TypeOK, NEW q \in Callers, NEW s, NEW r \in Callings, Acquire(q, s, r)
  PROVE  TypeOK'
<1>1. req' \in [Callers -> Callings]
  BY GoToOK DEF Acquire
<1> QED
  BY <1>1 DEF Acquire, TypeOK, base, tables, history

LEMMA RowsOK ==
  /\ NoRow \in Row /\ Fresh \in Row
  /\ \A r \in Row : Requeue(r) \in Row
  /\ \A g \in Nat : [Fresh EXCEPT !.gen = g] \in Row
  /\ Idle.at = "idle"
  BY DEF NoRow, Fresh, Row, Requeue, Standing, Idle

LEMMA UpdatedOK ==
  ASSUME TypeOK, NEW m \in Games, NEW r \in Row
  PROVE  Updated(m, r) \in [Games -> Row]
  BY DEF Updated, TypeOK

LEMMA WritesOK ==
  ASSUME TypeOK, NEW rows \in [Games -> Row], Writes(rows)
  PROVE  row' \in [Games -> Row] /\ left' \in [Kinds -> Nat]
  BY SpendOK, AllKinds DEF Writes, TypeOK

\* A reversal only takes entries off DUPR.
Ages == /\ dupr' \in Seq(Entry) /\ DOMAIN dupr' = DOMAIN dupr
        /\ \A c \in DOMAIN dupr : /\ dupr'[c].game = dupr[c].game /\ dupr'[c].gen = dupr[c].gen
                                  /\ dupr'[c].live => dupr[c].live

LEMMA SeqOf ==
  ASSUME NEW S, NEW n \in Nat, NEW s \in [1..n -> S]
  PROVE  s \in Seq(S)
  OBVIOUS

LEMMA DeletesAges ==
  ASSUME TypeOK, NEW c, NEW gen, Deletes(c, gen)
  PROVE  Ages
<1>1. dupr \in Seq(Entry)
  BY DEF TypeOK
<1>2. dupr' = [dupr EXCEPT ![c].live = dupr[c].live /\ dupr[c].gen # gen]
  BY DEF Deletes
<1>3. \A d \in DOMAIN dupr : dupr[d] \in Entry
  BY <1>1
<1>4. DOMAIN dupr' = DOMAIN dupr
  BY <1>2
<1>5. \A d \in DOMAIN dupr : /\ dupr'[d] \in Entry
                             /\ dupr'[d].game = dupr[d].game /\ dupr'[d].gen = dupr[d].gen
                             /\ dupr'[d].live => dupr[d].live
  BY <1>2, <1>3 DEF Entry
<1>6. dupr' \in Seq(Entry)
  <2>1. PICK n \in Nat : DOMAIN dupr = 1..n
    BY <1>1
  <2>2. dupr' = [d \in 1..n |-> dupr'[d]]
    BY <1>2, <2>1
  <2> QED
    BY <1>5, <2>1, <2>2
<1> QED
  BY <1>4, <1>5, <1>6 DEF Ages

LEMMA CorrectsAges ==
  ASSUME TypeOK, NEW c, NEW s \in Nat, dupr' = [dupr EXCEPT ![c].score = s]
  PROVE  Ages
<1>1. dupr \in Seq(Entry)
  BY DEF TypeOK
<1>2. \A d \in DOMAIN dupr : dupr[d] \in Entry
  BY <1>1
<1>3. DOMAIN dupr' = DOMAIN dupr
  OBVIOUS
<1>4. \A d \in DOMAIN dupr : /\ dupr'[d] \in Entry
                             /\ dupr'[d].game = dupr[d].game /\ dupr'[d].gen = dupr[d].gen
                             /\ dupr'[d].live => dupr[d].live
  BY <1>2 DEF Entry
<1>5. dupr' \in Seq(Entry)
  <2>1. PICK n \in Nat : DOMAIN dupr = 1..n
    BY <1>1
  <2>2. dupr' \in [1..n -> Entry]
    BY <1>4, <2>1
  <2> QED
    BY <2>2, SeqOf
<1> QED
  BY <1>3, <1>4, <1>5 DEF Ages

LEMMA SameAges ==
  ASSUME TypeOK, UNCHANGED dupr
  PROVE  Ages
  BY DEF Ages, TypeOK

LEMMA DeleteMatchAges ==
  ASSUME TypeOK, NEW c, NEW gen, NEW answered, DeleteMatch(c, gen, answered)
  PROVE  Ages /\ left' \in [Kinds -> Nat]
<1>1. Ages
  BY DeletesAges, SameAges DEF DeleteMatch
<1>2. left' \in [Kinds -> Nat]
  BY SpendOK, AllKinds DEF DeleteMatch, TypeOK
<1> QED
  BY <1>1, <1>2

LEMMA TypeScores ==
  ASSUME TypeOK
  PROVE  /\ \A q \in Requests, m \in Games : \A s \in Scores(m) : Score(q, m, s) => TypeOK'
         /\ \A m \in Games : Undo(m) \/ Link(m) => TypeOK'
<1> USE DEF base, tables, locks, history
<1>1. ASSUME NEW q \in Requests, NEW m \in Games, NEW s \in Scores(m), Score(q, m, s)
      PROVE  TypeOK'
  <2>1. q \in Callers /\ s \in Nat
    BY DEF Callers, Scores
  <2>2. Result("played", s) \in Grade
    BY <2>1 DEF Result, Grade
  <2>3. Queueing({m}, "return") \in Callings
    BY Leads DEF Nexts, Callings
  <2>4. req' \in [Callers -> Callings]
    BY <1>1, <2>1, <2>3, GoToOK DEF Score
  <2>5. left' \in [Kinds -> Nat]
    BY <1>1, SpendOK, AllKinds DEF Score, TypeOK
  <2> QED
    BY <1>1, <2>1, <2>2, <2>4, <2>5 DEF Score, TypeOK
<1>2. ASSUME NEW m \in Games, Undo(m)
      PROVE  TypeOK'
  <2>1. Open \in Grade
    BY DEF Open, Result, Grade
  <2> QED
    BY <1>2, <2>1, SpendOK, AllKinds DEF Undo, TypeOK
<1>3. ASSUME NEW m \in Games, Link(m)
      PROVE  TypeOK'
  BY <1>3 DEF Link, TypeOK
<1> QED
  BY <1>1, <1>2, <1>3

LEMMA TypeQueues ==
  ASSUME TypeOK, NEW q \in Callers
  PROVE  QueueRead(q) \/ QueueWrite(q) => TypeOK'
<1> USE DEF base, tables, locks, history
<1>1. req[q] \in Callings
  BY DEF TypeOK
<1>2. ASSUME QueueRead(q)
      PROVE  TypeOK'
  <2>1. PICK m \in req[q].games :
            GoTo(q, [at |-> "queue.write", game |-> m, known |-> Queued(m),
                     games |-> req[q].games \ {m}, then |-> req[q].then])
    BY <1>2 DEF QueueRead
  <2>2. req[q].games \in SUBSET Games /\ req[q].then \in Nexts
    BY <1>1, <1>2, Shapes DEF QueueRead, At
  <2>3. [at |-> "queue.write", game |-> m, known |-> Queued(m),
         games |-> req[q].games \ {m}, then |-> req[q].then] \in Callings
    BY <2>1, <2>2 DEF Callings, Waiting, Queued
  <2> QED
    BY <1>2, <2>1, <2>3, GoToOK DEF QueueRead, TypeOK
<1>3. ASSUME QueueWrite(q)
      PROVE  TypeOK'
  <2> DEFINE m == req[q].game
             next == Queueing(req[q].games, req[q].then)
             rows == IF req[q].known THEN Updated(m, Requeue(row[m]))
                     ELSE IF Queued(m) \/ result[m] = Gone THEN row
                     ELSE [row EXCEPT ![m] = Fresh]
  <2>1. m \in Games /\ next \in Callings
    BY <1>1, <1>3, Shapes, Leads DEF QueueWrite, At, Callings
  <2>2. Requeue(row[m]) \in Row /\ row \in [Games -> Row] /\ Fresh \in Row
    BY <2>1, RowsOK DEF TypeOK
  <2>3. rows \in [Games -> Row]
    BY <2>1, <2>2, UpdatedOK
  <2>4. Writes(rows)
    BY <1>3 DEF QueueWrite
  <2>5. row' \in [Games -> Row] /\ left' \in [Kinds -> Nat]
    BY <2>3, <2>4, WritesOK
  <2>6. /\ req' \in [Callers -> Callings]
        /\ lock' \in Callers \cup {Free} /\ desk' \in Callers \cup {Free}
    <3>1. CASE next = Idle
      BY <1>3, <3>1, ReturnOK DEF QueueWrite
    <3>2. CASE next # Idle
      BY <1>3, <2>1, <3>2, GoToOK DEF QueueWrite, TypeOK
    <3> QED
      BY <3>1, <3>2
  <2>7. missed' \subseteq Games
    BY <1>3, <2>1 DEF QueueWrite, TypeOK
  <2> QED
    BY <1>3, <2>5, <2>6, <2>7 DEF QueueWrite, TypeOK
<1> QED
  BY <1>2, <1>3

LEMMA TypeStarts ==
  ASSUME TypeOK, NEW q \in Callers
  PROVE  /\ Import(q) => TypeOK'
         /\ \A wave \in waves : Continue(q, wave) => TypeOK'
         /\ Remove(q, Games) => TypeOK'
         /\ WipeAll(q) => TypeOK'
         /\ \A m \in Games : Remove(q, {m}) \/ Award(q, m) \/ Drop(q, m) => TypeOK'
<1> USE AllKinds DEF base, tables, locks, history
<1>1. ASSUME Import(q)
      PROVE  TypeOK'
  <2>1. PICK games \in SUBSET Games : GoTo(q, Queueing(games, "flush"))
    BY <1>1 DEF Import
  <2>2. Queueing(games, "flush") \in Callings
    BY Leads DEF Callings, Nexts
  <2>3. left' \in [Kinds -> Nat]
    <3>1. CASE Spend("import")
      BY <3>1, SpendOK
    <3>2. CASE left["fault"] > 0 /\ left' = [left EXCEPT !["import"] = @ - 1, !["fault"] = @ - 1]
      <4>1. left \in [Kinds -> Nat] /\ left["import"] > 0
        BY <1>1 DEF Import, TypeOK
      <4>2. left["import"] - 1 \in Nat /\ left["fault"] - 1 \in Nat
        BY <3>2, <4>1, AllKinds
      <4> QED
        BY <3>2, <4>1, <4>2
    <3> QED
      BY <1>1, <3>1, <3>2 DEF Import
  <2> QED
    BY <1>1, <2>1, <2>2, <2>3, GoToOK DEF Import, TypeOK
<1>2. ASSUME NEW wave \in waves, Continue(q, wave)
      PROVE  TypeOK'
  <2>1. [at |-> "flush.lock", retry |-> FALSE, only |-> wave] \in Callings
    BY DEF Callings, Waiting, TypeOK
  <2> QED
    BY <1>2, <2>1, GoToOK DEF Continue, TypeOK
<1>3. ASSUME NEW games \in SUBSET Games, Remove(q, games)
      PROVE  TypeOK'
  <2>1. [at |-> "remove.lock", games |-> games] \in Callings
    BY DEF Callings, Waiting
  <2> QED
    BY <1>3, <2>1, GoToOK, SpendOK DEF Remove, TypeOK
<1>4. ASSUME WipeAll(q)
      PROVE  TypeOK'
  <2>1. Reversing(Games, "wipe") \in Callings
    BY Leads DEF Callings, Ends
  <2> QED
    BY <1>4, <2>1, GoToOK, SpendOK DEF WipeAll, TypeOK
<1>5. ASSUME NEW m \in Games, Award(q, m) \/ Drop(q, m)
      PROVE  TypeOK'
  <2>1. /\ Reversing({m}, "return") \in Callings
        /\ Reversing({m}, "delete") \in Callings
        /\ Awarded \in Grade
    BY Leads DEF Callings, Ends, Awarded, Result, Grade
  <2>2. CASE Award(q, m)
    BY <2>1, <2>2, GoToOK, SpendOK DEF Award, TypeOK
  <2>3. CASE Drop(q, m)
    BY <2>1, <2>3, GoToOK, SpendOK DEF Drop, TypeOK
  <2> QED
    BY <1>5, <2>2, <2>3
<1> QED
  BY <1>1, <1>2, <1>3, <1>4, <1>5

LEMMA TypeFlushRows ==
  ASSUME TypeOK, NEW q \in Callers
  PROVE  FlushLock(q) \/ FlushSelect(q) \/ FlushDefer(q) \/ FlushRead(q) \/ FlushEnd(q)
         \/ SelectFails(q) => TypeOK'
<1> USE DEF base, tables, locks, history
<1>1. req[q] \in Callings
  BY DEF TypeOK
<1>2. ASSUME FlushLock(q)
      PROVE  TypeOK'
  <2>1. [at |-> "flush.select", retry |-> req[q].retry, only |-> req[q].only] \in Callings
    BY <1>1, <1>2, Shapes DEF FlushLock, Acquire, At, Callings, Importing
  <2> QED
    BY <1>2, <2>1, AcquireOK DEF FlushLock
<1>3. ASSUME FlushSelect(q)
      PROVE  TypeOK'
  <2> DEFINE due(m) == ~req[q].retry \/ (~row[m].wait /\ row[m].attempts > 0)
             some == {n \in Selected(req[q].retry) \cap req[q].only : due(n)}
             rows == {[game |-> m, row |-> row[m]] : m \in some}
             f == [retry |-> req[q].retry, calls |-> 0, deferred |-> {}, rows |-> rows]
  <2>1. req[q].retry \in BOOLEAN /\ req[q].only \subseteq Games
    BY <1>1, <1>3, Shapes DEF FlushSelect, At
  <2>2. \A m \in some : m \in Games /\ row[m] \in Row
    BY <2>1 DEF TypeOK
  <2>3. rows \subseteq Item
    BY <2>2 DEF Item
  <2>4. f \in FlushState
    BY <2>1, <2>3 DEF FlushState
  <2>5. Rows(f) \in Callings
    BY <2>4, Leads DEF Callings
  <2>6. GoTo(q, Rows(f))
    BY <1>3 DEF FlushSelect
  <2> QED
    BY <1>3, <2>5, <2>6, GoToOK DEF FlushSelect, TypeOK
<1>4. ASSUME FlushDefer(q)
      PROVE  TypeOK'
  <2>1. req[q].flush \in FlushState
    BY <1>1, <1>4, Shapes DEF FlushDefer, At
  <2>2. {i.game : i \in req[q].flush.rows} \subseteq Games
    BY <2>1 DEF FlushState, Item
  <2>3. [req[q].flush EXCEPT !.rows = {}, !.deferred = {i.game : i \in req[q].flush.rows}] \in FlushState
    BY <2>1, <2>2 DEF FlushState
  <2> QED
    BY <1>4, <2>3, Leads, GoToOK DEF FlushDefer, TypeOK, Callings
<1>5. ASSUME FlushRead(q)
      PROVE  TypeOK'
  <2>1. req[q].flush \in FlushState
    BY <1>1, <1>5, Shapes DEF FlushRead, At
  <2>2. PICK i \in req[q].flush.rows :
            LET m == i.game
                f == [req[q].flush EXCEPT !.rows = @ \ {i}]
            IN  GoTo(q, CASE result[m] \in {Open, Gone}  -> Mark(f, i, "failed", 0)
                          [] result[m] = Awarded         -> Mark(f, i, "skipped", 0)
                          [] Played(m) /\ m \in unlinked -> Mark(f, i, "failed", 0)
                          [] OTHER -> [at |-> "flush.call", flush |-> [f EXCEPT !.calls = @ + 1],
                                       item |-> i, score |-> result[m].score])
    BY <1>5 DEF FlushRead
  <2> DEFINE m == i.game
             f == [req[q].flush EXCEPT !.rows = @ \ {i}]
             call == [at |-> "flush.call", flush |-> [f EXCEPT !.calls = @ + 1],
                      item |-> i, score |-> result[m].score]
  <2>3. i \in Item /\ m \in Games /\ result[m].score \in Nat
    BY <2>1, <2>2 DEF FlushState, Item, TypeOK, Grade
  <2>4. f \in FlushState /\ [f EXCEPT !.calls = @ + 1] \in FlushState
    <3>1. f \in FlushState
      BY <2>1 DEF FlushState
    <3>2. \A g \in FlushState : [g EXCEPT !.calls = @ + 1] \in FlushState
      BY DEF FlushState
    <3> QED
      BY <3>1, <3>2
  <2>5. call \in Callings
    BY <2>3, <2>4 DEF Callings, Importing
  <2>6. Mark(f, i, "failed", 0) \in Callings /\ Mark(f, i, "skipped", 0) \in Callings
    BY <2>3, <2>4, Leads DEF Callings, Standing
  <2> HIDE DEF call, f, m
  <2>7. \E r \in Callings : GoTo(q, r)
    BY <2>2, <2>5, <2>6 DEF call, f, m
  <2> QED
    BY <1>5, <2>7, GoToOK DEF FlushRead, TypeOK
<1>6. ASSUME FlushEnd(q)
      PROVE  TypeOK'
  <2>1. req[q].flush \in FlushState
    BY <1>1, <1>6, Shapes DEF FlushEnd, At
  <2>2. waves' \subseteq SUBSET Games
    BY <1>6, <2>1 DEF FlushEnd, FlushState, TypeOK
  <2> QED
    BY <1>6, <2>2, ReturnOK DEF FlushEnd, TypeOK
<1>7. ASSUME SelectFails(q)
      PROVE  TypeOK'
  BY <1>7, ReturnOK, SpendOK, AllKinds DEF SelectFails, TypeOK
<1> QED
  BY <1>2, <1>3, <1>4, <1>5, <1>6, <1>7

LEMMA TypeFlushCalls ==
  ASSUME TypeOK, NEW q \in Callers
  PROVE  Create(q) \/ Correct(q) \/ FlushFails(q) \/ FlushMark(q) \/ FlushRetry(q) => TypeOK'
<1> USE AllKinds DEF base, tables, locks, history
<1> DEFINE f == req[q].flush
           i == req[q].item
<1>1. req[q] \in Callings
  BY DEF TypeOK
<1>2. ASSUME req[q].at \in {"flush.call", "flush.mark", "flush.retry"}
      PROVE  f \in FlushState /\ i \in Item /\ Rows(f) \in Callings
  BY <1>1, <1>2, Shapes, Leads DEF Callings
<1>3. ASSUME At(q, "flush.call")
      PROVE  /\ req[q].score \in Nat
             /\ [at |-> "flush.retry", flush |-> f, item |-> i] \in Callings
             /\ \A s \in Standing, c \in Nat : Mark(f, i, s, c) \in Callings
  <2>1. f \in FlushState /\ i \in Item
    BY <1>2, <1>3 DEF At
  <2> QED
    BY <1>1, <1>3, <2>1, Shapes, Leads DEF At, Callings, Importing
<1>4. dupr \in Seq(Entry)
  BY DEF TypeOK
<1>5. ASSUME Create(q)
      PROVE  TypeOK'
  <2> DEFINE new == Append(dupr, [game |-> i.game, gen |-> i.row.gen, score |-> req[q].score,
                                  live |-> TRUE])
  <2>1. At(q, "flush.call")
    BY <1>5 DEF Create
  <2>2. i \in Item
    BY <1>2, <2>1 DEF At
  <2>3. new \in Seq(Entry) /\ Len(new) \in Nat
    BY <1>3, <1>4, <2>1, <2>2 DEF Item, Row, Entry
  <2>4. Mark(f, i, "submitted", Len(new)) \in Callings /\ Mark(f, i, "orphaned", 0) \in Callings
    BY <1>3, <2>1, <2>3 DEF Standing
  <2> HIDE DEF new
  <2>5. CASE Taken(i) /\ Conflict(q, i) /\ UNCHANGED <<dupr, left>>
    <3>1. GoTo(q, Mark(f, i, "orphaned", 0)) /\ row' = row
      BY <2>5 DEF Conflict
    <3> QED
      BY <1>5, <2>4, <2>5, <3>1, GoToOK DEF Create, TypeOK
  <2>6. CASE dupr' = new /\ row' = row /\ GoTo(q, Mark(f, i, "submitted", Len(new))) /\ UNCHANGED left
    BY <1>5, <2>3, <2>4, <2>6, GoToOK DEF Create, TypeOK
  <2>7. CASE dupr' = new /\ row' = row /\ Retry(q) /\ Spend("lost")
    BY <1>3, <1>5, <2>1, <2>3, <2>7, GoToOK, SpendOK DEF Create, TypeOK, Retry
  <2> QED
    BY <1>5, <2>5, <2>6, <2>7 DEF Create, new
<1>6. ASSUME Correct(q)
      PROVE  TypeOK'
  <2> DEFINE there == dupr[i.row.ref].live /\ dupr[i.row.ref].gen = i.row.gen
  <2>1. At(q, "flush.call")
    BY <1>6 DEF Correct
  <2>2. i \in Item /\ i.row.ref \in Nat
    BY <1>2, <2>1 DEF At, Item, Row
  <2>3. dupr' \in Seq(Entry)
    <3>1. CASE there
      BY <1>3, <1>6, <2>1, <3>1, CorrectsAges DEF Correct, Ages
    <3>2. CASE ~there
      BY <1>4, <1>6, <3>2 DEF Correct
    <3> QED
      BY <3>1, <3>2
  <2>4. (IF there THEN "submitted" ELSE "failed") \in Standing
    BY DEF Standing
  <2>5. Mark(f, i, IF there THEN "submitted" ELSE "failed", i.row.ref) \in Callings
    BY <1>3, <2>1, <2>2, <2>4
  <2>6. req' \in [Callers -> Callings] /\ left' \in [Kinds -> Nat]
    <3>1. CASE GoTo(q, Mark(f, i, IF there THEN "submitted" ELSE "failed", i.row.ref)) /\ UNCHANGED left
      BY <2>5, <3>1, GoToOK DEF TypeOK
    <3>2. CASE Retry(q) /\ Spend("lost")
      BY <1>3, <2>1, <3>2, GoToOK, SpendOK DEF Retry
    <3> QED
      BY <1>6, <3>1, <3>2 DEF Correct
  <2> QED
    BY <1>6, <2>3, <2>6 DEF Correct, TypeOK
<1>7. ASSUME FlushFails(q)
      PROVE  TypeOK'
  <2>1. At(q, "flush.call")
    BY <1>7 DEF FlushFails
  <2>2. i.row.ref \in Nat /\ "failed" \in Standing
    BY <1>2, <2>1 DEF At, Item, Row, Standing
  <2>3. \E r \in Callings : GoTo(q, r)
    BY <1>3, <1>7, <2>1, <2>2 DEF FlushFails, Retry
  <2> QED
    BY <1>7, <2>3, GoToOK, SpendOK DEF FlushFails, TypeOK
<1>8. ASSUME FlushMark(q)
      PROVE  TypeOK'
  <2> DEFINE m == i.game
             new == [row[m] EXCEPT !.status = req[q].status, !.ref = req[q].ref, !.wait = FALSE]
  <2>1. f \in FlushState /\ i \in Item /\ Rows(f) \in Callings
    BY <1>2, <1>8 DEF FlushMark, At
  <2>2. req[q].status \in Standing /\ req[q].ref \in Nat
    BY <1>1, <1>8, Shapes DEF FlushMark, At
  <2>3. m \in Games /\ row[m] \in Row
    BY <2>1 DEF Item, TypeOK
  <2>4. new \in Row
    BY <2>2, <2>3 DEF Row
  <2>5. Updated(m, new) \in [Games -> Row]
    BY <2>3, <2>4, UpdatedOK
  <2>6. row' \in [Games -> Row] /\ left' \in [Kinds -> Nat]
    BY <1>8, <2>5, SpendOK DEF FlushMark, TypeOK
  <2>7. [req[q] EXCEPT !.tries = 1] \in Callings
    BY <1>1, <1>8 DEF FlushMark, At, Callings, Importing, Waiting, Removing, Withdrawing
  <2>8. \E r \in Callings : GoTo(q, r)
    BY <1>8, <2>1, <2>7 DEF FlushMark
  <2>9. missed' \subseteq Games
    BY <1>8, <2>3 DEF FlushMark, TypeOK
  <2> QED
    BY <1>8, <2>6, <2>8, <2>9, GoToOK DEF FlushMark, TypeOK
<1>9. ASSUME FlushRetry(q)
      PROVE  TypeOK'
  <2> DEFINE n == i.row.attempts + 1
             new == [row[i.game] EXCEPT !.attempts = n,
                        !.status = IF n >= duprMaxAttempts THEN "failed" ELSE "pending",
                        !.wait = n < duprMaxAttempts]
  <2>1. i \in Item /\ Rows(f) \in Callings
    BY <1>2, <1>9 DEF FlushRetry, At
  <2>2. i.game \in Games /\ row[i.game] \in Row
    BY <2>1 DEF Item, TypeOK
  <2>3. new \in Row
    <3>1. i.row.attempts \in Nat /\ duprMaxAttempts \in Nat
      BY <2>1 DEF Item, Row
    <3>2. n \in Nat /\ (n >= duprMaxAttempts) \in BOOLEAN /\ (n < duprMaxAttempts) \in BOOLEAN
      BY <3>1
    <3>3. {"failed", "pending"} \subseteq Standing
      BY DEF Standing
    <3>4. \A r \in Row, k \in Nat, st \in Standing, w \in BOOLEAN :
              [r EXCEPT !.attempts = k, !.status = st, !.wait = w] \in Row
      BY DEF Row
    <3> QED
      BY <2>2, <3>2, <3>3, <3>4
  <2>4. Updated(i.game, new) \in [Games -> Row]
    BY <2>2, <2>3, UpdatedOK
  <2>5. Writes(Updated(i.game, new)) /\ GoTo(q, Rows(f))
    BY <1>9 DEF FlushRetry
  <2> QED
    BY <1>9, <2>1, <2>4, <2>5, GoToOK, WritesOK DEF FlushRetry, TypeOK
<1> QED
  BY <1>5, <1>6, <1>7, <1>8, <1>9

LEMMA ReversalsOK ==
  ASSUME TypeOK, NEW games \in SUBSET Games
  PROVE  \A m \in games : Removal(m) \in Reversal
  BY DEF Removal, Reversal, Row, TypeOK

LEMMA TypeRemoves ==
  ASSUME TypeOK, NEW q \in Callers
  PROVE  RemoveLock(q) \/ RemoveSelect(q) \/ RemoveCall(q) \/ RemoveRow(q) \/ RemoveEnd(q) => TypeOK'
<1> USE DEF base, tables, locks, history
<1>1. req[q] \in Callings
  BY DEF TypeOK
<1>2. ASSUME RemoveLock(q)
      PROVE  TypeOK'
  <2>1. [at |-> "remove.select", games |-> req[q].games] \in Callings
    BY <1>1, <1>2, Shapes DEF RemoveLock, Acquire, At, Callings, Removing
  <2> QED
    BY <1>2, <2>1, AcquireOK DEF RemoveLock
<1>3. ASSUME RemoveSelect(q)
      PROVE  TypeOK'
  <2> DEFINE some == {n \in req[q].games :
                         row[n].ref # 0 /\ (req[q].games = Games => row[n].status = "submitted")}
             items == {Removal(m) : m \in some}
  <2>1. some \in SUBSET Games
    BY <1>1, <1>3, Shapes DEF RemoveSelect, At
  <2>2. items \subseteq Reversal
    BY <2>1, ReversalsOK
  <2>3. [at |-> "remove.rows", items |-> items] \in Callings
    BY <2>2 DEF Callings, Removing
  <2>4. GoTo(q, [at |-> "remove.rows", items |-> items])
    BY <1>3 DEF RemoveSelect
  <2> QED
    BY <1>3, <2>3, <2>4, GoToOK DEF RemoveSelect, TypeOK
<1>4. ASSUME RemoveCall(q)
      PROVE  TypeOK'
  <2>1. PICK i \in req[q].items, answered \in BOOLEAN :
           /\ DeleteMatch(i.ref, i.gen, answered)
           /\ GoTo(q, IF answered
                      THEN [at |-> "remove.row", item |-> i, items |-> req[q].items \ {i}]
                      ELSE [at |-> "remove.rows", items |-> req[q].items \ {i}])
    BY <1>4 DEF RemoveCall
  <2>2. req[q].items \in SUBSET Reversal
    BY <1>1, <1>4, Shapes DEF RemoveCall, At
  <2>3. \E r \in Callings : GoTo(q, r)
    BY <2>1, <2>2 DEF Callings, Removing
  <2>4. dupr' \in Seq(Entry) /\ left' \in [Kinds -> Nat]
    BY <2>1, DeleteMatchAges DEF Ages
  <2> QED
    BY <1>4, <2>3, <2>4, GoToOK DEF RemoveCall, TypeOK
<1>5. ASSUME RemoveRow(q)
      PROVE  TypeOK'
  <2> DEFINE i == req[q].item
             rows == Updated(i.game, [Fresh EXCEPT !.gen = i.gen + 1])
  <2>1. i \in Reversal /\ req[q].items \in SUBSET Reversal
    BY <1>1, <1>5, Shapes DEF RemoveRow, At
  <2>2. i.game \in Games /\ i.gen + 1 \in Nat
    BY <2>1 DEF Reversal
  <2>3. rows \in [Games -> Row]
    BY <2>2, RowsOK, UpdatedOK
  <2>4. [at |-> "remove.rows", items |-> req[q].items] \in Callings
    BY <2>1 DEF Callings, Removing
  <2>5. Writes(rows) /\ GoTo(q, [at |-> "remove.rows", items |-> req[q].items])
    BY <1>5 DEF RemoveRow
  <2> QED
    BY <1>5, <2>3, <2>4, <2>5, GoToOK, WritesOK DEF RemoveRow, TypeOK
<1>6. ASSUME RemoveEnd(q)
      PROVE  TypeOK'
  BY <1>6, ReturnOK DEF RemoveEnd, TypeOK
<1> QED
  BY <1>2, <1>3, <1>4, <1>5, <1>6

LEMMA TypeReverses ==
  ASSUME TypeOK, NEW q \in Callers
  PROVE  ReverseLock(q) \/ ReverseSelect(q) \/ ReverseQueue(q) \/ ReverseRows(q) \/ DeleteGames(q)
         => TypeOK'
<1> USE AllKinds DEF base, tables, locks, history
<1>1. req[q] \in Callings
  BY DEF TypeOK
<1>2. ASSUME At(q, "reverse.lock")
      PROVE  [req[q] EXCEPT !.at = "reverse.select"] \in Callings
  BY <1>1, <1>2 DEF At, Callings, Importing, Waiting, Removing, Withdrawing
<1>3. ASSUME req[q].at \in {"reverse.select", "reverse.rows"}
      PROVE  [req[q] EXCEPT !.at = "reverse.rows"] \in Callings
             /\ [req[q] EXCEPT !.at = "delete"] \in Callings
  BY <1>1, <1>3 DEF Callings, Importing, Waiting, Removing, Withdrawing
<1>4. ASSUME ReverseLock(q)
      PROVE  TypeOK'
  BY <1>2, <1>4, AcquireOK DEF ReverseLock, Acquire
<1>5. ASSUME At(q, "reverse.select"), ReverseNothing(q)
      PROVE  /\ req' \in [Callers -> Callings]
             /\ lock' \in Callers \cup {Free} /\ desk' \in Callers \cup {Free}
  <2>1. req[q].then \in Ends
    BY <1>1, <1>5, Shapes DEF At
  <2>2. CASE req[q].then = "return"
    BY <1>5, <2>2, ReturnOK DEF ReverseNothing
  <2>3. CASE req[q].then = "delete"
    <3>1. GoTo(q, [req[q] EXCEPT !.at = "delete"]) /\ lock' = Free /\ desk' = desk
      BY <1>5, <2>3 DEF ReverseNothing
    <3> QED
      BY <1>3, <1>5, <3>1, GoToOK DEF TypeOK, At
  <2>4. CASE req[q].then = "wipe"
    <3>1. GoTo(q, [req[q] EXCEPT !.at = "reverse.rows"]) /\ UNCHANGED locks
      BY <1>5, <2>4 DEF ReverseNothing
    <3> QED
      BY <1>3, <1>5, <3>1, GoToOK DEF TypeOK, At
  <2> QED
    BY <2>1, <2>2, <2>3, <2>4 DEF Ends
<1>6. ASSUME ReverseSelect(q)
      PROVE  TypeOK'
  <2>1. At(q, "reverse.select")
    BY <1>6 DEF ReverseSelect
  <2>2. req[q].games \in SUBSET Games /\ req[q].then \in Ends
    BY <1>1, <2>1, Shapes DEF At
  <2>3. Submitted(req[q].games) \subseteq Reversal
    BY <2>2, ReversalsOK DEF Submitted
  <2>4. [at |-> "reverse.queue", games |-> req[q].games, then |-> req[q].then,
         items |-> Submitted(req[q].games)] \in Callings
    BY <2>2, <2>3 DEF Callings, Withdrawing
  <2>5. CASE ReverseNothing(q)
    BY <1>5, <1>6, <2>1, <2>5, SpendOK DEF ReverseSelect, TypeOK
  <2>6. CASE ~ReverseNothing(q)
    <3>1. GoTo(q, [at |-> "reverse.queue", games |-> req[q].games, then |-> req[q].then,
                   items |-> Submitted(req[q].games)]) /\ UNCHANGED <<left, locks>>
      BY <1>6, <2>6 DEF ReverseSelect
    <3>2. req' \in [Callers -> Callings]
      BY <2>4, <3>1, GoToOK
    <3> QED
      BY <1>6, <3>1, <3>2 DEF ReverseSelect, TypeOK
  <2> QED
    BY <2>5, <2>6
<1>7. ASSUME ReverseQueue(q)
      PROVE  TypeOK'
  <2> DEFINE items == {[ref |-> i.ref, gen |-> i.gen, attempts |-> 0, wait |-> FALSE] : i \in req[q].items}
  <2>1. /\ req[q].games \in SUBSET Games /\ req[q].then \in Ends
        /\ req[q].items \in SUBSET Reversal
    BY <1>1, <1>7, Shapes DEF ReverseQueue, At
  <2>2. items \subseteq Pending
    <3>1. \A i \in req[q].items :
              [ref |-> i.ref, gen |-> i.gen, attempts |-> 0, wait |-> FALSE] \in Pending
      BY <2>1 DEF Reversal, Pending
    <3> QED
      BY <3>1
  <2>3. [at |-> "reverse.rows", games |-> req[q].games, then |-> req[q].then] \in Callings
    BY <2>1 DEF Callings, Withdrawing
  <2> HIDE DEF items
  <2>4. queue' \subseteq Pending /\ inline' \subseteq Pending /\ left' \in [Kinds -> Nat]
    BY <1>7, <2>2, SpendOK DEF ReverseQueue, TypeOK, items
  <2> QED
    BY <1>7, <2>3, <2>4, GoToOK DEF ReverseQueue, TypeOK
<1>8. ASSUME ReverseRows(q)
      PROVE  TypeOK'
  <2> DEFINE rows == [m \in Games |-> IF m \in req[q].games THEN NoRow ELSE row[m]]
  <2>1. At(q, "reverse.rows") /\ Writes(rows)
    BY <1>8 DEF ReverseRows
  <2>2. req[q].then \in Ends
    BY <1>1, <2>1, Shapes DEF At
  <2>3. rows \in [Games -> Row]
    BY RowsOK DEF TypeOK
  <2>4. row' \in [Games -> Row] /\ left' \in [Kinds -> Nat]
    BY <2>1, <2>3, WritesOK
  <2>5. /\ req' \in [Callers -> Callings]
        /\ lock' \in Callers \cup {Free} /\ desk' \in Callers \cup {Free}
    <3>1. CASE Return(q)
      BY <3>1, ReturnOK
    <3>2. CASE GoTo(q, [req[q] EXCEPT !.at = "delete"]) /\ lock' = Free /\ desk' = desk
      BY <1>3, <2>1, <3>2, GoToOK DEF At, TypeOK
    <3>3. CASE GoTo(q, [req[q] EXCEPT !.at = "delete"]) /\ UNCHANGED locks
      BY <1>3, <2>1, <3>3, GoToOK DEF At, TypeOK
    <3> QED
      BY <1>8, <2>2, <3>1, <3>2, <3>3 DEF ReverseRows, Ends
  <2> QED
    BY <1>8, <2>4, <2>5 DEF ReverseRows, TypeOK
<1>9. ASSUME DeleteGames(q)
      PROVE  TypeOK'
  <2>1. Gone \in Grade
    BY DEF Gone, Result, Grade
  <2>2. result' \in [Games -> Grade] /\ row' \in [Games -> Row]
    <3>1. result \in [Games -> Grade] /\ row \in [Games -> Row] /\ NoRow \in Row
      BY RowsOK DEF TypeOK
    <3>2. /\ [m \in Games |-> IF m \in req[q].games THEN Gone ELSE result[m]] \in [Games -> Grade]
          /\ [m \in Games |-> IF m \in req[q].games THEN NoRow ELSE row[m]] \in [Games -> Row]
      BY <2>1, <3>1
    <3> QED
      BY <1>9, <3>1, <3>2 DEF DeleteGames
  <2>3. left' \in [Kinds -> Nat]
    BY <1>9, SpendOK DEF DeleteGames, TypeOK
  <2> QED
    BY <1>9, <2>2, <2>3, ReturnOK DEF DeleteGames, TypeOK
<1> QED
  BY <1>4, <1>6, <1>7, <1>8, <1>9

LEMMA PendingOK ==
  /\ \A d \in Pending : /\ [d EXCEPT !.attempts = @ + 1] \in Pending
                        /\ [d EXCEPT !.attempts = @ + 1, !.wait = TRUE] \in Pending
                        /\ [d EXCEPT !.wait = FALSE] \in Pending
  /\ \A r \in Row : [r EXCEPT !.wait = FALSE] \in Row
<1>1. \A d \in Pending : d.attempts + 1 \in Nat
  BY DEF Pending
<1>2. \A d \in Pending, n \in Nat : [d EXCEPT !.attempts = n] \in Pending
  BY DEF Pending
<1>3. \A d \in Pending, n \in Nat : [d EXCEPT !.attempts = n, !.wait = TRUE] \in Pending
  BY DEF Pending
<1>4. \A d \in Pending : [d EXCEPT !.wait = FALSE] \in Pending
  BY DEF Pending
<1>5. \A r \in Row : [r EXCEPT !.wait = FALSE] \in Row
  BY DEF Row
<1> QED
  BY <1>1, <1>2, <1>3, <1>4, <1>5

LEMMA TypeTicker ==
  ASSUME TypeOK
  PROVE  Tick \/ Due \/ Restart \/ (\E d \in inline : InlineDelete(d)) => TypeOK'
<1> USE AllKinds DEF base, tables, locks, history
<1>1. Ticker \in Callers /\ req[Ticker] \in Callings
  BY DEF Callers, TypeOK
<1>2. ASSUME Drain
      PROVE  TypeOK'
  <2>1. \A items \in SUBSET Pending : [at |-> "drain", items |-> items] \in Callings
    BY DEF Callings, Waiting
  <2>2. {d \in queue : d.attempts < duprPendingDeleteMaxAttempts /\ ~d.wait} \in SUBSET Pending
        /\ {} \in SUBSET Pending
    BY DEF TypeOK
  <2>3. (\E r \in Callings : GoTo(Ticker, r)) /\ left' \in [Kinds -> Nat]
    BY <1>2, <2>1, <2>2, SpendOK DEF Drain, TypeOK
  <2> QED
    BY <1>1, <1>2, <2>3, GoToOK DEF Drain, TypeOK
<1>3. ASSUME DrainCall
      PROVE  TypeOK'
  <2>1. PICK d \in req[Ticker].items, answered \in BOOLEAN :
           /\ DeleteMatch(d.ref, d.gen, answered)
           /\ GoTo(Ticker, [at |-> "drain.write", item |-> d, done |-> answered,
                            items |-> req[Ticker].items \ {d}])
    BY <1>3 DEF DrainCall
  <2>2. req[Ticker].items \in SUBSET Pending
    BY <1>1, <1>3, Shapes DEF DrainCall, At
  <2>3. [at |-> "drain.write", item |-> d, done |-> answered,
         items |-> req[Ticker].items \ {d}] \in Callings
    BY <2>1, <2>2 DEF Callings, Waiting
  <2>4. dupr' \in Seq(Entry) /\ left' \in [Kinds -> Nat]
    BY <2>1, DeleteMatchAges DEF Ages
  <2> QED
    BY <1>1, <1>3, <2>1, <2>3, <2>4, GoToOK DEF DrainCall, TypeOK
<1>4. ASSUME DrainWrite
      PROVE  TypeOK'
  <2> DEFINE d == req[Ticker].item
             next == [d EXCEPT !.attempts = @ + 1, !.wait = TRUE]
  <2>1. d \in Pending /\ req[Ticker].items \in SUBSET Pending
    BY <1>1, <1>4, Shapes DEF DrainWrite, At
  <2>2. next \in Pending
    BY <2>1, PendingOK
  <2>3. [at |-> "drain", items |-> req[Ticker].items] \in Callings
    BY <2>1 DEF Callings, Waiting
  <2> HIDE DEF next
  <2>4. queue' \subseteq Pending
    BY <1>4, <2>2 DEF DrainWrite, TypeOK, next
  <2>5. left' \in [Kinds -> Nat]
    BY <1>4, SpendOK DEF DrainWrite, TypeOK
  <2> QED
    BY <1>1, <1>4, <2>3, <2>4, <2>5, GoToOK DEF DrainWrite, TypeOK
<1>5. ASSUME Reconcile
      PROVE  TypeOK'
  <2>1. [at |-> "flush.lock", retry |-> TRUE, only |-> Games] \in Callings /\ Idle \in Callings
    BY Leads DEF Callings, Waiting
  <2>2. \E r \in Callings : GoTo(Ticker, r)
    BY <1>5, <2>1 DEF Reconcile
  <2> QED
    BY <1>1, <1>5, <2>2, GoToOK DEF Reconcile, TypeOK
<1>6. ASSUME Due
      PROVE  TypeOK'
  <2>1. \A m \in Games : [row EXCEPT ![m].wait = FALSE] \in [Games -> Row]
    <3>1. row \in [Games -> Row]
      BY DEF TypeOK
    <3> SUFFICES ASSUME NEW m \in Games
                 PROVE  [row EXCEPT ![m] = [row[m] EXCEPT !.wait = FALSE]] \in [Games -> Row]
      OBVIOUS
    <3> QED
      BY <3>1, PendingOK
  <2>2. \A d \in queue : (queue \ {d}) \cup {[d EXCEPT !.wait = FALSE]} \subseteq Pending
    BY PendingOK DEF TypeOK
  <2>3. row' \in [Games -> Row]
    <3>1. row \in [Games -> Row]
      BY DEF TypeOK
    <3>2. UNCHANGED row \/ \E m \in Games : row' = [row EXCEPT ![m].wait = FALSE]
      BY <1>6 DEF Due
    <3> QED
      BY <2>1, <3>1, <3>2
  <2>4. queue' \subseteq Pending
    BY <1>6, <2>2 DEF Due, TypeOK
  <2> QED
    BY <1>6, <2>3, <2>4 DEF Due, TypeOK
<1>7. ASSUME Restart
      PROVE  TypeOK'
  <2>1. Idle \in Callings
    BY Leads DEF Callings
  <2>2. req' \in [Callers -> Callings]
    BY <1>7, <2>1 DEF Restart
  <2> QED
    BY <1>7, <2>2, SpendOK DEF Restart, TypeOK
<1>8. ASSUME NEW d \in inline, InlineDelete(d)
      PROVE  TypeOK'
  <2>1. PICK answered \in BOOLEAN :
           /\ DeleteMatch(d.ref, d.gen, answered)
           /\ inline' = (inline \ {d}) \cup {e \in {[d EXCEPT !.attempts = @ + 1]} :
                                                 ~answered /\ e.attempts < 3}
    BY <1>8 DEF InlineDelete
  <2>2. dupr' \in Seq(Entry) /\ left' \in [Kinds -> Nat]
    BY <2>1, DeleteMatchAges DEF Ages
  <2>3. [d EXCEPT !.attempts = @ + 1] \in Pending
    BY <1>8, PendingOK DEF TypeOK
  <2>4. inline' \subseteq Pending
    BY <2>1, <2>3 DEF TypeOK
  <2> QED
    BY <1>8, <2>2, <2>4 DEF InlineDelete, TypeOK
<1> QED
  BY <1>2, <1>3, <1>4, <1>5, <1>6, <1>7, <1>8 DEF Tick

LEMMA TypeNext ==
  ASSUME TypeOK, [Next]_vars
  PROVE  TypeOK'
<1>1. Requests \subseteq Callers
  BY DEF Callers
<1>2. CASE \E q \in Requests :
          \/ Import(q) \/ Remove(q, Games) \/ WipeAll(q)
          \/ \E m \in Games : Remove(q, {m}) \/ Award(q, m) \/ Drop(q, m)
                             \/ \E s \in Scores(m) : Score(q, m, s)
          \/ \E wave \in waves : Continue(q, wave)
  BY <1>1, <1>2, TypeScores, TypeStarts
<1>3. CASE \E q \in Requests : Handle(q)
  BY <1>1, <1>3, TypeQueues, TypeRemoves, TypeReverses DEF Handle
<1>4. CASE \E q \in Callers : Flush(q)
  BY <1>4, TypeFlushRows, TypeFlushCalls DEF Flush
<1>5. CASE Tick \/ Due \/ Restart \/ \E d \in inline : InlineDelete(d)
  BY <1>5, TypeTicker
<1>6. CASE \E m \in Games : Undo(m) \/ Link(m)
  BY <1>6, TypeScores
<1>7. CASE UNCHANGED vars
  BY <1>7 DEF vars, base, tables, locks, history, TypeOK
<1> QED
  BY <1>2, <1>3, <1>4, <1>5, <1>6, <1>7 DEF Next

LEMMA TypeInit ==
  ASSUME Init
  PROVE  TypeOK
<1>1. /\ event \in Occasions /\ event.unlinked \subseteq Games /\ event.calls \in [Kinds -> Nat]
  BY DEF Init
<1>2. Gone \in Grade /\ Open \in Grade /\ Result("played", 1) \in Grade
  BY DEF Gone, Open, Result, Grade
<1>3. result \in [Games -> Grade]
  BY <1>2 DEF Init
<1>4. row \in [Games -> Row]
  BY RowsOK DEF Init
<1>5. req \in [Callers -> Callings]
  BY Leads DEF Init, Callings
<1>6. dupr \in Seq(Entry)
  BY DEF Init
<1> QED
  BY <1>1, <1>3, <1>4, <1>5, <1>6 DEF Init, TypeOK

\* Whatever the handlers, the ticker and DUPR do, and in whatever order, rows,
\* results and what each caller has in hand stay what the code takes them for.
THEOREM DuprTyped == Spec => []TypeOK
  BY TypeInit, TypeNext, PTL DEF Spec

-----------------------------------------------------------------------------
(* A game's result counts once.                                              *)

\* An identifier, a game with its generation, is used once; a game's
\* generations are used in turn; and one of a game's entries is live.
Used(m, g) == \E c \in DOMAIN dupr : dupr[c].game = m /\ dupr[c].gen = g
DuprSound ==
    /\ \A c, d \in DOMAIN dupr :
           dupr[c].game = dupr[d].game /\ dupr[c].gen = dupr[d].gen => c = d
    /\ \A c \in DOMAIN dupr, g \in Nat : g < dupr[c].gen => Used(dupr[c].game, g)
    /\ \A c, d \in DOMAIN dupr :
           dupr[c].game = dupr[d].game /\ dupr[c].live /\ dupr[d].live => c = d

\* A generation that a row is at, or that a caller has in hand: the ones before
\* it were used and are dead, and its matchCode is of that generation.
Created(m, g, r) == r \in DOMAIN dupr /\ dupr[r].game = m /\ dupr[r].gen = g
Before(m, g) == /\ \A k \in Nat : k < g => Used(m, k)
                /\ \A c \in DOMAIN dupr : dupr[c].game = m /\ dupr[c].gen < g => ~dupr[c].live
Sound(m, g, r) == Before(m, g) /\ (r # 0 => Created(m, g, r))

RowsSound == \A m \in Games : Sound(m, row[m].gen, row[m].ref)

\* What a caller that holds the lock has in hand.
OfRow(i) == [game |-> i.game, ref |-> i.row.ref, gen |-> i.row.gen]
Carried(r) ==
    CASE r.at = "flush.rows" -> {OfRow(i) : i \in r.flush.rows}
      [] r.at \in {"flush.call", "flush.mark", "flush.retry"} ->
             {OfRow(i) : i \in r.flush.rows \cup {r.item}}
      [] r.at = "remove.rows" -> r.items
      [] r.at = "remove.row" -> r.items \cup {r.item}
      [] OTHER -> {}

\* Nobody else has moved the row on, though its game may be deleted meanwhile.
Away(m) == row[m] = NoRow /\ result[m] = Gone
InStep(x) == row[x.game].gen = x.gen \/ Away(x.game)

CallerSound(q) ==
    /\ req[q] \in Waiting \/ lock = q
    /\ \A x \in Carried(req[q]) :
           /\ Sound(x.game, x.gen, x.ref)
           /\ InStep(x)
           /\ \A y \in Carried(req[q]) : y.game = x.game => y = x
    /\ At(q, "flush.mark") /\ req[q].ref # 0
           => Created(req[q].item.game, req[q].item.row.gen, req[q].ref)
    /\ req[q].at \in {"remove.rows", "remove.row"} => \A x \in Carried(req[q]) : x.ref # 0
    /\ At(q, "remove.row")
           => req[q].item \notin req[q].items /\ ~dupr[req[q].item.ref].live

Safe == DuprSound /\ RowsSound /\ \A q \in Callers : CallerSound(q)

LEMMA EntriesOK ==
  ASSUME TypeOK
  PROVE  \A c \in DOMAIN dupr : dupr[c] \in Entry
<1>1. dupr \in Seq(Entry)
  BY DEF TypeOK
<1> QED
  BY <1>1

\* What was created keeps its place, whatever is deleted or corrected.
LEMMA AgesKeeps ==
  ASSUME TypeOK, Ages
  PROVE  /\ DuprSound => DuprSound'
         /\ \A m, g, r : Sound(m, g, r) => Sound(m, g, r)'
         /\ \A m, g, r : Created(m, g, r) => Created(m, g, r)'
         /\ \A c \in DOMAIN dupr : ~dupr[c].live => ~dupr'[c].live
<1>1. \A m, g : Used(m, g) => Used(m, g)'
  BY DEF Ages, Used
<1>2. ASSUME DuprSound
      PROVE  DuprSound'
  <2>1. \A c \in DOMAIN dupr : dupr[c].game = dupr'[c].game /\ dupr[c].gen = dupr'[c].gen
    BY DEF Ages
  <2>2. \A c, d \in DOMAIN dupr' :
           dupr'[c].game = dupr'[d].game /\ dupr'[c].gen = dupr'[d].gen => c = d
    BY <1>2, <2>1 DEF DuprSound, Ages
  <2>3. (\A c \in DOMAIN dupr, g \in Nat : g < dupr[c].gen => Used(dupr[c].game, g))'
    BY <1>2, <2>1 DEF DuprSound, Ages, Used
  <2>4. \A c, d \in DOMAIN dupr' :
           dupr'[c].game = dupr'[d].game /\ dupr'[c].live /\ dupr'[d].live => c = d
    BY <1>2, <2>1 DEF DuprSound, Ages
  <2> QED
    BY <2>2, <2>3, <2>4 DEF DuprSound
<1>3. \A m, g, r : Created(m, g, r) => Created(m, g, r)'
  BY DEF Ages, Created
<1>4. \A m, g : Before(m, g) => Before(m, g)'
  BY <1>1 DEF Ages, Before
<1> QED
  BY <1>2, <1>3, <1>4 DEF Ages, Sound

WaitLabels == {"idle", "queue", "queue.write", "flush.lock", "remove.lock",
               "reverse.lock", "delete", "drain", "drain.write"}

LEMMA Waits ==
  ASSUME TypeOK', NEW q \in Callers, req'[q].at \in WaitLabels
  PROVE  CallerSound(q)'
<1>1. req'[q] \in Waiting
  BY Labels DEF TypeOK, WaitLabels
<1>2. Carried(req[q])' = {}
  BY DEF Carried, WaitLabels
<1> QED
  BY <1>1, <1>2 DEF CallerSound, At, WaitLabels

LEMMA OneHolder ==
  ASSUME TypeOK, Safe, NEW q \in Callers, lock = q, NEW p \in Callers \ {q}
  PROVE  req[p] \in Waiting /\ req[p].at \in WaitLabels
<1>1. req[p] \in Waiting
  BY DEF Safe, CallerSound
<1> QED
  BY <1>1, Labels DEF TypeOK, WaitLabels

\* Rows keep their generation, or go with their game for good.
GensKept == \A m \in Games : /\ row'[m].gen = row[m].gen \/ Away(m)'
                             /\ Away(m) => Away(m)'

Others(q) == \A p \in Callers \ {q} : req'[p] = req[p] /\ (lock = p => lock' = p)

\* The callers that do not move keep what they have in hand.
LEMMA OthersSound ==
  ASSUME TypeOK, Ages, NEW p \in Callers, CallerSound(p),
         req'[p] = req[p], lock = p => lock' = p,
         GensKept \/ req[p].at \in WaitLabels
  PROVE  CallerSound(p)'
<1>1. req[p] \in Callings
  BY DEF TypeOK
<1>2. \A x \in Carried(req[p]) : x.game \in Games
  BY <1>1, Shapes DEF Carried, FlushState, Item, Reversal, OfRow
<1>3. Carried(req[p])' = Carried(req[p])
  BY DEF Carried, OfRow
<1>4. CASE req[p].at \in WaitLabels
  BY <1>1, <1>4, Labels DEF CallerSound, Carried, At, WaitLabels
<1>5. CASE GensKept
  <2>1. \A x \in Carried(req[p]) : InStep(x) => InStep(x)'
    BY <1>2, <1>5 DEF InStep, GensKept, Away
  <2>2. \A x \in Carried(req[p]) : Sound(x.game, x.gen, x.ref)'
    BY AgesKeeps DEF CallerSound
  <2>3. At(p, "flush.mark") /\ req[p].ref # 0
           => Created(req[p].item.game, req[p].item.row.gen, req[p].ref)'
    BY AgesKeeps DEF CallerSound
  <2>4. At(p, "remove.row") => ~dupr'[req[p].item.ref].live
    <3>1. SUFFICES ASSUME At(p, "remove.row")
                   PROVE  ~dupr'[req[p].item.ref].live
      OBVIOUS
    <3>2. req[p].item \in Carried(req[p]) /\ req[p].item.ref # 0
      BY <3>1 DEF CallerSound, Carried, At
    <3>3. req[p].item.ref \in DOMAIN dupr
      BY <3>2 DEF CallerSound, Sound, Created
    <3> QED
      BY <3>1, <3>3, AgesKeeps DEF CallerSound
  <2> QED
    BY <1>3, <2>1, <2>2, <2>3, <2>4 DEF CallerSound, At
<1> QED
  BY <1>4, <1>5

LEMMA StepSafe ==
  ASSUME TypeOK, Safe, NEW q \in Callers, Ages, GensKept \/ lock = q, Others(q),
         RowsSound', CallerSound(q)'
  PROVE  Safe'
<1>1. ASSUME NEW p \in Callers \ {q}
      PROVE  CallerSound(p)'
  <2>1. GensKept \/ req[p].at \in WaitLabels
    BY OneHolder
  <2> QED
    BY <2>1, OthersSound DEF Others, Safe
<1> QED
  BY <1>1, AgesKeeps DEF Safe

\* Rows that stay, that are emptied, or that were sound already.
LEMMA SoundRows ==
  ASSUME TypeOK, Safe, Ages,
         \A m \in Games : \/ row'[m].gen = row[m].gen /\ row'[m].ref = row[m].ref
                          \/ row'[m].gen = 0 /\ row'[m].ref = 0
                          \/ Sound(m, row'[m].gen, row'[m].ref)
  PROVE  RowsSound'
<1>1. \A m \in Games : Sound(m, 0, 0) /\ Sound(m, row[m].gen, row[m].ref)
  <2>1. \A c \in DOMAIN dupr : dupr[c].gen \in Nat
    BY EntriesOK DEF Entry
  <2>2. \A m \in Games : Sound(m, 0, 0)
    BY <2>1 DEF Sound, Before
  <2> QED
    BY <2>2 DEF Safe, RowsSound
<1>2. \A m \in Games : Sound(m, row'[m].gen, row'[m].ref)
  BY <1>1
<1>3. ASSUME NEW m \in Games
      PROVE  Sound(m, row[m].gen, row[m].ref)'
  <2> DEFINE g == row'[m].gen
             r == row'[m].ref
  <2>1. Sound(m, g, r)
    BY <1>2
  <2> HIDE DEF g, r
  <2>2. \A a, b : Sound(m, a, b) => (\A k \in Nat : k < a => Used(m, k)')
    BY AgesKeeps DEF Sound, Before, Ages, Used
  <2> QED
    BY <2>1, <2>2 DEF Sound, Before, Created, Ages, g, r
<1> QED
  BY <1>3 DEF RowsSound

\* A step of a caller that has nothing in hand after it.
LEMMA SafeWaits ==
  ASSUME TypeOK, TypeOK', Safe, NEW q \in Callers, Ages, GensKept \/ lock = q, Others(q),
         req'[q].at \in WaitLabels, RowsSound'
  PROVE  Safe'
  BY StepSafe, Waits

\* A step that is no caller's.
LEMMA SafeStill ==
  ASSUME TypeOK, Safe, Ages, GensKept, UNCHANGED <<req, lock>>, RowsSound'
  PROVE  Safe'
<1>1. \A p \in Callers : CallerSound(p)'
  BY OthersSound DEF Safe
<1> QED
  BY <1>1, AgesKeeps DEF Safe

GoneStays == \A m \in Games : result[m] = Gone => result'[m] = Gone

LEMMA RowsStay ==
  ASSUME TypeOK, Safe, UNCHANGED row, Ages, GoneStays
  PROVE  GensKept /\ RowsSound'
<1>1. GensKept
  BY DEF GensKept, Away, GoneStays
<1> QED
  BY <1>1, SoundRows

LEMMA GoesOthers ==
  ASSUME TypeOK, NEW q \in Callers, NEW r, GoTo(q, r)
  PROVE  req'[q] = r /\ \A p \in Callers \ {q} : req'[p] = req[p]
  BY DEF GoTo, TypeOK

LEMMA ReturnOthers ==
  ASSUME TypeOK, NEW q \in Callers, Return(q)
  PROVE  Others(q) /\ req'[q].at \in WaitLabels
<1>1. req'[q] = Idle /\ \A p \in Callers \ {q} : req'[p] = req[p]
  BY ReturnOK
<1>2. \A p \in Callers \ {q} : lock = p => lock' = p
  BY DEF Return
<1> QED
  BY <1>1, <1>2, RowsOK DEF Others, WaitLabels

\* A caller turns to something that it has yet to lock for.
LEMMA SafeTurns ==
  ASSUME TypeOK, TypeOK', Safe, NEW q \in Callers, NEW r, GoTo(q, r), UNCHANGED lock,
         r.at \in WaitLabels, UNCHANGED row, Ages, GoneStays
  PROVE  Safe'
<1>1. Others(q) /\ req'[q].at \in WaitLabels
  BY GoesOthers DEF Others
<1> QED
  BY <1>1, RowsStay, SafeWaits

LEMMA SafeReturns ==
  ASSUME TypeOK, TypeOK', Safe, NEW q \in Callers, Return(q), UNCHANGED row, Ages, GoneStays
  PROVE  Safe'
  BY ReturnOthers, RowsStay, SafeWaits

\* A caller with the lock that has nothing in hand yet.
LEMMA SafeLocks ==
  ASSUME TypeOK, TypeOK', Safe, NEW q \in Callers, NEW r, GoTo(q, r),
         lock \in {Free, q}, lock' = q,
         r.at \in {"flush.select", "remove.select", "reverse.select", "reverse.queue", "reverse.rows"},
         UNCHANGED row, Ages, GoneStays
  PROVE  Safe'
<1>1. Others(q)
  BY GoesOthers DEF Others, Callers
<1>2. req'[q] = r
  BY GoesOthers
<1>3. Carried(req[q])' = {}
  BY <1>2 DEF Carried
<1>4. CallerSound(q)'
  BY <1>2, <1>3 DEF CallerSound, At
<1> QED
  BY <1>1, <1>4, RowsStay, StepSafe

\* What is created on DUPR stays as it is.
LEMMA SameDupr ==
  ASSUME TypeOK, UNCHANGED dupr
  PROVE  Ages /\ (UNCHANGED result => GoneStays)
  BY SameAges DEF GoneStays

LEMMA SafeStarts ==
  ASSUME TypeOK, TypeOK', Safe
  PROVE  /\ \A q \in Requests, m \in Games : \A s \in Scores(m) : Score(q, m, s) => Safe'
         /\ \A q \in Callers : \/ Import(q) \/ Remove(q, Games) \/ WipeAll(q)
                               \/ (\E m \in Games : Remove(q, {m}) \/ Award(q, m) \/ Drop(q, m))
                               \/ (\E wave \in waves : Continue(q, wave))
                               \/ QueueRead(q)
                               => Safe'
<1> USE DEF base, tables, locks, history
<1>1. ASSUME NEW q \in Requests, NEW m \in Games, NEW s \in Scores(m), Score(q, m, s)
      PROVE  Safe'
  <2>1. GoTo(q, Queueing({m}, "return")) /\ UNCHANGED <<lock, row, dupr>>
    BY <1>1 DEF Score
  <2>2. Queueing({m}, "return").at \in WaitLabels
    BY DEF Queueing, WaitLabels
  <2>3. GoneStays
    BY <1>1 DEF Score, GoneStays, TypeOK
  <2> QED
    BY <2>1, <2>2, <2>3, SameDupr, SafeTurns DEF Callers
<1>2. ASSUME NEW q \in Callers,
             \/ Import(q) \/ Remove(q, Games) \/ WipeAll(q)
             \/ (\E m \in Games : Remove(q, {m}) \/ Award(q, m) \/ Drop(q, m))
             \/ (\E wave \in waves : Continue(q, wave))
             \/ QueueRead(q)
      PROVE  Safe'
  <2>1. UNCHANGED <<lock, row, dupr>>
    BY <1>2 DEF Import, Remove, WipeAll, Award, Drop, Continue, QueueRead
  <2>2. GoneStays
    BY <1>2 DEF Import, Remove, WipeAll, Award, Drop, Continue, QueueRead, GoneStays, TypeOK
  <2>3. PICK r : GoTo(q, r) /\ r.at \in WaitLabels
    <3>1. CASE Import(q)
      <4>1. PICK games \in SUBSET Games : GoTo(q, Queueing(games, "flush"))
        BY <3>1 DEF Import
      <4>2. Queueing(games, "flush").at \in WaitLabels
        BY RowsOK DEF Queueing, WaitLabels
      <4> QED
        BY <4>1, <4>2
    <3>2. ASSUME NEW games, Remove(q, games)
          PROVE  \E r : GoTo(q, r) /\ r.at \in WaitLabels
      <4> DEFINE r == [at |-> "remove.lock", games |-> games]
      <4>1. GoTo(q, r) /\ r.at \in WaitLabels
        BY <3>2 DEF Remove, WaitLabels
      <4> QED
        BY <4>1
    <3>3. \A games, then : Reversing(games, then).at \in WaitLabels
      BY DEF Reversing, WaitLabels
    <3>4. CASE WipeAll(q)
      BY <3>3, <3>4 DEF WipeAll
    <3>5. CASE \E m \in Games : Award(q, m) \/ Drop(q, m)
      BY <3>3, <3>5 DEF Award, Drop
    <3>6. CASE QueueRead(q)
      <4>1. PICK m \in req[q].games :
                GoTo(q, [at |-> "queue.write", game |-> m, known |-> Queued(m),
                         games |-> req[q].games \ {m}, then |-> req[q].then])
        BY <3>6 DEF QueueRead
      <4> DEFINE r == [at |-> "queue.write", game |-> m, known |-> Queued(m),
                       games |-> req[q].games \ {m}, then |-> req[q].then]
      <4>2. r.at \in WaitLabels
        BY DEF WaitLabels
      <4> QED
        BY <4>1, <4>2
    <3>7. ASSUME NEW wave \in waves, Continue(q, wave)
          PROVE  \E r : GoTo(q, r) /\ r.at \in WaitLabels
      <4> DEFINE r == [at |-> "flush.lock", retry |-> FALSE, only |-> wave]
      <4>1. GoTo(q, r) /\ r.at \in WaitLabels
        BY <3>7 DEF Continue, WaitLabels
      <4> QED
        BY <4>1
    <3> QED
      BY <1>2, <3>1, <3>2, <3>4, <3>5, <3>6, <3>7
  <2> QED
    BY <2>1, <2>2, <2>3, SameDupr, SafeTurns
<1> QED
  BY <1>1, <1>2

LEMMA SafeEnds ==
  ASSUME TypeOK, TypeOK', Safe, NEW q \in Callers
  PROVE  FlushEnd(q) \/ RemoveEnd(q) \/ SelectFails(q) => Safe'
<1>1. SUFFICES ASSUME FlushEnd(q) \/ RemoveEnd(q) \/ SelectFails(q)
               PROVE  Safe'
  OBVIOUS
<1>2. Return(q) /\ UNCHANGED <<row, dupr, result>>
  BY <1>1 DEF FlushEnd, RemoveEnd, SelectFails, base, tables
<1> QED
  BY <1>2, SameDupr, SafeReturns

LEMMA SafeAcquires ==
  ASSUME TypeOK, TypeOK', Safe, NEW q \in Callers
  PROVE  FlushLock(q) \/ RemoveLock(q) \/ ReverseLock(q) => Safe'
<1>1. SUFFICES ASSUME FlushLock(q) \/ RemoveLock(q) \/ ReverseLock(q)
               PROVE  Safe'
  OBVIOUS
<1>2. lock = Free /\ lock' = q /\ UNCHANGED <<row, dupr, result>>
  BY <1>1 DEF FlushLock, RemoveLock, ReverseLock, Acquire, base, tables
<1>3. PICK r : GoTo(q, r) /\ r.at \in {"flush.select", "remove.select", "reverse.select"}
  <2>1. CASE FlushLock(q) \/ RemoveLock(q)
    BY <2>1 DEF FlushLock, RemoveLock, Acquire
  <2>2. CASE ReverseLock(q)
    <3>1. req[q] \in [at : {"reverse.lock"}, games : SUBSET Games, then : Ends]
      BY <2>2 DEF ReverseLock, Acquire, At, TypeOK, Callings, Waiting, Importing, Removing, Withdrawing
    <3> QED
      BY <2>2, <3>1 DEF ReverseLock, Acquire
  <2> QED
    BY <1>1, <2>1, <2>2
<1> QED
  BY <1>2, <1>3, SameDupr, SafeLocks

\* An update by id of a row that keeps its generation.
LEMMA RowUpdated ==
  ASSUME TypeOK, Safe, Ages, GoneStays, NEW m \in Games, NEW r,
         r.gen = row[m].gen, r.ref = row[m].ref \/ Sound(m, r.gen, r.ref),
         row' = row \/ row' = Updated(m, r)
  PROVE  GensKept /\ RowsSound'
<1>1. row \in [Games -> Row]
  BY DEF TypeOK
<1>2. row' = row \/ (Queued(m) /\ row' = [row EXCEPT ![m] = r])
  BY DEF Updated
<1>3. \A n \in Games : row'[n] = row[n] \/ (n = m /\ Queued(m) /\ row'[n] = r)
  BY <1>1, <1>2
<1>4. GensKept
  BY <1>3 DEF GensKept, Away, GoneStays, Queued
<1>5. RowsSound'
  BY <1>3, SoundRows
<1> QED
  BY <1>4, <1>5

LEMMA SafeQueueWrite ==
  ASSUME TypeOK, TypeOK', Safe, NEW q \in Callers, QueueWrite(q)
  PROVE  Safe'
<1> USE DEF base, tables, locks, history
<1> DEFINE m == req[q].game
           next == Queueing(req[q].games, req[q].then)
<1>1. m \in Games
  BY Shapes DEF QueueWrite, At, TypeOK
<1>2. Ages /\ GoneStays
  BY SameDupr DEF QueueWrite
<1>3. \/ row' = row
      \/ row' = Updated(m, Requeue(row[m]))
      \/ row[m] = NoRow /\ result[m] # Gone /\ row' = [row EXCEPT ![m] = Fresh]
  BY DEF QueueWrite, Writes, Queued
<1>4. GensKept /\ RowsSound'
  <2>1. CASE row' = row \/ row' = Updated(m, Requeue(row[m]))
    <3>1. row[m] \in Row
      BY <1>1 DEF TypeOK
    <3>2. Requeue(row[m]).gen = row[m].gen /\ Requeue(row[m]).ref = row[m].ref
      BY <3>1 DEF Requeue, Row
    <3> QED
      BY <1>1, <1>2, <2>1, <3>2, RowUpdated
  <2>2. CASE row[m] = NoRow /\ result[m] # Gone /\ row' = [row EXCEPT ![m] = Fresh]
    <3>1. row[m].gen = 0 /\ row[m].ref = 0 /\ Fresh.gen = 0 /\ Fresh.ref = 0
      BY <2>2 DEF NoRow, Fresh
    <3>2. \A n \in Games : row'[n] = row[n] \/ (n = m /\ row'[n] = Fresh)
      BY <2>2 DEF TypeOK
    <3>3. GensKept
      BY <1>2, <2>2, <3>1, <3>2 DEF GensKept, Away, GoneStays
    <3> QED
      BY <1>2, <3>1, <3>2, <3>3, SoundRows
  <2> QED
    BY <1>3, <2>1, <2>2
<1>5. Others(q) /\ req'[q].at \in WaitLabels
  <2>1. CASE next = Idle
    BY <2>1, ReturnOthers DEF QueueWrite
  <2>2. CASE next # Idle
    <3>1. GoTo(q, next) /\ UNCHANGED locks
      BY <2>2 DEF QueueWrite
    <3>2. next.at \in WaitLabels
      BY RowsOK DEF Queueing, WaitLabels
    <3> QED
      BY <3>1, <3>2, GoesOthers DEF Others
  <2> QED
    BY <2>1, <2>2
<1> QED
  BY <1>2, <1>4, <1>5, SafeWaits

LEMMA SafeReverses ==
  ASSUME TypeOK, TypeOK', Safe, NEW q \in Callers
  PROVE  ReverseSelect(q) \/ ReverseQueue(q) \/ ReverseRows(q) => Safe'
<1> USE DEF base, tables, locks, history
<1>1. ASSUME req[q].at \in {"reverse.select", "reverse.queue", "reverse.rows"}
      PROVE  /\ lock = q /\ req[q].then \in Ends
             /\ [req[q] EXCEPT !.at = "reverse.rows"].at = "reverse.rows"
             /\ [req[q] EXCEPT !.at = "delete"].at = "delete"
  <2>1. req[q] \in Withdrawing /\ req[q] \notin Waiting
    BY <1>1, Labels DEF TypeOK
  <2>2. lock = q
    BY <2>1 DEF Safe, CallerSound
  <2> QED
    BY <2>1, <2>2 DEF Withdrawing
<1>2. ASSUME ReverseSelect(q), ReverseNothing(q)
      PROVE  Safe'
  <2>1. UNCHANGED <<row, dupr, result>> /\ At(q, "reverse.select")
    BY <1>2 DEF ReverseSelect
  <2>2. CASE req[q].then = "return"
    BY <1>2, <2>1, <2>2, SameDupr, SafeReturns DEF ReverseNothing
  <2>3. CASE req[q].then = "delete"
    <3>1. GoTo(q, [req[q] EXCEPT !.at = "delete"]) /\ lock' = Free
      BY <1>2, <2>3 DEF ReverseNothing
    <3>2. Others(q) /\ req'[q].at \in WaitLabels
      BY <1>1, <2>1, <3>1, GoesOthers DEF Others, At, WaitLabels
    <3> QED
      BY <2>1, <3>2, SameDupr, RowsStay, SafeWaits
  <2>4. CASE req[q].then = "wipe"
    <3>1. GoTo(q, [req[q] EXCEPT !.at = "reverse.rows"]) /\ UNCHANGED lock
      BY <1>2, <2>4 DEF ReverseNothing
    <3> QED
      BY <1>1, <2>1, <3>1, SameDupr, SafeLocks DEF At
  <2> QED
    BY <1>1, <2>1, <2>2, <2>3, <2>4 DEF Ends, At
<1>3. ASSUME ReverseSelect(q), ~ReverseNothing(q)
      PROVE  Safe'
  <2> DEFINE r == [at |-> "reverse.queue", games |-> req[q].games, then |-> req[q].then,
                   items |-> Submitted(req[q].games)]
  <2>1. At(q, "reverse.select") /\ GoTo(q, r) /\ UNCHANGED <<row, dupr, result, lock>>
    BY <1>3 DEF ReverseSelect
  <2>2. r.at = "reverse.queue"
    OBVIOUS
  <2> HIDE DEF r
  <2> QED
    BY <1>1, <2>1, <2>2, SameDupr, SafeLocks DEF At
<1>4. ASSUME ReverseQueue(q)
      PROVE  Safe'
  <2> DEFINE r == [at |-> "reverse.rows", games |-> req[q].games, then |-> req[q].then]
  <2>1. At(q, "reverse.queue") /\ GoTo(q, r) /\ UNCHANGED <<row, dupr, result, lock>>
    BY <1>4 DEF ReverseQueue
  <2>2. r.at = "reverse.rows"
    OBVIOUS
  <2> HIDE DEF r
  <2> QED
    BY <1>1, <2>1, <2>2, SameDupr, SafeLocks DEF At
<1>5. ASSUME ReverseRows(q)
      PROVE  Safe'
  <2> DEFINE rows == [m \in Games |-> IF m \in req[q].games THEN NoRow ELSE row[m]]
  <2>1. At(q, "reverse.rows") /\ Writes(rows) /\ UNCHANGED <<dupr, result>>
    BY <1>5 DEF ReverseRows
  <2>2. lock = q /\ req[q].then \in Ends
    BY <1>1, <2>1 DEF At
  <2>3. \A m \in Games : row'[m] = row[m] \/ row'[m] = NoRow
    BY <2>1 DEF Writes
  <2>4. Ages /\ RowsSound'
    BY <2>1, <2>3, SameDupr, SoundRows DEF NoRow
  <2>5. Others(q) /\ req'[q].at \in WaitLabels
    <3>1. CASE Return(q)
      BY <3>1, ReturnOthers
    <3>2. CASE GoTo(q, [req[q] EXCEPT !.at = "delete"])
      BY <1>1, <2>1, <2>2, <3>2, GoesOthers DEF Others, At, WaitLabels
    <3> QED
      BY <1>5, <2>2, <3>1, <3>2 DEF ReverseRows, Ends
  <2> QED
    BY <2>2, <2>4, <2>5, SafeWaits
<1> QED
  BY <1>2, <1>3, <1>4, <1>5

LEMMA SafeDeletes ==
  ASSUME TypeOK, TypeOK', Safe, NEW q \in Callers, DeleteGames(q)
  PROVE  Safe'
<1>1. Ages /\ Others(q) /\ req'[q].at \in WaitLabels
  BY SameDupr, ReturnOthers DEF DeleteGames
<1>2. \A m \in Games : \/ row'[m] = row[m] /\ result'[m] = result[m]
                       \/ row'[m] = NoRow /\ result'[m] = Gone
  BY DEF DeleteGames, TypeOK
<1>3. GensKept
  BY <1>2 DEF GensKept, Away
<1>4. RowsSound'
  BY <1>1, <1>2, SoundRows DEF NoRow
<1> QED
  BY <1>1, <1>3, <1>4, SafeWaits

LEMMA SafeTicker ==
  ASSUME TypeOK, TypeOK', Safe
  PROVE  Tick \/ Due \/ Restart \/ (\E m \in Games : Undo(m) \/ Link(m))
         \/ (\E d \in inline : InlineDelete(d)) => Safe'
<1> USE DEF base, tables, locks, history
<1>1. Ticker \in Callers
  BY DEF Callers
<1>2. ASSUME Tick
      PROVE  Safe'
  <2>1. UNCHANGED <<row, result, lock>> /\ GoneStays
    BY <1>2 DEF Tick, Drain, DrainCall, DrainWrite, Reconcile, GoneStays
  <2>2. Ages
    <3>1. CASE DrainCall
      BY <3>1, DeleteMatchAges DEF DrainCall
    <3>2. CASE Drain \/ DrainWrite \/ Reconcile
      BY <3>2, SameDupr DEF Drain, DrainWrite, Reconcile
    <3> QED
      BY <1>2, <3>1, <3>2 DEF Tick
  <2>3. Others(Ticker) /\ req'[Ticker].at \in WaitLabels
    <3>1. CASE Drain
      BY <1>1, <2>1, <3>1, GoesOthers DEF Drain, Others, WaitLabels
    <3>2. CASE DrainCall
      BY <1>1, <2>1, <3>2, GoesOthers DEF DrainCall, Others, WaitLabels
    <3>3. CASE DrainWrite
      BY <1>1, <2>1, <3>3, GoesOthers DEF DrainWrite, Others, WaitLabels
    <3>4. CASE Reconcile
      BY <1>1, <2>1, <3>4, GoesOthers, RowsOK DEF Reconcile, Others, WaitLabels
    <3> QED
      BY <1>2, <3>1, <3>2, <3>3, <3>4 DEF Tick
  <2> QED
    BY <1>1, <2>1, <2>2, <2>3, RowsStay, SafeWaits
<1>3. ASSUME Due
      PROVE  Safe'
  <2>1. Ages /\ GoneStays /\ UNCHANGED <<req, lock, result>>
    BY <1>3, SameDupr DEF Due
  <2>2. \A m \in Games : row'[m].gen = row[m].gen /\ row'[m].ref = row[m].ref
                         /\ (row[m] = NoRow => row'[m] = NoRow)
    <3>1. CASE UNCHANGED row
      BY <3>1
    <3>2. ASSUME NEW n \in Games, row[n].wait, row' = [row EXCEPT ![n].wait = FALSE]
          PROVE  \A m \in Games : row'[m].gen = row[m].gen /\ row'[m].ref = row[m].ref
                                  /\ (row[m] = NoRow => row'[m] = NoRow)
      <4>1. row \in [Games -> Row] /\ row[n] # NoRow
        BY <3>2 DEF TypeOK, NoRow
      <4> QED
        BY <3>2, <4>1 DEF Row
    <3> QED
      BY <1>3, <3>1, <3>2 DEF Due
  <2>3. GensKept /\ RowsSound'
    BY <2>1, <2>2, SoundRows DEF GensKept, Away
  <2> QED
    BY <2>1, <2>3, SafeStill
<1>4. ASSUME Restart
      PROVE  Safe'
  <2>1. Ages /\ GoneStays /\ UNCHANGED row /\ \A q \in Callers : req'[q] = Idle
    BY <1>4, SameDupr DEF Restart
  <2>2. \A q \in Callers : CallerSound(q)'
    BY <2>1, Waits, RowsOK DEF WaitLabels
  <2> QED
    BY <2>1, <2>2, RowsStay, AgesKeeps DEF Safe
<1>5. ASSUME NEW m \in Games, Undo(m) \/ Link(m)
      PROVE  Safe'
  <2>1. UNCHANGED <<row, dupr, req, lock>>
    BY <1>5 DEF Undo, Link
  <2>2. Gone.kind = "gone"
    BY DEF Gone, Result
  <2>3. UNCHANGED result \/ (result[m] # Gone /\ result' = [result EXCEPT ![m] = Open])
    BY <1>5, <2>2 DEF Undo, Link, Played
  <2>4. GoneStays
    BY <2>3 DEF GoneStays, TypeOK
  <2> QED
    BY <2>1, <2>4, SameDupr, RowsStay, SafeStill
<1>6. ASSUME NEW d \in inline, InlineDelete(d)
      PROVE  Safe'
  <2>1. Ages /\ UNCHANGED <<row, result, req, lock>>
    BY <1>6, DeleteMatchAges DEF InlineDelete
  <2>2. GoneStays
    BY <2>1 DEF GoneStays
  <2> QED
    BY <2>1, <2>2, RowsStay, SafeStill
<1> QED
  BY <1>2, <1>3, <1>4, <1>5, <1>6

LEMMA Holds ==
  ASSUME TypeOK, Safe, NEW q \in Callers, req[q].at \notin WaitLabels
  PROVE  lock = q
<1>1. req[q] \notin Waiting
  BY Labels DEF TypeOK, WaitLabels
<1> QED
  BY <1>1 DEF Safe, CallerSound

LEMMA CarriedOK ==
  ASSUME TypeOK, NEW q \in Callers
  PROVE  Carried(req[q]) \subseteq Reversal
<1>1. req[q] \in Callings
  BY DEF TypeOK
<1>2. \A i \in Item : OfRow(i) \in Reversal
  BY DEF OfRow, Item, Row, Reversal
<1>3. CASE req[q].at = "flush.rows"
  BY <1>1, <1>2, <1>3, Shapes DEF Carried, FlushState
<1>4. CASE req[q].at \in {"flush.call", "flush.mark", "flush.retry"}
  BY <1>1, <1>2, <1>4, Shapes DEF Carried, FlushState
<1>5. CASE req[q].at \in {"remove.rows", "remove.row"}
  BY <1>1, <1>5, Shapes DEF Carried
<1> QED
  BY <1>3, <1>4, <1>5 DEF Carried

\* A caller goes on with some of what it has in hand.
LEMMA SafeHolds ==
  ASSUME TypeOK, TypeOK', Safe, NEW q \in Callers, NEW r, GoTo(q, r), UNCHANGED lock,
         lock = q, Ages, GensKept, RowsSound',
         Carried(r) \subseteq Carried(req[q]),
         r.at = "flush.mark" /\ r.ref # 0 => Created(r.item.game, r.item.row.gen, r.ref),
         r.at \in {"remove.rows", "remove.row"} => \A x \in Carried(r) : x.ref # 0,
         r.at = "remove.row" => r.item \notin r.items /\ ~dupr'[r.item.ref].live
  PROVE  Safe'
<1>1. req'[q] = r /\ Others(q)
  BY GoesOthers DEF Others
<1>2. Carried(req[q])' = Carried(r)
  BY <1>1 DEF Carried, OfRow
<1>3. ASSUME NEW x \in Carried(r)
      PROVE  /\ Sound(x.game, x.gen, x.ref)' /\ InStep(x)'
             /\ \A y \in Carried(r) : y.game = x.game => y = x
  <2>1. x \in Carried(req[q]) /\ x.game \in Games
    BY CarriedOK DEF Reversal
  <2>2. Sound(x.game, x.gen, x.ref) /\ InStep(x)
    BY <2>1 DEF Safe, CallerSound
  <2>3. InStep(x)'
    BY <2>1, <2>2 DEF InStep, GensKept, Away
  <2>4. Sound(x.game, x.gen, x.ref)'
    BY <2>2, AgesKeeps
  <2> QED
    BY <2>1, <2>3, <2>4 DEF Safe, CallerSound
<1>4. r.at = "flush.mark" /\ r.ref # 0 => Created(r.item.game, r.item.row.gen, r.ref)'
  BY AgesKeeps
<1>5. CallerSound(q)'
  BY <1>1, <1>2, <1>3, <1>4 DEF CallerSound, At
<1> QED
  BY <1>1, <1>5, StepSafe

\* A caller takes rows in hand as it finds them.
LEMMA SafeTakes ==
  ASSUME TypeOK, TypeOK', Safe, NEW q \in Callers, NEW r, GoTo(q, r), lock = q,
         UNCHANGED <<lock, row, dupr, result>>,
         r.at \in {"flush.rows", "remove.rows"},
         \A x \in Carried(r) : x.game \in Games /\ x = Removal(x.game),
         r.at = "remove.rows" => \A x \in Carried(r) : x.ref # 0
  PROVE  Safe'
<1>1. req'[q] = r /\ Others(q)
  BY GoesOthers DEF Others
<1>2. Carried(req[q])' = Carried(r)
  BY <1>1 DEF Carried, OfRow
<1>3. Ages /\ GensKept /\ RowsSound'
  BY SameDupr, RowsStay
<1>4. ASSUME NEW x \in Carried(r)
      PROVE  /\ Sound(x.game, x.gen, x.ref)' /\ InStep(x)'
             /\ \A y \in Carried(r) : y.game = x.game => y = x
  <2>1. x.gen = row[x.game].gen /\ x.ref = row[x.game].ref
    BY DEF Removal
  <2>2. Sound(x.game, x.gen, x.ref)
    BY <2>1 DEF Safe, RowsSound
  <2> QED
    BY <1>3, <2>1, <2>2, AgesKeeps DEF InStep
<1>5. CallerSound(q)'
  BY <1>1, <1>2, <1>4 DEF CallerSound, At
<1> QED
  BY <1>1, <1>3, <1>5, StepSafe

LEMMA SafeSelects ==
  ASSUME TypeOK, TypeOK', Safe, NEW q \in Callers
  PROVE  FlushSelect(q) \/ RemoveSelect(q) => Safe'
<1> USE DEF base, tables, locks, history
<1>1. req[q] \in Callings
  BY DEF TypeOK
<1>2. ASSUME FlushSelect(q)
      PROVE  Safe'
  <2> DEFINE due(m) == ~req[q].retry \/ (~row[m].wait /\ row[m].attempts > 0)
             some == {n \in Selected(req[q].retry) \cap req[q].only : due(n)}
             rows == {[game |-> m, row |-> row[m]] : m \in some}
             f == [retry |-> req[q].retry, calls |-> 0, deferred |-> {}, rows |-> rows]
  <2>1. At(q, "flush.select") /\ GoTo(q, Rows(f)) /\ UNCHANGED <<lock, row, dupr, result>>
    BY <1>2 DEF FlushSelect
  <2>2. lock = q
    BY <2>1, Holds DEF At, WaitLabels
  <2>3. some \subseteq Games
    BY <1>1, <2>1, Shapes DEF At
  <2> HIDE DEF some
  <2>4. \A i \in rows : OfRow(i).game \in Games /\ OfRow(i) = Removal(OfRow(i).game)
    BY <2>3 DEF OfRow, Removal
  <2>5. Carried(Rows(f)) = {OfRow(i) : i \in rows} /\ Rows(f).at = "flush.rows"
    BY DEF Carried, Rows
  <2> HIDE DEF f, rows
  <2> QED
    BY <2>1, <2>2, <2>4, <2>5, SafeTakes
<1>3. ASSUME RemoveSelect(q)
      PROVE  Safe'
  <2> DEFINE some == {n \in req[q].games :
                         row[n].ref # 0 /\ (req[q].games = Games => row[n].status = "submitted")}
             items == {Removal(m) : m \in some}
             r == [at |-> "remove.rows", items |-> items]
  <2>1. At(q, "remove.select") /\ GoTo(q, r) /\ UNCHANGED <<lock, row, dupr, result>>
    BY <1>3 DEF RemoveSelect
  <2>2. lock = q
    BY <2>1, Holds DEF At, WaitLabels
  <2>3. some \subseteq Games
    BY <1>1, <2>1, Shapes DEF At
  <2>4. \A x \in items : x.game \in Games /\ x = Removal(x.game) /\ x.ref # 0
    BY <2>3 DEF Removal
  <2>5. Carried(r) = items /\ r.at = "remove.rows"
    BY DEF Carried
  <2> HIDE DEF r, items, some
  <2> QED
    BY <2>1, <2>2, <2>4, <2>5, SafeTakes
<1> QED
  BY <1>2, <1>3

\* What a flush that goes on has in hand.
LEMMA FlushCarries ==
  /\ \A f : Carried(Rows(f)) = {OfRow(i) : i \in f.rows} /\ Rows(f).at = "flush.rows"
  /\ \A f, i, s, c : /\ Carried(Mark(f, i, s, c)) = {OfRow(j) : j \in f.rows \cup {i}}
                     /\ Mark(f, i, s, c).at = "flush.mark"
                     /\ Mark(f, i, s, c).ref = c /\ Mark(f, i, s, c).item = i
  /\ \A f, i : LET r == [at |-> "flush.retry", flush |-> f, item |-> i]
               IN  Carried(r) = {OfRow(j) : j \in f.rows \cup {i}} /\ r.at = "flush.retry"
  /\ \A f, i, s : LET r == [at |-> "flush.call", flush |-> f, item |-> i, score |-> s]
                  IN  Carried(r) = {OfRow(j) : j \in f.rows \cup {i}} /\ r.at = "flush.call"
  BY DEF Carried, Rows, Mark

LEMMA FlushHolds ==
  ASSUME TypeOK, Safe, NEW q \in Callers,
         req[q].at \in {"flush.rows", "flush.call", "flush.mark", "flush.retry"}
  PROVE  /\ lock = q /\ req[q].flush \in FlushState
         /\ {OfRow(i) : i \in req[q].flush.rows} \subseteq Carried(req[q])
         /\ req[q].at # "flush.rows" =>
              /\ req[q].item \in Item /\ OfRow(req[q].item) \in Carried(req[q])
              /\ {OfRow(i) : i \in req[q].flush.rows \cup {req[q].item}} = Carried(req[q])
<1>1. req[q] \in Callings
  BY DEF TypeOK
<1>2. lock = q
  BY Holds DEF WaitLabels
<1>3. req[q].flush \in FlushState /\ (req[q].at # "flush.rows" => req[q].item \in Item)
  BY <1>1, Shapes
<1>4. CASE req[q].at = "flush.rows"
  BY <1>2, <1>3, <1>4 DEF Carried
<1>5. CASE req[q].at # "flush.rows"
  BY <1>2, <1>3, <1>5 DEF Carried
<1> QED
  BY <1>4, <1>5

\* The item in hand: what its row said of its matchCode.
LEMMA ItemSound ==
  ASSUME TypeOK, Safe, NEW q \in Callers, req[q].at \in {"flush.call", "flush.mark", "flush.retry"}
  PROVE  LET i == req[q].item
         IN  /\ i \in Item /\ i.game \in Games /\ i.row.gen \in Nat
             /\ Sound(i.game, i.row.gen, i.row.ref)
             /\ row[i.game].gen = i.row.gen \/ Away(i.game)
<1> DEFINE i == req[q].item
<1>1. i \in Item /\ OfRow(i) \in Carried(req[q])
  BY FlushHolds
<1>2. Sound(OfRow(i).game, OfRow(i).gen, OfRow(i).ref) /\ InStep(OfRow(i))
  BY <1>1 DEF Safe, CallerSound
<1> QED
  BY <1>1, <1>2 DEF OfRow, InStep, Item, Row

LEMMA SafeFlushRows ==
  ASSUME TypeOK, TypeOK', Safe, NEW q \in Callers
  PROVE  FlushDefer(q) \/ FlushRead(q) \/ FlushFails(q) => Safe'
<1> USE DEF base, tables, locks, history
<1>1. ASSUME UNCHANGED <<lock, row, dupr, result>>
      PROVE  Ages /\ GensKept /\ RowsSound'
  BY <1>1, SameDupr, RowsStay
<1>2. ASSUME FlushDefer(q)
      PROVE  Safe'
  <2> DEFINE f == [req[q].flush EXCEPT !.rows = {}, !.deferred = {i.game : i \in req[q].flush.rows}]
  <2>1. At(q, "flush.rows") /\ GoTo(q, Rows(f)) /\ UNCHANGED <<lock, row, dupr, result>>
    BY <1>2 DEF FlushDefer
  <2>2. lock = q /\ req[q].flush \in FlushState
    BY <2>1, FlushHolds DEF At
  <2>3. f.rows = {}
    BY <2>2 DEF FlushState
  <2> HIDE DEF f
  <2>4. Carried(Rows(f)) = {} /\ Rows(f).at = "flush.rows"
    BY <2>3, FlushCarries
  <2> QED
    BY <1>1, <2>1, <2>2, <2>4, SafeHolds
<1>3. ASSUME FlushRead(q)
      PROVE  Safe'
  <2>1. At(q, "flush.rows") /\ UNCHANGED <<lock, row, dupr, result>>
    BY <1>3 DEF FlushRead
  <2>2. PICK i \in req[q].flush.rows :
            LET m == i.game
                f == [req[q].flush EXCEPT !.rows = @ \ {i}]
            IN  GoTo(q, CASE result[m] \in {Open, Gone}  -> Mark(f, i, "failed", 0)
                          [] result[m] = Awarded         -> Mark(f, i, "skipped", 0)
                          [] Played(m) /\ m \in unlinked -> Mark(f, i, "failed", 0)
                          [] OTHER -> [at |-> "flush.call", flush |-> [f EXCEPT !.calls = @ + 1],
                                       item |-> i, score |-> result[m].score])
    BY <1>3 DEF FlushRead
  <2> DEFINE m == i.game
             f == [req[q].flush EXCEPT !.rows = @ \ {i}]
             g == [f EXCEPT !.calls = @ + 1]
             call == [at |-> "flush.call", flush |-> g, item |-> i, score |-> result[m].score]
  <2>3. /\ lock = q /\ req[q].flush \in FlushState
        /\ {OfRow(j) : j \in req[q].flush.rows} \subseteq Carried(req[q])
    BY <2>1, FlushHolds DEF At
  <2>4. f \in FlushState /\ f.rows = req[q].flush.rows \ {i}
    BY <2>3 DEF FlushState
  <2>5. g.rows = f.rows
    BY <2>4 DEF FlushState
  <2> HIDE DEF g, f, m
  <2>6. Carried(call) = {OfRow(j) : j \in f.rows \cup {i}} /\ call.at = "flush.call"
    BY <2>5 DEF Carried
  <2> HIDE DEF call
  <2>7. GoTo(q, Mark(f, i, "failed", 0)) \/ GoTo(q, Mark(f, i, "skipped", 0)) \/ GoTo(q, call)
    BY <2>2 DEF call, g, f, m
  <2>8. f.rows \cup {i} \subseteq req[q].flush.rows
    BY <2>2, <2>4
  <2>9. {OfRow(j) : j \in f.rows \cup {i}} \subseteq Carried(req[q])
    BY <2>3, <2>8
  <2>10. PICK r : /\ GoTo(q, r) /\ Carried(r) = {OfRow(j) : j \in f.rows \cup {i}}
                  /\ r.at = "flush.call" \/ (r.at = "flush.mark" /\ r.ref = 0)
    BY <2>6, <2>7, FlushCarries
  <2> QED
    BY <1>1, <2>1, <2>3, <2>9, <2>10, SafeHolds
<1>4. ASSUME FlushFails(q)
      PROVE  Safe'
  <2> DEFINE f == req[q].flush
             i == req[q].item
  <2>1. At(q, "flush.call") /\ UNCHANGED <<lock, row, dupr, result>>
    BY <1>4 DEF FlushFails
  <2>2. lock = q /\ {OfRow(j) : j \in f.rows \cup {i}} = Carried(req[q])
    BY <2>1, FlushHolds DEF At
  <2>3. i.row.ref # 0 => Created(i.game, i.row.gen, i.row.ref)
    BY <2>1, ItemSound DEF At, Sound
  <2>4. \/ GoTo(q, [at |-> "flush.retry", flush |-> f, item |-> i])
        \/ GoTo(q, Mark(f, i, "failed", i.row.ref))
    BY <1>4 DEF FlushFails, Retry
  <2>5. PICK r : /\ GoTo(q, r) /\ Carried(r) = {OfRow(j) : j \in f.rows \cup {i}}
                 /\ r.at = "flush.retry" \/ (r.at = "flush.mark" /\ r.ref = i.row.ref /\ r.item = i)
    BY <2>4, FlushCarries
  <2> QED
    BY <1>1, <2>1, <2>2, <2>3, <2>5, SafeHolds
<1> QED
  BY <1>2, <1>3, <1>4

LEMMA SafeFlushWrites ==
  ASSUME TypeOK, TypeOK', Safe, NEW q \in Callers
  PROVE  Correct(q) \/ FlushMark(q) \/ FlushRetry(q) => Safe'
<1> USE DEF base, tables, locks, history
<1> DEFINE f == req[q].flush
           i == req[q].item
<1>1. ASSUME req[q].at \in {"flush.call", "flush.mark", "flush.retry"}
      PROVE  /\ lock = q /\ i \in Item /\ i.game \in Games /\ i.row.gen \in Nat
             /\ {OfRow(j) : j \in f.rows \cup {i}} = Carried(req[q])
             /\ {OfRow(j) : j \in f.rows} \subseteq Carried(req[q])
             /\ Sound(i.game, i.row.gen, i.row.ref)
             /\ row[i.game].gen = i.row.gen \/ Away(i.game)
  BY <1>1, FlushHolds, ItemSound
<1>2. ASSUME Correct(q)
      PROVE  Safe'
  <2> DEFINE there == dupr[i.row.ref].live /\ dupr[i.row.ref].gen = i.row.gen
             status == IF there THEN "submitted" ELSE "failed"
  <2>1. At(q, "flush.call") /\ UNCHANGED <<lock, row, result>>
    BY <1>2 DEF Correct
  <2>2. req[q].score \in Nat
    BY <2>1, Shapes DEF At, TypeOK
  <2>3. Ages
    <3>1. CASE there
      BY <1>2, <2>2, <3>1, CorrectsAges DEF Correct
    <3>2. CASE ~there
      BY <1>2, <3>2, SameDupr DEF Correct
    <3> QED
      BY <3>1, <3>2
  <2>4. GensKept /\ RowsSound'
    BY <2>1, <2>3, RowsStay DEF GoneStays
  <2>5. i.row.ref # 0 => Created(i.game, i.row.gen, i.row.ref)
    BY <1>1, <2>1 DEF At, Sound
  <2>6. \/ GoTo(q, [at |-> "flush.retry", flush |-> f, item |-> i])
        \/ GoTo(q, Mark(f, i, status, i.row.ref))
    BY <1>2 DEF Correct, Retry
  <2> HIDE DEF status
  <2>7. PICK r : /\ GoTo(q, r) /\ Carried(r) = {OfRow(j) : j \in f.rows \cup {i}}
                 /\ r.at = "flush.retry" \/ (r.at = "flush.mark" /\ r.ref = i.row.ref /\ r.item = i)
    BY <2>6, FlushCarries
  <2> QED
    BY <1>1, <2>1, <2>3, <2>4, <2>5, <2>7, SafeHolds DEF At
<1>3. ASSUME FlushMark(q)
      PROVE  Safe'
  <2> DEFINE m == i.game
             new == [row[m] EXCEPT !.status = req[q].status, !.ref = req[q].ref, !.wait = FALSE]
             again == [req[q] EXCEPT !.tries = 1]
  <2>1. At(q, "flush.mark") /\ UNCHANGED <<lock, dupr, result>>
        /\ (row' = row \/ row' = Updated(m, new))
    BY <1>3 DEF FlushMark
  <2>2. req[q].ref # 0 => Created(m, i.row.gen, req[q].ref)
    BY <2>1 DEF Safe, CallerSound, At
  <2>3. row[m] \in Row
    BY <1>1, <2>1 DEF At, TypeOK
  <2>4. new.gen = row[m].gen /\ new.ref = req[q].ref
    BY <2>3 DEF Row
  <2>5. Ages /\ GoneStays
    BY <2>1, SameDupr
  <2>6. GensKept /\ RowsSound'
    <3>1. CASE row[m].gen = i.row.gen
      <4>1. Sound(m, new.gen, new.ref)
        BY <1>1, <2>1, <2>2, <2>4, <3>1 DEF At, Sound
      <4> HIDE DEF new
      <4> QED
        BY <1>1, <2>1, <2>4, <2>5, <4>1, RowUpdated DEF At
    <3>2. CASE Away(m)
      <4>1. row' = row
        BY <2>1, <3>2 DEF Updated, Queued, Away
      <4> QED
        BY <2>5, <4>1, RowsStay
    <3> QED
      BY <1>1, <2>1, <3>1, <3>2 DEF At
  <2>7. /\ again.at = "flush.mark" /\ again.ref = req[q].ref /\ again.item = i
        /\ again.flush = f
    <3>1. req[q] \in [at : {"flush.mark"}, flush : FlushState, item : Item, status : Standing,
                      ref : Nat, tries : Nat]
      BY <2>1 DEF At, TypeOK, Callings, Waiting, Importing, Removing, Withdrawing
    <3> QED
      BY <3>1
  <2>8. Carried(again) = {OfRow(j) : j \in f.rows \cup {i}}
    BY <2>7 DEF Carried
  <2>9. GoTo(q, Rows(f)) \/ GoTo(q, again)
    BY <1>3 DEF FlushMark
  <2> HIDE DEF again
  <2>10. PICK r : /\ GoTo(q, r) /\ Carried(r) \subseteq Carried(req[q])
                  /\ r.at = "flush.rows" \/ (r.at = "flush.mark" /\ r.ref = req[q].ref /\ r.item = i)
    BY <1>1, <2>1, <2>7, <2>8, <2>9, FlushCarries DEF At
  <2> QED
    BY <1>1, <2>1, <2>2, <2>5, <2>6, <2>10, SafeHolds DEF At
<1>4. ASSUME FlushRetry(q)
      PROVE  Safe'
  <2> DEFINE n == i.row.attempts + 1
             new == [row[i.game] EXCEPT !.attempts = n,
                        !.status = IF n >= duprMaxAttempts THEN "failed" ELSE "pending",
                        !.wait = n < duprMaxAttempts]
  <2>1. At(q, "flush.retry") /\ UNCHANGED <<lock, dupr, result>> /\ GoTo(q, Rows(f))
        /\ (row' = row \/ row' = Updated(i.game, new))
    BY <1>4 DEF FlushRetry, Writes
  <2>2. row[i.game] \in Row
    BY <1>1, <2>1 DEF At, TypeOK
  <2>3. new.gen = row[i.game].gen /\ new.ref = row[i.game].ref
    BY <2>2 DEF Row
  <2> HIDE DEF new
  <2>4. Ages /\ GoneStays
    BY <2>1, SameDupr
  <2>5. GensKept /\ RowsSound'
    BY <1>1, <2>1, <2>3, <2>4, RowUpdated DEF At
  <2>6. Carried(Rows(f)) \subseteq Carried(req[q]) /\ Rows(f).at = "flush.rows"
    BY <1>1, <2>1, FlushCarries DEF At
  <2> QED
    BY <1>1, <2>1, <2>4, <2>5, <2>6, SafeHolds DEF At
<1> QED
  BY <1>2, <1>3, <1>4

LEMMA SafeRemoves ==
  ASSUME TypeOK, TypeOK', Safe, NEW q \in Callers
  PROVE  RemoveCall(q) \/ RemoveRow(q) => Safe'
<1> USE DEF base, tables, locks, history
<1>1. ASSUME RemoveCall(q)
      PROVE  Safe'
  <2>1. PICK i \in req[q].items, answered \in BOOLEAN :
           /\ DeleteMatch(i.ref, i.gen, answered)
           /\ GoTo(q, IF answered
                      THEN [at |-> "remove.row", item |-> i, items |-> req[q].items \ {i}]
                      ELSE [at |-> "remove.rows", items |-> req[q].items \ {i}])
    BY <1>1 DEF RemoveCall
  <2>2. At(q, "remove.rows") /\ UNCHANGED <<lock, row, result>>
    BY <1>1 DEF RemoveCall
  <2>3. lock = q /\ Carried(req[q]) = req[q].items
    BY <2>2, Holds DEF At, WaitLabels, Carried
  <2>4. \A x \in Carried(req[q]) : x.ref # 0
    BY <2>2 DEF Safe, CallerSound, At
  <2>5. Ages /\ GensKept /\ RowsSound'
    BY <2>1, <2>2, DeleteMatchAges, RowsStay DEF GoneStays
  <2>6. Created(i.game, i.gen, i.ref)
    BY <2>1, <2>3, <2>4 DEF Safe, CallerSound, Sound
  <2>7. CASE answered
    <3> DEFINE r == [at |-> "remove.row", item |-> i, items |-> req[q].items \ {i}]
    <3>1. GoTo(q, r)
      BY <2>1, <2>7
    <3>2. Carried(r) \subseteq Carried(req[q])
      BY <2>3 DEF Carried
    <3>3. ~dupr'[i.ref].live
      <4>1. Deletes(i.ref, i.gen) /\ i.ref \in DOMAIN dupr /\ dupr[i.ref].gen = i.gen
        BY <2>1, <2>6, <2>7 DEF DeleteMatch, Created
      <4>2. dupr[i.ref] \in Entry
        BY <4>1, EntriesOK
      <4> QED
        BY <4>1, <4>2 DEF Deletes, Entry
    <3>4. r.at = "remove.row" /\ r.item = i /\ r.item \notin r.items
      OBVIOUS
    <3> HIDE DEF r
    <3> QED
      BY <2>2, <2>3, <2>4, <2>5, <3>1, <3>2, <3>3, <3>4, SafeHolds
  <2>8. CASE ~answered
    <3> DEFINE r == [at |-> "remove.rows", items |-> req[q].items \ {i}]
    <3>1. GoTo(q, r)
      BY <2>1, <2>8
    <3>2. Carried(r) \subseteq Carried(req[q]) /\ r.at = "remove.rows"
      BY <2>3 DEF Carried
    <3> HIDE DEF r
    <3> QED
      BY <2>2, <2>3, <2>4, <2>5, <3>1, <3>2, SafeHolds
  <2> QED
    BY <2>7, <2>8
<1>2. ASSUME RemoveRow(q)
      PROVE  Safe'
  <2> DEFINE i == req[q].item
             r == [at |-> "remove.rows", items |-> req[q].items]
             new == [Fresh EXCEPT !.gen = i.gen + 1]
  <2>1. /\ At(q, "remove.row") /\ UNCHANGED <<lock, dupr, result>> /\ GoTo(q, r)
        /\ (row' = row \/ row' = Updated(i.game, new))
    BY <1>2 DEF RemoveRow, Writes
  <2>2. lock = q /\ Carried(req[q]) = req[q].items \cup {i}
    BY <2>1, Holds DEF At, WaitLabels, Carried
  <2>3. /\ i \in Carried(req[q]) /\ i.ref # 0 /\ i \notin req[q].items /\ ~dupr[i.ref].live
        /\ Sound(i.game, i.gen, i.ref)
    BY <2>1, <2>2 DEF Safe, CallerSound, At
  <2>4. i.game \in Games /\ i.gen \in Nat
    BY <2>3, CarriedOK DEF Reversal
  <2>5. Created(i.game, i.gen, i.ref)
    BY <2>3 DEF Sound
  <2>6. Sound(i.game, i.gen + 1, 0)
    <3>1. \A k \in Nat : k < i.gen + 1 => Used(i.game, k)
      <4>1. Used(i.game, i.gen)
        BY <2>5 DEF Created, Used
      <4>2. \A k \in Nat : k < i.gen + 1 => k < i.gen \/ k = i.gen
        BY <2>4
      <4> QED
        BY <2>3, <4>1, <4>2 DEF Sound, Before
    <3>2. ASSUME NEW c \in DOMAIN dupr, dupr[c].game = i.game, dupr[c].gen < i.gen + 1
          PROVE  ~dupr[c].live
      <4>1. dupr[c].gen \in Nat
        BY EntriesOK DEF Entry
      <4>2. CASE dupr[c].gen < i.gen
        BY <2>3, <3>2, <4>2 DEF Sound, Before
      <4>3. CASE dupr[c].gen = i.gen
        <5>1. c = i.ref
          BY <2>5, <3>2, <4>3 DEF Safe, DuprSound, Created
        <5> QED
          BY <2>3, <5>1
      <4> QED
        BY <2>4, <3>2, <4>1, <4>2, <4>3
    <3> QED
      BY <3>1, <3>2 DEF Sound, Before
  <2>7. new.gen = i.gen + 1 /\ new.ref = 0
    BY DEF Fresh, NoRow
  <2> HIDE DEF new
  <2>8. \A m \in Games : row'[m] = row[m] \/ (m = i.game /\ ~Away(m) /\ row'[m] = new)
    BY <2>1 DEF Updated, Away, Queued, TypeOK
  <2>9. Ages /\ RowsSound'
    BY <2>1, <2>6, <2>7, <2>8, SameDupr, SoundRows
  <2>10. req'[q] = r /\ Others(q)
    BY <2>1, GoesOthers DEF Others
  <2>11. Carried(req[q])' = req[q].items
    BY <2>10 DEF Carried
  <2>12. ASSUME NEW x \in req[q].items
         PROVE  /\ Sound(x.game, x.gen, x.ref)' /\ InStep(x)' /\ x.ref # 0
                /\ \A y \in req[q].items : y.game = x.game => y = x
    <3>1. x \in Carried(req[q]) /\ x.game \in Games
      BY <2>2, CarriedOK DEF Reversal
    <3>2. x.game # i.game
      BY <2>3, <3>1 DEF Safe, CallerSound
    <3>3. InStep(x) /\ Sound(x.game, x.gen, x.ref)
      BY <3>1 DEF Safe, CallerSound
    <3>4. InStep(x)'
      BY <2>1, <2>8, <3>1, <3>2, <3>3 DEF InStep, Away
    <3>5. Sound(x.game, x.gen, x.ref)'
      BY <2>9, <3>3, AgesKeeps
    <3>6. x.ref # 0 /\ \A y \in req[q].items : y.game = x.game => y = x
      BY <2>1, <2>2, <3>1 DEF Safe, CallerSound, At
    <3> QED
      BY <3>4, <3>5, <3>6
  <2>13. CallerSound(q)'
    BY <2>1, <2>2, <2>10, <2>11, <2>12 DEF CallerSound, At
  <2> QED
    BY <2>2, <2>9, <2>10, <2>13, StepSafe
<1> QED
  BY <1>1, <1>2

\* A result is created under a generation that was never used, when all
\* earlier ones are dead.
LEMMA SafeCreates ==
  ASSUME TypeOK, TypeOK', Safe, NEW q \in Callers, Create(q)
  PROVE  Safe'
<1> USE DEF base, tables, locks, history
<1> DEFINE f == req[q].flush
           i == req[q].item
           e == [game |-> i.game, gen |-> i.row.gen, score |-> req[q].score, live |-> TRUE]
           new == Append(dupr, e)
           n == Len(dupr) + 1
<1>1. At(q, "flush.call") /\ i.row.ref = 0 /\ UNCHANGED <<lock, row, result>>
  BY DEF Create, Conflict
<1>2. /\ lock = q /\ i \in Item /\ i.game \in Games /\ i.row.gen \in Nat
      /\ {OfRow(j) : j \in f.rows \cup {i}} = Carried(req[q])
      /\ Sound(i.game, i.row.gen, i.row.ref)
      /\ row[i.game].gen = i.row.gen \/ Away(i.game)
  BY <1>1, FlushHolds, ItemSound DEF At
<1>3. CASE Taken(i) /\ Conflict(q, i) /\ UNCHANGED dupr
  <2>1. GoTo(q, Mark(f, i, "orphaned", 0))
    BY <1>3 DEF Conflict
  <2>2. PICK r : /\ GoTo(q, r) /\ Carried(r) = {OfRow(j) : j \in f.rows \cup {i}}
                 /\ r.at = "flush.mark" /\ r.ref = 0
    BY <2>1, FlushCarries
  <2>3. Ages /\ GensKept /\ RowsSound'
    BY <1>1, <1>3, SameDupr, RowsStay
  <2> QED
    BY <1>1, <1>2, <2>2, <2>3, SafeHolds
<1>4. CASE ~Taken(i) /\ dupr' = new
  <2>1. /\ dupr \in Seq(Entry) /\ n \in Nat /\ n # 0 /\ n \notin DOMAIN dupr
        /\ DOMAIN dupr' = DOMAIN dupr \cup {n} /\ dupr'[n] = e
        /\ \A c \in DOMAIN dupr : dupr'[c] = dupr[c]
    <3>1. dupr \in Seq(Entry)
      BY DEF TypeOK
    <3> HIDE DEF e
    <3> QED
      BY <1>4, <3>1
  <2>2. e.game = i.game /\ e.gen = i.row.gen /\ e.live
    OBVIOUS
  <2> HIDE DEF e, new, n
  <2>3. \A c \in DOMAIN dupr : dupr[c].game = i.game => dupr[c].gen < i.row.gen /\ ~dupr[c].live
    <3>1. SUFFICES ASSUME NEW c \in DOMAIN dupr, dupr[c].game = i.game
                   PROVE  dupr[c].gen < i.row.gen /\ ~dupr[c].live
      OBVIOUS
    <3>2. dupr[c].gen \in Nat
      BY EntriesOK DEF Entry
    <3>3. ~Used(i.game, i.row.gen)
      BY <1>4 DEF Taken, Used
    <3>4. dupr[c].gen # i.row.gen
      BY <3>1, <3>3 DEF Used
    <3>5. ~(i.row.gen < dupr[c].gen)
      BY <1>2, <3>1, <3>3 DEF Safe, DuprSound
    <3>6. dupr[c].gen < i.row.gen
      BY <1>2, <3>2, <3>4, <3>5
    <3> QED
      BY <1>2, <3>1, <3>6 DEF Sound, Before
  <2>4. \A m, g : Used(m, g) => Used(m, g)'
    BY <2>1 DEF Used
  <2>5. \A m, g, r : Created(m, g, r) => Created(m, g, r)'
    BY <2>1 DEF Created
  <2>6. DuprSound'
    <3>1. (\A c, d \in DOMAIN dupr :
              dupr[c].game = dupr[d].game /\ dupr[c].gen = dupr[d].gen => c = d)'
      BY <1>2, <2>1, <2>2, <2>3 DEF Safe, DuprSound
    <3>2. (\A c \in DOMAIN dupr, g \in Nat : g < dupr[c].gen => Used(dupr[c].game, g))'
      <4>1. SUFFICES ASSUME NEW c \in DOMAIN dupr', NEW g \in Nat, g < dupr'[c].gen
                     PROVE  \E d \in DOMAIN dupr' : dupr'[d].game = dupr'[c].game /\ dupr'[d].gen = g
        BY DEF Used
      <4>2. CASE c \in DOMAIN dupr
        BY <2>1, <4>1, <4>2 DEF Safe, DuprSound, Used
      <4>3. CASE c = n
        BY <1>2, <2>1, <2>2, <4>1, <4>3 DEF Sound, Before, Used
      <4> QED
        BY <2>1, <4>2, <4>3
    <3>3. (\A c, d \in DOMAIN dupr :
              dupr[c].game = dupr[d].game /\ dupr[c].live /\ dupr[d].live => c = d)'
      BY <2>1, <2>2, <2>3 DEF Safe, DuprSound
    <3> QED
      BY <3>1, <3>2, <3>3 DEF DuprSound
  <2>7. ASSUME NEW m, NEW g \in Nat, NEW r, Sound(m, g, r), m = i.game => g <= i.row.gen
        PROVE  Sound(m, g, r)'
    <3>1. \A k \in Nat : k < g => Used(m, k)'
      BY <2>4, <2>7 DEF Sound, Before
    <3>2. \A c \in DOMAIN dupr' : dupr'[c].game = m /\ dupr'[c].gen < g => ~dupr'[c].live
      BY <1>2, <2>1, <2>2, <2>7 DEF Sound, Before
    <3>3. r # 0 => Created(m, g, r)'
      BY <2>5, <2>7 DEF Sound
    <3> QED
      BY <3>1, <3>2, <3>3 DEF Sound, Before
  <2>8. RowsSound'
    <3>1. SUFFICES ASSUME NEW m \in Games
                   PROVE  Sound(m, row[m].gen, row[m].ref)'
      BY DEF RowsSound
    <3>2. row[m] \in Row /\ row[m].gen \in Nat
      BY DEF TypeOK, Row
    <3>3. m = i.game => row[m].gen <= i.row.gen
      BY <1>2, <3>2 DEF Away, NoRow
    <3>4. Sound(m, row[m].gen, row[m].ref)
      BY DEF Safe, RowsSound
    <3> QED
      BY <1>1, <2>7, <3>2, <3>3, <3>4
  <2>9. PICK r : /\ GoTo(q, r) /\ Carried(r) = {OfRow(j) : j \in f.rows \cup {i}}
                 /\ r.at = "flush.retry" \/ (r.at = "flush.mark" /\ r.ref = n /\ r.item = i)
    <3>1. Len(new) = n
      BY <2>1 DEF new, n
    <3>2. \/ GoTo(q, [at |-> "flush.retry", flush |-> f, item |-> i])
          \/ GoTo(q, Mark(f, i, "submitted", n))
      BY <1>4, <3>1 DEF Create, Retry, new, e
    <3> QED
      BY <3>2, FlushCarries
  <2>10. req'[q] = r /\ Others(q)
    BY <1>1, <2>9, GoesOthers DEF Others
  <2>11. Carried(req[q])' = Carried(req[q])
    <3>1. Carried(req[q])' = Carried(r)
      BY <2>10 DEF Carried, OfRow
    <3> QED
      BY <1>2, <2>9, <3>1
  <2>12. ASSUME NEW x \in Carried(req[q])
         PROVE  Sound(x.game, x.gen, x.ref)' /\ InStep(x)'
    <3>1. x \in Reversal /\ Sound(x.game, x.gen, x.ref) /\ InStep(x)
      BY CarriedOK DEF Safe, CallerSound
    <3>2. OfRow(i) \in Carried(req[q])
      BY <1>2
    <3>3. x.game = i.game => x.gen = i.row.gen
      BY <3>2 DEF Safe, CallerSound, OfRow
    <3>4. InStep(x)'
      BY <1>1, <3>1 DEF InStep, Away
    <3> QED
      BY <1>2, <2>7, <3>1, <3>3, <3>4 DEF Reversal
  <2>13. n \in DOMAIN dupr' /\ dupr'[n].game = i.game /\ dupr'[n].gen = i.row.gen
    BY <2>1, <2>2
  <2>14. CallerSound(q)'
    <3>1. \A x \in Carried(req[q]) : \A y \in Carried(req[q]) : y.game = x.game => y = x
      BY DEF Safe, CallerSound
    <3> QED
      BY <1>1, <1>2, <2>9, <2>10, <2>11, <2>12, <2>13, <3>1 DEF CallerSound, At, Created
  <2>15. ASSUME NEW p \in Callers \ {q}
         PROVE  CallerSound(p)'
    <3>1. req'[p].at \in WaitLabels
      BY <1>2, <2>10, OneHolder DEF Others
    <3> QED
      BY <3>1, Waits
  <2> QED
    BY <2>6, <2>8, <2>14, <2>15 DEF Safe
<1> QED
  BY <1>3, <1>4 DEF Create

LEMMA SafeNext ==
  ASSUME TypeOK, TypeOK', Safe, [Next]_vars
  PROVE  Safe'
<1>1. Requests \subseteq Callers
  BY DEF Callers
<1>2. CASE \E q \in Requests :
          \/ Import(q) \/ Remove(q, Games) \/ WipeAll(q)
          \/ \E m \in Games : Remove(q, {m}) \/ Award(q, m) \/ Drop(q, m)
                             \/ \E s \in Scores(m) : Score(q, m, s)
          \/ \E wave \in waves : Continue(q, wave)
  BY <1>1, <1>2, SafeStarts
<1>3. CASE \E q \in Requests : Handle(q)
  BY <1>1, <1>3, SafeStarts, SafeQueueWrite, SafeAcquires, SafeSelects, SafeRemoves, SafeEnds,
     SafeReverses, SafeDeletes DEF Handle
<1>4. CASE \E q \in Callers : Flush(q)
  BY <1>4, SafeAcquires, SafeSelects, SafeFlushRows, SafeFlushWrites, SafeCreates, SafeEnds DEF Flush
<1>5. CASE Tick \/ Due \/ Restart \/ (\E m \in Games : Undo(m) \/ Link(m))
           \/ (\E d \in inline : InlineDelete(d))
  BY <1>5, SafeTicker
<1>6. CASE UNCHANGED vars
  <2>1. UNCHANGED <<req, lock, row, dupr, result>>
    BY <1>6 DEF vars, base, tables, locks
  <2> QED
    BY <2>1, SameDupr, RowsStay, SafeStill
<1> QED
  BY <1>2, <1>3, <1>4, <1>5, <1>6 DEF Next

LEMMA SafeInit ==
  ASSUME Init, TypeOK
  PROVE  Safe
<1>1. dupr = <<>> /\ DOMAIN dupr = {}
  BY DEF Init
<1>2. DuprSound
  BY <1>1 DEF DuprSound
<1>3. RowsSound
  BY <1>1 DEF Init, RowsSound, Sound, Before, NoRow
<1>4. ASSUME NEW q \in Callers
      PROVE  CallerSound(q)
  <2>1. req[q] = Idle
    BY DEF Init
  <2>2. req[q] \in Waiting /\ req[q].at = "idle"
    BY <2>1, Leads, RowsOK
  <2>3. Carried(req[q]) = {}
    BY <2>2 DEF Carried
  <2> QED
    BY <2>2, <2>3 DEF CallerSound, At
<1> QED
  BY <1>2, <1>3, <1>4 DEF Safe

LEMMA SafeOnce ==
  ASSUME TypeOK, Safe
  PROVE  OnDuprOnce
<1>1. SUFFICES ASSUME NEW m \in Games
               PROVE  Cardinality(OnDupr(m)) <= 1
  BY DEF OnDuprOnce
<1>2. \A c, d \in OnDupr(m) : c = d
  BY DEF OnDupr, Safe, DuprSound
<1>3. CASE OnDupr(m) = {}
  <2>1. Cardinality({}) = 0
    BY FS_EmptySet
  <2> QED
    BY <1>3, <2>1
<1>4. CASE OnDupr(m) # {}
  <2>1. PICK c : c \in OnDupr(m)
    BY <1>4
  <2>2. OnDupr(m) = {c}
    BY <1>2, <2>1
  <2>3. Cardinality({c}) = 1
    BY FS_Singleton
  <2> QED
    BY <2>2, <2>3
<1> QED
  BY <1>3, <1>4

LEMMA DuprInvariant == Spec => [](TypeOK /\ Safe)
<1>1. Init => TypeOK /\ Safe
  BY TypeInit, SafeInit
<1>2. TypeOK /\ Safe /\ [Next]_vars => (TypeOK /\ Safe)'
  BY TypeNext, SafeNext
<1> QED
  BY <1>1, <1>2, PTL DEF Spec

\* However many imports, retries, removals, reversals and restarts there are,
\* and whatever answers are lost, a game's result is live on official ratings
\* at most once: only who holds lockDuprEvent creates, under an identifier
\* that was never used, and a row moves to the next generation once the entry
\* of the one before is gone (duprIdentifier, service.go:13297).
THEOREM OnDuprOnceHolds == Spec => []OnDuprOnce
<1>1. TypeOK /\ Safe => OnDuprOnce
  BY SafeOnce
<1> QED
  BY <1>1, DuprInvariant, PTL

-----------------------------------------------------------------------------
(* The latest score arrives.                                                 *)

\* Calls are only ever used up.
Budgeted == \A k \in Kinds : left[k] <= event.calls[k]
Falls == event' = event /\ \A k \in Kinds : left'[k] <= left[k]

NoFault == ~Spent({"fault", "restart"})

\* Whoever will take a game's row away.
Reverting(r, m) ==
    /\ r.at \in {"reverse.lock", "reverse.select", "reverse.queue", "reverse.rows", "delete"}
    /\ m \in r.games

\* Whoever will write a game's row, or takes it away.  A request that found no
\* row does not change one that somebody else has inserted in the meantime.
Excuses(r, m) ==
    \/ r.at \in {"flush.call", "flush.mark", "flush.retry"} /\ r.item.game = m
    \/ Reverting(r, m)
    \/ r.at = "queue" /\ m \in r.games
    \/ r.at = "queue.write" /\ (m \in r.games \/ (r.known /\ r.game = m))
    \/ r.at = "remove.row" /\ r.item.game = m
Excused(m) == \E q \in Callers : Excuses(req[q], m)

\* A game that is deleted or on the way out.
Given(m) == Away(m) \/ \E q \in Callers : Reverting(req[q], m)

Undone(m) == result[m] = Open /\ Spent({"undo"})

\* The entry with this matchCode says of the game what its result says.
Fine(m, c) ==
    \/ Undone(m)
    \/ Played(m) /\ IF dupr[c].live THEN dupr[c].score = result[m].score ELSE Spent({"lost"})

\* The matchCodes DUPR will be asked to delete.
Draining(r) ==
    CASE r.at = "drain" -> r.items
      [] r.at = "drain.write" -> r.items \cup {r.item}
      [] OTHER -> {}
Doomed(c) == \/ \E d \in queue \cup inline : d.ref = c
             \/ \E q \in Callers : \E d \in Draining(req[q]) : d.ref = c

\* They are no row's any more once the rows of their reversal are gone.
RowsDoomed ==
    /\ \A c : Doomed(c) => c \in DOMAIN dupr
    /\ \A m \in Games : Doomed(row[m].ref) =>
           \E q \in Callers : At(q, "reverse.rows") /\ m \in req[q].games

Arrived(m) ==
    row[m].status = "submitted" =>
        row[m].ref # 0 /\ (m \notin crossed => Excused(m) \/ Fine(m, row[m].ref))

InFlight == {"flush.call", "flush.mark", "flush.retry"}

\* What a caller knows of the rows and the entry it has in hand.
Knows(q) ==
    LET r == req[q]
    IN  /\ r.at \in InFlight \cup {"flush.rows"} => \A x \in Carried(r) : ~Doomed(x.ref)
        /\ r.at = "flush.call" /\ r.item.game \notin crossed =>
               LET m == r.item.game
               IN  Undone(m) \/ Given(m) \/ (Played(m) /\ result[m].score = r.score)
        /\ r.at = "flush.mark" =>
               /\ ~Doomed(r.ref)
               /\ r.status = "submitted" =>
                      LET m == r.item.game
                      IN  r.ref # 0 /\ (m \notin crossed => Fine(m, r.ref) \/ Given(m))
        /\ r.at = "reverse.queue" =>
               \A i \in r.items : Created(i.game, i.gen, i.ref) /\ i.game \in r.games

Arrives ==
    NoFault => RowsDoomed /\ (\A m \in Games : Arrived(m)) /\ \A q \in Callers : Knows(q)

LEMMA Counted ==
  ASSUME TypeOK, NEW k \in Kinds, Spend(k)
  PROVE  (\A j \in Kinds : left'[j] <= left[j]) /\ left'[k] < left[k]
<1>1. left \in [Kinds -> Nat] /\ left[k] > 0 /\ left' = [left EXCEPT ![k] = left[k] - 1]
  BY DEF Spend, TypeOK
<1>2. \A j \in Kinds : left[j] \in Nat /\ left'[j] = IF j = k THEN left[k] - 1 ELSE left[j]
  BY <1>1
<1> QED
  BY <1>2

LEMMA Uncounted ==
  ASSUME TypeOK, left' = left
  PROVE  \A j \in Kinds : left'[j] <= left[j]
<1>1. \A j \in Kinds : left[j] \in Nat
  BY DEF TypeOK
<1> QED
  BY <1>1

LEMMA Falling ==
  ASSUME TypeOK, [Next]_vars
  PROVE  Falls
<1> USE DEF base
<1> USE AllKinds, Counted, Uncounted
<1>1. Requests \subseteq Callers
  BY DEF Callers
<1>2. ASSUME NEW q \in Callers, Handle(q) PROVE Falls
  <2>1. CASE QueueRead(q) \/ RemoveLock(q) \/ RemoveSelect(q) \/ RemoveEnd(q) \/ ReverseLock(q)
    BY <2>1 DEF QueueRead, RemoveLock, RemoveSelect, RemoveEnd, ReverseLock, Acquire, Falls
  <2>2. CASE QueueWrite(q) \/ RemoveRow(q) \/ ReverseRows(q)
    BY <2>2 DEF QueueWrite, RemoveRow, ReverseRows, Writes, Falls
  <2>3. CASE RemoveCall(q)
    BY <2>3 DEF RemoveCall, DeleteMatch, Falls
  <2>4. CASE ReverseSelect(q) \/ ReverseQueue(q)
    BY <2>4 DEF ReverseSelect, ReverseQueue, Falls
  <2>5. CASE DeleteGames(q)
    BY <2>5 DEF DeleteGames, Falls
  <2> QED BY <1>2, <2>1, <2>2, <2>3, <2>4, <2>5 DEF Handle
<1>3. ASSUME NEW q \in Callers, Flush(q) PROVE Falls
  <2>1. CASE FlushLock(q) \/ FlushSelect(q) \/ FlushDefer(q) \/ FlushRead(q) \/ FlushEnd(q)
    <3>1. CASE FlushLock(q)
      BY <3>1 DEF FlushLock, Acquire, Falls
    <3>2. CASE FlushSelect(q) \/ FlushDefer(q) \/ FlushRead(q) \/ FlushEnd(q)
      <4>1. UNCHANGED <<event, left>>
        <5>1. CASE FlushSelect(q)  BY <5>1 DEF FlushSelect
        <5>2. CASE FlushDefer(q)  BY <5>2 DEF FlushDefer
        <5>3. CASE FlushRead(q)  BY <5>3 DEF FlushRead
        <5>4. CASE FlushEnd(q)  BY <5>4 DEF FlushEnd
        <5> QED BY <3>2, <5>1, <5>2, <5>3, <5>4
      <4> QED BY <4>1 DEF Falls
    <3> QED BY <2>1, <3>1, <3>2
  <2>2. CASE Create(q)
    BY <2>2 DEF Create, Falls
  <2>3. CASE Correct(q)
    BY <2>3 DEF Correct, Falls
  <2>4. CASE FlushFails(q) \/ SelectFails(q)
    BY <2>4 DEF FlushFails, SelectFails, Falls
  <2>5. CASE FlushMark(q)
    BY <2>5 DEF FlushMark, Falls
  <2>6. CASE FlushRetry(q)
    BY <2>6 DEF FlushRetry, Writes, Falls
  <2> QED BY <1>3, <2>1, <2>2, <2>3, <2>4, <2>5, <2>6 DEF Flush
<1>4. ASSUME Tick \/ Due \/ Restart \/ (\E m \in Games : Undo(m) \/ Link(m))
             \/ (\E d \in inline : InlineDelete(d))
      PROVE  Falls
  <2>1. CASE Tick
    <3>1. CASE Drain \/ DrainWrite \/ Reconcile
      BY <3>1 DEF Drain, DrainWrite, Reconcile, Falls
    <3>2. CASE DrainCall
      BY <3>2 DEF DrainCall, DeleteMatch, Falls
    <3> QED BY <2>1, <3>1, <3>2 DEF Tick
  <2>2. CASE Due \/ Restart \/ \E m \in Games : Undo(m) \/ Link(m)
    BY <2>2 DEF Due, Restart, Undo, Link, Falls
  <2>3. CASE \E d \in inline : InlineDelete(d)
    BY <2>3 DEF InlineDelete, DeleteMatch, Falls
  <2> QED BY <1>4, <2>1, <2>2, <2>3
<1>5. ASSUME NEW q \in Requests,
             \/ Import(q) \/ Remove(q, Games) \/ WipeAll(q)
             \/ \E m \in Games : Remove(q, {m}) \/ Award(q, m) \/ Drop(q, m)
                                \/ \E s \in Scores(m) : Score(q, m, s)
             \/ \E wave \in waves : Continue(q, wave)
      PROVE  Falls
  <2>1. CASE WipeAll(q) \/ Remove(q, Games) \/ \E m \in Games : Remove(q, {m})
    BY <2>1 DEF WipeAll, Remove, Falls
  <2>2. CASE \E m \in Games : Award(q, m) \/ Drop(q, m) \/ \E s \in Scores(m) : Score(q, m, s)
    BY <2>2 DEF Award, Drop, Score, Falls
  <2>3. CASE \E wave \in waves : Continue(q, wave)
    BY <2>3 DEF Continue, Falls
  <2>4. CASE Import(q)
    <3>1. left \in [Kinds -> Nat] /\ event' = event
      BY <2>4 DEF Import, TypeOK
    <3>2. CASE Spend("import")
      BY <3>1, <3>2, AllKinds DEF Spend, Falls
    <3>3. CASE left' = [left EXCEPT !["import"] = @ - 1, !["fault"] = @ - 1]
      <4>1. \A k \in Kinds : left'[k] \in {left[k], left[k] - 1}
        BY <3>1, <3>3, AllKinds
      <4> QED
        BY <3>1, <4>1 DEF Falls
    <3> QED
      BY <2>4, <3>2, <3>3 DEF Import
  <2> QED BY <1>5, <2>1, <2>2, <2>3, <2>4
<1>6. CASE UNCHANGED vars
  BY <1>6 DEF vars, Falls
<1> QED BY <1>1, <1>2, <1>3, <1>4, <1>5, <1>6 DEF Next

\* What is spent stays spent.
LEMMA StaysSpent ==
  ASSUME TypeOK, TypeOK', Budgeted, Falls
  PROVE  /\ Budgeted'
         /\ \A kinds \in SUBSET Kinds : Spent(kinds) => Spent(kinds)'
         /\ NoFault' => NoFault /\ ~Spend("fault") /\ ~Spend("restart")
<1>1. \A k \in Kinds : left[k] \in Nat /\ left'[k] \in Nat /\ event.calls[k] \in Nat
  BY DEF TypeOK
<1>2. Budgeted'
  BY <1>1 DEF Budgeted, Falls
<1>3. ASSUME NEW kinds \in SUBSET Kinds, Spent(kinds) PROVE Spent(kinds)'
  BY <1>1, <1>3 DEF Spent, Budgeted, Falls
<1>4. ASSUME NoFault' PROVE NoFault
  BY <1>3, <1>4, AllKinds DEF NoFault
<1>5. ASSUME NEW k \in {"fault", "restart"}, Spend(k), NoFault' PROVE FALSE
  <2>1. k \in Kinds BY AllKinds
  <2>2. left'[k] < left[k] BY <1>5, <2>1, Counted
  <2>3. left'[k] # event'.calls[k] BY <1>1, <2>1, <2>2 DEF Budgeted, Falls
  <2> QED BY <1>5, <2>3 DEF NoFault, Spent
<1> QED BY <1>2, <1>3, <1>4, <1>5

\* A step of q (Free: of no caller).  What it does to a row, a result or an
\* entry leaves the latest score there, or somebody attends to it.
ResultsOK(q) ==
    \A m \in Games :
        \/ result'[m] = result[m]
        \/ Undone(m)'
        \/ Given(m)'
        \/ /\ Excused(m)'
           /\ \A p \in Callers : req'[p].at \in InFlight /\ req'[p].item.game = m => m \in crossed'

Spares(c) ==
    /\ dupr'[c].score = dupr[c].score
    /\ dupr'[c].live => dupr[c].live
    /\ dupr[c].live /\ ~dupr'[c].live => Spent({"lost"})'

EntriesKept(q) ==
    \A c \in DOMAIN dupr :
        /\ c \in DOMAIN dupr' /\ dupr'[c].game = dupr[c].game /\ dupr'[c].gen = dupr[c].gen
        /\ Spares(c) \/ Doomed(c) \/ (lock = q /\ q \in Callers /\ Excuses(req'[q], dupr[c].game))

RowsKept(q) ==
    \A m \in Games :
        /\ row'[m].ref \in {0, row[m].ref} \/ ~Doomed(row[m].ref)'
        /\ row'[m].status = "submitted" =>
               /\ row'[m].ref # 0
               /\ \/ m \in crossed'
                  \/ Excused(m)'
                  \/ Fine(m, row[m].ref)'
                  \/ /\ row[m].status = "submitted" /\ row'[m].ref = row[m].ref
                     /\ q \in Callers /\ Excuses(req[q], m) => Excuses(req'[q], m)
        /\ Away(m) => Away(m)'
        /\ q \in Callers /\ Reverting(req[q], m)
               => Reverting(req'[q], m) \/ Away(m)' \/ lock = q
        /\ q \in Callers /\ At(q, "reverse.rows") /\ m \in req[q].games => row'[m].ref = 0

DoomKept(q) ==
    \A c : Doomed(c)' => \/ Doomed(c)
                         \/ /\ q \in Callers /\ lock = q /\ req'[q].at = "reverse.rows"
                            /\ c \in DOMAIN dupr /\ dupr[c].game \in req'[q].games

Moves(q) == /\ \A p \in Callers \ {q} : req'[p] = req[p]
            /\ crossed \subseteq crossed'
            /\ ResultsOK(q) /\ EntriesKept(q) /\ RowsKept(q) /\ DoomKept(q)

LEMMA FineStays ==
  ASSUME TypeOK, TypeOK', Budgeted, Falls, NEW m \in Games, NEW c, Fine(m, c),
         result'[m] = result[m], Spares(c)
  PROVE  Fine(m, c)'
<1>1. Spent({"undo"}) => Spent({"undo"})'
  BY StaysSpent, AllKinds
<1>2. Spent({"lost"}) => Spent({"lost"})'
  BY StaysSpent, AllKinds
<1> QED BY <1>1, <1>2 DEF Fine, Undone, Played, Spares

\* Who does not move still knows what they knew.
LEMMA OthersKnow ==
  ASSUME TypeOK, Safe, Budgeted, Falls, TypeOK', Arrives, NoFault', NEW q, Moves(q),
         NEW p \in Callers \ {q}
  PROVE  Knows(p)'
<1>0. PICK r : req[p] = r /\ req'[p] = r
  BY DEF Moves
<1>1. Knows(p) /\ r \in Callings
  BY <1>0, StaysSpent DEF Arrives, TypeOK
<1>8. PICK m : m = r.item.game
  OBVIOUS
<1>2. ASSUME r.at \in InFlight \cup {"flush.rows"} PROVE lock # q /\ \A c : Doomed(c)' => Doomed(c)
  <2>1. lock = p
    BY <1>0, <1>2, Holds DEF InFlight, WaitLabels
  <2> QED BY <2>1 DEF Moves, DoomKept
<1>3. r.at \in InFlight \cup {"flush.rows"} => \A x \in Carried(r) : ~Doomed(x.ref)'
  BY <1>0, <1>1, <1>2 DEF Knows
<1>4. ASSUME r.at \in InFlight, m \notin crossed'
      PROVE  /\ m \in Games /\ m \notin crossed
             /\ result'[m] = result[m] \/ Undone(m)' \/ Given(m)'
             /\ Given(m) => Given(m)'
             /\ result'[m] = result[m] /\ Undone(m) => Undone(m)'
  <2>1. m \in Games
    BY <1>1, <1>4, <1>8, Shapes DEF InFlight, Item
  <2>2. m \notin crossed
    BY <1>4 DEF Moves
  <2>3. result'[m] = result[m] \/ Undone(m)' \/ Given(m)'
    BY <1>0, <1>4, <1>8, <2>1 DEF Moves, ResultsOK
  <2>4. ASSUME Given(m) PROVE Given(m)'
    <3>1. CASE Away(m)
      BY <2>1, <3>1 DEF Moves, RowsKept, Given
    <3>2. ASSUME NEW s \in Callers, Reverting(req[s], m) PROVE Given(m)'
      <4>1. CASE s = q
        BY <1>2, <1>4, <2>1, <3>2, <4>1 DEF Moves, RowsKept, Given
      <4>2. CASE s # q
        <5>1. Reverting(req'[s], m)
          BY <3>2, <4>2 DEF Moves
        <5> QED BY <5>1 DEF Given
      <4> QED BY <4>1, <4>2
    <3> QED BY <2>4, <3>1, <3>2 DEF Given
  <2>5. result'[m] = result[m] /\ Undone(m) => Undone(m)'
    BY StaysSpent, AllKinds DEF Undone
  <2> QED BY <2>1, <2>2, <2>3, <2>4, <2>5
<1>5. ASSUME r.at = "flush.call", m \notin crossed'
      PROVE  Undone(m)' \/ Given(m)' \/ (Played(m)' /\ result'[m].score = r.score)
  BY <1>0, <1>1, <1>4, <1>5, <1>8 DEF InFlight, Knows, Played
<1>6. ASSUME r.at = "flush.mark"
      PROVE  /\ ~Doomed(r.ref)'
             /\ r.status = "submitted" =>
                    r.ref # 0 /\ (m \notin crossed' => Fine(m, r.ref)' \/ Given(m)')
  <2>1. ~Doomed(r.ref) /\ ~Doomed(r.ref)'
    BY <1>0, <1>1, <1>2, <1>6 DEF InFlight, Knows
  <2>2. ASSUME r.status = "submitted", m \notin crossed' PROVE Fine(m, r.ref)' \/ Given(m)'
    <3>1. r.ref # 0 /\ (Fine(m, r.ref) \/ Given(m))
      BY <1>0, <1>1, <1>4, <1>6, <1>8, <2>2 DEF InFlight, Knows
    <3>2. Created(m, r.item.row.gen, r.ref)
      BY <1>0, <1>6, <1>8, <3>1 DEF Safe, CallerSound, At
    <3>3. Spares(r.ref)
      BY <1>2, <1>6, <2>1, <3>2 DEF InFlight, Created, Moves, EntriesKept
    <3>4. CASE result'[m] = result[m]
      BY <1>4, <1>6, <2>2, <3>1, <3>3, <3>4, FineStays DEF InFlight
    <3> QED BY <1>4, <1>6, <2>2, <3>4 DEF InFlight, Fine
  <2>3. r.status = "submitted" => r.ref # 0
    BY <1>0, <1>1, <1>6 DEF Knows
  <2> QED BY <2>1, <2>2, <2>3
<1>7. ASSUME r.at = "reverse.queue"
      PROVE  \A i \in r.items : Created(i.game, i.gen, i.ref)' /\ i.game \in r.games
  BY <1>0, <1>1, <1>7 DEF Knows, Created, Moves, EntriesKept
<1> QED BY <1>0, <1>3, <1>5, <1>6, <1>7, <1>8 DEF Knows

LEMMA MovesArrive ==
  ASSUME TypeOK, Safe, Budgeted, Falls, TypeOK', Safe', Arrives, NoFault', NEW q, Moves(q),
         q \in Callers => Knows(q)'
  PROVE  Arrives'
<1>1. RowsDoomed /\ \A m \in Games : Arrived(m)
  BY StaysSpent DEF Arrives
<1>2. \A p \in Callers : Knows(p)'
  BY OthersKnow
<1>3. ASSUME NEW c, Doomed(c)' PROVE c \in DOMAIN dupr'
  BY <1>1, <1>3 DEF Moves, DoomKept, EntriesKept, RowsDoomed
<1>4. ASSUME NEW m \in Games, Doomed(row[m].ref)'
      PROVE  \E p \in Callers : req'[p].at = "reverse.rows" /\ m \in req'[p].games
  <2> DEFINE c == row'[m].ref
  <2>1. c \in DOMAIN dupr' /\ c # 0
    <3>1. dupr' \in Seq(Entry) BY DEF TypeOK
    <3>2. 0 \notin DOMAIN dupr' BY <3>1
    <3> QED BY <1>3, <1>4, <3>2
  <2>2. c = row[m].ref
    BY <1>4, <2>1 DEF Moves, RowsKept
  <2>3. dupr[c].game = m /\ c \in DOMAIN dupr
    BY <2>1, <2>2 DEF Safe, RowsSound, Sound, Created
  <2>4. CASE Doomed(c)
    <3>1. PICK p \in Callers : At(p, "reverse.rows") /\ m \in req[p].games
      BY <1>1, <2>2, <2>4 DEF RowsDoomed
    <3>2. p # q
      BY <2>1, <3>1 DEF Moves, RowsKept
    <3> QED BY <3>1, <3>2 DEF Moves, At
  <2>5. CASE ~Doomed(c)
    BY <1>4, <2>3, <2>5 DEF Moves, DoomKept
  <2> QED BY <2>4, <2>5
<1>5. ASSUME NEW m \in Games, row'[m].status = "submitted", m \notin crossed',
             row[m].status = "submitted", row'[m].ref = row[m].ref, row'[m].ref # 0,
             q \in Callers /\ Excuses(req[q], m) => Excuses(req'[q], m)
      PROVE  Excused(m)' \/ Fine(m, row[m].ref)'
  <2> DEFINE c == row[m].ref
  <2>1. m \notin crossed
    BY <1>5 DEF Moves
  <2>2. ASSUME NEW p \in Callers, Excuses(req[p], m) PROVE Excused(m)'
    <3>1. Excuses(req'[p], m)
      BY <1>5, <2>2 DEF Moves
    <3> QED BY <3>1 DEF Excused
  <2>3. CASE Excused(m)
    BY <2>2, <2>3 DEF Excused
  <2>4. CASE Fine(m, c) /\ ~Excused(m)
    <3>1. c \in DOMAIN dupr /\ dupr[c].game = m
      BY <1>5 DEF Safe, RowsSound, Sound, Created
    <3>2. ~Doomed(c)
      <4>1. SUFFICES ASSUME NEW p \in Callers, At(p, "reverse.rows"), m \in req[p].games PROVE Excused(m)
        BY <1>1, <2>4 DEF RowsDoomed
      <4> QED BY <4>1 DEF Excused, Excuses, Reverting, At
    <3>3. Spares(c) \/ Excused(m)'
      <4>1. CASE q \in Callers /\ Excuses(req'[q], m)
        BY <4>1 DEF Excused
      <4> QED BY <3>1, <3>2, <4>1 DEF Moves, EntriesKept
    <3>4. CASE result'[m] = result[m] /\ Spares(c)
      BY <1>5, <2>4, <3>4, FineStays
    <3>5. CASE Undone(m)'
      BY <3>5 DEF Fine
    <3>6. CASE Given(m)'
      <4>1. ~Away(m)'
        BY <1>5 DEF Away, NoRow
      <4>2. PICK p \in Callers : Reverting(req'[p], m)
        BY <3>6, <4>1 DEF Given
      <4> QED BY <4>2 DEF Excused, Excuses
    <3> QED BY <3>3, <3>4, <3>5, <3>6 DEF Moves, ResultsOK
  <2> QED BY <1>1, <1>5, <2>1, <2>3, <2>4 DEF Arrived
<1>6. ASSUME NEW m \in Games PROVE Arrived(m)'
  BY <1>5 DEF Arrived, Moves, RowsKept
<1> QED BY <1>2, <1>3, <1>4, <1>6 DEF Arrives, RowsDoomed, At

\* A step while nothing has failed and nothing has restarted.
Onward == /\ TypeOK /\ Safe /\ Budgeted /\ Arrives
          /\ Falls /\ TypeOK' /\ Safe' /\ NoFault'

LEMMA OnwardOK ==
  ASSUME Onward
  PROVE  /\ NoFault /\ RowsDoomed /\ (\A m \in Games : Arrived(m)) /\ \A q \in Callers : Knows(q)
         /\ ~Spend("fault") /\ ~Spend("restart")
         /\ \A c : Doomed(c) => c \in DOMAIN dupr /\ c # 0
<1>1. NoFault /\ ~Spend("fault") /\ ~Spend("restart")
  BY StaysSpent DEF Onward
<1>2. RowsDoomed
  BY <1>1 DEF Onward, Arrives
<1>3. 0 \notin DOMAIN dupr
  <2>1. dupr \in Seq(Entry) BY DEF Onward, TypeOK
  <2> QED BY <2>1
<1> QED BY <1>1, <1>2, <1>3 DEF Onward, Arrives, RowsDoomed

LEMMA SpentNow ==
  ASSUME Onward, NEW k \in Kinds, Spend(k)
  PROVE  Spent({k})'
<1>1. left[k] \in Nat /\ left'[k] \in Nat /\ event.calls[k] \in Nat
  BY DEF Onward, TypeOK
<1>2. left'[k] < left[k]
  BY Counted DEF Onward
<1>3. left'[k] # event'.calls[k]
  BY <1>1, <1>2 DEF Onward, Budgeted, Falls
<1> QED BY <1>3 DEF Spent

LEMMA KnowsLittle ==
  ASSUME NEW q, req'[q].at \notin InFlight \cup {"flush.rows", "reverse.queue"}
  PROVE  Knows(q)'
  BY DEF Knows, InFlight

\* Only what a caller is about to delete may be added to what is doomed.
LEMMA DoomStays ==
  ASSUME NEW q, \A p \in Callers \ {q} : req'[p] = req[p],
         \A d \in (queue \cup inline)' : Doomed(d.ref),
         q \in Callers => \A d \in Draining(req'[q]) : Doomed(d.ref)
  PROVE  \A c : Doomed(c)' => Doomed(c)
<1> SUFFICES ASSUME NEW c, Doomed(c)' PROVE Doomed(c)
  OBVIOUS
<1>1. CASE \E d \in (queue \cup inline)' : d.ref = c
  BY <1>1
<1>2. ASSUME NEW p \in Callers, NEW d \in Draining(req'[p]), d.ref = c PROVE Doomed(c)
  <2>1. CASE p = q
    BY <1>2, <2>1
  <2>2. CASE p # q
    BY <1>2, <2>2 DEF Doomed
  <2> QED BY <2>1, <2>2
<1> QED BY <1>1, <1>2 DEF Doomed

\* A caller goes on, and leaves rows, entries and results as they are.
LEMMA TurnArrives ==
  ASSUME Onward, NEW q \in Callers, \A p \in Callers \ {q} : req'[p] = req[p],
         UNCHANGED <<row, dupr, result, queue, inline, crossed>>,
         \A d \in Draining(req'[q]) : Doomed(d.ref),
         \A m \in Games : row[m].status = "submitted" /\ Excuses(req[q], m) => Excuses(req'[q], m),
         lock = q \/ \A m \in Games : Reverting(req[q], m) => Reverting(req'[q], m),
         req[q].at # "reverse.rows", Knows(q)'
  PROVE  Arrives'
<1>1. ResultsOK(q)
  BY DEF ResultsOK
<1>2. EntriesKept(q)
  BY DEF EntriesKept, Spares
<1>3. RowsKept(q)
  BY OnwardOK DEF RowsKept, Arrived, Away, At
<1>4. DoomKept(q)
  <2>1. \A d \in (queue \cup inline)' : Doomed(d.ref)
    BY DEF Doomed
  <2> QED BY <2>1, DoomStays DEF DoomKept
<1>5. Moves(q)
  BY <1>1, <1>2, <1>3, <1>4 DEF Moves
<1> QED BY <1>5, MovesArrive DEF Onward

\* A caller that attended to no game and has nothing in hand yet.
LEMMA BeginArrives ==
  ASSUME Onward, NEW q \in Callers, NEW r, GoTo(q, r) \/ (Return(q) /\ r = Idle),
         UNCHANGED <<row, dupr, result, queue, inline, crossed>>,
         req[q].at \in {"idle", "flush.lock", "flush.select", "flush.rows", "remove.lock",
                        "remove.select", "remove.rows", "drain"},
         r.at \in {"idle", "queue", "flush.lock", "flush.select", "remove.lock", "remove.select",
                   "remove.rows", "reverse.lock"}
  PROVE  Arrives'
<1>1. req'[q] = r /\ \A p \in Callers \ {q} : req'[p] = req[p]
  BY GoesOthers, ReturnOK DEF Onward
<1>2. Draining(req'[q]) = {}
  BY <1>1 DEF Draining
<1>3. Knows(q)'
  BY <1>1, KnowsLittle DEF InFlight
<1>4. \A m \in Games : ~Excuses(req[q], m) /\ ~Reverting(req[q], m)
  BY DEF Excuses, Reverting
<1> QED BY <1>1, <1>2, <1>3, <1>4, TurnArrives

LEMMA StartsArrive ==
  ASSUME Onward, NEW q \in Callers
  PROVE  /\ Import(q) \/ Remove(q, Games) \/ WipeAll(q) => Arrives'
         /\ \A m \in Games : Remove(q, {m}) \/ Drop(q, m) => Arrives'
         /\ \A wave \in waves : Continue(q, wave) => Arrives'
<1> USE DEF base, tables, locks, history
<1>1. req[q] = Idle => req[q].at = "idle"
  BY RowsOK
<1>2. ASSUME Import(q) PROVE Arrives'
  <2>3. PICK games \in SUBSET Games : GoTo(q, Queueing(games, "flush"))
    BY <1>2 DEF Import
  <2> DEFINE r == Queueing(games, "flush")
  <2>1. r.at \in {"idle", "queue", "flush.lock"}
    BY RowsOK DEF Queueing
  <2>2. GoTo(q, r) /\ req[q] = Idle /\ UNCHANGED <<row, dupr, result, queue, inline, crossed>>
    BY <1>2, <2>3 DEF Import
  <2> HIDE DEF r
  <2> QED BY <1>1, <2>1, <2>2, BeginArrives
<1>3. ASSUME NEW games, Remove(q, games) PROVE Arrives'
  <2> DEFINE r == [at |-> "remove.lock", games |-> games]
  <2>1. r.at = "remove.lock"
    OBVIOUS
  <2>2. GoTo(q, r) /\ req[q] = Idle /\ UNCHANGED <<row, dupr, result, queue, inline, crossed>>
    BY <1>3 DEF Remove
  <2> HIDE DEF r
  <2> QED BY <1>1, <2>1, <2>2, BeginArrives
<1>4. ASSUME NEW games, NEW then, GoTo(q, Reversing(games, then)), req[q] = Idle,
             UNCHANGED <<row, dupr, result, queue, inline, crossed>>
      PROVE  Arrives'
  <2>1. Reversing(games, then).at = "reverse.lock"
    BY DEF Reversing
  <2> QED BY <1>1, <1>4, <2>1, BeginArrives
<1>5. WipeAll(q) => Arrives'
  BY <1>4 DEF WipeAll
<1>6. ASSUME NEW m \in Games, Drop(q, m) PROVE Arrives'
  BY <1>4, <1>6 DEF Drop
<1>7. ASSUME NEW wave \in waves, Continue(q, wave) PROVE Arrives'
  <2> DEFINE r == [at |-> "flush.lock", retry |-> FALSE, only |-> wave]
  <2>1. r.at = "flush.lock"
    OBVIOUS
  <2>2. GoTo(q, r) /\ req[q] = Idle /\ UNCHANGED <<row, dupr, result, queue, inline, crossed>>
    BY <1>7 DEF Continue
  <2> HIDE DEF r
  <2> QED BY <1>1, <2>1, <2>2, BeginArrives
<1> QED BY <1>2, <1>3, <1>5, <1>6, <1>7

LEMMA LocksArrive ==
  ASSUME Onward, NEW q \in Callers
  PROVE  /\ FlushLock(q) \/ RemoveLock(q) \/ RemoveSelect(q) => Arrives'
         /\ FlushEnd(q) \/ RemoveEnd(q) \/ SelectFails(q) => Arrives'
         /\ ReverseLock(q) => Arrives'
<1> USE DEF base, tables, locks, history
<1>1. ASSUME FlushLock(q) PROVE Arrives'
  BY <1>1, BeginArrives DEF FlushLock, Acquire, At
<1>2. ASSUME RemoveLock(q) PROVE Arrives'
  BY <1>2, BeginArrives DEF RemoveLock, Acquire, At
<1>3. ASSUME RemoveSelect(q) PROVE Arrives'
  <2> DEFINE items == {Removal(m) : m \in {n \in req[q].games :
                          row[n].ref # 0 /\ (req[q].games = Games => row[n].status = "submitted")}}
             r == [at |-> "remove.rows", items |-> items]
  <2>1. GoTo(q, r) /\ At(q, "remove.select")
        /\ UNCHANGED <<row, dupr, result, queue, inline, crossed>>
    BY <1>3 DEF RemoveSelect
  <2>2. r.at = "remove.rows"
    OBVIOUS
  <2> HIDE DEF r
  <2> QED BY <2>1, <2>2, BeginArrives DEF At
<1>4. ASSUME FlushEnd(q) \/ RemoveEnd(q) PROVE Arrives'
  <2>1. Return(q) /\ req[q].at \in {"flush.rows", "remove.rows"}
        /\ UNCHANGED <<row, dupr, result, queue, inline, crossed>>
    BY <1>4 DEF FlushEnd, RemoveEnd, At
  <2> QED BY <2>1, BeginArrives, RowsOK
<1>5. ~SelectFails(q)
  BY OnwardOK DEF SelectFails
<1>6. ASSUME ReverseLock(q) PROVE Arrives'
  <2>1. req[q] \in [at : {"reverse.lock"}, games : SUBSET Games, then : Ends]
    BY <1>6 DEF ReverseLock, Acquire, At, Onward, TypeOK, Callings, Waiting, Importing, Removing, Withdrawing
  <2> DEFINE r == [req[q] EXCEPT !.at = "reverse.select"]
  <2>2. r.at = "reverse.select" /\ r.games = req[q].games
    BY <2>1
  <2>3. GoTo(q, r) /\ req[q].at = "reverse.lock"
        /\ UNCHANGED <<row, dupr, result, queue, inline, crossed>>
    BY <1>6 DEF ReverseLock, Acquire, At
  <2> HIDE DEF r
  <2>4. req'[q] = r /\ \A p \in Callers \ {q} : req'[p] = req[p]
    BY <2>3, GoesOthers DEF Onward
  <2>5. Draining(req'[q]) = {} /\ Knows(q)'
    BY <2>2, <2>4, KnowsLittle DEF Draining, InFlight
  <2>6. \A m \in Games : /\ Reverting(req[q], m) => Reverting(req'[q], m)
                         /\ Excuses(req[q], m) => Excuses(req'[q], m)
    BY <2>2, <2>3, <2>4 DEF Reverting, Excuses
  <2> QED BY <2>3, <2>4, <2>5, <2>6, TurnArrives
<1> QED BY <1>1, <1>2, <1>3, <1>4, <1>5, <1>6

\* Who holds the lock and is not about to empty rows finds none that is doomed.
LEMMA RefsSpared ==
  ASSUME Onward, NEW q \in Callers, lock = q, req[q].at # "reverse.rows", NEW m \in Games
  PROVE  ~Doomed(row[m].ref)
<1> SUFFICES ASSUME Doomed(row[m].ref) PROVE FALSE
  OBVIOUS
<1>1. PICK p \in Callers : At(p, "reverse.rows")
  BY OnwardOK DEF RowsDoomed
<1>2. lock = p
  BY <1>1, Holds DEF At, WaitLabels, Onward
<1> QED BY <1>1, <1>2 DEF At

\* A flush goes on, and leaves rows, entries and results as they are.
LEMMA FlushTurns ==
  ASSUME Onward, NEW q \in Callers, NEW r, GoTo(q, r),
         UNCHANGED <<row, dupr, result, queue, inline, crossed>>,
         req[q].at \in {"flush.select", "flush.rows", "flush.call"},
         r.at \in InFlight \cup {"flush.rows"},
         \A x \in Carried(r) : ~Doomed(x.ref),
         req[q].at = "flush.call" => r.at \in InFlight /\ r.item = req[q].item,
         r.at = "flush.mark" => r.status # "submitted" /\ ~Doomed(r.ref),
         r.at = "flush.call" => Played(r.item.game) /\ result[r.item.game].score = r.score
  PROVE  Arrives'
<1>1. req'[q] = r /\ \A p \in Callers \ {q} : req'[p] = req[p]
  BY GoesOthers DEF Onward
<1>2. lock = q
  BY Holds DEF Onward, WaitLabels
<1>3. Draining(req'[q]) = {}
  BY <1>1 DEF Draining, InFlight
<1>4. \A c : Doomed(c)' => Doomed(c)
  <2>1. \A d \in (queue \cup inline)' : Doomed(d.ref)
    BY DEF Doomed
  <2> QED BY <1>1, <1>3, <2>1, DoomStays
<1>5. Carried(req[q])' = Carried(r)
  BY <1>1 DEF Carried, OfRow
<1>6. Knows(q)'
  BY <1>1, <1>4, <1>5 DEF Knows, InFlight, Played
<1>7. \A m \in Games : Excuses(req[q], m) => Excuses(req'[q], m)
  BY <1>1 DEF Excuses, Reverting, InFlight
<1> QED BY <1>1, <1>2, <1>3, <1>6, <1>7, TurnArrives

LEMMA FlushRowsArrive ==
  ASSUME Onward, NEW q \in Callers
  PROVE  FlushSelect(q) \/ FlushDefer(q) \/ FlushRead(q) \/ FlushFails(q) => Arrives'
<1> USE DEF base, tables, locks, history
<1>1. TypeOK /\ Safe /\ Knows(q) /\ ~Doomed(0) /\ req[q] \in Callings
  BY OnwardOK DEF Onward, TypeOK
<1>2. req[q].at \in {"flush.rows", "flush.call"} => \A x \in Carried(req[q]) : ~Doomed(x.ref)
  BY <1>1 DEF Knows, InFlight
<1>3. ASSUME FlushSelect(q) PROVE Arrives'
  <2> DEFINE due(m) == ~req[q].retry \/ (~row[m].wait /\ row[m].attempts > 0)
             some == {n \in Selected(req[q].retry) \cap req[q].only : due(n)}
             rows == {[game |-> m, row |-> row[m]] : m \in some}
             f == [retry |-> req[q].retry, calls |-> 0, deferred |-> {}, rows |-> rows]
  <2>1. At(q, "flush.select") /\ GoTo(q, Rows(f))
        /\ UNCHANGED <<row, dupr, result, queue, inline, crossed>>
    BY <1>3 DEF FlushSelect
  <2>2. lock = q
    BY <1>1, <2>1, Holds DEF At, WaitLabels
  <2>3. some \subseteq Games
    BY <1>1, <2>1, Shapes DEF At
  <2> HIDE DEF some
  <2>4. \A i \in rows : ~Doomed(OfRow(i).ref)
    <3>1. \A m \in Games : ~Doomed(row[m].ref)
      BY <2>1, <2>2, RefsSpared DEF At
    <3> QED BY <2>3, <3>1 DEF OfRow
  <2>5. Carried(Rows(f)) = {OfRow(i) : i \in rows} /\ Rows(f).at = "flush.rows"
    BY DEF Carried, Rows
  <2> HIDE DEF f, rows
  <2> QED BY <2>1, <2>4, <2>5, FlushTurns DEF At
<1>4. ASSUME FlushDefer(q) PROVE Arrives'
  <2> DEFINE f == [req[q].flush EXCEPT !.rows = {}, !.deferred = {i.game : i \in req[q].flush.rows}]
  <2>1. At(q, "flush.rows") /\ GoTo(q, Rows(f))
        /\ UNCHANGED <<row, dupr, result, queue, inline, crossed>>
    BY <1>4 DEF FlushDefer
  <2>2. req[q].flush \in FlushState
    BY <1>1, <2>1, FlushHolds DEF At
  <2>3. f.rows = {}
    BY <2>2 DEF FlushState
  <2> HIDE DEF f
  <2>4. Carried(Rows(f)) = {} /\ Rows(f).at = "flush.rows"
    BY <2>3, FlushCarries
  <2> QED BY <2>1, <2>4, FlushTurns DEF At
<1>5. ASSUME FlushFails(q) PROVE Arrives'
  <2> DEFINE i == req[q].item
  <2>1. At(q, "flush.call") /\ UNCHANGED <<row, dupr, result, queue, inline, crossed>>
    BY <1>5 DEF FlushFails
  <2>2. /\ {OfRow(j) : j \in req[q].flush.rows \cup {i}} = Carried(req[q])
        /\ OfRow(i) \in Carried(req[q])
    BY <1>1, <2>1, FlushHolds DEF At
  <2>3. ~Doomed(i.row.ref)
    BY <1>2, <2>1, <2>2 DEF At, OfRow
  <2>4. CASE Retry(q)
    <3> DEFINE r == [at |-> "flush.retry", flush |-> req[q].flush, item |-> i]
    <3>1. GoTo(q, r) /\ r.at = "flush.retry" /\ r.item = i /\ Carried(r) = Carried(req[q])
      BY <2>2, <2>4, FlushCarries DEF Retry
    <3> HIDE DEF r
    <3> QED BY <1>2, <2>1, <3>1, FlushTurns DEF At, InFlight
  <2>5. CASE GoTo(q, Mark(req[q].flush, i, "failed", i.row.ref))
    <3> DEFINE r == Mark(req[q].flush, i, "failed", i.row.ref)
    <3>0. r.status = "failed"
      BY DEF Mark
    <3>1. r.at = "flush.mark" /\ r.item = i /\ Carried(r) = Carried(req[q]) /\ r.ref = i.row.ref
      <4>1. /\ r.at = "flush.mark" /\ r.item = i /\ r.ref = i.row.ref
            /\ Carried(r) = {OfRow(j) : j \in req[q].flush.rows \cup {i}}
        BY FlushCarries
      <4> HIDE DEF r, i
      <4> QED BY <2>2, <4>1
    <3> HIDE DEF r
    <3>2. GoTo(q, r)
      BY <2>5 DEF r
    <3> QED BY <1>2, <2>1, <2>3, <3>0, <3>1, <3>2, FlushTurns DEF At, InFlight
  <2> QED BY <1>5, <2>4, <2>5 DEF FlushFails
<1>6. ASSUME FlushRead(q) PROVE Arrives'
  <2>1. PICK i \in req[q].flush.rows :
           LET m == i.game
               f == [req[q].flush EXCEPT !.rows = @ \ {i}]
           IN  GoTo(q, CASE result[m] \in {Open, Gone}  -> Mark(f, i, "failed", 0)
                         [] result[m] = Awarded         -> Mark(f, i, "skipped", 0)
                         [] Played(m) /\ m \in unlinked -> Mark(f, i, "failed", 0)
                         [] OTHER -> [at |-> "flush.call", flush |-> [f EXCEPT !.calls = @ + 1],
                                      item |-> i, score |-> result[m].score])
    BY <1>6 DEF FlushRead
  <2>2. At(q, "flush.rows") /\ UNCHANGED <<row, dupr, result, queue, inline, crossed>>
    BY <1>6 DEF FlushRead
  <2>3. /\ req[q].flush \in FlushState /\ i \in Item
        /\ {OfRow(j) : j \in req[q].flush.rows} \subseteq Carried(req[q])
    BY <1>1, <2>2, FlushHolds DEF At, FlushState
  <2> DEFINE f == [req[q].flush EXCEPT !.rows = @ \ {i}]
             g == [f EXCEPT !.calls = @ + 1]
  <2>4. f.rows \cup {i} = req[q].flush.rows /\ g.rows = f.rows
    BY <2>3 DEF FlushState
  <2>5. \A x \in {OfRow(j) : j \in f.rows \cup {i}} : ~Doomed(x.ref)
    BY <1>2, <2>2, <2>3, <2>4 DEF At
  <2> HIDE DEF f, g
  <2>6. ASSUME NEW status \in {"failed", "skipped"}, GoTo(q, Mark(f, i, status, 0)) PROVE Arrives'
    <3> DEFINE r == Mark(f, i, status, 0)
    <3>1. /\ r.at = "flush.mark" /\ r.ref = 0 /\ r.status # "submitted"
          /\ Carried(r) = {OfRow(j) : j \in f.rows \cup {i}}
      BY FlushCarries DEF Mark
    <3> HIDE DEF r
    <3>2. GoTo(q, r)
      BY <2>6 DEF r
    <3> QED BY <1>1, <2>2, <2>5, <3>1, <3>2, FlushTurns DEF At, InFlight
  <2>7. CASE result[i.game] \in {Open, Gone, Awarded} \/ (Played(i.game) /\ i.game \in unlinked)
    <3>1. GoTo(q, Mark(f, i, "failed", 0)) \/ GoTo(q, Mark(f, i, "skipped", 0))
      BY <2>1, <2>7 DEF f
    <3> QED BY <2>6, <3>1
  <2>8. CASE ~(result[i.game] \in {Open, Gone, Awarded} \/ (Played(i.game) /\ i.game \in unlinked))
    <3> DEFINE r == [at |-> "flush.call", flush |-> g, item |-> i, score |-> result[i.game].score]
    <3>1. GoTo(q, r)
      BY <2>1, <2>8 DEF f, g
    <3>2. /\ r.at = "flush.call" /\ r.item = i /\ r.score = result[i.game].score
          /\ Carried(r) = {OfRow(j) : j \in f.rows \cup {i}}
      BY <2>4, FlushCarries
    <3>3. Played(i.game)
      <4>1. result[i.game] \in Grade
        BY <1>1, <2>3 DEF TypeOK, Item
      <4> QED BY <2>8, <4>1 DEF Grade, Open, Gone, Awarded, Result, Played
    <3> HIDE DEF r
    <3> QED BY <2>2, <2>5, <3>1, <3>2, <3>3, FlushTurns DEF At, InFlight
  <2> QED BY <2>7, <2>8
<1> QED BY <1>3, <1>4, <1>5, <1>6

\* A request that waits or withdraws goes on.
LEMMA TurnsArrive ==
  ASSUME Onward, NEW q \in Callers
  PROVE  QueueRead(q) \/ ReverseSelect(q) => Arrives'
<1> USE DEF base, tables, locks, history
<1>1. TypeOK /\ Safe /\ req[q] \in Callings /\ (\A m \in Games : Arrived(m)) /\ ~Spend("fault")
  BY OnwardOK DEF Onward, TypeOK
<1>2. ASSUME QueueRead(q) PROVE Arrives'
  <2>1. PICK m, r :
            /\ m \in req[q].games
            /\ r = [at |-> "queue.write", game |-> m, known |-> Queued(m),
                    games |-> req[q].games \ {m}, then |-> req[q].then]
            /\ GoTo(q, r)
    BY <1>2 DEF QueueRead
  <2>2. /\ r.at = "queue.write" /\ r.game = m /\ r.known = Queued(m) /\ r.games = req[q].games \ {m}
        /\ req'[q] = r /\ \A p \in Callers \ {q} : req'[p] = req[p]
    BY <1>1, <2>1, GoesOthers
  <2>3. At(q, "queue") /\ UNCHANGED <<row, dupr, result, queue, inline, crossed>>
    BY <1>2 DEF QueueRead
  <2>4. Knows(q)' /\ Draining(req'[q]) = {}
    BY <2>2, KnowsLittle DEF InFlight, Draining
  <2>5. ASSUME NEW n \in Games, row[n].status = "submitted", Excuses(req[q], n)
        PROVE  Excuses(req'[q], n)
    <3>1. n \in req[q].games
      BY <2>3, <2>5 DEF Excuses, Reverting, At
    <3>2. Queued(n)
      BY <2>5 DEF Queued, NoRow
    <3> QED BY <2>2, <3>1, <3>2 DEF Excuses
  <2>6. \A n \in Games : ~Reverting(req[q], n)
    BY <2>3 DEF Reverting, At
  <2> QED BY <2>2, <2>3, <2>4, <2>5, <2>6, TurnArrives DEF At
<1>3. ASSUME ReverseSelect(q) PROVE Arrives'
  <2>1. At(q, "reverse.select") /\ UNCHANGED <<row, dupr, result, queue, inline, crossed>>
    BY <1>3 DEF ReverseSelect
  <2>2. lock = q /\ req[q] \in [at : {"reverse.select"}, games : SUBSET Games, then : Ends]
    <3>1. lock = q
      BY <1>1, <2>1, Holds DEF At, WaitLabels
    <3> QED BY <1>1, <2>1, <3>1 DEF At, Callings, Waiting, Importing, Removing, Withdrawing
  <2>3. ASSUME NEW r, req'[q] = r, \A p \in Callers \ {q} : req'[p] = req[p],
               r.at \in {"reverse.queue", "reverse.rows", "delete"}, r.games = req[q].games, Knows(q)'
        PROVE  Arrives'
    <3>1. Draining(req'[q]) = {}
      BY <2>3 DEF Draining
    <3>2. \A m \in Games : Excuses(req[q], m) => Excuses(req'[q], m)
      BY <2>1, <2>3 DEF Excuses, Reverting, At
    <3> QED BY <2>1, <2>2, <2>3, <3>1, <3>2, TurnArrives DEF At
  <2>4. CASE Submitted(req[q].games) # {}
             /\ GoTo(q, [at |-> "reverse.queue", games |-> req[q].games, then |-> req[q].then,
                         items |-> Submitted(req[q].games)])
    <3> DEFINE r == [at |-> "reverse.queue", games |-> req[q].games, then |-> req[q].then,
                     items |-> Submitted(req[q].games)]
    <3>1. req'[q] = r /\ \A p \in Callers \ {q} : req'[p] = req[p]
      BY <1>1, <2>4, GoesOthers
    <3>2. r.at = "reverse.queue" /\ r.games = req[q].games /\ r.items = Submitted(req[q].games)
      OBVIOUS
    <3> HIDE DEF r
    <3>3. \A i \in r.items : Created(i.game, i.gen, i.ref) /\ i.game \in r.games
      BY <1>1, <2>2, <3>2 DEF Submitted, Removal, Safe, RowsSound, Sound
    <3>4. Knows(q)'
      BY <2>1, <3>1, <3>2, <3>3 DEF Knows, InFlight, Created
    <3> QED BY <2>3, <3>1, <3>2, <3>4
  <2>5. CASE Submitted(req[q].games) = {} /\ ReverseNothing(q)
    <3>1. CASE Return(q)
      <4>1. req'[q] = Idle /\ \A p \in Callers \ {q} : req'[p] = req[p]
        BY <1>1, <3>1, ReturnOK
      <4>2. Idle.at = "idle"
        BY DEF Idle
      <4>3. Draining(req'[q]) = {} /\ Knows(q)'
        BY <4>1, <4>2, KnowsLittle DEF Draining, InFlight
      <4>4. ASSUME NEW m \in Games, row[m].status = "submitted", Excuses(req[q], m) PROVE FALSE
        <5>1. m \in req[q].games /\ row[m].ref # 0
          BY <1>1, <2>1, <4>4 DEF Excuses, Reverting, At, Arrived
        <5>2. Removal(m) \in Submitted(req[q].games)
          BY <4>4, <5>1 DEF Submitted
        <5> QED BY <2>5, <5>2
      <4> QED BY <2>1, <2>2, <4>1, <4>3, <4>4, TurnArrives DEF At
    <3>2. ASSUME NEW s \in {"delete", "reverse.rows"}, GoTo(q, [req[q] EXCEPT !.at = s]) PROVE Arrives'
      <4> DEFINE r == [req[q] EXCEPT !.at = s]
      <4>1. req'[q] = r /\ \A p \in Callers \ {q} : req'[p] = req[p]
        BY <1>1, <3>2, GoesOthers
      <4>2. r.at = s /\ r.games = req[q].games
        BY <2>2
      <4> HIDE DEF r
      <4>3. Knows(q)'
        BY <4>1, <4>2, KnowsLittle DEF InFlight
      <4> QED BY <2>3, <4>1, <4>2, <4>3
    <3>3. req[q].then \in {"return", "delete", "wipe"}
      BY <2>2 DEF Ends
    <3> QED BY <2>5, <3>1, <3>2, <3>3 DEF ReverseNothing
  <2> QED BY <1>1, <1>3, <2>4, <2>5 DEF ReverseSelect
<1> QED BY <1>2, <1>3

\* What a deletion that DUPR was asked for does to its entries.
LEMMA Deleting ==
  ASSUME TypeOK, NEW c \in DOMAIN dupr, NEW gen, NEW answered, DeleteMatch(c, gen, answered)
  PROVE  /\ DOMAIN dupr' = DOMAIN dupr
         /\ \A d \in DOMAIN dupr : /\ dupr'[d].game = dupr[d].game /\ dupr'[d].gen = dupr[d].gen
                                   /\ dupr'[d].score = dupr[d].score
                                   /\ dupr'[d].live => dupr[d].live
                                   /\ d # c => dupr'[d] = dupr[d]
         /\ dupr[c].live /\ ~dupr'[c].live => answered \/ Spend("lost")
<1>1. \A d \in DOMAIN dupr : dupr[d] \in Entry
  BY EntriesOK
<1>2. dupr' = [dupr EXCEPT ![c].live = dupr[c].live /\ dupr[c].gen # gen] \/ dupr' = dupr
  BY DEF DeleteMatch, Deletes
<1>3. dupr[c].live /\ ~dupr'[c].live => answered \/ Spend("lost")
  <2>1. Refused(c, gen) /\ Deletes(c, gen) => dupr'[c].live
    BY <1>1 DEF Deletes, Refused, Entry
  <2> QED BY <2>1 DEF DeleteMatch
<1>4. CASE dupr' = dupr
  BY <1>3, <1>4
<1>5. CASE dupr' = [dupr EXCEPT ![c].live = dupr[c].live /\ dupr[c].gen # gen]
  <2>1. DOMAIN dupr' = DOMAIN dupr
    BY <1>5
  <2>2. \A d \in DOMAIN dupr : d # c => dupr'[d] = dupr[d]
    BY <1>5
  <2>3. /\ dupr'[c].game = dupr[c].game /\ dupr'[c].gen = dupr[c].gen
        /\ dupr'[c].score = dupr[c].score /\ (dupr'[c].live => dupr[c].live)
    BY <1>1, <1>5 DEF Entry
  <2> QED BY <1>3, <2>1, <2>2, <2>3
<1> QED BY <1>2, <1>4, <1>5

\* A doomed match is deleted, by whoever.
LEMMA DoomedGoes ==
  ASSUME Onward, NEW q, q \notin Requests, \A p \in Callers \ {q} : req'[p] = req[p],
         UNCHANGED <<row, result, crossed>>,
         NEW c, NEW gen, NEW answered, Doomed(c), DeleteMatch(c, gen, answered) \/ UNCHANGED dupr,
         \A d \in (queue \cup inline)' : Doomed(d.ref),
         q \in Callers => /\ \A d \in Draining(req'[q]) : Doomed(d.ref)
                          /\ req[q].at \in {"idle", "drain", "drain.write"} /\ Knows(q)'
  PROVE  Arrives'
<1>1. TypeOK /\ \A d : Doomed(d) => d \in DOMAIN dupr
  BY OnwardOK DEF Onward
<1>2. ResultsOK(q)
  BY DEF ResultsOK
<1>3. EntriesKept(q)
  <2>1. CASE UNCHANGED dupr
    BY <2>1 DEF EntriesKept, Spares
  <2>2. CASE DeleteMatch(c, gen, answered)
    <3>1. /\ DOMAIN dupr' = DOMAIN dupr
          /\ \A d \in DOMAIN dupr : /\ dupr'[d].game = dupr[d].game /\ dupr'[d].gen = dupr[d].gen
                                    /\ d # c => dupr'[d] = dupr[d]
      BY <1>1, <2>2, Deleting
    <3>2. \A d \in DOMAIN dupr : d # c => Spares(d)
      BY <3>1 DEF Spares
    <3> QED BY <3>1, <3>2 DEF EntriesKept
  <2> QED BY <2>1, <2>2
<1>4. \A m \in Games : q \in Callers => ~Excuses(req[q], m) /\ ~Reverting(req[q], m)
  BY DEF Excuses, Reverting
<1>5. RowsKept(q)
  BY <1>4, OnwardOK DEF RowsKept, Arrived, Away, At
<1>6. DoomKept(q)
  BY DoomStays DEF DoomKept
<1>7. Moves(q)
  BY <1>2, <1>3, <1>5, <1>6 DEF Moves
<1> QED BY <1>7, MovesArrive DEF Onward

LEMMA TickerArrives ==
  ASSUME Onward
  PROVE  /\ Tick => Arrives'
         /\ \A d \in inline : InlineDelete(d) => Arrives'
<1> USE DEF base, tables, locks, history
<1>1. TypeOK /\ Ticker \in Callers /\ Ticker \notin Requests /\ Free \notin Callers
  BY DEF Onward, Callers
<1>2. \A d \in queue \cup inline \cup Draining(req[Ticker]) : Doomed(d.ref)
  BY <1>1 DEF Doomed
<1>3. ASSUME Drain PROVE Arrives'
  <2>1. /\ req[Ticker] = Idle
        /\ GoTo(Ticker, [at |-> "drain", items |-> {d \in queue : /\ d.attempts < duprPendingDeleteMaxAttempts
                                                    /\ ~d.wait}])
        /\ UNCHANGED <<row, dupr, result, queue, inline, crossed>>
    BY <1>3, OnwardOK DEF Drain
  <2>2. PICK r : GoTo(Ticker, r) /\ r.at = "drain" /\ r.items \subseteq queue
    BY <2>1
  <2>3. req'[Ticker] = r /\ \A p \in Callers \ {Ticker} : req'[p] = req[p]
    BY <1>1, <2>2, GoesOthers
  <2>4. Draining(req'[Ticker]) \subseteq queue /\ Knows(Ticker)'
    BY <2>2, <2>3, KnowsLittle DEF Draining, InFlight
  <2>5. req[Ticker].at = "idle"
    BY <2>1 DEF Idle
  <2>6. \A m \in Games : ~Excuses(req[Ticker], m) /\ ~Reverting(req[Ticker], m)
    BY <2>5 DEF Excuses, Reverting
  <2> QED BY <1>1, <1>2, <2>1, <2>3, <2>4, <2>5, <2>6, TurnArrives
<1>4. ASSUME Reconcile PROVE Arrives'
  <2> DEFINE r == IF \E m \in Games : /\ row[m].status = "pending" /\ row[m].attempts > 0
                                      /\ ~row[m].wait
                  THEN [at |-> "flush.lock", retry |-> TRUE, only |-> Games] ELSE Idle
  <2>1. GoTo(Ticker, r) /\ At(Ticker, "drain")
        /\ UNCHANGED <<row, dupr, result, queue, inline, crossed>>
    BY <1>4 DEF Reconcile
  <2>2. r.at \in {"idle", "flush.lock"}
    BY DEF Idle
  <2> HIDE DEF r
  <2> QED BY <1>1, <2>1, <2>2, BeginArrives DEF At
<1>5. ASSUME DrainCall PROVE Arrives'
  <2>1. PICK d, answered, r :
           /\ d \in req[Ticker].items /\ answered \in BOOLEAN
           /\ DeleteMatch(d.ref, d.gen, answered)
           /\ r = [at |-> "drain.write", item |-> d, done |-> answered,
                   items |-> req[Ticker].items \ {d}]
           /\ GoTo(Ticker, r)
    BY <1>5 DEF DrainCall
  <2>2. At(Ticker, "drain") /\ UNCHANGED <<row, queue, inline, result, crossed>>
    BY <1>5 DEF DrainCall
  <2>3. /\ r.at = "drain.write" /\ r.item = d /\ r.items \subseteq req[Ticker].items
        /\ req'[Ticker] = r /\ \A p \in Callers \ {Ticker} : req'[p] = req[p]
    BY <1>1, <2>1, GoesOthers
  <2>4. Draining(req[Ticker]) = req[Ticker].items
    BY <2>2 DEF Draining, At
  <2>5. Draining(req'[Ticker]) \subseteq Draining(req[Ticker]) /\ Knows(Ticker)'
    BY <2>1, <2>3, <2>4, KnowsLittle DEF Draining, InFlight
  <2>6. Doomed(d.ref)
    BY <1>2, <2>1, <2>4
  <2> QED BY <1>1, <1>2, <2>1, <2>2, <2>3, <2>5, <2>6, DoomedGoes DEF At
<1>6. ASSUME DrainWrite PROVE Arrives'
  <2> DEFINE d == req[Ticker].item
             e == [d EXCEPT !.attempts = @ + 1, !.wait = TRUE]
  <2>1. /\ At(Ticker, "drain.write") /\ queue' \subseteq queue \cup {e}
        /\ UNCHANGED <<row, inline, dupr, result, crossed>>
        /\ GoTo(Ticker, [at |-> "drain", items |-> req[Ticker].items])
    BY <1>6, OnwardOK DEF DrainWrite
  <2>2. PICK r : GoTo(Ticker, r) /\ r.at = "drain" /\ r.items = req[Ticker].items
    BY <2>1
  <2>3. req'[Ticker] = r /\ \A p \in Callers \ {Ticker} : req'[p] = req[p]
    BY <1>1, <2>2, GoesOthers
  <2>4. Draining(req[Ticker]) = req[Ticker].items \cup {d}
    BY <2>1 DEF Draining, At
  <2>5. Draining(req'[Ticker]) \subseteq Draining(req[Ticker]) /\ Knows(Ticker)'
    BY <2>2, <2>3, <2>4, KnowsLittle DEF Draining, InFlight
  <2>6. e.ref = d.ref /\ Doomed(d.ref)
    <3>1. d \in Pending
      BY <1>1, <2>1, Shapes DEF At, TypeOK
    <3> QED BY <1>2, <2>4, <3>1 DEF Pending
  <2> HIDE DEF e, d
  <2>7. \A x \in (queue \cup inline)' : Doomed(x.ref)
    BY <1>2, <2>1, <2>6
  <2> QED BY <1>1, <1>2, <2>1, <2>3, <2>5, <2>6, <2>7, DoomedGoes DEF At
<1>7. ASSUME NEW d \in inline, InlineDelete(d) PROVE Arrives'
  <2> DEFINE e == [d EXCEPT !.attempts = @ + 1]
  <2>1. PICK answered \in BOOLEAN : /\ DeleteMatch(d.ref, d.gen, answered)
                                    /\ inline' \subseteq inline \cup {e}
    BY <1>7 DEF InlineDelete
  <2>2. UNCHANGED <<row, queue, req, result, crossed>>
    BY <1>7 DEF InlineDelete
  <2>3. e.ref = d.ref /\ Doomed(d.ref)
    <3>1. d \in Pending
      BY <1>1 DEF TypeOK
    <3> QED BY <1>2, <3>1 DEF Pending
  <2> HIDE DEF e
  <2>4. \A x \in (queue \cup inline)' : Doomed(x.ref)
    BY <1>2, <2>1, <2>2, <2>3
  <2>5. Free \notin Requests
    BY <1>1 DEF Callers
  <2> QED BY <1>1, <2>1, <2>2, <2>3, <2>4, <2>5, DoomedGoes
<1> QED BY <1>3, <1>4, <1>5, <1>6, <1>7 DEF Tick

\* Steps of no caller that leave what rows say of DUPR as it is.
LEMMA StillArrives ==
  ASSUME Onward, UNCHANGED <<req, dupr, crossed>>, ResultsOK(Free),
         \A m \in Games : /\ row'[m].status = row[m].status /\ row'[m].ref = row[m].ref
                          /\ Away(m) => Away(m)',
         \A d \in (queue \cup inline)' : Doomed(d.ref)
  PROVE  Arrives'
<1>1. Free \notin Callers
  OBVIOUS
<1>2. EntriesKept(Free)
  BY DEF EntriesKept, Spares
<1>3. RowsKept(Free)
  BY <1>1, OnwardOK DEF RowsKept, Arrived
<1>4. DoomKept(Free)
  BY <1>1, DoomStays DEF DoomKept
<1>5. Moves(Free)
  BY <1>2, <1>3, <1>4 DEF Moves
<1> QED BY <1>1, <1>5, MovesArrive DEF Onward

LEMMA OutsideArrives ==
  ASSUME Onward
  PROVE  /\ \A m \in Games : Undo(m) \/ Link(m) => Arrives'
         /\ Due \/ UNCHANGED vars => Arrives'
<1> USE DEF base, tables, locks, history
<1>1. TypeOK /\ \A d \in queue \cup inline : Doomed(d.ref)
  BY DEF Onward, Doomed
<1>2. ASSUME UNCHANGED <<req, dupr, row, result, queue, inline, crossed>> PROVE Arrives'
  <2>1. ResultsOK(Free)
    BY <1>2 DEF ResultsOK
  <2> QED BY <1>1, <1>2, <2>1, StillArrives DEF Away
<1>3. ASSUME NEW m \in Games, Undo(m) PROVE Arrives'
  <2>1. /\ Played(m) /\ Spend("undo") /\ result' = [result EXCEPT ![m] = Open]
        /\ UNCHANGED <<event, req, dupr, row, queue, inline, crossed>>
    BY <1>3 DEF Undo
  <2>2. Spent({"undo"})'
    <3>1. "undo" \in Kinds
      BY AllKinds
    <3> QED BY <2>1, <3>1, SpentNow
  <2>3. ResultsOK(Free)
    BY <1>1, <2>1, <2>2 DEF ResultsOK, Undone, TypeOK
  <2>4. \A n \in Games : Away(n) => Away(n)'
    <3>1. result[m] # Gone
      BY <2>1 DEF Played, Gone, Result
    <3> QED BY <1>1, <2>1, <3>1 DEF Away, TypeOK
  <2> QED BY <1>1, <2>1, <2>3, <2>4, StillArrives
<1>4. ASSUME NEW m \in Games, Link(m) PROVE Arrives'
  BY <1>2, <1>4 DEF Link
<1>5. ASSUME Due PROVE Arrives'
  <2>1. UNCHANGED <<req, dupr, result, inline, crossed>>
    BY <1>5 DEF Due
  <2>2. ResultsOK(Free)
    BY <2>1 DEF ResultsOK
  <2>3. ASSUME NEW m \in Games, row[m].wait, row' = [row EXCEPT ![m].wait = FALSE], UNCHANGED queue
        PROVE  Arrives'
    <3>1. row[m] \in Row /\ row \in [Games -> Row]
      BY <1>1 DEF TypeOK
    <3>2. /\ row'[m].status = row[m].status /\ row'[m].ref = row[m].ref /\ ~Away(m)
          /\ \A n \in Games : n # m => row'[n] = row[n]
      BY <2>3, <3>1 DEF Row, Away, NoRow
    <3> QED BY <1>1, <2>1, <2>2, <2>3, <3>2, StillArrives DEF Away
  <2>4. ASSUME NEW d \in queue, queue' = (queue \ {d}) \cup {[d EXCEPT !.wait = FALSE]}, UNCHANGED row
        PROVE  Arrives'
    <3> DEFINE e == [d EXCEPT !.wait = FALSE]
    <3>1. e.ref = d.ref
      BY <1>1 DEF TypeOK, Pending
    <3> HIDE DEF e
    <3>2. \A x \in (queue \cup inline)' : Doomed(x.ref)
      BY <1>1, <2>1, <2>4, <3>1 DEF e
    <3> QED BY <1>1, <2>1, <2>2, <2>4, <3>2, StillArrives DEF Away
  <2> QED BY <1>5, <2>3, <2>4 DEF Due
<1>6. ASSUME UNCHANGED vars PROVE Arrives'
  BY <1>2, <1>6 DEF vars
<1> QED BY <1>3, <1>4, <1>5, <1>6

\* A caller that leaves DUPR as it is.
LEMMA ActArrives ==
  ASSUME Onward, NEW q \in Callers, \A p \in Callers \ {q} : req'[p] = req[p],
         UNCHANGED dupr, crossed \subseteq crossed', ResultsOK(q), DoomKept(q),
         \A m \in Games :
            /\ row'[m].ref \in {0, row[m].ref} /\ (Away(m) => Away(m)')
            /\ row'[m].status = "submitted" =>
                   /\ row[m].status = "submitted" /\ row'[m].ref = row[m].ref
                   /\ Excuses(req[q], m) => Excuses(req'[q], m),
         lock = q \/ \A m \in Games : Reverting(req[q], m) => Reverting(req'[q], m) \/ Away(m)',
         At(q, "reverse.rows") => \A m \in Games \cap req[q].games : row'[m].ref = 0,
         Knows(q)'
  PROVE  Arrives'
<1>1. EntriesKept(q)
  BY DEF EntriesKept, Spares
<1>2. RowsKept(q)
  BY OnwardOK DEF RowsKept, Arrived, At
<1>3. Moves(q)
  BY <1>1, <1>2 DEF Moves
<1> QED BY <1>3, MovesArrive DEF Onward

LEMMA ScoresArrive ==
  ASSUME Onward, NEW q \in Callers, NEW m \in Games
  PROVE  /\ Award(q, m) => Arrives'
         /\ \A s \in Scores(m) : Score(q, m, s) => Arrives'
<1> USE DEF base, tables, locks, history
<1>1. TypeOK /\ \A d \in queue \cup inline : Doomed(d.ref)
  BY DEF Onward, Doomed
<1>2. req[q] = Idle => \A n \in Games : ~Excuses(req[q], n) /\ ~Reverting(req[q], n)
  BY RowsOK DEF Excuses, Reverting
<1>3. ASSUME NEW r, GoTo(q, r), r.at \in {"queue", "reverse.lock"}, UNCHANGED <<queue, inline>>
      PROVE  /\ req'[q] = r /\ \A p \in Callers \ {q} : req'[p] = req[p]
             /\ DoomKept(q) /\ Knows(q)'
  <2>1. req'[q] = r /\ \A p \in Callers \ {q} : req'[p] = req[p]
    BY <1>1, <1>3, GoesOthers
  <2>2. Draining(req'[q]) = {} /\ Knows(q)'
    BY <1>3, <2>1, KnowsLittle DEF InFlight, Draining
  <2> QED BY <1>1, <1>3, <2>1, <2>2, DoomStays DEF DoomKept
<1>4. ASSUME NEW s, Score(q, m, s) PROVE Arrives'
  <2>1. /\ req[q] = Idle /\ result[m] # Gone
        /\ result' = [result EXCEPT ![m] = Result("played", s)]
        /\ crossed' = crossed \cup {n \in {m} : \E f \in Callers : InHand(f, n)}
        /\ UNCHANGED <<row, queue, inline, dupr>>
    BY <1>4 DEF Score
  <2>2. PICK r : GoTo(q, r) /\ r.at = "queue" /\ r.games = {m}
    BY <1>4 DEF Score, Queueing
  <2>3. /\ req'[q] = r /\ \A p \in Callers \ {q} : req'[p] = req[p]
        /\ DoomKept(q) /\ Knows(q)'
    BY <1>3, <2>1, <2>2
  <2>4. Excused(m)'
    BY <2>2, <2>3 DEF Excused, Excuses
  <2>5. ASSUME NEW p \in Callers, req'[p].at \in InFlight, req'[p].item.game = m PROVE m \in crossed'
    <3>1. p # q
      BY <2>2, <2>3, <2>5 DEF InFlight
    <3>2. InHand(p, m)
      BY <2>3, <2>5, <3>1 DEF InHand, InFlight
    <3> QED BY <2>1, <3>2
  <2>6. \A n \in Games : n = m \/ result'[n] = result[n]
    BY <1>1, <2>1 DEF TypeOK
  <2>7. ResultsOK(q)
    BY <2>4, <2>5, <2>6 DEF ResultsOK
  <2>8. \A n \in Games : Away(n) => Away(n)'
    BY <2>1, <2>6 DEF Away
  <2> QED BY <1>2, <2>1, <2>3, <2>7, <2>8, RowsOK, ActArrives DEF At
<1>5. ASSUME Award(q, m) PROVE Arrives'
  <2>1. /\ req[q] = Idle /\ result[m] # Gone
        /\ result' = [result EXCEPT ![m] = Awarded]
        /\ UNCHANGED <<row, queue, inline, dupr, crossed>>
    BY <1>5 DEF Award
  <2>2. PICK r : GoTo(q, r) /\ r.at = "reverse.lock" /\ r.games = {m}
    BY <1>5 DEF Award, Reversing
  <2>3. /\ req'[q] = r /\ \A p \in Callers \ {q} : req'[p] = req[p]
        /\ DoomKept(q) /\ Knows(q)'
    BY <1>3, <2>1, <2>2
  <2>4. Given(m)'
    BY <2>2, <2>3 DEF Given, Reverting
  <2>5. \A n \in Games : n = m \/ result'[n] = result[n]
    BY <1>1, <2>1 DEF TypeOK
  <2>6. ResultsOK(q)
    BY <2>4, <2>5 DEF ResultsOK
  <2>7. \A n \in Games : Away(n) => Away(n)'
    BY <2>1, <2>5 DEF Away
  <2> QED BY <1>2, <2>1, <2>3, <2>6, <2>7, RowsOK, ActArrives DEF At
<1> QED BY <1>4, <1>5

LEMMA QueueWriteArrives ==
  ASSUME Onward, NEW q \in Callers, QueueWrite(q)
  PROVE  Arrives'
<1> USE DEF base, tables, locks, history
<1> DEFINE m == req[q].game
           next == Queueing(req[q].games, req[q].then)
<1>1. TypeOK /\ req[q] \in Callings /\ \A d \in queue \cup inline : Doomed(d.ref)
  BY DEF Onward, Doomed, TypeOK
<1>2. /\ At(q, "queue.write") /\ UNCHANGED <<result, queue, inline, dupr, crossed>>
      /\ row' = IF req[q].known THEN Updated(m, Requeue(row[m]))
                ELSE IF Queued(m) \/ result[m] = Gone THEN row
                ELSE [row EXCEPT ![m] = Fresh]
  BY OnwardOK DEF QueueWrite, Writes
<1>3. m \in Games /\ req[q].games \subseteq Games
  BY <1>1, <1>2, Shapes DEF At
<1>4. req'[q] = next /\ \A p \in Callers \ {q} : req'[p] = req[p]
  <2>1. CASE next = Idle
    BY <1>1, <2>1, ReturnOK DEF QueueWrite
  <2>2. CASE next # Idle
    BY <1>1, <2>2, GoesOthers DEF QueueWrite
  <2> QED BY <2>1, <2>2
<1>5. /\ next.at \in {"queue", "flush.lock", "idle"}
      /\ req[q].games # {} => next.at = "queue" /\ next.games = req[q].games
  BY DEF Queueing, Idle
<1> HIDE DEF next
<1>6. Draining(req'[q]) = {} /\ Knows(q)'
  BY <1>4, <1>5, KnowsLittle DEF InFlight, Draining
<1>7. DoomKept(q)
  BY <1>1, <1>2, <1>4, <1>6, DoomStays DEF DoomKept
<1>8. ResultsOK(q)
  BY <1>2 DEF ResultsOK
<1>9. /\ \A n \in Games : n = m \/ row'[n] = row[n]
      /\ row'[m] = row[m] \/ (row'[m].status = "pending" /\ row'[m].ref \in {0, row[m].ref} /\ ~Away(m))
      /\ req[q].known => row'[m].status # "submitted"
  <2>1. row \in [Games -> Row] /\ row[m] \in Row
    BY <1>1, <1>3 DEF TypeOK
  <2>2. /\ Requeue(row[m]).status = "pending" /\ Requeue(row[m]).ref = row[m].ref
        /\ Fresh.status = "pending" /\ Fresh.ref = 0 /\ NoRow.status = "none"
    BY <2>1 DEF Requeue, Fresh, NoRow, Row
  <2>3. CASE req[q].known
    <3>1. row' = Updated(m, Requeue(row[m]))
      BY <1>2, <2>3
    <3> HIDE DEF m
    <3> QED BY <1>3, <2>1, <2>2, <3>1 DEF Updated, Queued, Away
  <2>4. CASE ~req[q].known
    <3>1. row' = IF Queued(m) \/ result[m] = Gone THEN row ELSE [row EXCEPT ![m] = Fresh]
      BY <1>2, <2>4
    <3> HIDE DEF m
    <3> QED BY <1>3, <2>1, <2>2, <2>4, <3>1 DEF Queued, Away
  <2> QED BY <2>3, <2>4
<1>10. ASSUME NEW n \in Games, row'[n].status = "submitted"
       PROVE  /\ row[n].status = "submitted" /\ row'[n].ref = row[n].ref
              /\ Excuses(req[q], n) => Excuses(req'[q], n)
  <2>1. row'[n] = row[n]
    BY <1>9, <1>10
  <2>2. ASSUME Excuses(req[q], n) PROVE Excuses(req'[q], n)
    <3>1. n \in req[q].games \/ (req[q].known /\ m = n)
      BY <1>2, <2>2 DEF Excuses, Reverting, At
    <3>2. n \in req[q].games
      BY <1>9, <1>10, <3>1
    <3> QED BY <1>4, <1>5, <3>2 DEF Excuses
  <2> QED BY <1>10, <2>1, <2>2
<1>11. \A n \in Games : row'[n].ref \in {0, row[n].ref} /\ (Away(n) => Away(n)')
  <2> HIDE DEF m
  <2> QED BY <1>2, <1>9 DEF Away
<1>12. \A n \in Games : ~Reverting(req[q], n)
  BY <1>2 DEF Reverting, At
<1> QED BY <1>2, <1>4, <1>6, <1>7, <1>8, <1>10, <1>11, <1>12, ActArrives DEF At

LEMMA RowsGoArrive ==
  ASSUME Onward, NEW q \in Callers
  PROVE  RemoveRow(q) \/ ReverseQueue(q) \/ ReverseRows(q) \/ DeleteGames(q) => Arrives'
<1> USE DEF base, tables, locks, history
<1>1. /\ TypeOK /\ Safe /\ req[q] \in Callings /\ row \in [Games -> Row]
      /\ (\A d \in queue \cup inline : Doomed(d.ref)) /\ ~Spend("fault") /\ Knows(q)
  BY OnwardOK DEF Onward, Doomed, TypeOK
<1>2. ASSUME NEW r, req'[q] = r, r.at \in {"idle", "delete", "reverse.rows", "remove.rows"}
      PROVE  Draining(req'[q]) = {} /\ Knows(q)'
  BY <1>2, KnowsLittle DEF InFlight, Draining
<1>3. ASSUME \A p \in Callers \ {q} : req'[p] = req[p], UNCHANGED <<queue, inline>>, Draining(req'[q]) = {}
      PROVE  DoomKept(q)
  BY <1>1, <1>3, DoomStays DEF DoomKept
<1>4. UNCHANGED result => ResultsOK(q)
  BY DEF ResultsOK
<1>5. ASSUME RemoveRow(q) PROVE Arrives'
  <2> DEFINE i == req[q].item
             new == [Fresh EXCEPT !.gen = i.gen + 1]
  <2>1. /\ At(q, "remove.row") /\ row' = Updated(i.game, new)
        /\ UNCHANGED <<dupr, result, queue, inline, crossed>>
    BY <1>1, <1>5 DEF RemoveRow, Writes
  <2>2. new.status = "pending" /\ new.ref = 0 /\ NoRow.status = "none"
    BY DEF Fresh, NoRow
  <2>3. i.game \in Games
    BY <1>1, <2>1, Shapes DEF At, Reversal
  <2>4. PICK r : GoTo(q, r) /\ r.at = "remove.rows"
    BY <1>5 DEF RemoveRow
  <2>5. req'[q] = r /\ \A p \in Callers \ {q} : req'[p] = req[p]
    BY <1>1, <2>4, GoesOthers
  <2>6. \A n \in Games : /\ Excuses(req[q], n) => n = i.game
                         /\ ~Reverting(req[q], n)
    BY <2>1 DEF At, Excuses, Reverting
  <2> HIDE DEF i, new
  <2>7. \A n \in Games :
            \/ row'[n] = row[n] /\ (n = i.game => row[n] = NoRow)
            \/ row'[n] = new /\ Queued(n)
    BY <1>1, <2>1, <2>3 DEF Updated, Queued
  <2>8. ASSUME NEW n \in Games
        PROVE  /\ row'[n].ref \in {0, row[n].ref} /\ (Away(n) => Away(n)')
               /\ row'[n].status = "submitted" =>
                      /\ row[n].status = "submitted" /\ row'[n].ref = row[n].ref
                      /\ ~Excuses(req[q], n)
    BY <2>1, <2>2, <2>6, <2>7 DEF Away, Queued
  <2> QED BY <1>2, <1>3, <1>4, <2>1, <2>4, <2>5, <2>6, <2>8, ActArrives DEF At
<1>6. ASSUME ReverseQueue(q) PROVE Arrives'
  <2>1. /\ At(q, "reverse.queue")
        /\ queue' = queue \cup {[ref |-> i.ref, gen |-> i.gen, attempts |-> 0, wait |-> FALSE] : i \in req[q].items}
        /\ UNCHANGED <<row, dupr, result, inline, crossed>>
    BY <1>1, <1>6 DEF ReverseQueue
  <2>2. PICK r : GoTo(q, r) /\ r.at = "reverse.rows" /\ r.games = req[q].games
    BY <1>6 DEF ReverseQueue
  <2>3. req'[q] = r /\ \A p \in Callers \ {q} : req'[p] = req[p]
    BY <1>1, <2>2, GoesOthers
  <2>4. lock = q
    BY <1>1, <2>1, Holds DEF At, WaitLabels
  <2>5. ASSUME NEW c, Doomed(c)', ~Doomed(c) PROVE c \in DOMAIN dupr /\ dupr[c].game \in req'[q].games
    <3>1. \E d \in queue' \ queue : d.ref = c
      <4>1. Draining(req'[q]) = {}
        BY <1>2, <2>2, <2>3
      <4>2. \A p \in Callers : \A d \in Draining(req'[p]) : d.ref # c
        BY <2>3, <2>5, <4>1 DEF Doomed
      <4> QED BY <2>1, <2>5, <4>2 DEF Doomed
    <3>2. PICK i \in req[q].items : i.ref = c
      BY <2>1, <3>1
    <3> QED BY <1>1, <2>1, <2>2, <2>3, <3>2 DEF Knows, At, Created
  <2>6. DoomKept(q)
    BY <2>2, <2>3, <2>4, <2>5 DEF DoomKept
  <2>7. \A n \in Games : Excuses(req[q], n) => Excuses(req'[q], n)
    BY <2>1, <2>2, <2>3 DEF At, Excuses, Reverting
  <2> QED BY <1>2, <1>4, <2>1, <2>2, <2>3, <2>4, <2>6, <2>7, OnwardOK, ActArrives DEF At, Away
<1>7. ASSUME ReverseRows(q) PROVE Arrives'
  <2>1. /\ At(q, "reverse.rows")
        /\ row' = [m \in Games |-> IF m \in req[q].games THEN NoRow ELSE row[m]]
        /\ UNCHANGED <<dupr, result, queue, inline, crossed>>
    BY <1>1, <1>7 DEF ReverseRows, Writes
  <2>2. lock = q /\ req[q] \in [at : {"reverse.rows"}, games : SUBSET Games, then : Ends]
    <3>1. lock = q
      BY <1>1, <2>1, Holds DEF At, WaitLabels
    <3> QED BY <1>1, <2>1, <3>1 DEF At, Callings, Waiting, Importing, Removing, Withdrawing
  <2>3. (\A p \in Callers \ {q} : req'[p] = req[p]) /\ req'[q].at \in {"idle", "delete"}
    <3>1. CASE Return(q)
      BY <1>1, <3>1, ReturnOK, RowsOK
    <3>2. CASE GoTo(q, [req[q] EXCEPT !.at = "delete"])
      <4>1. PICK r : GoTo(q, r) /\ r.at = "delete"
        BY <2>2, <3>2
      <4> QED BY <1>1, <4>1, GoesOthers
    <3> QED BY <1>7, <2>2, <3>1, <3>2 DEF ReverseRows, Ends
  <2>4. \A n \in Games : Excuses(req[q], n) => n \in req[q].games
    BY <2>1 DEF At, Excuses, Reverting
  <2>5. NoRow.status = "none" /\ NoRow.ref = 0
    BY DEF NoRow
  <2>6. ASSUME NEW n \in Games
        PROVE  /\ row'[n].ref \in {0, row[n].ref} /\ (Away(n) => Away(n)')
               /\ row'[n].status = "submitted" =>
                      /\ row[n].status = "submitted" /\ row'[n].ref = row[n].ref
                      /\ ~Excuses(req[q], n)
               /\ n \in req[q].games => row'[n].ref = 0
    BY <2>1, <2>4, <2>5 DEF Away
  <2> QED BY <1>2, <1>3, <1>4, <2>1, <2>2, <2>3, <2>6, ActArrives
<1>8. ASSUME DeleteGames(q) PROVE Arrives'
  <2>1. /\ At(q, "delete") /\ Return(q)
        /\ result' = [m \in Games |-> IF m \in req[q].games THEN Gone ELSE result[m]]
        /\ row' = [m \in Games |-> IF m \in req[q].games THEN NoRow ELSE row[m]]
        /\ UNCHANGED <<dupr, queue, inline, crossed>>
    BY <1>1, <1>8 DEF DeleteGames
  <2>2. (\A p \in Callers \ {q} : req'[p] = req[p]) /\ req'[q].at = "idle"
    BY <1>1, <2>1, ReturnOK, RowsOK
  <2>3. \A n \in Games : Excuses(req[q], n) \/ Reverting(req[q], n) => n \in req[q].games
    BY <2>1 DEF At, Excuses, Reverting
  <2>4. NoRow.status = "none" /\ NoRow.ref = 0
    BY DEF NoRow
  <2>5. ASSUME NEW n \in Games
        PROVE  /\ row'[n].ref \in {0, row[n].ref} /\ (Away(n) => Away(n)')
               /\ row'[n].status = "submitted" =>
                      /\ row[n].status = "submitted" /\ row'[n].ref = row[n].ref
                      /\ ~Excuses(req[q], n)
               /\ n \in req[q].games => Away(n)'
               /\ n \notin req[q].games => result'[n] = result[n]
    BY <2>1, <2>3, <2>4 DEF Away
  <2>6. ResultsOK(q)
    BY <2>5 DEF ResultsOK, Given
  <2> QED BY <1>2, <1>3, <2>1, <2>2, <2>3, <2>5, <2>6, ActArrives DEF At
<1> QED BY <1>5, <1>6, <1>7, <1>8

\* What became of a submission is written.
LEMMA MarksArrive ==
  ASSUME Onward, NEW q \in Callers
  PROVE  FlushRetry(q) \/ FlushMark(q) => Arrives'
<1> USE DEF base, tables, locks, history
<1>0. PICK i, m : i = req[q].item /\ m = i.game
  OBVIOUS
<1>1. /\ TypeOK /\ Safe /\ req[q] \in Callings /\ row \in [Games -> Row]
      /\ (\A d \in queue \cup inline : Doomed(d.ref)) /\ ~Spend("fault") /\ Knows(q)
      /\ \A n \in Games : Arrived(n)
  BY OnwardOK DEF Onward, Doomed, TypeOK
<1>2. /\ NoRow.status = "none" /\ NoRow.ref = 0
      /\ \A n \in Games : Away(n) => ~Queued(n)
      /\ \A n \in Games : row[n].status = "submitted" => Queued(n)
  BY DEF NoRow, Away, Queued
<1>3. ASSUME req[q].at \in {"flush.retry", "flush.mark"}, GoTo(q, Rows(req[q].flush)),
             UNCHANGED <<result, dupr, queue, inline, crossed>>
      PROVE  /\ m \in Games /\ lock = q
             /\ \A p \in Callers \ {q} : req'[p] = req[p]
             /\ Knows(q)' /\ DoomKept(q) /\ ResultsOK(q) /\ EntriesKept(q)
             /\ \A n \in Games : ~Reverting(req[q], n) /\ (Excuses(req[q], n) => n = m)
             /\ \A c : Doomed(c)' => Doomed(c)
  <2>1. /\ i \in Item /\ lock = q
        /\ {OfRow(j) : j \in req[q].flush.rows} \subseteq Carried(req[q])
    BY <1>0, <1>1, <1>3, FlushHolds
  <2>2. PICK r : /\ GoTo(q, r) /\ r.at = "flush.rows"
                 /\ Carried(r) = {OfRow(j) : j \in req[q].flush.rows}
    BY <1>3, FlushCarries
  <2>3. req'[q] = r /\ \A p \in Callers \ {q} : req'[p] = req[p]
    BY <1>1, <2>2, GoesOthers
  <2>4. Draining(req'[q]) = {}
    BY <2>2, <2>3 DEF Draining
  <2>5. \A c : Doomed(c)' => Doomed(c)
    <3>1. \A d \in (queue \cup inline)' : Doomed(d.ref)
      BY <1>1, <1>3
    <3> QED BY <2>3, <2>4, <3>1, DoomStays
  <2>6. Carried(req[q])' = Carried(r)
    BY <2>3 DEF Carried, OfRow
  <2>7. \A x \in Carried(r) : ~Doomed(x.ref)'
    BY <1>1, <1>3, <2>1, <2>2, <2>5 DEF Knows, InFlight
  <2>8. Knows(q)'
    BY <2>2, <2>3, <2>6, <2>7 DEF Knows, InFlight
  <2>9. m \in Games
    BY <1>0, <2>1 DEF Item
  <2>10. ResultsOK(q) /\ EntriesKept(q) /\ DoomKept(q)
    BY <1>3, <2>5 DEF ResultsOK, EntriesKept, Spares, DoomKept
  <2>11. \A n \in Games : ~Reverting(req[q], n) /\ (Excuses(req[q], n) => n = m)
    BY <1>0, <1>3 DEF Reverting, Excuses
  <2> QED BY <2>1, <2>3, <2>5, <2>8, <2>9, <2>10, <2>11
<1>4. ASSUME FlushRetry(q) PROVE Arrives'
  <2> DEFINE n == i.row.attempts + 1
             new == [row[m] EXCEPT !.attempts = n,
                                   !.status = IF n >= duprMaxAttempts THEN "failed" ELSE "pending",
                                   !.wait = n < duprMaxAttempts]
  <2>1. /\ At(q, "flush.retry") /\ row' = Updated(m, new) /\ GoTo(q, Rows(req[q].flush))
        /\ UNCHANGED <<result, dupr, queue, inline, crossed>>
    BY <1>0, <1>1, <1>4 DEF FlushRetry, Writes
  <2>2. m \in Games /\ row[m] \in Row
    BY <1>1, <1>3, <2>1 DEF At
  <2> HIDE DEF n
  <2>3. new.status # "submitted" /\ new.ref = row[m].ref
    BY <2>2 DEF Row
  <2> HIDE DEF new
  <2>4. \A k \in Games : \/ (row'[k] = row[k] /\ (k = m => ~Queued(m)))
                        \/ (k = m /\ Queued(m) /\ row'[m] = new)
    BY <1>1, <2>1, <2>2 DEF Updated
  <2>5. ASSUME NEW k \in Games
        PROVE  /\ row'[k].ref \in {0, row[k].ref} /\ (Away(k) => Away(k)')
               /\ row'[k].status = "submitted" =>
                      row[k].status = "submitted" /\ row'[k].ref = row[k].ref /\ k # m
    BY <1>2, <2>1, <2>3, <2>4 DEF Away
  <2> QED BY <1>3, <2>1, <2>5, ActArrives DEF At
<1>5. ASSUME FlushMark(q) PROVE Arrives'
  <2> DEFINE new == [row[m] EXCEPT !.status = req[q].status, !.ref = req[q].ref, !.wait = FALSE]
  <2>1. /\ At(q, "flush.mark") /\ row' = Updated(m, new) /\ GoTo(q, Rows(req[q].flush))
        /\ UNCHANGED <<result, dupr, queue, inline, crossed>>
    BY <1>0, <1>1, <1>5 DEF FlushMark
  <2>2. m \in Games /\ row[m] \in Row
    BY <1>1, <1>3, <2>1 DEF At
  <2>3. new.status = req[q].status /\ new.ref = req[q].ref
    BY <2>2 DEF Row
  <2>5. PICK c : c = req[q].ref
    OBVIOUS
  <2>4. ~Doomed(c)' /\ (req[q].status = "submitted" =>
             c # 0 /\ (m \notin crossed => Fine(m, c) \/ Given(m)))
    BY <1>0, <1>1, <1>3, <2>1, <2>5 DEF Knows, At
  <2> HIDE DEF new
  <2>6. \A k \in Games : \/ (row'[k] = row[k] /\ (k = m => ~Queued(m)))
                        \/ (k = m /\ Queued(m) /\ row'[m] = new)
    <3> QED BY <1>1, <2>1, <2>2 DEF Updated
  <2>7. ASSUME row'[m].status = "submitted", m \notin crossed PROVE Excused(m)' \/ Fine(m, row[m].ref)'
    <3>1. Queued(m) /\ row'[m].ref = c /\ req[q].status = "submitted"
      BY <1>2, <2>2, <2>3, <2>5, <2>6, <2>7
    <3>2. CASE Fine(m, c)
      <4>1. Fine(m, c)'
        BY <2>1, <2>2, <3>2, FineStays DEF Onward, Spares
      <4>2. Fine(m, row[m].ref)'
        BY <3>1, <4>1 DEF Fine, Undone, Played
      <4> QED BY <4>2
    <3>3. CASE Given(m)
      <4>1. ~Away(m)
        BY <1>2, <2>2, <3>1
      <4>2. PICK p \in Callers : Reverting(req[p], m)
        BY <3>3, <4>1 DEF Given
      <4>3. p # q
        BY <2>1, <4>2 DEF Reverting, At
      <4>4. Reverting(req'[p], m)
        BY <1>3, <2>1, <4>2, <4>3 DEF At
      <4> QED BY <4>4 DEF Excused, Excuses
    <3> QED BY <2>4, <2>5, <2>7, <3>1, <3>2, <3>3
  <2>8. RowsKept(q)
    <3>1. SUFFICES ASSUME NEW k \in Games
          PROVE  /\ row'[k].ref \in {0, row[k].ref} \/ ~Doomed(row[k].ref)'
                 /\ row'[k].status = "submitted" =>
                        /\ row'[k].ref # 0
                        /\ \/ k \in crossed'
                           \/ Excused(k)'
                           \/ Fine(k, row[k].ref)'
                           \/ /\ row[k].status = "submitted" /\ row'[k].ref = row[k].ref
                              /\ ~Excuses(req[q], k)
                 /\ Away(k) => Away(k)'
                 /\ ~Reverting(req[q], k)
      BY <2>1 DEF RowsKept, At
    <3>2. ~Reverting(req[q], k) /\ (Excuses(req[q], k) => k = m)
      BY <1>3, <2>1 DEF At
    <3>3. CASE row'[k] = row[k] /\ (k = m => ~Queued(m))
      <4>1. Away(k) => Away(k)'
        BY <2>1, <3>3 DEF Away
      <4>2. row'[k].status = "submitted" => k # m /\ row[k].status = "submitted" /\ row'[k].ref # 0
        BY <1>1, <1>2, <3>3 DEF Arrived
      <4> QED BY <3>2, <3>3, <4>1, <4>2
    <3>4. CASE k = m /\ Queued(m) /\ row'[m] = new
      <4>1. ~Away(k)
        BY <1>2, <3>4
      <4>2. row'[m].ref = c /\ row'[m].status = req[q].status
        BY <2>3, <2>5, <3>4
      <4>4. ~Doomed(row[m].ref)'
        BY <2>4, <4>2 DEF Doomed
      <4> HIDE DEF new
      <4>5. row'[m].status = "submitted" => row'[m].ref # 0
        BY <2>4, <4>2
      <4> QED BY <2>1, <2>7, <3>2, <3>4, <4>1, <4>4, <4>5
    <3> QED BY <2>6, <3>3, <3>4
  <2>9. Moves(q)
    BY <1>3, <2>1, <2>8 DEF Moves, At
  <2> QED BY <1>3, <2>1, <2>9, MovesArrive DEF Onward, At
<1> QED BY <1>4, <1>5

\* DUPR has answered a submission, or the answer was lost.
LEMMA CallArrives ==
  ASSUME Onward, NEW q \in Callers, At(q, "flush.call"), NEW r, GoTo(q, r),
         UNCHANGED <<row, result, queue, inline, crossed>>,
         r.at \in {"flush.mark", "flush.retry"}, r.item = req[q].item, Carried(r) = Carried(req[q]),
         EntriesKept(q),
         r.at = "flush.mark" =>
             /\ ~Doomed(r.ref)
             /\ r.status = "submitted" =>
                    r.ref # 0 /\ dupr'[r.ref].live /\ dupr'[r.ref].score = req[q].score
  PROVE  Arrives'
<1>0. PICK m : m = r.item.game
  OBVIOUS
<1>1. /\ TypeOK /\ Safe /\ (\A d \in queue \cup inline : Doomed(d.ref)) /\ Knows(q)
      /\ \A n \in Games : Arrived(n)
  BY OnwardOK DEF Onward, Doomed
<1>2. req'[q] = r /\ \A p \in Callers \ {q} : req'[p] = req[p]
  BY <1>1, GoesOthers
<1>3. m \in Games /\ lock = q
  BY <1>0, <1>1, FlushHolds DEF At, Item
<1>4. Draining(req'[q]) = {}
  BY <1>2 DEF Draining
<1>5. \A c : Doomed(c)' => Doomed(c)
  <2>1. \A d \in (queue \cup inline)' : Doomed(d.ref)
    BY <1>1
  <2> QED BY <1>2, <1>4, <2>1, DoomStays
<1>6. Carried(req[q])' = Carried(r)
  BY <1>2 DEF Carried, OfRow
<1>7. \A x \in Carried(r) : ~Doomed(x.ref)'
  BY <1>1, <1>5 DEF Knows, InFlight, At
<1>8. ASSUME r.at = "flush.mark", r.status = "submitted", m \notin crossed
      PROVE  Fine(m, r.ref)' \/ Given(m)'
  <2>1. Undone(m) \/ Given(m) \/ (Played(m) /\ result[m].score = req[q].score)
    BY <1>0, <1>1, <1>8 DEF Knows, At
  <2>2. CASE Undone(m)
    <3>1. Spent({"undo"})'
      BY <2>2, StaysSpent, AllKinds DEF Onward, Undone
    <3> QED BY <2>2, <3>1 DEF Fine, Undone
  <2>3. CASE Given(m)
    <3>1. CASE Away(m)
      BY <3>1 DEF Given, Away
    <3>2. ASSUME NEW p \in Callers, Reverting(req[p], m) PROVE Given(m)'
      <4>1. p # q
        BY <3>2 DEF Reverting, At
      <4>2. Reverting(req'[p], m)
        BY <1>2, <3>2, <4>1
      <4> QED BY <4>2 DEF Given
    <3> QED BY <2>3, <3>1, <3>2 DEF Given
  <2>4. CASE Played(m) /\ result[m].score = req[q].score
    BY <1>8, <2>4 DEF Fine, Played
  <2> QED BY <2>1, <2>2, <2>3, <2>4
<1>9. Knows(q)'
  BY <1>0, <1>2, <1>5, <1>6, <1>7, <1>8 DEF Knows, InFlight
<1>10. \A n \in Games : ~Reverting(req[q], n) /\ (Excuses(req[q], n) => Excuses(req'[q], n))
  BY <1>2 DEF Reverting, Excuses, At
<1>11. RowsKept(q)
  BY <1>1, <1>10 DEF RowsKept, Arrived, Away, At
<1>12. ResultsOK(q) /\ DoomKept(q)
  BY <1>5 DEF ResultsOK, DoomKept
<1>13. Moves(q)
  BY <1>2, <1>11, <1>12 DEF Moves
<1> QED BY <1>9, <1>13, MovesArrive DEF Onward

LEMMA CallsArrive ==
  ASSUME Onward, NEW q \in Callers
  PROVE  Create(q) \/ Correct(q) => Arrives'
<1> USE DEF base, tables, locks, history
<1>0. PICK f, i, s : f = req[q].flush /\ i = req[q].item /\ s = req[q].score
  OBVIOUS
<1>1. /\ TypeOK /\ Safe /\ Knows(q) /\ req[q] \in Callings
      /\ \A c : Doomed(c) => c \in DOMAIN dupr /\ c # 0
  BY OnwardOK DEF Onward, TypeOK
<1>2. ASSUME At(q, "flush.call")
      PROVE  /\ lock = q /\ i \in Item /\ Sound(i.game, i.row.gen, i.row.ref)
             /\ {OfRow(j) : j \in f.rows \cup {i}} = Carried(req[q])
             /\ ~Doomed(i.row.ref)
  <2>1. /\ lock = q /\ i \in Item /\ OfRow(i) \in Carried(req[q])
        /\ {OfRow(j) : j \in f.rows \cup {i}} = Carried(req[q])
    BY <1>0, <1>1, <1>2, FlushHolds DEF At
  <2>2. Sound(i.game, i.row.gen, i.row.ref)
    BY <1>0, <1>1, <1>2, ItemSound DEF At
  <2>3. ~Doomed(OfRow(i).ref)
    BY <1>1, <1>2, <2>1 DEF Knows, At, InFlight
  <2> QED BY <2>1, <2>2, <2>3 DEF OfRow
<1>3. ASSUME At(q, "flush.call"), NEW status, NEW c, GoTo(q, Mark(f, i, status, c)), ~Doomed(c),
             UNCHANGED <<row, result, queue, inline, crossed>>, EntriesKept(q),
             status = "submitted" => c # 0 /\ dupr'[c].live /\ dupr'[c].score = s
      PROVE  Arrives'
  <2>1. PICK r : r = Mark(f, i, status, c)
    OBVIOUS
  <2>2. r.status = status
    BY <2>1 DEF Mark
  <2>3. /\ r.at = "flush.mark" /\ r.item = i /\ r.ref = c
        /\ Carried(r) = {OfRow(j) : j \in f.rows \cup {i}}
    BY <2>1, FlushCarries
  <2> QED BY <1>0, <1>2, <1>3, <2>1, <2>2, <2>3, CallArrives
<1>4. ASSUME At(q, "flush.call"), Retry(q), UNCHANGED <<row, result, queue, inline, crossed>>, EntriesKept(q)
      PROVE  Arrives'
  <2>1. PICK r : r = [at |-> "flush.retry", flush |-> f, item |-> i]
    OBVIOUS
  <2>2. r.at = "flush.retry" /\ r.item = i /\ Carried(r) = {OfRow(j) : j \in f.rows \cup {i}}
    BY <2>1, FlushCarries
  <2>3. GoTo(q, r)
    BY <1>0, <1>4, <2>1 DEF Retry
  <2> QED BY <1>0, <1>2, <1>4, <2>2, <2>3, CallArrives
<1>5. UNCHANGED dupr => EntriesKept(q)
  BY DEF EntriesKept, Spares
<1>6. ASSUME Create(q) PROVE Arrives'
  <2>1. At(q, "flush.call") /\ UNCHANGED <<row, result, queue, inline, crossed>>
    BY <1>6 DEF Create, Conflict
  <2>2. CASE Conflict(q, i) /\ UNCHANGED dupr
    <3>1. GoTo(q, Mark(f, i, "orphaned", 0))
      BY <1>0, <2>2 DEF Conflict
    <3> QED BY <1>1, <1>3, <1>5, <2>1, <2>2, <3>1
  <2>3. ASSUME NEW e, e = [game |-> i.game, gen |-> i.row.gen, score |-> s, live |-> TRUE],
               dupr' = Append(dupr, e),
               GoTo(q, Mark(f, i, "submitted", Len(Append(dupr, e)))) \/ Retry(q)
        PROVE  Arrives'
    <3>1. PICK n : n = Len(dupr) + 1
      OBVIOUS
    <3>2. /\ n \notin DOMAIN dupr /\ n # 0 /\ DOMAIN dupr' = DOMAIN dupr \cup {n} /\ dupr'[n] = e
          /\ (\A c \in DOMAIN dupr : dupr'[c] = dupr[c]) /\ Len(Append(dupr, e)) = n
      <4>1. dupr \in Seq(Entry) BY <1>1 DEF TypeOK
      <4> QED BY <2>3, <3>1, <4>1
    <3>3. e.live /\ e.score = s
      BY <2>3
    <3>4. EntriesKept(q)
      BY <3>2 DEF EntriesKept, Spares
    <3>5. ~Doomed(n)
      BY <1>1, <3>2
    <3>6. GoTo(q, Mark(f, i, "submitted", n)) \/ Retry(q)
      BY <2>3, <3>2
    <3> QED BY <1>3, <1>4, <2>1, <3>2, <3>3, <3>4, <3>5, <3>6
  <2>4. \/ Conflict(q, i) /\ UNCHANGED dupr
        \/ \E e : /\ e = [game |-> i.game, gen |-> i.row.gen, score |-> s, live |-> TRUE]
                  /\ dupr' = Append(dupr, e)
                  /\ GoTo(q, Mark(f, i, "submitted", Len(Append(dupr, e)))) \/ Retry(q)
    BY <1>0, <1>6 DEF Create
  <2> QED BY <2>2, <2>3, <2>4
<1>7. ASSUME Correct(q) PROVE Arrives'
  <2>0. PICK c, there : c = i.row.ref /\ there = (dupr[c].live /\ dupr[c].gen = i.row.gen)
    OBVIOUS
  <2>1. /\ At(q, "flush.call") /\ c # 0 /\ UNCHANGED <<row, result, queue, inline, crossed>>
        /\ dupr' = IF there THEN [dupr EXCEPT ![c].score = s] ELSE dupr
        /\ \/ GoTo(q, Mark(f, i, IF there THEN "submitted" ELSE "failed", c))
           \/ there /\ Retry(q)
    BY <1>0, <1>7, <2>0 DEF Correct
  <2>2. c \in DOMAIN dupr /\ dupr[c].game = i.game /\ dupr[c].gen = i.row.gen /\ ~Doomed(c) /\ lock = q
    BY <1>2, <2>0, <2>1 DEF Sound, Created
  <2>3. CASE there
    <3>1. /\ DOMAIN dupr' = DOMAIN dupr
          /\ \A d \in DOMAIN dupr : d # c => dupr'[d] = dupr[d]
      BY <2>1, <2>3
    <3>2. /\ dupr'[c].score = s /\ dupr'[c].live /\ dupr'[c].game = dupr[c].game
          /\ dupr'[c].gen = dupr[c].gen
      <4>1. dupr[c] \in Entry
        BY <1>1, <2>2, EntriesOK
      <4> QED BY <2>0, <2>1, <2>2, <2>3, <4>1 DEF Entry
    <3>3. Excuses(req'[q], dupr[c].game)
      <4>1. PICK r : GoTo(q, r) /\ r.at \in {"flush.mark", "flush.retry"} /\ r.item = i
        <5>1. CASE GoTo(q, Mark(f, i, IF there THEN "submitted" ELSE "failed", c))
          BY <5>1, FlushCarries
        <5>2. CASE Retry(q)
          BY <1>0, <5>2 DEF Retry
        <5> QED BY <2>1, <5>1, <5>2
      <4>2. req'[q] = r
        BY <1>1, <4>1, GoesOthers
      <4> QED BY <2>2, <4>1, <4>2 DEF Excuses
    <3>4. EntriesKept(q)
      BY <2>2, <3>1, <3>2, <3>3 DEF EntriesKept, Spares
    <3>5. GoTo(q, Mark(f, i, "submitted", c)) \/ Retry(q)
      BY <2>1, <2>3
    <3> QED BY <1>3, <1>4, <2>1, <2>2, <3>2, <3>4, <3>5
  <2>4. CASE ~there
    <3>1. UNCHANGED dupr /\ GoTo(q, Mark(f, i, "failed", c))
      BY <2>1, <2>4
    <3> QED BY <1>3, <1>5, <2>1, <2>2, <3>1
  <2> QED BY <2>3, <2>4
<1> QED BY <1>6, <1>7

\* A removal asks DUPR to delete a game's match, and empties its row when it is told so.
LEMMA RemoveCallArrives ==
  ASSUME Onward, NEW q \in Callers, RemoveCall(q)
  PROVE  Arrives'
<1> USE DEF base, tables, locks, history
<1>1. TypeOK /\ Safe /\ (\A d \in queue \cup inline : Doomed(d.ref)) /\ \A n \in Games : Arrived(n)
  BY OnwardOK DEF Onward, Doomed
<1>2. PICK i, answered, r :
         /\ i \in req[q].items /\ answered \in BOOLEAN
         /\ DeleteMatch(i.ref, i.gen, answered) /\ GoTo(q, r)
         /\ r = IF answered THEN [at |-> "remove.row", item |-> i, items |-> req[q].items \ {i}]
                ELSE [at |-> "remove.rows", items |-> req[q].items \ {i}]
  BY DEF RemoveCall
<1>3. At(q, "remove.rows") /\ UNCHANGED <<row, result, queue, inline, crossed>>
  BY DEF RemoveCall
<1>4. lock = q /\ i.ref \in DOMAIN dupr /\ dupr[i.ref].game = i.game
  <2>1. lock = q /\ i \in Carried(req[q])
    BY <1>1, <1>2, <1>3, Holds DEF At, WaitLabels, Carried
  <2> QED BY <1>1, <1>3, <2>1 DEF Safe, CallerSound, Sound, Created, At
<1>5. /\ req'[q] = r /\ \A p \in Callers \ {q} : req'[p] = req[p]
      /\ r.at = IF answered THEN "remove.row" ELSE "remove.rows"
      /\ answered => r.item = i
  BY <1>1, <1>2, GoesOthers
<1>6. Draining(req'[q]) = {} /\ Knows(q)'
  BY <1>5, KnowsLittle DEF InFlight, Draining
<1>7. DoomKept(q) /\ ResultsOK(q)
  BY <1>1, <1>3, <1>5, <1>6, DoomStays DEF DoomKept, ResultsOK
<1>8. \A n \in Games : ~Reverting(req[q], n) /\ ~Excuses(req[q], n)
  BY <1>3 DEF Reverting, Excuses, At
<1>9. RowsKept(q)
  BY <1>1, <1>3, <1>8 DEF RowsKept, Arrived, Away, At
<1>10. EntriesKept(q)
  <2>1. /\ DOMAIN dupr' = DOMAIN dupr
        /\ \A d \in DOMAIN dupr : /\ dupr'[d].game = dupr[d].game /\ dupr'[d].gen = dupr[d].gen
                                  /\ dupr'[d].score = dupr[d].score
                                  /\ dupr'[d].live => dupr[d].live
                                  /\ d # i.ref => dupr'[d] = dupr[d]
        /\ dupr[i.ref].live /\ ~dupr'[i.ref].live => answered \/ Spend("lost")
    BY <1>1, <1>2, <1>4, Deleting
  <2>2. Spend("lost") => Spent({"lost"})'
    BY SpentNow, AllKinds
  <2>3. answered => Excuses(req'[q], dupr[i.ref].game)
    BY <1>4, <1>5 DEF Excuses
  <2>4. \A d \in DOMAIN dupr : d # i.ref => Spares(d)
    BY <2>1 DEF Spares
  <2>5. Spares(i.ref) \/ Excuses(req'[q], dupr[i.ref].game)
    BY <1>4, <2>1, <2>2, <2>3 DEF Spares
  <2> QED BY <1>4, <2>1, <2>4, <2>5 DEF EntriesKept
<1>11. Moves(q)
  BY <1>3, <1>5, <1>7, <1>9, <1>10 DEF Moves
<1> QED BY <1>6, <1>11, MovesArrive DEF Onward

LEMMA ArrivesNext ==
  ASSUME TypeOK, Safe, Budgeted, Arrives, TypeOK', Safe', [Next]_vars
  PROVE  Budgeted' /\ Arrives'
<1>1. Falls /\ Budgeted'
  BY Falling, StaysSpent
<1>2. CASE ~NoFault'
  BY <1>1, <1>2 DEF Arrives
<1>3. CASE NoFault'
  <2>1. Onward /\ Requests \subseteq Callers
    BY <1>1, <1>3 DEF Onward, Callers
  <2>2. CASE \E q \in Requests :
            \/ Import(q) \/ Remove(q, Games) \/ WipeAll(q)
            \/ \E m \in Games : Remove(q, {m}) \/ Award(q, m) \/ Drop(q, m)
                               \/ \E s \in Scores(m) : Score(q, m, s)
            \/ \E wave \in waves : Continue(q, wave)
    BY <1>1, <2>1, <2>2, StartsArrive, ScoresArrive
  <2>3. CASE \E q \in Requests : Handle(q)
    BY <1>1, <2>1, <2>3, TurnsArrive, QueueWriteArrives, LocksArrive, RemoveCallArrives, RowsGoArrive DEF Handle
  <2>4. CASE \E q \in Callers : Flush(q)
    BY <1>1, <2>1, <2>4, LocksArrive, FlushRowsArrive, CallsArrive, MarksArrive DEF Flush
  <2>5. CASE Tick \/ (\E d \in inline : InlineDelete(d))
    BY <1>1, <2>1, <2>5, TickerArrives
  <2>6. CASE Due \/ UNCHANGED vars \/ (\E m \in Games : Undo(m) \/ Link(m))
    BY <1>1, <2>1, <2>6, OutsideArrives
  <2>7. ~Restart
    BY <2>1, OnwardOK DEF Restart
  <2> QED
    BY <2>2, <2>3, <2>4, <2>5, <2>6, <2>7 DEF Next
<1> QED BY <1>2, <1>3

LEMMA ArrivesInit ==
  ASSUME Init, TypeOK
  PROVE  Budgeted /\ Arrives
<1>1. Budgeted
  <2>1. \A k \in Kinds : left[k] \in Nat
    BY DEF TypeOK
  <2> QED BY <2>1 DEF Init, Budgeted
<1>2. /\ \A q \in Callers : req[q].at = "idle"
      /\ queue = {} /\ inline = {}
      /\ \A m \in Games : row[m].status = "none"
  BY DEF Init, Idle, NoRow
<1>3. \A q \in Callers : Draining(req[q]) = {}
  BY <1>2 DEF Draining
<1>4. \A c : ~Doomed(c)
  BY <1>2, <1>3 DEF Doomed
<1>5. RowsDoomed /\ \A m \in Games : Arrived(m)
  BY <1>2, <1>4 DEF RowsDoomed, Arrived
<1>6. \A q \in Callers : Knows(q)
  BY <1>2 DEF Knows, InFlight
<1> QED BY <1>1, <1>5, <1>6 DEF Arrives

\* A game marked as submitted has its latest score on DUPR, however often it
\* was corrected, imported, removed, retried, forfeited or wiped, and whatever
\* answers DUPR lost, unless it was scored while an import had it in hand, a
\* statement failed or the process stopped (queueDuprSubmission,
\* service.go:13275; flushDuprSubmissions).  A row that says otherwise is one
\* that somebody is about to write or to take away; and what DUPR is still to
\* delete is no row's match any more.
THEOREM CorrectionsArriveHolds == Spec => []CorrectionsArrive
<1> DEFINE Inv == TypeOK /\ Safe /\ Budgeted /\ Arrives
<1>1. Init => Inv
  BY TypeInit, SafeInit, ArrivesInit
<1>2. Inv /\ [Next]_vars => Inv'
  <2> SUFFICES ASSUME Inv, [Next]_vars PROVE Inv'
    OBVIOUS
  <2>1. TypeOK' /\ Safe'
    BY TypeNext, SafeNext
  <2>2. Budgeted' /\ Arrives'
    BY <2>1, ArrivesNext
  <2> QED BY <2>1, <2>2
<1>3. Inv => CorrectionsArrive
  <2> SUFFICES ASSUME Inv, NEW m \in Games \ crossed, row[m].status = "submitted", ~Attending(m), NoFault
               PROVE  \/ result[m] = Open /\ Spent({"undo"})
                      \/ LET c == row[m].ref
                         IN  /\ Played(m) /\ c # 0
                             /\ IF dupr[c].live THEN dupr[c].score = result[m].score ELSE Spent({"lost"})
    BY DEF CorrectionsArrive, NoFault
  <2>1. row[m].ref # 0 /\ (Excused(m) \/ Fine(m, row[m].ref))
    BY DEF Arrives, Arrived
  <2>2. ASSUME NEW q \in Callers, Excuses(req[q], m) PROVE FALSE
    <3>1. Attending(m)
      BY <2>2 DEF Attending, Excuses, Reverting, InHand, At
    <3> QED BY <3>1
  <2> QED BY <2>1, <2>2 DEF Excused, Fine, Undone
<1> HIDE DEF Inv
<1> QED BY <1>1, <1>2, <1>3, PTL DEF Spec
=============================================================================
