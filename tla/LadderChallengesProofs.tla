------------------------ MODULE LadderChallengesProofs -------------------------
(* Proofs about LadderChallenges: for every ladder, range, cap, number of     *)
(* requests in flight and budget.                                             *)
EXTENDS LadderChallenges, FiniteSetTheorems, TLAPS

USE LadderAssumption

-----------------------------------------------------------------------------
(* Types.                                                                   *)

Over == {"cancelled", "declined", "forfeited", "completed", "voided", "deleted"}

Request ==
    [op : {"none", "issue", "report", "record", "move", "remove", "add", "sweep"},
     pc : {"idle", "issue", "report", "void.read", "void.each", "remove", "add",
           "sweep.read", "sweep.each"},
     who : Entrants \cup {Nobody}, other : Entrants \cup {Nobody}, id : Nat,
     party : {"none", "challenger", "other"}, side : {"none", "challenger", "challenged", "tie"},
     rung : Nat, phase : Nat, todo : SUBSET Ids]

\* A request at a statement knows whom or what it is about.
Sound(m) ==
    /\ m.pc \in {"issue", "void.read", "void.each", "remove", "add"} => m.who \in Entrants
    /\ m.pc = "issue" => m.other \in Entrants
    /\ m.pc = "report" => m.id \in Ids
    /\ m.pc \in {"sweep.read", "sweep.each"} => m.phase \in 1..4

\* A row that was written names two entrants.
Named(r) == IF r.status = "none" THEN r.from = Nobody /\ r.to = Nobody
            ELSE r.from \in Entrants /\ r.to \in Entrants

ChallengesOK == challenge \in [Ids -> Challenge] /\ \A c \in Ids : Named(challenge[c])
RequestsOK == req \in [Requests -> Request] /\ \A q \in Requests : Sound(req[q])
CountsOK == reminders \in [Ids -> [respond : Nat, play : Nat]] /\ left \in [Kinds -> Nat]

TypeOK ==
    /\ position \in [Entrants -> Nat]
    /\ ChallengesOK
    /\ accepted \subseteq Ids /\ claimed \subseteq Ids
    /\ RequestsOK
    /\ CountsOK

LEMMA IdleOK == Idle \in Request /\ Sound(Idle) /\ Idle.pc = "idle"
  BY DEF Idle, Request, Sound

LEMMA UsesOK ==
  ASSUME TypeOK, NEW k \in Kinds, Uses(k)
  PROVE  left' \in [Kinds -> Nat] /\ left'["fault"] <= left["fault"]
<1>1. left \in [Kinds -> Nat] /\ "fault" \in Kinds
  BY DEF TypeOK, CountsOK, Kinds
<1>2. left[k] \in Nat /\ left[k] > 0 /\ left' = [left EXCEPT ![k] = left[k] - 1]
  BY <1>1 DEF Uses
<1> QED
  BY <1>1, <1>2

-----------------------------------------------------------------------------
(* What a step does to one challenge, and to the requests in flight.         *)

\* The challenge is as it was, or is accepted, or ends, or a voided one turns
\* out to have been played, or its deadlines come nearer.
Advances(c) ==
    LET o == challenge[c]
        n == challenge'[c]
    IN  /\ n.from = o.from /\ n.to = o.to /\ n.reminded = o.reminded
        /\ \/ n.status = o.status
           \/ o.status = "pending" /\ n.status = "accepted" /\ c \in accepted'
           \/ o.status \in Active /\ n.status \in Over
           \/ o.status = "voided" /\ n.status = "completed"
           \/ n.status = "deleted"

\* A reminder is claimed and sent.
IsReminded(c, k) ==
    /\ challenge[c].status \in Active /\ challenge'[c].status = challenge[c].status
    /\ challenge'[c].from = challenge[c].from /\ challenge'[c].to = challenge[c].to
    /\ k \notin challenge[c].reminded
    /\ challenge'[c].reminded = challenge[c].reminded \cup {k}
    /\ reminders' = [reminders EXCEPT ![c][k] = @ + 1]

Changes == \/ \A c \in Ids : Advances(c) /\ reminders'[c] = reminders[c]
           \/ \E c \in Ids, k \in {"respond", "play"} :
                 /\ IsReminded(c, k)
                 /\ \A d \in Ids \ {c} : Advances(d) /\ reminders'[d] = reminders[d]

\* No request comes to a statement that inserts or reports.
Quiet == \A q \in Requests : req'[q].pc \in {"issue", "report"} => req'[q] = req[q]

Ordinary == Changes /\ Quiet /\ accepted \subseteq accepted' /\ claimed' = claimed
            /\ left'["fault"] <= left["fault"]

LEMMA GoOK ==
  ASSUME TypeOK, NEW q \in Requests, NEW m \in Request, Sound(m), Go(q, m)
  PROVE  RequestsOK' /\ (m.pc \notin {"issue", "report"} => Quiet)
  BY DEF TypeOK, Go, RequestsOK, Quiet

LEMMA DoneOK ==
  ASSUME TypeOK, NEW q \in Requests, Done(q)
  PROVE  RequestsOK' /\ Quiet
  BY IdleOK, GoOK DEF Done

LEMMA StillOK ==
  ASSUME TypeOK, UNCHANGED <<challenge, reminders>>
  PROVE  ChallengesOK' /\ reminders' \in [Ids -> [respond : Nat, play : Nat]] /\ Changes
  BY DEF TypeOK, ChallengesOK, CountsOK, Changes, Advances

\* One row is written.
LEMMA WrittenOK ==
  ASSUME TypeOK, NEW c \in Ids, NEW r \in Challenge, Named(r),
         challenge' = [challenge EXCEPT ![c] = r], UNCHANGED reminders,
         r.from = challenge[c].from, r.to = challenge[c].to,
         r.reminded = challenge[c].reminded,
         \/ r.status = challenge[c].status
         \/ challenge[c].status = "pending" /\ r.status = "accepted" /\ c \in accepted'
         \/ challenge[c].status \in Active /\ r.status \in Over
         \/ challenge[c].status = "voided" /\ r.status = "completed"
  PROVE  ChallengesOK' /\ reminders' \in [Ids -> [respond : Nat, play : Nat]] /\ Changes
<1>1. ChallengesOK' /\ challenge \in [Ids -> Challenge]
  BY DEF TypeOK, ChallengesOK
<1>2. ASSUME NEW d \in Ids PROVE Advances(d)
  <2>1. CASE d = c
    BY <2>1, <1>1 DEF Advances
  <2>2. CASE d # c
    BY <2>2, <1>1 DEF Advances
  <2> QED
    BY <2>1, <2>2
<1> QED
  BY <1>1, <1>2 DEF Changes, TypeOK, CountsOK

LEMMA ResolvedOK ==
  ASSUME TypeOK, NEW c \in Ids, NEW s \in Over, Resolved(c, s), UNCHANGED reminders,
         \/ challenge[c].status \in Active
         \/ challenge[c].status = "voided" /\ s \in {"voided", "completed"}
  PROVE  ChallengesOK' /\ reminders' \in [Ids -> [respond : Nat, play : Nat]] /\ Changes
<1> DEFINE r == [challenge[c] EXCEPT !.status = s, !.recent = TRUE]
<1>1. challenge[c] \in Challenge /\ Named(challenge[c])
  BY DEF TypeOK, ChallengesOK
<1>2. r \in Challenge /\ r.from = challenge[c].from /\ r.to = challenge[c].to
      /\ r.reminded = challenge[c].reminded /\ r.status = s
  BY <1>1 DEF Challenge, Statuses, Over
<1>3. Named(r)
  BY <1>1, <1>2 DEF Named, Over, Active
<1>4. challenge' = [challenge EXCEPT ![c] = r]
  BY DEF Resolved
<1> HIDE DEF r
<1> QED
  BY <1>2, <1>3, <1>4, WrittenOK

LEMMA ResolveOK ==
  ASSUME TypeOK, NEW c \in Ids, NEW expected, NEW s \in Over, NEW side,
         expected \subseteq Active \cup {"voided"}, "voided" \in expected => s = "completed",
         Resolve(c, expected, s, side), UNCHANGED reminders
  PROVE  /\ position' \in [Entrants -> Nat] /\ ChallengesOK'
         /\ reminders' \in [Ids -> [respond : Nat, play : Nat]] /\ Changes
<1> DEFINE e == challenge[c].from
           f == challenge[c].to
<1>0. challenge[c] \in Challenge /\ Named(challenge[c]) /\ position \in [Entrants -> Nat]
  BY DEF TypeOK, ChallengesOK
<1>1. CASE challenge[c].status \notin expected
  BY <1>1, <1>0, StillOK DEF Resolve
<1>2. CASE challenge[c].status \in expected
  <2>1. \/ challenge[c].status \in Active
        \/ challenge[c].status = "voided" /\ s = "completed"
    BY <1>2
  <2>2. e \in Entrants /\ f \in Entrants
    BY <2>1, <1>0 DEF Named, Active
  <2>3. (Resolved(c, s) \/ Resolved(c, "voided")) /\ (Leap(e, f) \/ UNCHANGED position)
    BY <1>2 DEF Resolve
  <2>4. "voided" \in Over
    BY DEF Over
  <2>5. position' \in [Entrants -> Nat]
    BY <1>0, <2>2, <2>3 DEF Leap
  <2>6. ChallengesOK' /\ reminders' \in [Ids -> [respond : Nat, play : Nat]] /\ Changes
    BY <2>1, <2>3, <2>4, ResolvedOK
  <2> QED
    BY <2>5, <2>6
<1> QED
  BY <1>1, <1>2

-----------------------------------------------------------------------------
(* The steps that are ordinary.                                             *)

Ticking == ChallengesOK' /\ reminders' \in [Ids -> [respond : Nat, play : Nat]] /\ Changes

\* From its parts.
LEMMA OrdinaryOK ==
  ASSUME TypeOK, position' \in [Entrants -> Nat], Ticking, RequestsOK', Quiet,
         left' \in [Kinds -> Nat], left'["fault"] <= left["fault"],
         UNCHANGED claimed, accepted \subseteq accepted', accepted' \subseteq Ids
  PROVE  TypeOK' /\ Ordinary
  BY DEF TypeOK, Ticking, CountsOK, Ordinary

LEMMA ChallengeOK == TypeOK => \A c \in Ids : challenge[c] \in Challenge /\ Named(challenge[c])
  BY DEF TypeOK, ChallengesOK

LEMMA LeftOK == TypeOK => left \in [Kinds -> Nat] /\ left["fault"] <= left["fault"]
  <1> SUFFICES ASSUME TypeOK PROVE left \in [Kinds -> Nat] /\ left["fault"] <= left["fault"]
    OBVIOUS
  <1>1. left \in [Kinds -> Nat] /\ "fault" \in Kinds
    BY DEF TypeOK, CountsOK, Kinds
  <1> QED
    BY <1>1

\* Whatever leaves the requests alone and writes one row.
LEMMA RowsOK ==
  ASSUME TypeOK, Ticking, UNCHANGED <<position, claimed, req>>,
         UNCHANGED left \/ \E k \in Kinds : Uses(k),
         accepted \subseteq accepted', accepted' \subseteq Ids
  PROVE  TypeOK' /\ Ordinary
<1>1. left' \in [Kinds -> Nat] /\ left'["fault"] <= left["fault"]
  BY UsesOK, LeftOK
<1>2. position' \in [Entrants -> Nat] /\ RequestsOK' /\ Quiet
  BY DEF TypeOK, RequestsOK, Quiet
<1> QED
  BY <1>1, <1>2, OrdinaryOK

LEMMA AnswersOK ==
  ASSUME TypeOK, NEW c \in Ids, Answers(c)
  PROVE  TypeOK' /\ Ordinary
<1> DEFINE o == challenge[c]
<1>0. /\ o \in Challenge /\ Named(o) /\ "answer" \in Kinds /\ "void" \in Kinds
      /\ accepted \subseteq Ids
  BY ChallengeOK DEF Kinds, TypeOK
<1>1. CASE AcceptChallenge(c)
  <2> DEFINE r == [o EXCEPT !.status = "accepted", !.play = "far"]
  <2>1. /\ r \in Challenge /\ r.from = o.from /\ r.to = o.to /\ r.reminded = o.reminded
        /\ r.status = "accepted"
    BY <1>0 DEF Challenge, Statuses
  <2>2. Named(r) /\ o.status = "pending" /\ c \in accepted' /\ UNCHANGED reminders
    BY <1>0, <1>1, <2>1 DEF Named, AcceptChallenge
  <2>3. challenge' = [challenge EXCEPT ![c] = r]
    BY <1>1 DEF AcceptChallenge
  <2> HIDE DEF r
  <2>4. Ticking
    BY <2>1, <2>2, <2>3, WrittenOK DEF Ticking
  <2>5. accepted' = accepted \cup {c} /\ Uses("answer") /\ UNCHANGED <<position, claimed, req>>
    BY <1>1 DEF AcceptChallenge
  <2> QED
    BY <1>0, <2>4, <2>5, RowsOK
<1>2. CASE CancelChallenge(c)
  <2>1. Ticking
    BY <1>2, ResolvedOK DEF CancelChallenge, Over, Active, Ticking
  <2> QED
    BY <1>0, <1>2, <2>1, RowsOK DEF CancelChallenge
<1>3. CASE VoidChallenge(c)
  <2> DEFINE r == [o EXCEPT !.status = "voided", !.recent = TRUE, !.play = "none"]
  <2>1. /\ r \in Challenge /\ r.from = o.from /\ r.to = o.to /\ r.reminded = o.reminded
        /\ r.status = "voided"
    BY <1>0 DEF Challenge, Statuses
  <2>2. Named(r) /\ o.status \in Active /\ "voided" \in Over /\ UNCHANGED reminders
    BY <1>0, <1>3, <2>1 DEF Named, VoidChallenge, IsActive, Active, Over
  <2>3. challenge' = [challenge EXCEPT ![c] = r]
    BY <1>3 DEF VoidChallenge
  <2> HIDE DEF r
  <2>4. Ticking
    BY <2>1, <2>2, <2>3, WrittenOK DEF Ticking
  <2> QED
    BY <1>0, <1>3, <2>4, RowsOK DEF VoidChallenge
<1>4. CASE DeclineChallenge(c)
  <2>1. Resolve(c, {"pending"}, "declined", "challenger") /\ UNCHANGED reminders
    BY <1>4 DEF DeclineChallenge
  <2>2. position' \in [Entrants -> Nat] /\ Ticking
    BY <2>1, ResolveOK DEF Over, Active, Ticking
  <2>3. left' \in [Kinds -> Nat] /\ left'["fault"] <= left["fault"]
    BY <1>0, <1>4, UsesOK DEF DeclineChallenge
  <2>4. RequestsOK' /\ Quiet /\ UNCHANGED <<claimed, accepted>>
    BY <1>4 DEF DeclineChallenge, TypeOK, RequestsOK, Quiet
  <2> QED
    BY <1>0, <2>2, <2>3, <2>4, OrdinaryOK
<1> QED
  BY <1>1, <1>2, <1>3, <1>4 DEF Answers

LEMMA ClockOK ==
  ASSUME TypeOK, NEW c \in Ids, Clock(c)
  PROVE  TypeOK' /\ Ordinary
<1> DEFINE o == challenge[c]
<1>0. o \in Challenge /\ Named(o) /\ accepted \subseteq Ids
  BY ChallengeOK DEF TypeOK
<1>1. PICK r \in {[o EXCEPT !.respond = Later(@)], [o EXCEPT !.play = Later(@)],
                  [o EXCEPT !.recent = FALSE]} :
         challenge' = [challenge EXCEPT ![c] = r]
  <2>1. CASE RespondByNears(c)
    <3>1. challenge' = [challenge EXCEPT ![c] = [o EXCEPT !.respond = Later(@)]]
      BY <2>1 DEF RespondByNears
    <3> QED
      BY <3>1
  <2>2. CASE PlayByNears(c)
    <3>1. challenge' = [challenge EXCEPT ![c] = [o EXCEPT !.play = Later(@)]]
      BY <2>2 DEF PlayByNears
    <3> QED
      BY <3>1
  <2>3. CASE CooldownEnds(c)
    <3>1. challenge' = [challenge EXCEPT ![c] = [o EXCEPT !.recent = FALSE]]
      BY <2>3 DEF CooldownEnds
    <3> QED
      BY <3>1
  <2> QED
    BY <2>1, <2>2, <2>3 DEF Clock
<1>2. /\ r \in Challenge /\ r.from = o.from /\ r.to = o.to /\ r.reminded = o.reminded
      /\ r.status = o.status
  <2>1. Later(o.respond) \in {"soon", "past"} /\ Later(o.play) \in {"soon", "past"}
    BY DEF Later
  <2>2. CASE r = [o EXCEPT !.respond = Later(o.respond)]
    BY <1>0, <2>1, <2>2 DEF Challenge
  <2>3. CASE r = [o EXCEPT !.play = Later(o.play)]
    BY <1>0, <2>1, <2>3 DEF Challenge
  <2>4. CASE r = [o EXCEPT !.recent = FALSE]
    BY <1>0, <2>4 DEF Challenge
  <2> QED
    BY <2>2, <2>3, <2>4
<1>3. Named(r)
  BY <1>0, <1>2 DEF Named
<1>4. UNCHANGED <<position, accepted, claimed, reminders, req, left>>
  BY DEF Clock, RespondByNears, PlayByNears, CooldownEnds
<1>5. Ticking
  BY <1>1, <1>2, <1>3, <1>4, WrittenOK DEF Ticking
<1> QED
  BY <1>0, <1>4, <1>5, RowsOK

LEMMA ReqOK == TypeOK => \A q \in Requests : req[q] \in Request /\ Sound(req[q])
  BY DEF TypeOK, RequestsOK

LEMMA ThenOK ==
  ASSUME NEW m \in Request, m.who \in Entrants
  PROVE  Then(m) \in Request /\ Sound(Then(m)) /\ Then(m).pc \in {"void.read", "remove", "idle"}
<1>1. CASE m.other # Nobody
  BY <1>1 DEF Then, Request, Sound
<1>2. CASE m.other = Nobody /\ m.op = "remove"
  BY <1>2 DEF Then, Request, Sound
<1>3. CASE m.other = Nobody /\ m.op # "remove"
  BY <1>3, IdleOK DEF Then
<1> QED
  BY <1>1, <1>2, <1>3

LEMMA NextPhaseOK ==
  ASSUME NEW m \in Request, m.phase \in 1..4
  PROVE  /\ NextPhase(m) \in Request /\ Sound(NextPhase(m))
         /\ NextPhase(m).pc \in {"sweep.read", "idle"}
<1>1. CASE m.phase = 4
  BY <1>1, IdleOK DEF NextPhase
<1>2. CASE m.phase # 4
  <2> DEFINE k == m.phase + 1
             n == [m EXCEPT !.pc = "sweep.read", !.phase = k, !.todo = {}]
  <2>0. k \in Nat /\ k \in 1..4
    BY <1>2
  <2>1. n \in Request /\ n.pc = "sweep.read" /\ n.phase \in 1..4
    <3> HIDE DEF k
    <3> QED
      BY <2>0 DEF Request
  <2>2. NextPhase(m) = n
    BY <1>2 DEF NextPhase
  <2> HIDE DEF n
  <2> QED
    BY <2>1, <2>2 DEF Sound
<1> QED
  BY <1>1, <1>2

\* A request that goes on with what it has left to do, or to what follows.
LEMMA TodoOK ==
  ASSUME NEW m \in Request, Sound(m), NEW T \in SUBSET Ids
  PROVE  [m EXCEPT !.todo = T] \in Request /\ Sound([m EXCEPT !.todo = T])
         /\ [m EXCEPT !.todo = T].pc = m.pc /\ [m EXCEPT !.todo = T].who = m.who
         /\ [m EXCEPT !.todo = T].phase = m.phase
  BY DEF Request, Sound

LEMMA VoidReadOK ==
  ASSUME TypeOK, NEW q \in Requests, VoidRead(q)
  PROVE  TypeOK' /\ Ordinary
<1>0. req[q] \in Request /\ req[q].pc = "void.read" /\ req[q].who \in Entrants
  BY ReqOK DEF VoidRead, At, Sound
<1>1. /\ Then(req[q]) \in Request /\ Sound(Then(req[q]))
      /\ Then(req[q]).pc \in {"void.read", "remove", "idle"}
  BY <1>0, ThenOK
<1> DEFINE open == Outgoing(req[q].who) \cup Incoming(req[q].who)
           m == [req[q] EXCEPT !.pc = "void.each", !.todo = open]
<1>2. open \in SUBSET Ids
  BY DEF Outgoing, Incoming
<1>3. m \in Request /\ Sound(m) /\ m.pc = "void.each"
  <2> HIDE DEF open
  <2> QED
    BY <1>0, <1>2 DEF Request, Sound
<1>4. Go(q, m) \/ Go(q, Then(req[q]))
  BY DEF VoidRead
<1>5. RequestsOK' /\ Quiet
  <2> HIDE DEF m
  <2> QED
    BY <1>1, <1>3, <1>4, GoOK
<1>6. left' \in [Kinds -> Nat] /\ left'["fault"] <= left["fault"]
  BY UsesOK, LeftOK DEF VoidRead, Kinds
<1>7. Ticking
  BY StillOK DEF VoidRead, Ticking
<1>8. UNCHANGED <<position, accepted, claimed>>
  BY DEF VoidRead
<1> QED
  BY <1>5, <1>6, <1>7, <1>8, OrdinaryOK DEF TypeOK

LEMMA VoidEachOK ==
  ASSUME TypeOK, NEW q \in Requests, VoidEach(q)
  PROVE  TypeOK' /\ Ordinary
<1>0. /\ req[q] \in Request /\ req[q].pc = "void.each" /\ req[q].who \in Entrants
      /\ Sound(req[q]) /\ req[q].todo \in SUBSET Ids
  BY ReqOK DEF VoidEach, At, Sound, Request
<1>1. PICK c \in req[q].todo :
         /\ \/ UNCHANGED left /\ IF IsActive(c) THEN Resolved(c, "voided")
                                 ELSE UNCHANGED challenge
            \/ Uses("fault") /\ UNCHANGED challenge
         /\ LET m == [req[q] EXCEPT !.todo = @ \ {c}]
            IN  Go(q, IF m.todo = {} THEN Then(m) ELSE m)
  BY DEF VoidEach
<1> DEFINE m == [req[q] EXCEPT !.todo = req[q].todo \ {c}]
<1>2. m \in Request /\ Sound(m) /\ m.pc = "void.each" /\ m.who \in Entrants
  <2>1. req[q].todo \ {c} \in SUBSET Ids
    BY <1>0
  <2> QED
    BY <1>0, <2>1, TodoOK
<1>3. Go(q, m) \/ Go(q, Then(m))
  BY <1>1
<1>4. RequestsOK' /\ Quiet
  <2> HIDE DEF m
  <2>1. Then(m) \in Request /\ Sound(Then(m)) /\ Then(m).pc \in {"void.read", "remove", "idle"}
    BY <1>2, ThenOK
  <2> QED
    BY <1>2, <1>3, <2>1, GoOK
<1>5. left' \in [Kinds -> Nat] /\ left'["fault"] <= left["fault"]
  BY <1>1, UsesOK, LeftOK DEF Kinds
<1>6. UNCHANGED <<position, accepted, claimed, reminders>>
  BY DEF VoidEach
<1>7. Ticking
  <2>1. CASE UNCHANGED challenge
    BY <1>6, <2>1, StillOK DEF Ticking
  <2>2. CASE IsActive(c) /\ Resolved(c, "voided")
    <3>1. c \in Ids /\ challenge[c].status \in Active /\ "voided" \in Over
      BY <1>0, <2>2 DEF IsActive, Over
    <3> QED
      BY <1>6, <2>2, <3>1, ResolvedOK DEF Ticking
  <2> QED
    BY <1>1, <2>1, <2>2
<1> QED
  BY <1>4, <1>5, <1>6, <1>7, OrdinaryOK DEF TypeOK

LEMMA RemoveDeleteOK ==
  ASSUME TypeOK, NEW q \in Requests, RemoveDelete(q)
  PROVE  TypeOK' /\ Ordinary
<1> DEFINE e == req[q].who
<1>0. e \in Entrants /\ position \in [Entrants -> Nat]
  BY ReqOK DEF RemoveDelete, At, Sound, TypeOK
<1>1. RequestsOK' /\ Quiet
  BY DoneOK DEF RemoveDelete
<1>2. UNCHANGED <<accepted, claimed, reminders, left>>
  BY DEF RemoveDelete
<1>3. position' \in [Entrants -> Nat]
  BY <1>0 DEF RemoveDelete
<1>4. Ticking
  <2>1. CASE UNCHANGED challenge
    BY <1>2, <2>1, StillOK DEF Ticking
  <2>2. CASE challenge' = [c \in Ids |->
                              IF e \in {challenge[c].from, challenge[c].to}
                              THEN [challenge[c] EXCEPT !.status = "deleted"]
                              ELSE challenge[c]]
    <3>1. ASSUME NEW c \in Ids
          PROVE  challenge'[c] \in Challenge /\ Named(challenge'[c]) /\ Advances(c)
      <4> DEFINE r == [challenge[c] EXCEPT !.status = "deleted"]
      <4>1. challenge[c] \in Challenge /\ Named(challenge[c])
        BY ChallengeOK
      <4>2. /\ r \in Challenge /\ r.from = challenge[c].from /\ r.to = challenge[c].to
            /\ r.reminded = challenge[c].reminded /\ r.status = "deleted"
        BY <4>1 DEF Challenge, Statuses
      <4>3. CASE e \in {challenge[c].from, challenge[c].to}
        <5>1. challenge'[c] = r
          BY <2>2, <4>3
        <5>2. Named(r)
          BY <1>0, <4>1, <4>2, <4>3 DEF Named
        <5> HIDE DEF r
        <5> QED
          BY <4>2, <5>1, <5>2 DEF Advances
      <4>4. CASE e \notin {challenge[c].from, challenge[c].to}
        <5>1. challenge'[c] = challenge[c]
          BY <2>2, <4>4
        <5> QED
          BY <4>1, <5>1 DEF Advances
      <4> QED
        BY <4>3, <4>4
    <3>2. ChallengesOK'
      BY <2>2, <3>1 DEF ChallengesOK
    <3> QED
      BY <1>2, <3>1, <3>2 DEF Ticking, Changes, TypeOK, CountsOK
  <2> QED
    BY <2>1, <2>2 DEF RemoveDelete
<1> QED
  BY <1>1, <1>2, <1>3, <1>4, LeftOK, OrdinaryOK DEF TypeOK

LEMMA AddOK ==
  ASSUME TypeOK, NEW q \in Requests, AddInsert(q) \/ \E e \in Entrants : AddRead(q, e)
  PROVE  TypeOK' /\ Ordinary
<1>0. req[q] \in Request /\ position \in [Entrants -> Nat]
  BY ReqOK DEF TypeOK
<1>1. UNCHANGED <<challenge, accepted, claimed, reminders>>
  BY DEF AddInsert, AddRead
<1>2. Ticking
  BY <1>1, StillOK DEF Ticking
<1>3. CASE AddInsert(q)
  <2>1. position' \in [Entrants -> Nat]
    BY <1>0, <1>3 DEF AddInsert, Request
  <2>2. RequestsOK' /\ Quiet /\ UNCHANGED left
    BY <1>3, DoneOK DEF AddInsert
  <2> QED
    BY <1>1, <1>2, <2>1, <2>2, LeftOK, OrdinaryOK DEF TypeOK
<1>4. ASSUME NEW e \in Entrants, AddRead(q, e) PROVE TypeOK' /\ Ordinary
  <2>1. UNCHANGED position /\ Uses("add") /\ "add" \in Kinds
    BY <1>4 DEF AddRead, Kinds
  <2>2. PICK f \in Entrants :
           Start(q, [Idle EXCEPT !.op = "add", !.pc = "add", !.who = e, !.rung = position[f] + 1])
    BY <1>4 DEF AddRead
  <2> DEFINE r == position[f] + 1
             m == [Idle EXCEPT !.op = "add", !.pc = "add", !.who = e, !.rung = r]
  <2>3. m \in Request /\ Sound(m) /\ m.pc = "add"
    <3>1. r \in Nat
      BY <1>0
    <3> HIDE DEF r
    <3> QED
      BY <3>1 DEF Idle, Request, Sound
  <2>4. RequestsOK' /\ Quiet
    <3>1. Go(q, m)
      BY <2>2 DEF Start
    <3> HIDE DEF m
    <3> QED
      BY <2>3, <3>1, GoOK
  <2> QED
    BY <1>0, <1>1, <1>2, <2>1, <2>4, UsesOK, OrdinaryOK DEF TypeOK
<1> QED
  BY <1>3, <1>4

LEMMA ReorderOK ==
  ASSUME TypeOK, NEW q \in Requests, NEW e \in Entrants, NEW f \in Entrants,
         NEW n \in Nat, NEW side,
         \/ RecordLadderResult(q, e, f, side) \/ MoveLadderEntrant(q, e, n)
         \/ RemoveLadderEntrant(q, e)
  PROVE  TypeOK' /\ Ordinary
<1>0. position \in [Entrants -> Nat]
  BY DEF TypeOK
<1>1. UNCHANGED <<challenge, accepted, claimed, reminders>> /\ Uses("reorder") /\ "reorder" \in Kinds
  BY DEF RecordLadderResult, MoveLadderEntrant, RemoveLadderEntrant, Kinds
<1>2. Ticking
  BY <1>1, StillOK DEF Ticking
<1>3. position' \in [Entrants -> Nat]
  <2>1. CASE RecordLadderResult(q, e, f, side)
    BY <1>0, <2>1 DEF RecordLadderResult, Leap, Swap
  <2>2. CASE MoveLadderEntrant(q, e, n)
    BY <1>0, <2>2 DEF MoveLadderEntrant
  <2>3. CASE RemoveLadderEntrant(q, e)
    BY <1>0, <2>3 DEF RemoveLadderEntrant
  <2> QED
    BY <2>1, <2>2, <2>3
<1>4. \E op \in {"record", "move", "remove"}, g \in Entrants \cup {Nobody} :
         Start(q, Voiding(op, e, g))
  BY DEF RecordLadderResult, MoveLadderEntrant, RemoveLadderEntrant
<1>5. \A op \in {"record", "move", "remove"}, g \in Entrants \cup {Nobody} :
         /\ Voiding(op, e, g) \in Request /\ Sound(Voiding(op, e, g))
         /\ Voiding(op, e, g).pc = "void.read"
  <2>1. \A op \in {"record", "move", "remove"}, g \in Entrants \cup {Nobody} :
           /\ Voiding(op, e, g) \in Request /\ Voiding(op, e, g).pc = "void.read"
           /\ Voiding(op, e, g).who = e
    BY IdleOK DEF Voiding, Request
  <2> QED
    BY <2>1 DEF Sound
<1>6. RequestsOK' /\ Quiet
  BY <1>4, <1>5, GoOK DEF Start
<1> QED
  BY <1>1, <1>2, <1>3, <1>6, UsesOK, OrdinaryOK DEF TypeOK

LEMMA SweepReadOK ==
  ASSUME TypeOK, NEW q \in Requests, SweepRead(q)
  PROVE  TypeOK' /\ Ordinary
<1>0. /\ req[q] \in Request /\ req[q].pc = "sweep.read" /\ req[q].phase \in 1..4
  BY ReqOK DEF SweepRead, At, Sound
<1> DEFINE n == NextPhase(req[q])
           some == Selected(req[q].phase)
           m == [req[q] EXCEPT !.pc = "sweep.each", !.todo = some]
<1>1. n \in Request /\ Sound(n) /\ n.pc \in {"sweep.read", "idle"}
  BY <1>0, NextPhaseOK
<1>2. some \in SUBSET Ids
  BY <1>0 DEF Selected
<1>3. m \in Request /\ Sound(m) /\ m.pc = "sweep.each"
  <2> HIDE DEF some
  <2> QED
    BY <1>0, <1>2 DEF Request, Sound
<1>4. Go(q, m) \/ Go(q, n)
  BY DEF SweepRead
<1>5. RequestsOK' /\ Quiet
  <2> HIDE DEF m, n
  <2> QED
    BY <1>1, <1>3, <1>4, GoOK
<1>6. left' \in [Kinds -> Nat] /\ left'["fault"] <= left["fault"]
  BY UsesOK, LeftOK DEF SweepRead, Kinds
<1>7. UNCHANGED <<position, challenge, accepted, claimed, reminders>>
  BY DEF SweepRead
<1>8. Ticking
  BY <1>7, StillOK DEF Ticking
<1> QED
  BY <1>5, <1>6, <1>7, <1>8, OrdinaryOK DEF TypeOK

LEMMA RemindOK ==
  ASSUME TypeOK, NEW c \in Ids, NEW status \in Active, NEW kind \in {"respond", "play"},
         Remind(c, status, kind)
  PROVE  Ticking
<1>1. CASE UNCHANGED <<challenge, reminders>>
  BY <1>1, StillOK DEF Ticking
<1>2. CASE /\ challenge[c].status = status /\ kind \notin challenge[c].reminded
           /\ challenge' = [challenge EXCEPT ![c].reminded = @ \cup {kind}]
           /\ reminders' = [reminders EXCEPT ![c][kind] = @ + 1]
  <2> DEFINE o == challenge[c]
             r == [o EXCEPT !.reminded = o.reminded \cup {kind}]
  <2>1. o \in Challenge /\ Named(o)
    BY ChallengeOK
  <2>2. /\ r \in Challenge /\ r.from = o.from /\ r.to = o.to /\ r.status = o.status
        /\ r.reminded = o.reminded \cup {kind}
    BY <2>1 DEF Challenge
  <2>3. Named(r)
    BY <2>1, <2>2 DEF Named
  <2>4. challenge' = [challenge EXCEPT ![c] = r] /\ challenge \in [Ids -> Challenge]
    BY <1>2 DEF TypeOK, ChallengesOK
  <2>5. ChallengesOK' /\ challenge'[c] = r /\ \A d \in Ids \ {c} : challenge'[d] = challenge[d]
    <3> HIDE DEF r
    <3> QED
      BY <2>2, <2>3, <2>4 DEF ChallengesOK, TypeOK
  <2>6. /\ reminders' \in [Ids -> [respond : Nat, play : Nat]]
        /\ \A d \in Ids \ {c} : reminders'[d] = reminders[d]
    <3>1. reminders \in [Ids -> [respond : Nat, play : Nat]]
      BY DEF TypeOK, CountsOK
    <3>2. CASE kind = "respond"
      BY <1>2, <3>1, <3>2
    <3>3. CASE kind = "play"
      BY <1>2, <3>1, <3>3
    <3> QED
      BY <3>2, <3>3
  <2>7. IsReminded(c, kind)
    <3> HIDE DEF r
    <3> QED
      BY <1>2, <2>2, <2>5 DEF IsReminded
  <2>8. \A d \in Ids \ {c} : Advances(d)
    BY <2>5 DEF Advances
  <2> QED
    BY <2>5, <2>6, <2>7, <2>8 DEF Ticking, Changes
<1> QED
  BY <1>1, <1>2 DEF Remind

LEMMA SweepEachOK ==
  ASSUME TypeOK, NEW q \in Requests, SweepEach(q)
  PROVE  TypeOK' /\ Ordinary
<1>0. /\ req[q] \in Request /\ Sound(req[q]) /\ req[q].pc = "sweep.each" /\ req[q].phase \in 1..4
      /\ req[q].todo \in SUBSET Ids
  BY ReqOK DEF SweepEach, At, Sound, Request
<1>1. PICK c \in req[q].todo :
          /\ \/ /\ UNCHANGED left
                /\ \/ Forfeit(c) \/ Expire(c)
                   \/ Remind(c, "pending", "respond") \/ Remind(c, "accepted", "play")
             \/ Uses("fault") /\ UNCHANGED <<position, challenge, reminders>>
          /\ LET m == [req[q] EXCEPT !.todo = @ \ {c}]
             IN  Go(q, IF m.todo = {} THEN NextPhase(m) ELSE m)
  <2> DEFINE Deals(c) == CASE req[q].phase = 1 -> Forfeit(c)
                           [] req[q].phase = 2 -> Expire(c)
                           [] req[q].phase = 3 -> Remind(c, "pending", "respond")
                           [] req[q].phase = 4 -> Remind(c, "accepted", "play")
  <2>1. \A c : Deals(c) => \/ Forfeit(c) \/ Expire(c)
                           \/ Remind(c, "pending", "respond") \/ Remind(c, "accepted", "play")
    <3>1. req[q].phase = 1 \/ req[q].phase = 2 \/ req[q].phase = 3 \/ req[q].phase = 4
      BY <1>0
    <3> QED
      BY <3>1
  <2>2. \E c \in req[q].todo :
           /\ \/ UNCHANGED left /\ Deals(c)
              \/ Uses("fault") /\ UNCHANGED <<position, challenge, reminders>>
           /\ LET m == [req[q] EXCEPT !.todo = @ \ {c}]
              IN  Go(q, IF m.todo = {} THEN NextPhase(m) ELSE m)
    BY DEF SweepEach
  <2> HIDE DEF Deals
  <2> QED
    BY <2>1, <2>2
<1> DEFINE m == [req[q] EXCEPT !.todo = req[q].todo \ {c}]
<1>2. m \in Request /\ Sound(m) /\ m.pc = "sweep.each" /\ m.phase \in 1..4
  <2>1. req[q].todo \ {c} \in SUBSET Ids
    BY <1>0
  <2> QED
    BY <1>0, <2>1, TodoOK
<1>3. Go(q, m) \/ Go(q, NextPhase(m))
  BY <1>1
<1>4. RequestsOK' /\ Quiet
  <2> HIDE DEF m
  <2>1. NextPhase(m) \in Request /\ Sound(NextPhase(m)) /\ NextPhase(m).pc \in {"sweep.read", "idle"}
    BY <1>2, NextPhaseOK
  <2> QED
    BY <1>2, <1>3, <2>1, GoOK
<1>5. left' \in [Kinds -> Nat] /\ left'["fault"] <= left["fault"]
  BY <1>1, UsesOK, LeftOK DEF Kinds
<1>6. c \in Ids /\ position \in [Entrants -> Nat]
  BY <1>0 DEF TypeOK
<1>7. position' \in [Entrants -> Nat] /\ Ticking
  <2>1. CASE Forfeit(c)
    BY <1>6, <2>1, ResolveOK DEF Forfeit, Over, Active, Ticking
  <2>2. CASE Expire(c)
    BY <1>6, <2>2, StillOK, ResolvedOK DEF Expire, Over, Active, Ticking
  <2>3. CASE Remind(c, "pending", "respond") \/ Remind(c, "accepted", "play")
    <3>1. Ticking
      BY <1>6, <2>3, RemindOK DEF Active
    <3> QED
      BY <1>6, <2>3, <3>1 DEF Remind
  <2>4. CASE UNCHANGED <<position, challenge, reminders>>
    BY <1>6, <2>4, StillOK DEF Ticking
  <2> QED
    BY <1>1, <2>1, <2>2, <2>3, <2>4
<1>8. UNCHANGED <<accepted, claimed>>
  BY DEF SweepEach
<1> QED
  BY <1>4, <1>5, <1>7, <1>8, OrdinaryOK DEF TypeOK

LEMMA SweepStartOK ==
  ASSUME TypeOK, NEW q \in Requests, SweepLadderChallenges(q)
  PROVE  TypeOK' /\ Ordinary
<1> DEFINE m == [Idle EXCEPT !.op = "sweep", !.pc = "sweep.read", !.phase = 1]
<1>1. m \in Request /\ Sound(m) /\ m.pc = "sweep.read"
  <2>1. m \in Request /\ m.pc = "sweep.read" /\ m.phase = 1
    BY IdleOK DEF Request
  <2> HIDE DEF m
  <2> QED
    BY <2>1 DEF Sound
<1>2. Go(q, m)
  BY DEF SweepLadderChallenges, Start
<1>3. RequestsOK' /\ Quiet
  <2> HIDE DEF m
  <2> QED
    BY <1>1, <1>2, GoOK
<1>4. UNCHANGED <<position, challenge, accepted, claimed, reminders, left>>
  BY DEF SweepLadderChallenges
<1>5. Ticking
  BY <1>4, StillOK DEF Ticking
<1> QED
  BY <1>3, <1>4, <1>5, LeftOK, OrdinaryOK DEF TypeOK

-----------------------------------------------------------------------------
(* The four steps that are not: a challenge is issued, a result is reported. *)

LEMMA IssueReadOK ==
  ASSUME TypeOK, NEW q \in Requests, NEW e \in Entrants, NEW f \in Entrants, IssueRead(q, e, f)
  PROVE  TypeOK'
<1> DEFINE m == [Idle EXCEPT !.op = "issue", !.pc = "issue", !.who = e, !.other = f]
<1>1. m \in Request /\ Sound(m)
  BY DEF Idle, Request, Sound
<1>2. Go(q, m)
  BY DEF IssueRead, Start
<1>3. RequestsOK'
  <2> HIDE DEF m
  <2> QED
    BY <1>1, <1>2, GoOK
<1>4. UNCHANGED <<position, challenge, accepted, claimed, reminders>>
  BY DEF IssueRead
<1>5. left' \in [Kinds -> Nat]
  <2>1. /\ left \in [Kinds -> Nat] /\ left["issue"] > 0 /\ "issue" \in Kinds /\ "fault" \in Kinds
        /\ left["issue"] \in Nat /\ left["fault"] \in Nat
    BY DEF IssueRead, TypeOK, CountsOK, Kinds
  <2>2. \/ left' = [left EXCEPT !["issue"] = @ - 1]
        \/ left["fault"] > 0 /\ left' = [left EXCEPT !["issue"] = @ - 1, !["fault"] = @ - 1]
    BY DEF IssueRead
  <2>3. left["issue"] - 1 \in Nat
    BY <2>1
  <2>4. CASE left' = [left EXCEPT !["issue"] = @ - 1]
    BY <2>1, <2>3, <2>4
  <2>5. CASE left["fault"] > 0 /\ left' = [left EXCEPT !["issue"] = @ - 1, !["fault"] = @ - 1]
    <3>1. left["fault"] - 1 \in Nat
      BY <2>1, <2>5
    <3> QED
      BY <2>1, <2>3, <2>5, <3>1
  <2> QED
    BY <2>2, <2>4, <2>5
<1> QED
  BY <1>3, <1>4, <1>5 DEF TypeOK, CountsOK, ChallengesOK

\* The row a challenge is inserted as.
Issued(e, f) == [NoChallenge EXCEPT !.from = e, !.to = f, !.status = "pending"]

LEMMA IssueInsertOK ==
  ASSUME TypeOK, NEW q \in Requests, IssueInsert(q)
  PROVE  /\ TypeOK' /\ Quiet /\ req[q].who \in Entrants /\ req[q].other \in Entrants
         /\ \/ UNCHANGED challenge
            \/ \E c \in Ids : /\ challenge[c].status = "none"
                              /\ challenge' = [challenge EXCEPT ![c] = Issued(req[q].who, req[q].other)]
<1>1. req[q].who \in Entrants /\ req[q].other \in Entrants
  BY ReqOK DEF IssueInsert, At, Sound
<1>2. \/ UNCHANGED challenge
      \/ \E c \in Ids : /\ challenge[c].status = "none"
                        /\ challenge' = [challenge EXCEPT ![c] = Issued(req[q].who, req[q].other)]
  BY DEF IssueInsert, Issued
<1>3. \A e, f \in Entrants : Issued(e, f) \in Challenge /\ Named(Issued(e, f))
  BY DEF Issued, NoChallenge, Challenge, Statuses, Named
<1>4. ChallengesOK'
  <2>0. ChallengesOK
    BY DEF TypeOK
  <2>1. CASE UNCHANGED challenge
    BY <2>0, <2>1 DEF ChallengesOK
  <2>2. ASSUME NEW c \in Ids, NEW r \in Challenge, Named(r),
               challenge' = [challenge EXCEPT ![c] = r]
        PROVE  ChallengesOK'
    BY <2>0, <2>2 DEF ChallengesOK
  <2> QED
    BY <1>1, <1>2, <1>3, <2>1, <2>2
<1>5. RequestsOK' /\ Quiet
  BY DoneOK DEF IssueInsert
<1>6. UNCHANGED <<position, accepted, claimed, reminders, left>>
  BY DEF IssueInsert
<1> QED
  BY <1>1, <1>2, <1>4, <1>5, <1>6 DEF TypeOK, CountsOK

LEMMA ReportReadOK ==
  ASSUME TypeOK, NEW q \in Requests, NEW c \in Ids, NEW party \in {"challenger", "other"},
         NEW side \in {"challenger", "challenged", "tie"}, ReportRead(q, c, party, side)
  PROVE  TypeOK' /\ left'["fault"] <= left["fault"]
<1> DEFINE m == [Idle EXCEPT !.op = "report", !.pc = "report", !.id = c,
                             !.party = party, !.side = side]
<1>1. m \in Request /\ Sound(m)
  <2>1. c \in Nat
    BY DEF Ids
  <2>2. m \in Request /\ m.pc = "report" /\ m.id = c
    BY <2>1, IdleOK DEF Request
  <2> HIDE DEF m
  <2> QED
    BY <2>2 DEF Sound
<1>2. Go(q, m)
  BY DEF ReportRead, Start
<1>3. RequestsOK'
  <2> HIDE DEF m
  <2> QED
    BY <1>1, <1>2, GoOK
<1>4. UNCHANGED <<position, challenge, accepted, claimed, reminders>>
  BY DEF ReportRead
<1>5. left' \in [Kinds -> Nat] /\ left'["fault"] <= left["fault"]
  BY UsesOK DEF ReportRead, Kinds
<1> QED
  BY <1>3, <1>4, <1>5 DEF TypeOK, CountsOK, ChallengesOK

LEMMA ReportResolveOK ==
  ASSUME TypeOK, NEW q \in Requests, ReportResolve(q)
  PROVE  /\ TypeOK' /\ Quiet /\ Changes /\ left'["fault"] <= left["fault"] /\ req[q].id \in Ids
<1>1. req[q].id \in Ids /\ position \in [Entrants -> Nat]
  BY ReqOK DEF ReportResolve, At, Sound, TypeOK
<1>2. UNCHANGED <<accepted, reminders>> /\ RequestsOK' /\ Quiet
  BY DoneOK DEF ReportResolve
<1>3. left' \in [Kinds -> Nat] /\ left'["fault"] <= left["fault"]
  BY UsesOK, LeftOK DEF ReportResolve, Kinds
<1>4. position' \in [Entrants -> Nat] /\ Ticking
  <2>1. CASE Resolve(req[q].id, Reportable, "completed", req[q].side)
    <3>1. Reportable \subseteq Active \cup {"voided"} /\ "completed" \in Over
      BY DEF Reportable, Active, Over
    <3> QED
      BY <1>1, <1>2, <2>1, <3>1, ResolveOK DEF Ticking
  <2>2. CASE UNCHANGED <<position, challenge>>
    BY <1>1, <1>2, <2>2, StillOK DEF Ticking
  <2> QED
    BY <2>1, <2>2 DEF ReportResolve
<1>5. claimed' \subseteq Ids
  BY <1>1 DEF ReportResolve, TypeOK
<1> QED
  BY <1>1, <1>2, <1>3, <1>4, <1>5 DEF TypeOK, Ticking, CountsOK

-----------------------------------------------------------------------------
(* The type invariant, and every step.                                      *)

Issuing(q) == IssueInsert(q) \/ \E e, f \in Entrants : IssueRead(q, e, f)
Reporting(q) ==
    \/ ReportResolve(q)
    \/ \E c \in Ids, party \in {"challenger", "other"}, side \in {"challenger", "challenged", "tie"} :
          ReportRead(q, c, party, side)

LEMMA StepOK ==
  ASSUME TypeOK, [Next]_vars
  PROVE  TypeOK' /\ (Ordinary \/ \E q \in Requests : Issuing(q) \/ Reporting(q))
<1>1. CASE UNCHANGED vars
  <2>1. Ticking /\ UNCHANGED <<position, accepted, claimed, req, left>> /\ accepted \subseteq Ids
    BY <1>1, StillOK DEF vars, Ticking, TypeOK
  <2> QED
    BY <2>1, RowsOK
<1>2. ASSUME NEW q \in Requests, Continue(q)
      PROVE  TypeOK' /\ (Ordinary \/ Issuing(q) \/ Reporting(q))
  BY <1>2, IssueInsertOK, ReportResolveOK, VoidReadOK, VoidEachOK, RemoveDeleteOK, AddOK,
     SweepReadOK, SweepEachOK DEF Continue, Issuing, Reporting
<1>3. ASSUME NEW q \in Requests, Calls(q)
      PROVE  TypeOK' /\ (Ordinary \/ Issuing(q) \/ Reporting(q))
  <2>1. ASSUME NEW e \in Entrants, NEW f \in Entrants, IssueRead(q, e, f)
        PROVE  TypeOK' /\ Issuing(q)
    BY <2>1, IssueReadOK DEF Issuing
  <2>2. ASSUME NEW c \in Ids, NEW party \in {"challenger", "other"},
               NEW side \in {"challenger", "challenged", "tie"}, ReportRead(q, c, party, side)
        PROVE  TypeOK' /\ Reporting(q)
    BY <2>2, ReportReadOK DEF Reporting
  <2>3. ASSUME NEW e \in Entrants, NEW f \in Entrants, NEW side, RecordLadderResult(q, e, f, side)
        PROVE  TypeOK' /\ Ordinary
    <3>1. 0 \in Nat
      OBVIOUS
    <3> QED
      BY <2>3, <3>1, ReorderOK
  <2>4. ASSUME NEW e \in Entrants, NEW n \in Nat, MoveLadderEntrant(q, e, n) \/ RemoveLadderEntrant(q, e)
        PROVE  TypeOK' /\ Ordinary
    BY <2>4, ReorderOK
  <2>5. ASSUME NEW e \in Entrants, AddRead(q, e)
        PROVE  TypeOK' /\ Ordinary
    BY <2>5, AddOK
  <2>6. 1..Cardinality(Entrants) \subseteq Nat
    OBVIOUS
  <2>7. ASSUME NEW e \in Entrants, RemoveLadderEntrant(q, e)
        PROVE  TypeOK' /\ Ordinary
    <3>1. 0 \in Nat
      OBVIOUS
    <3> QED
      BY <2>4, <2>7, <3>1
  <2> QED
    BY <1>3, <2>1, <2>2, <2>3, <2>4, <2>5, <2>6, <2>7, SweepStartOK DEF Calls
<1>4. ASSUME NEW c \in Ids, Answers(c) \/ Clock(c)
      PROVE  TypeOK' /\ Ordinary
  BY <1>4, AnswersOK, ClockOK
<1> QED
  BY <1>1, <1>2, <1>3, <1>4 DEF Next

LEMMA InitOK == Init => TypeOK
<1> SUFFICES ASSUME Init PROVE TypeOK
  OBVIOUS
<1>1. position \in [Entrants -> Nat]
  <2>1. ASSUME NEW e \in Entrants
        PROVE  (IF \E i \in DOMAIN Order : Order[i] = e
                THEN CHOOSE i \in DOMAIN Order : Order[i] = e ELSE 0) \in Nat
    <3>1. DOMAIN Order \subseteq Nat
      OBVIOUS
    <3>2. (\E i \in DOMAIN Order : Order[i] = e)
             => (CHOOSE i \in DOMAIN Order : Order[i] = e) \in DOMAIN Order
      OBVIOUS
    <3> QED
      BY <3>1, <3>2
  <2> QED
    BY <2>1 DEF Init
<1>2. ChallengesOK
  BY DEF Init, ChallengesOK, NoChallenge, Challenge, Statuses, Named
<1>3. RequestsOK
  BY IdleOK DEF Init, RequestsOK
<1>4. CountsOK
  BY DEF Init, CountsOK
<1> QED
  BY <1>1, <1>2, <1>3, <1>4 DEF Init, TypeOK

\* Rungs, challenges, requests and counters hold values of their kinds; a
\* challenge that was issued names two entrants (ladder_challenges.go).
THEOREM TypeOKHolds == Spec => []TypeOK
<1>1. TypeOK /\ [Next]_vars => TypeOK'
  BY StepOK
<1> QED
  BY <1>1, InitOK, PTL DEF Spec

-----------------------------------------------------------------------------
(* A challenger's report.                                                    *)

Settled == {"cancelled", "declined", "forfeited", "completed", "deleted"}

\* What is accepted, or was when a challenger's report was read, is in
\* accepted, unless it can no more be reported on.
Agreed ==
    /\ claimed \subseteq accepted
    /\ \A c \in Ids : challenge[c].status = "accepted" => c \in accepted
    /\ \A q \in Requests :
          req[q].pc = "report" /\ req[q].party = "challenger" =>
              req[q].id \in accepted \/ challenge[req[q].id].status \in Settled

LEMMA ChangesKeep ==
  ASSUME TypeOK, Changes, NEW c \in Ids
  PROVE  /\ challenge[c].status \in Settled => challenge'[c].status \in Settled
         /\ challenge'[c].status = "accepted" => challenge[c].status = "accepted" \/ c \in accepted'
  BY DEF Changes, Advances, IsReminded, Settled, Active, Over

LEMMA AgreedStep == TypeOK /\ Agreed /\ [Next]_vars => Agreed'
<1> SUFFICES ASSUME TypeOK, Agreed, [Next]_vars PROVE Agreed'
  OBVIOUS
<1>1. TypeOK' /\ (Ordinary \/ \E q \in Requests : Issuing(q) \/ Reporting(q))
  BY StepOK
<1>2. \A q \in Requests : req[q].pc = "report" => req[q].id \in Ids
  BY ReqOK DEF Sound
<1>3. ASSUME Changes, Quiet, accepted \subseteq accepted'
      PROVE  /\ \A c \in Ids : challenge'[c].status = "accepted" => c \in accepted'
             /\ \A q \in Requests :
                   req'[q].pc = "report" /\ req'[q].party = "challenger" =>
                       req'[q].id \in accepted' \/ challenge'[req'[q].id].status \in Settled
  <2>1. ASSUME NEW q \in Requests, req'[q].pc = "report", req'[q].party = "challenger"
        PROVE  req'[q].id \in accepted' \/ challenge'[req'[q].id].status \in Settled
    <3>1. req'[q] = req[q]
      BY <1>3, <2>1 DEF Quiet
    <3> QED
      BY <1>2, <1>3, <2>1, <3>1, ChangesKeep DEF Agreed
  <2> QED
    BY <1>3, <2>1, ChangesKeep DEF Agreed
<1>4. CASE Ordinary
  BY <1>3, <1>4 DEF Ordinary, Agreed
<1>5. ASSUME NEW q \in Requests, NEW m \in Request, Go(q, m),
             UNCHANGED <<challenge, accepted, claimed>>,
             m.pc = "report" /\ m.party = "challenger" =>
                 m.id \in accepted \/ challenge[m.id].status \in Settled
      PROVE  Agreed'
  <2>1. req' = [req EXCEPT ![q] = m] /\ req \in [Requests -> Request]
    BY <1>5 DEF Go, TypeOK, RequestsOK
  <2> QED
    BY <1>5, <2>1 DEF Agreed
<1>6. ASSUME NEW q \in Requests, NEW e \in Entrants, NEW f \in Entrants, IssueRead(q, e, f)
      PROVE  Agreed'
  <2> DEFINE m == [Idle EXCEPT !.op = "issue", !.pc = "issue", !.who = e, !.other = f]
  <2>1. m \in Request /\ m.pc = "issue"
    BY IdleOK DEF Request
  <2>2. Go(q, m) /\ UNCHANGED <<challenge, accepted, claimed>>
    BY <1>6 DEF IssueRead, Start
  <2> HIDE DEF m
  <2> QED
    BY <1>5, <2>1, <2>2
<1>7. ASSUME NEW q \in Requests, IssueInsert(q) PROVE Agreed'
  <2>1. Quiet /\ UNCHANGED <<accepted, claimed>>
    BY <1>7, IssueInsertOK DEF IssueInsert
  <2>2. ASSUME NEW c \in Ids
        PROVE  /\ challenge[c].status \in Settled => challenge'[c].status \in Settled
               /\ challenge'[c].status = "accepted" => challenge[c].status = "accepted"
    <3>1. CASE UNCHANGED challenge
      BY <3>1
    <3>2. ASSUME NEW d \in Ids, challenge[d].status = "none", NEW r, r.status = "pending",
                 challenge' = [challenge EXCEPT ![d] = r]
          PROVE  /\ challenge[c].status \in Settled => challenge'[c].status \in Settled
                 /\ challenge'[c].status = "accepted" => challenge[c].status = "accepted"
      BY <3>2 DEF Settled, TypeOK, ChallengesOK
    <3>3. Issued(req[q].who, req[q].other).status = "pending"
      BY DEF Issued, NoChallenge
    <3> QED
      BY <1>7, <3>1, <3>2, <3>3, IssueInsertOK
  <2>3. ASSUME NEW p \in Requests, req'[p].pc = "report", req'[p].party = "challenger"
        PROVE  req'[p].id \in accepted' \/ challenge'[req'[p].id].status \in Settled
    <3>1. req'[p] = req[p]
      BY <2>1, <2>3 DEF Quiet
    <3> QED
      BY <1>2, <2>1, <2>2, <2>3, <3>1 DEF Agreed
  <2> QED
    BY <2>1, <2>2, <2>3 DEF Agreed
<1>8. ASSUME NEW q \in Requests, NEW c \in Ids, NEW party \in {"challenger", "other"},
             NEW side \in {"challenger", "challenged", "tie"}, ReportRead(q, c, party, side)
      PROVE  Agreed'
  <2> DEFINE m == [Idle EXCEPT !.op = "report", !.pc = "report", !.id = c,
                               !.party = party, !.side = side]
  <2>1. m \in Request /\ m.id = c /\ m.party = party
    <3>1. c \in Nat
      BY DEF Ids
    <3> QED
      BY <3>1, IdleOK DEF Request
  <2>2. Go(q, m) /\ UNCHANGED <<challenge, accepted, claimed>>
    BY <1>8 DEF ReportRead, Start
  <2>3. party = "challenger" => c \in accepted \/ challenge[c].status \in Settled
    <3>1. challenge[c].status \in Statuses /\ challenge[c].status # "none"
      BY <1>8, ChallengeOK DEF ReportRead, Challenge
    <3> QED
      BY <1>8, <3>1 DEF ReportRead, Statuses, Settled, Agreed
  <2> HIDE DEF m
  <2> QED
    BY <1>5, <2>1, <2>2, <2>3
<1>9. ASSUME NEW q \in Requests, ReportResolve(q) PROVE Agreed'
  <2>1. Quiet /\ Changes /\ UNCHANGED accepted /\ req[q].id \in Ids
    BY <1>9, ReportResolveOK DEF ReportResolve
  <2>2. \/ claimed' = claimed
        \/ /\ req[q].pc = "report" /\ req[q].party = "challenger"
           /\ challenge[req[q].id].status \in Reportable
           /\ claimed' = claimed \cup {req[q].id}
    BY <1>9 DEF ReportResolve, At
  <2>3. claimed' \subseteq accepted'
    BY <2>1, <2>2 DEF Agreed, Reportable, Settled
  <2> QED
    BY <1>3, <2>1, <2>3 DEF Agreed
<1> QED
  BY <1>1, <1>4, <1>6, <1>7, <1>8, <1>9 DEF Issuing, Reporting

\* A challenger's own report counts only on a challenge the other player had
\* accepted, however the reads and the writes of accepting, voiding,
\* reordering, sweeping and reporting interleave (ReportChallenge).
THEOREM AgreedBeforeClaimedHolds == Spec => []AgreedBeforeClaimed
<1>1. Init => TypeOK /\ Agreed
  <2>1. Init => Agreed
    BY DEF Init, Agreed, NoChallenge, Idle
  <2> QED
    BY <2>1, InitOK
<1>2. TypeOK /\ Agreed /\ [Next]_vars => (TypeOK /\ Agreed)'
  BY StepOK, AgreedStep
<1>3. Agreed => AgreedBeforeClaimed
  BY DEF Agreed, AgreedBeforeClaimed
<1> QED
  BY <1>1, <1>2, <1>3, PTL DEF Spec

-----------------------------------------------------------------------------
(* What was decided stays decided.                                           *)

LEMMA DecidedStep ==
  ASSUME TypeOK, [Next]_vars, NEW c \in Ids
  PROVE  /\ challenge[c].status \in {"cancelled", "declined", "forfeited", "completed"}
               => challenge'[c].status \in {challenge[c].status, "deleted"}
         /\ challenge[c].status = "voided"
               => challenge'[c].status \in {"voided", "completed", "deleted"}
<1>1. ASSUME Changes
      PROVE  /\ challenge[c].status \in {"cancelled", "declined", "forfeited", "completed"}
                   => challenge'[c].status \in {challenge[c].status, "deleted"}
             /\ challenge[c].status = "voided"
                   => challenge'[c].status \in {"voided", "completed", "deleted"}
  BY <1>1 DEF Changes, Advances, IsReminded, Active
<1>2. ASSUME NEW q \in Requests, IssueInsert(q)
      PROVE  UNCHANGED challenge \/ challenge[c].status = "none" \/ challenge'[c] = challenge[c]
  BY <1>2, IssueInsertOK DEF TypeOK, ChallengesOK
<1>3. ASSUME NEW q \in Requests, Issuing(q) \/ Reporting(q)
      PROVE  Changes \/ UNCHANGED challenge \/ challenge[c].status = "none"
             \/ challenge'[c] = challenge[c]
  BY <1>2, <1>3, ReportResolveOK DEF Issuing, Reporting, IssueRead, ReportRead
<1> QED
  BY <1>1, <1>3, StepOK DEF Ordinary

\* A challenge is decided once: whichever of an answer, a report, a sweep or a
\* reorder comes second finds it decided (the stored procedure's and the
\* updates' conditions on the status).
THEOREM ResolvedOnceHolds == Spec => ResolvedOnce
<1>1. TypeOK /\ [Next]_vars =>
        [\A c \in Ids :
          /\ challenge[c].status \in {"cancelled", "declined", "forfeited", "completed"}
                => challenge'[c].status \in {challenge[c].status, "deleted"}
          /\ challenge[c].status = "voided"
                => challenge'[c].status \in {"voided", "completed", "deleted"}]_vars
  BY DecidedStep
<1> QED
  BY <1>1, TypeOKHolds, PTL DEF Spec, ResolvedOnce

-----------------------------------------------------------------------------
(* Reminders.                                                               *)

\* A reminder that was not claimed was not sent.
Sent ==
    \A c \in Ids, k \in {"respond", "play"} :
        /\ reminders[c][k] <= 1
        /\ challenge[c].status = "none" \/ k \notin challenge[c].reminded => reminders[c][k] = 0

LEMMA SentStep == TypeOK /\ Sent /\ [Next]_vars => Sent'
<1> SUFFICES ASSUME TypeOK, Sent, [Next]_vars,
                    NEW c \in Ids, NEW k \in {"respond", "play"}
             PROVE  /\ reminders'[c][k] <= 1
                    /\ challenge'[c].status = "none" \/ k \notin challenge'[c].reminded
                          => reminders'[c][k] = 0
  BY DEF Sent
<1>0. /\ reminders[c][k] \in Nat /\ reminders[c][k] <= 1
      /\ challenge[c].status = "none" \/ k \notin challenge[c].reminded => reminders[c][k] = 0
  BY DEF Sent, TypeOK, CountsOK
<1>1. ASSUME UNCHANGED reminders, challenge'[c] = challenge[c]
      PROVE  /\ reminders'[c][k] <= 1
             /\ challenge'[c].status = "none" \/ k \notin challenge'[c].reminded
                   => reminders'[c][k] = 0
  BY <1>0, <1>1
<1>2. ASSUME Changes
      PROVE  /\ reminders'[c][k] <= 1
             /\ challenge'[c].status = "none" \/ k \notin challenge'[c].reminded
                   => reminders'[c][k] = 0
  <2>1. CASE Advances(c) /\ reminders'[c] = reminders[c]
    <3>1. challenge'[c].status = "none" => challenge[c].status = "none"
      BY <2>1 DEF Advances, Over
    <3> QED
      BY <1>0, <2>1, <3>1 DEF Advances
  <2>2. ASSUME NEW j \in {"respond", "play"}, IsReminded(c, j)
        PROVE  /\ reminders'[c][k] <= 1
               /\ challenge'[c].status = "none" \/ k \notin challenge'[c].reminded
                     => reminders'[c][k] = 0
    <3>1. /\ challenge'[c].status # "none" /\ j \notin challenge[c].reminded
          /\ challenge'[c].reminded = challenge[c].reminded \cup {j}
      BY <2>2 DEF IsReminded, Active
    <3>2. reminders[c] \in [respond : Nat, play : Nat] /\ reminders \in [Ids -> [respond : Nat, play : Nat]]
      BY DEF TypeOK, CountsOK
    <3>3. reminders'[c] = [reminders[c] EXCEPT ![j] = reminders[c][j] + 1]
      BY <2>2, <3>2 DEF IsReminded
    <3>4. CASE j = k
      <4>1. reminders[c][k] = 0 /\ reminders'[c][k] = reminders[c][k] + 1
        BY <1>0, <3>1, <3>2, <3>3, <3>4
      <4> QED
        BY <3>1, <3>4, <4>1
    <3>5. CASE j # k
      <4>1. reminders'[c][k] = reminders[c][k]
        BY <3>2, <3>3, <3>5
      <4> QED
        BY <1>0, <3>1, <3>5, <4>1
    <3> QED
      BY <3>4, <3>5
  <2> QED
    BY <1>2, <2>1, <2>2 DEF Changes
<1>3. ASSUME NEW q \in Requests, IssueInsert(q)
      PROVE  /\ reminders'[c][k] <= 1
             /\ challenge'[c].status = "none" \/ k \notin challenge'[c].reminded
                   => reminders'[c][k] = 0
  <2>1. UNCHANGED reminders
    BY <1>3 DEF IssueInsert
  <2>2. challenge'[c] = challenge[c] \/ challenge[c].status = "none"
    <3>1. ASSUME NEW d \in Ids, NEW r, challenge[d].status = "none",
                 challenge' = [challenge EXCEPT ![d] = r]
          PROVE  challenge'[c] = challenge[c] \/ challenge[c].status = "none"
      BY <3>1 DEF TypeOK, ChallengesOK
    <3> QED
      BY <1>3, <3>1, IssueInsertOK
  <2> QED
    BY <1>0, <2>1, <2>2
<1>4. ASSUME NEW q \in Requests, Issuing(q) \/ Reporting(q)
      PROVE  /\ reminders'[c][k] <= 1
             /\ challenge'[c].status = "none" \/ k \notin challenge'[c].reminded
                   => reminders'[c][k] = 0
  <2>1. \/ Changes
        \/ UNCHANGED <<challenge, reminders>>
        \/ IssueInsert(q)
    BY <1>4, ReportResolveOK DEF Issuing, Reporting, IssueRead, ReportRead
  <2> QED
    BY <1>1, <1>2, <1>3, <2>1
<1> QED
  BY <1>2, <1>4, StepOK DEF Ordinary

\* However many instances sweep at once, each deadline is reminded of at most
\* once (claimReminder's conditional update before the push).
THEOREM RemindedOnceHolds == Spec => []RemindedOnce
<1>1. Init => TypeOK /\ Sent
  <2>1. Init => Sent
    BY DEF Init, Sent, NoChallenge
  <2> QED
    BY <2>1, InitOK
<1>2. TypeOK /\ Sent /\ [Next]_vars => (TypeOK /\ Sent)'
  BY StepOK, SentStep
<1>3. Sent => RemindedOnce
  BY DEF Sent, RemindedOnce
<1> QED
  BY <1>1, <1>2, <1>3, PTL DEF Spec

-----------------------------------------------------------------------------
(* The caps.                                                                *)

InsertsFor(e)     == {q \in Requests : req[q].pc = "issue" /\ req[q].who = e}
InsertsAgainst(e) == {q \in Requests : req[q].pc = "issue" /\ req[q].other = e}

\* Challenges that are open and those about to be inserted.
CapsWithInserts ==
    /\ Faults >= 0
    /\ \A e \in Entrants :
        /\ Cardinality(Outgoing(e)) + Cardinality(InsertsFor(e))
              < MaxOutgoing + Cardinality(Requests) + Faults
        /\ Cardinality(Incoming(e)) + Cardinality(InsertsAgainst(e))
              < MaxIncoming + Cardinality(Requests) + Faults

LEMMA Finite ==
  /\ \A e : IsFiniteSet(Outgoing(e)) /\ Cardinality(Outgoing(e)) \in Nat
  /\ \A e : IsFiniteSet(Incoming(e)) /\ Cardinality(Incoming(e)) \in Nat
  /\ \A e : IsFiniteSet(InsertsFor(e)) /\ Cardinality(InsertsFor(e)) \in Nat
  /\ \A e : IsFiniteSet(InsertsAgainst(e)) /\ Cardinality(InsertsAgainst(e)) \in Nat
  /\ Cardinality(Requests) \in Nat /\ IsFiniteSet(Requests)
<1>1. IsFiniteSet(Ids) /\ IsFiniteSet(Requests)
  BY FS_Interval DEF Ids
<1>2. \A e : Outgoing(e) \subseteq Ids /\ Incoming(e) \subseteq Ids
  BY DEF Outgoing, Incoming
<1>3. \A e : InsertsFor(e) \subseteq Requests /\ InsertsAgainst(e) \subseteq Requests
  BY DEF InsertsFor, InsertsAgainst
<1> QED
  BY <1>1, <1>2, <1>3, FS_Subset, FS_CardinalityType

LEMMA FiniteNext ==
  \A e : /\ Cardinality(Outgoing(e)') \in Nat /\ Cardinality(Incoming(e)') \in Nat
         /\ Cardinality(InsertsFor(e)') \in Nat /\ Cardinality(InsertsAgainst(e)') \in Nat
<1>1. IsFiniteSet(Ids) /\ IsFiniteSet(Requests)
  BY FS_Interval DEF Ids
<1>2. \A e : Outgoing(e)' \subseteq Ids /\ Incoming(e)' \subseteq Ids
  BY DEF Outgoing, Incoming
<1>3. \A e : InsertsFor(e)' \subseteq Requests /\ InsertsAgainst(e)' \subseteq Requests
  BY DEF InsertsFor, InsertsAgainst
<1> QED
  BY <1>1, <1>2, <1>3, FS_Subset, FS_CardinalityType

\* Nothing is opened: the sets of open challenges do not grow.
LEMMA NothingOpened ==
  ASSUME TypeOK, TypeOK', Changes \/ UNCHANGED challenge, NEW e \in Entrants
  PROVE  Outgoing(e)' \subseteq Outgoing(e) /\ Incoming(e)' \subseteq Incoming(e)
<1>1. ASSUME NEW c \in Ids, challenge'[c].status \in Active
      PROVE  /\ challenge[c].status \in Active
             /\ challenge'[c].from = challenge[c].from /\ challenge'[c].to = challenge[c].to
  BY <1>1 DEF Changes, Advances, IsReminded, Active, Over
<1> QED
  BY <1>1 DEF Outgoing, Incoming, IsActive

LEMMA QuietInserts ==
  ASSUME Quiet, NEW e
  PROVE  InsertsFor(e)' \subseteq InsertsFor(e) /\ InsertsAgainst(e)' \subseteq InsertsAgainst(e)
  BY DEF Quiet, InsertsFor, InsertsAgainst

LEMMA FaultsOK ==
  ASSUME TypeOK, TypeOK'
  PROVE  /\ Faults \in Int /\ Faults' \in Int
         /\ left'["fault"] <= left["fault"] => Faults <= Faults'
         /\ left'["fault"] = left["fault"] - 1 => Faults' = Faults + 1
<1>1. left["fault"] \in Nat /\ left'["fault"] \in Nat /\ Budget["fault"] \in Nat
  BY DEF TypeOK, CountsOK, Kinds
<1>2. Faults = Budget["fault"] - left["fault"] /\ Faults' = Budget["fault"] - left'["fault"]
  BY DEF Faults
<1>3. \A b, m, n \in Nat : /\ b - m \in Int /\ b - n \in Int /\ (n <= m => b - m <= b - n)
                          /\ (n = m - 1 => b - n = (b - m) + 1)
  OBVIOUS
<1> QED
  BY <1>1, <1>2, <1>3

\* Sums of counts that do not grow.
LEMMA Sums ==
  ASSUME NEW S, NEW T, NEW S2, NEW T2, IsFiniteSet(S), IsFiniteSet(T),
         S2 \subseteq S, T2 \subseteq T, NEW n \in Int, Cardinality(S) + Cardinality(T) < n
  PROVE  Cardinality(S2) + Cardinality(T2) < n
<1>1. Cardinality(S2) <= Cardinality(S) /\ Cardinality(T2) <= Cardinality(T)
  BY FS_Subset
<1>2. IsFiniteSet(S2) /\ IsFiniteSet(T2)
  BY FS_Subset
<1>3. /\ Cardinality(S2) \in Nat /\ Cardinality(T2) \in Nat
      /\ Cardinality(S) \in Nat /\ Cardinality(T) \in Nat
  BY <1>2, FS_CardinalityType
<1> QED
  BY <1>1, <1>3

LEMMA OneMore ==
  ASSUME NEW S, NEW x, IsFiniteSet(S)
  PROVE  IsFiniteSet(S \cup {x}) /\ Cardinality(S \cup {x}) <= Cardinality(S) + 1
<1>1. /\ IsFiniteSet(S \cup {x})
      /\ Cardinality(S \cup {x}) = Cardinality(S) \/ Cardinality(S \cup {x}) = Cardinality(S) + 1
  BY FS_AddElement
<1>2. Cardinality(S) \in Nat
  BY FS_CardinalityType
<1> QED
  BY <1>1, <1>2

\* One more open challenge, one insert less.
LEMMA Inserted ==
  ASSUME NEW S, NEW T, NEW S2, NEW T2, NEW x, NEW y, IsFiniteSet(S), IsFiniteSet(T),
         S2 \subseteq S \cup {x}, T2 \subseteq T \ {y}, y \in T,
         NEW n \in Int, Cardinality(S) + Cardinality(T) < n
  PROVE  Cardinality(S2) + Cardinality(T2) < n
<1>0. Cardinality(S) \in Nat /\ Cardinality(T) \in Nat
  BY FS_CardinalityType
<1>a. IsFiniteSet(S \cup {x}) /\ Cardinality(S \cup {x}) <= Cardinality(S) + 1
  BY <1>0, OneMore
<1>b. IsFiniteSet(T \ {y}) /\ Cardinality(T \ {y}) = Cardinality(T) - 1
  BY FS_RemoveElement
<1>1. /\ IsFiniteSet(S \cup {x}) /\ Cardinality(S \cup {x}) <= Cardinality(S) + 1
      /\ IsFiniteSet(T \ {y}) /\ Cardinality(T \ {y}) = Cardinality(T) - 1
      /\ Cardinality(S) \in Nat /\ Cardinality(T) \in Nat
  BY <1>0, <1>a, <1>b
<1>2. Cardinality(S \cup {x}) \in Nat /\ Cardinality(T \ {y}) \in Nat
  BY <1>1, FS_CardinalityType
<1>3. Cardinality(S \cup {x}) + Cardinality(T \ {y}) < n
  BY <1>1, <1>2
<1> QED
  BY <1>1, <1>3, Sums

\* One more insert, of one request: the count had room for the challenge, or
\* could not be read.
LEMMA Admitted ==
  ASSUME NEW S, NEW T, NEW T2, NEW x, IsFiniteSet(S), IsFiniteSet(T), IsFiniteSet(Requests),
         T2 \subseteq T \cup {x}, T2 \subseteq Requests,
         NEW m \in Nat, NEW f \in Int, NEW g \in Int,
         Cardinality(S) + Cardinality(T) < m + Cardinality(Requests) + f,
         \/ Cardinality(S) < m /\ f >= 0 /\ g = f
         \/ g = f + 1
  PROVE  Cardinality(S) + Cardinality(T2) < m + Cardinality(Requests) + g
<1>0. /\ Cardinality(S) \in Nat /\ Cardinality(T) \in Nat /\ Cardinality(Requests) \in Nat
  BY FS_CardinalityType
<1>1. IsFiniteSet(T \cup {x}) /\ Cardinality(T \cup {x}) <= Cardinality(T) + 1
  BY <1>0, OneMore
<1>2. Cardinality(T2) <= Cardinality(T \cup {x}) /\ Cardinality(T2) <= Cardinality(Requests)
      /\ IsFiniteSet(T2)
  BY <1>1, FS_Subset
<1>3. Cardinality(T2) \in Nat /\ Cardinality(T \cup {x}) \in Nat
  BY <1>1, <1>2, FS_CardinalityType
<1> QED
  BY <1>0, <1>1, <1>2, <1>3

LEMMA CapsStep == TypeOK /\ CapsWithInserts /\ [Next]_vars => CapsWithInserts'
<1> SUFFICES ASSUME TypeOK, CapsWithInserts, [Next]_vars PROVE CapsWithInserts'
  OBVIOUS
<1>1. TypeOK' /\ (Ordinary \/ \E q \in Requests : Issuing(q) \/ Reporting(q))
  BY StepOK
<1>2. /\ MaxOutgoing \in Nat /\ MaxIncoming \in Nat /\ Cardinality(Requests) \in Nat
      /\ Faults \in Int /\ Faults' \in Int /\ Faults >= 0
  BY <1>1, Finite, FaultsOK DEF CapsWithInserts
<1> DEFINE OutMost == MaxOutgoing + Cardinality(Requests) + Faults
           InMost  == MaxIncoming + Cardinality(Requests) + Faults
<1>3. OutMost \in Int /\ InMost \in Int
  BY <1>2
<1>4. ASSUME Faults <= Faults',
             \A e \in Entrants :
                /\ Cardinality(Outgoing(e)') + Cardinality(InsertsFor(e)') < OutMost
                /\ Cardinality(Incoming(e)') + Cardinality(InsertsAgainst(e)') < InMost
      PROVE  CapsWithInserts'
  <2>1. Faults' >= 0
    BY <1>2, <1>4
  <2>2. \A m \in Nat, n \in Nat : n < OutMost => n < MaxOutgoing + Cardinality(Requests) + Faults'
    BY <1>2, <1>4
  <2>3. \A n \in Nat : n < InMost => n < MaxIncoming + Cardinality(Requests) + Faults'
    BY <1>2, <1>4
  <2>4. \A e : /\ Cardinality(Outgoing(e)') + Cardinality(InsertsFor(e)') \in Nat
               /\ Cardinality(Incoming(e)') + Cardinality(InsertsAgainst(e)') \in Nat
    <3>1. \A e : /\ Cardinality(Outgoing(e)') \in Nat /\ Cardinality(InsertsFor(e)') \in Nat
                 /\ Cardinality(Incoming(e)') \in Nat /\ Cardinality(InsertsAgainst(e)') \in Nat
      BY FiniteNext
    <3> QED
      BY <3>1
  <2> HIDE DEF OutMost, InMost
  <2> QED
    BY <1>4, <2>1, <2>2, <2>3, <2>4 DEF CapsWithInserts
<1>5. ASSUME Changes \/ UNCHANGED challenge, Quiet, Faults <= Faults'
      PROVE  CapsWithInserts'
  <2>1. ASSUME NEW e \in Entrants
        PROVE  /\ Cardinality(Outgoing(e)') + Cardinality(InsertsFor(e)') < OutMost
               /\ Cardinality(Incoming(e)') + Cardinality(InsertsAgainst(e)') < InMost
    <3>1. /\ Outgoing(e)' \subseteq Outgoing(e) /\ Incoming(e)' \subseteq Incoming(e)
          /\ InsertsFor(e)' \subseteq InsertsFor(e) /\ InsertsAgainst(e)' \subseteq InsertsAgainst(e)
      BY <1>1, <1>5, NothingOpened, QuietInserts
    <3>2. /\ Cardinality(Outgoing(e)) + Cardinality(InsertsFor(e)) < OutMost
          /\ Cardinality(Incoming(e)) + Cardinality(InsertsAgainst(e)) < InMost
      BY DEF CapsWithInserts
    <3> HIDE DEF OutMost, InMost
    <3> QED
      BY <1>3, <3>1, <3>2, Finite, Sums
  <2> HIDE DEF OutMost, InMost
  <2> QED
    BY <1>4, <1>5, <2>1
<1>6. CASE Ordinary
  <2>1. Faults <= Faults'
    BY <1>1, <1>6, FaultsOK DEF Ordinary
  <2> QED
    BY <1>5, <1>6, <2>1 DEF Ordinary
<1>7. ASSUME NEW q \in Requests, ReportResolve(q) PROVE CapsWithInserts'
  BY <1>1, <1>5, <1>7, ReportResolveOK, FaultsOK
<1>8. ASSUME NEW q \in Requests, NEW c \in Ids, NEW party \in {"challenger", "other"},
             NEW side \in {"challenger", "challenged", "tie"}, ReportRead(q, c, party, side)
      PROVE  CapsWithInserts'
  <2>1. UNCHANGED challenge /\ Faults <= Faults'
    BY <1>1, <1>8, ReportReadOK, FaultsOK DEF ReportRead
  <2>2. \A e : InsertsFor(e)' \subseteq InsertsFor(e) /\ InsertsAgainst(e)' \subseteq InsertsAgainst(e)
    <3> DEFINE m == [Idle EXCEPT !.op = "report", !.pc = "report", !.id = c,
                                 !.party = party, !.side = side]
    <3>1. m.pc = "report"
      BY IdleOK DEF Request
    <3>2. req' = [req EXCEPT ![q] = m] /\ req \in [Requests -> Request]
      BY <1>8 DEF ReportRead, Start, Go, TypeOK, RequestsOK
    <3> HIDE DEF m
    <3> QED
      BY <3>1, <3>2 DEF InsertsFor, InsertsAgainst
  <2>3. ASSUME NEW e \in Entrants
        PROVE  /\ Cardinality(Outgoing(e)') + Cardinality(InsertsFor(e)') < OutMost
               /\ Cardinality(Incoming(e)') + Cardinality(InsertsAgainst(e)') < InMost
    <3>1. Outgoing(e)' \subseteq Outgoing(e) /\ Incoming(e)' \subseteq Incoming(e)
      BY <1>1, <2>1, NothingOpened
    <3>2. /\ Cardinality(Outgoing(e)) + Cardinality(InsertsFor(e)) < OutMost
          /\ Cardinality(Incoming(e)) + Cardinality(InsertsAgainst(e)) < InMost
      BY DEF CapsWithInserts
    <3> HIDE DEF OutMost, InMost
    <3> QED
      BY <1>3, <2>2, <3>1, <3>2, Finite, Sums
  <2> HIDE DEF OutMost, InMost
  <2> QED
    BY <1>4, <2>1, <2>3
<1>9. ASSUME NEW q \in Requests, IssueInsert(q) PROVE CapsWithInserts'
  <2>1. Quiet /\ UNCHANGED left
    BY <1>9, IssueInsertOK DEF IssueInsert
  <2>2. Faults' = Faults
    BY <2>1 DEF Faults
  <2>3. CASE UNCHANGED challenge
    BY <1>2, <1>5, <2>1, <2>2, <2>3
  <2>4. ASSUME NEW c \in Ids, challenge[c].status = "none",
               challenge' = [challenge EXCEPT ![c] = Issued(req[q].who, req[q].other)]
        PROVE  CapsWithInserts'
    <3> DEFINE r == Issued(req[q].who, req[q].other)
    <3>1. r.from = req[q].who /\ r.to = req[q].other /\ req[q].pc = "issue"
      BY <1>9 DEF Issued, NoChallenge, IssueInsert, At
    <3>2. challenge' = [challenge EXCEPT ![c] = r] /\ challenge \in [Ids -> Challenge]
      BY <2>4 DEF TypeOK, ChallengesOK
    <3>3. req' = [req EXCEPT ![q] = Idle] /\ Idle.pc = "idle" /\ req \in [Requests -> Request]
      BY <1>9, IdleOK DEF IssueInsert, Done, Go, TypeOK, RequestsOK
    <3> HIDE DEF r
    <3>4. ASSUME NEW e \in Entrants
          PROVE  /\ Outgoing(e)' \subseteq Outgoing(e) \cup {c}
                 /\ Incoming(e)' \subseteq Incoming(e) \cup {c}
                 /\ e # req[q].who => Outgoing(e)' \subseteq Outgoing(e)
                 /\ e # req[q].other => Incoming(e)' \subseteq Incoming(e)
      BY <3>1, <3>2 DEF Outgoing, Incoming, IsActive
    <3>5. ASSUME NEW e \in Entrants
          PROVE  /\ InsertsFor(e)' \subseteq InsertsFor(e) \ {q}
                 /\ InsertsAgainst(e)' \subseteq InsertsAgainst(e) \ {q}
                 /\ e = req[q].who => q \in InsertsFor(e)
                 /\ e = req[q].other => q \in InsertsAgainst(e)
      BY <3>1, <3>3 DEF InsertsFor, InsertsAgainst
    <3>6. ASSUME NEW e \in Entrants
          PROVE  /\ Cardinality(Outgoing(e)') + Cardinality(InsertsFor(e)') < OutMost
                 /\ Cardinality(Incoming(e)') + Cardinality(InsertsAgainst(e)') < InMost
      <4>1. /\ Cardinality(Outgoing(e)) + Cardinality(InsertsFor(e)) < OutMost
            /\ Cardinality(Incoming(e)) + Cardinality(InsertsAgainst(e)) < InMost
        BY DEF CapsWithInserts
      <4> HIDE DEF OutMost, InMost
      <4>2. Cardinality(Outgoing(e)') + Cardinality(InsertsFor(e)') < OutMost
        <5>1. CASE e = req[q].who
          <6>1. /\ Outgoing(e)' \subseteq Outgoing(e) \cup {c} /\ q \in InsertsFor(e)
                /\ InsertsFor(e)' \subseteq InsertsFor(e) \ {q}
            BY <3>4, <3>5, <5>1
          <6>2. IsFiniteSet(Outgoing(e)) /\ IsFiniteSet(InsertsFor(e))
            BY Finite
          <6> QED
            BY <1>3, <4>1, <6>1, <6>2, Inserted
        <5>2. CASE e # req[q].who
          BY <1>3, <3>4, <3>5, <4>1, <5>2, Finite, Sums
        <5> QED
          BY <5>1, <5>2
      <4>3. Cardinality(Incoming(e)') + Cardinality(InsertsAgainst(e)') < InMost
        <5>1. CASE e = req[q].other
          <6>1. /\ Incoming(e)' \subseteq Incoming(e) \cup {c} /\ q \in InsertsAgainst(e)
                /\ InsertsAgainst(e)' \subseteq InsertsAgainst(e) \ {q}
            BY <3>4, <3>5, <5>1
          <6>2. IsFiniteSet(Incoming(e)) /\ IsFiniteSet(InsertsAgainst(e))
            BY Finite
          <6> QED
            BY <1>3, <4>1, <6>1, <6>2, Inserted
        <5>2. CASE e # req[q].other
          BY <1>3, <3>4, <3>5, <4>1, <5>2, Finite, Sums
        <5> QED
          BY <5>1, <5>2
      <4> QED
        BY <4>2, <4>3
    <3>7. Faults <= Faults'
      BY <1>2, <2>2
    <3> HIDE DEF OutMost, InMost
    <3> QED
      BY <1>4, <3>6, <3>7
  <2> QED
    BY <1>9, <2>3, <2>4, IssueInsertOK
<1>10. ASSUME NEW q \in Requests, NEW e \in Entrants, NEW f \in Entrants, IssueRead(q, e, f)
       PROVE  CapsWithInserts'
  <2> DEFINE m == [Idle EXCEPT !.op = "issue", !.pc = "issue", !.who = e, !.other = f]
  <2>1. m.pc = "issue" /\ m.who = e /\ m.other = f
    BY IdleOK DEF Request
  <2>2. req' = [req EXCEPT ![q] = m] /\ req \in [Requests -> Request] /\ UNCHANGED challenge
    BY <1>10 DEF IssueRead, Start, Go, TypeOK, RequestsOK
  <2> HIDE DEF m
  <2>3. \A g : Outgoing(g)' = Outgoing(g) /\ Incoming(g)' = Incoming(g)
    BY <2>2 DEF Outgoing, Incoming, IsActive
  <2>4. ASSUME NEW g
        PROVE  /\ InsertsFor(g)' \subseteq InsertsFor(g) \cup {q}
               /\ InsertsAgainst(g)' \subseteq InsertsAgainst(g) \cup {q}
               /\ g # e => InsertsFor(g)' \subseteq InsertsFor(g)
               /\ g # f => InsertsAgainst(g)' \subseteq InsertsAgainst(g)
               /\ InsertsFor(g)' \subseteq Requests /\ InsertsAgainst(g)' \subseteq Requests
    BY <2>1, <2>2 DEF InsertsFor, InsertsAgainst
  <2>5. \/ MayIssue(e, f) /\ Faults' = Faults
        \/ Faults' = Faults + 1
    <3>1. left \in [Kinds -> Nat] /\ "fault" \in Kinds /\ "issue" \in Kinds
      BY DEF TypeOK, CountsOK, Kinds
    <3>2. \/ MayIssue(e, f) /\ left'["fault"] = left["fault"]
          \/ left'["fault"] = left["fault"] - 1
      BY <1>10, <3>1 DEF IssueRead
    <3>3. left'["fault"] = left["fault"] => Faults' = Faults
      BY DEF Faults
    <3> QED
      BY <1>1, <3>2, <3>3, FaultsOK
  <2>6. MayIssue(e, f) => /\ Cardinality(Outgoing(e)) < MaxOutgoing
                          /\ Cardinality(Incoming(f)) < MaxIncoming
    BY DEF MayIssue
  <2>7. ASSUME NEW g \in Entrants
        PROVE  /\ Cardinality(Outgoing(g)') + Cardinality(InsertsFor(g)')
                     < MaxOutgoing + Cardinality(Requests) + Faults'
               /\ Cardinality(Incoming(g)') + Cardinality(InsertsAgainst(g)')
                     < MaxIncoming + Cardinality(Requests) + Faults'
    <3>1. /\ Cardinality(Outgoing(g)) + Cardinality(InsertsFor(g)) < OutMost
          /\ Cardinality(Incoming(g)) + Cardinality(InsertsAgainst(g)) < InMost
      BY DEF CapsWithInserts
    <3>2. OutMost <= MaxOutgoing + Cardinality(Requests) + Faults'
          /\ InMost <= MaxIncoming + Cardinality(Requests) + Faults'
      BY <1>2, <2>5
    <3>3. Cardinality(Outgoing(g)) + Cardinality(InsertsFor(g)')
             < MaxOutgoing + Cardinality(Requests) + Faults'
      <4>1. CASE g = e
        <5>1. /\ InsertsFor(g)' \subseteq InsertsFor(g) \cup {q} /\ InsertsFor(g)' \subseteq Requests
              /\ IsFiniteSet(Outgoing(g)) /\ IsFiniteSet(InsertsFor(g)) /\ IsFiniteSet(Requests)
          BY <2>4, Finite
        <5>2. \/ Cardinality(Outgoing(g)) < MaxOutgoing /\ Faults >= 0 /\ Faults' = Faults
              \/ Faults' = Faults + 1
          BY <1>2, <2>5, <2>6, <4>1
        <5> QED
          BY <1>2, <3>1, <5>1, <5>2, Admitted
      <4>2. CASE g # e
        <5>1. Cardinality(Outgoing(g)) + Cardinality(InsertsFor(g)') < OutMost
          <6>1. InsertsFor(g)' \subseteq InsertsFor(g) /\ IsFiniteSet(Outgoing(g)) /\ IsFiniteSet(InsertsFor(g))
            BY <2>4, <4>2, Finite
          <6> HIDE DEF OutMost, InMost
          <6> QED
            BY <1>3, <3>1, <6>1, Sums
        <5>2. Cardinality(Outgoing(g)) + Cardinality(InsertsFor(g)') \in Nat
          <6>1. Cardinality(InsertsFor(g)') \in Nat /\ Cardinality(Outgoing(g)) \in Nat
            BY Finite, FiniteNext
          <6> QED
            BY <6>1
        <5> QED
          BY <1>2, <3>2, <5>1, <5>2
      <4> QED
        BY <4>1, <4>2
    <3>4. Cardinality(Incoming(g)) + Cardinality(InsertsAgainst(g)')
             < MaxIncoming + Cardinality(Requests) + Faults'
      <4>1. CASE g = f
        <5>1. /\ InsertsAgainst(g)' \subseteq InsertsAgainst(g) \cup {q} /\ InsertsAgainst(g)' \subseteq Requests
              /\ IsFiniteSet(Incoming(g)) /\ IsFiniteSet(InsertsAgainst(g)) /\ IsFiniteSet(Requests)
          BY <2>4, Finite
        <5>2. \/ Cardinality(Incoming(g)) < MaxIncoming /\ Faults >= 0 /\ Faults' = Faults
              \/ Faults' = Faults + 1
          BY <1>2, <2>5, <2>6, <4>1
        <5> QED
          BY <1>2, <3>1, <5>1, <5>2, Admitted
      <4>2. CASE g # f
        <5>1. Cardinality(Incoming(g)) + Cardinality(InsertsAgainst(g)') < InMost
          <6>1. InsertsAgainst(g)' \subseteq InsertsAgainst(g) /\ IsFiniteSet(Incoming(g)) /\ IsFiniteSet(InsertsAgainst(g))
            BY <2>4, <4>2, Finite
          <6> HIDE DEF OutMost, InMost
          <6> QED
            BY <1>3, <3>1, <6>1, Sums
        <5>2. Cardinality(Incoming(g)) + Cardinality(InsertsAgainst(g)') \in Nat
          <6>1. Cardinality(InsertsAgainst(g)') \in Nat /\ Cardinality(Incoming(g)) \in Nat
            BY Finite, FiniteNext
          <6> QED
            BY <6>1
        <5> QED
          BY <1>2, <3>2, <5>1, <5>2
      <4> QED
        BY <4>1, <4>2
    <3> QED
      BY <2>3, <3>3, <3>4
  <2>8. Faults' >= 0
    BY <1>2, <2>5
  <2> QED
    BY <2>7, <2>8 DEF CapsWithInserts
<1> QED
  BY <1>1, <1>6, <1>7, <1>8, <1>9, <1>10 DEF Issuing, Reporting

LEMMA CapsInit == Init => CapsWithInserts
<1> SUFFICES ASSUME Init PROVE CapsWithInserts
  OBVIOUS
<1>1. \A e : /\ Outgoing(e) = {} /\ Incoming(e) = {}
             /\ InsertsFor(e) = {} /\ InsertsAgainst(e) = {}
  BY IdleOK DEF Init, Outgoing, Incoming, InsertsFor, InsertsAgainst, IsActive, Active, NoChallenge
<1>2. Cardinality({}) = 0 /\ Cardinality(Requests) \in Nat
  BY FS_EmptySet, Finite
<1>3. Faults = 0
  BY DEF Init, Faults, Kinds
<1>4. /\ 0 + 0 < MaxOutgoing + Cardinality(Requests) + 0
      /\ 0 + 0 < MaxIncoming + Cardinality(Requests) + 0 /\ 0 >= 0
  BY <1>2
<1> QED
  BY <1>1, <1>2, <1>3, <1>4 DEF CapsWithInserts

\* The caps on open challenges hold up to one for every other request in
\* flight and every count that failed, whatever the ladder does meanwhile
\* (activeChallengeCount and the insert of IssueChallenge).
THEOREM CapsHeldHolds == Spec => []CapsHeld
<1>1. TypeOK /\ CapsWithInserts /\ [Next]_vars => (TypeOK /\ CapsWithInserts)'
  BY StepOK, CapsStep
<1>2. TypeOK /\ CapsWithInserts => CapsHeld
  <2> SUFFICES ASSUME TypeOK, CapsWithInserts, NEW e \in Entrants
               PROVE  /\ Cardinality(Outgoing(e)) < MaxOutgoing + Cardinality(Requests) + Faults
                      /\ Cardinality(Incoming(e)) < MaxIncoming + Cardinality(Requests) + Faults
    BY DEF CapsHeld
  <2>1. /\ Cardinality(Outgoing(e)) + Cardinality(InsertsFor(e))
              < MaxOutgoing + Cardinality(Requests) + Faults
        /\ Cardinality(Incoming(e)) + Cardinality(InsertsAgainst(e))
              < MaxIncoming + Cardinality(Requests) + Faults
    BY DEF CapsWithInserts
  <2>2. /\ Cardinality(Outgoing(e)) \in Nat /\ Cardinality(InsertsFor(e)) \in Nat
        /\ Cardinality(Incoming(e)) \in Nat /\ Cardinality(InsertsAgainst(e)) \in Nat
    BY Finite
  <2>3. MaxOutgoing + Cardinality(Requests) + Faults \in Int
        /\ MaxIncoming + Cardinality(Requests) + Faults \in Int
    <3>1. left["fault"] \in Nat /\ Budget["fault"] \in Nat
      BY DEF TypeOK, CountsOK, Kinds
    <3>2. Faults \in Int
      BY <3>1 DEF Faults
    <3>3. MaxOutgoing \in Nat /\ MaxIncoming \in Nat /\ Cardinality(Requests) \in Nat
      BY Finite
    <3> QED
      BY <3>2, <3>3
  <2> QED
    BY <2>1, <2>2, <2>3
<1> QED
  BY <1>1, <1>2, InitOK, CapsInit, PTL DEF Spec
=============================================================================
