-------------------------- MODULE RotationLiveProofs ---------------------------
(***************************************************************************)
(* Theorems about RotationLive: for every roster, number of courts, loser  *)
(* rule, set of concurrent requests and bound.                             *)
(***************************************************************************)
EXTENDS RotationLive, RotationEngineProofs

-----------------------------------------------------------------------------
(* A request's next step.                                                   *)

\* The fields set are set, the others are kept.
LEMMA Extended ==
    ASSUME NEW r, NEW fields
    PROVE  /\ DOMAIN Extend(r, fields) = (DOMAIN r) \cup (DOMAIN fields)
           /\ \A x \in DOMAIN fields : Extend(r, fields)[x] = fields[x]
           /\ \A x \in (DOMAIN r) \ (DOMAIN fields) : Extend(r, fields)[x] = r[x]
BY DEF Extend

\* A request that moves on leaves every other one alone.
LEMMA StepOK ==
    ASSUME DOMAIN req = Slots, \A q \in Slots : RequestOK(req[q]),
           NEW q \in Slots, NEW r, RequestOK(r), Step(q, r)
    PROVE  DOMAIN req' = Slots /\ \A p \in Slots : RequestOK(req'[p])
BY DEF Step

LEMMA IdleOK == RequestOK(Idle)
BY DEF RequestOK, Idle, Labels, Planning, Deriving, Recounting

-----------------------------------------------------------------------------
(* The type invariant of the books.                                         *)

USE SessionAssumption DEF SessionAssumption

LEMMA BooksInit == Init => BooksOK
<1> SUFFICES ASSUME Init PROVE BooksOK
    OBVIOUS
<1>1. due \in Deadlines /\ round \in Rounds
    BY DEF Init, Deadline, Deadlines, Ages, Rounds
<1>2. roster \in [Players -> {"absent", "active", "left"}]
    BY DEF Init
<1>3. left \in [Kinds -> Nat] /\ left["reopen"] <= Budget["reopen"]
    BY DEF Init, Kinds
<1>4. DOMAIN req = Slots /\ \A q \in Slots : RequestOK(req[q])
    BY IdleOK DEF Init
<1> QED
    BY <1>1, <1>2, <1>3, <1>4 DEF Init, BooksOK

\* An advance that reads on keeps the round it closes and what its caller
\* believed.
LEMMA PlanningOn ==
    ASSUME NEW r, RequestOK(r), r.at \in Planning,
           NEW fields, "at" \in DOMAIN fields, fields.at \in Planning,
           {"round", "expected"} \cap DOMAIN fields = {}
    PROVE  RequestOK(Extend(r, fields))
<1> DEFINE s == Extend(r, fields)
<1>1. /\ DOMAIN s = (DOMAIN r) \cup (DOMAIN fields)
      /\ \A x \in DOMAIN fields : s[x] = fields[x]
      /\ \A x \in (DOMAIN r) \ (DOMAIN fields) : s[x] = r[x]
    BY Extended
<1> HIDE DEF s
<1>2. {"at", "round", "expected"} \subseteq DOMAIN r
    BY DEF RequestOK
<1>3. s.at = fields.at /\ s.round = r.round /\ s.expected = r.expected
    BY <1>1, <1>2
<1>4. {"at", "round", "expected"} \subseteq DOMAIN s
    BY <1>1, <1>2
<1>5. RequestOK(s)
    BY <1>3, <1>4 DEF RequestOK, Planning, Deriving, Recounting, Labels
<1> QED
    BY <1>5 DEF s

\* The steps of an advance that only read, or only write winners.
Reads(q) ==
    \/ AdvCall(q, 0) \/ AdvCall(q, round)
    \/ AdvSession(q) \/ AdvCourts(q) \/ AdvScores(q) \/ PersistWinner(q)
    \/ AdvPersisted(q) \/ AdvSubs(q) \/ AdvGone(q) \/ AdvActive(q)
    \/ AdvPlays(q) \/ AdvRecheck(q)

\* A call that is not a reopening.
LEMMA UseOK ==
    ASSUME left \in [Kinds -> Nat], NEW kind \in Kinds \ {"reopen"}, Use(kind)
    PROVE  left' \in [Kinds -> Nat] /\ left'["reopen"] = left["reopen"]
<1>1. "reopen" \in Kinds
    BY DEF Kinds
<1>2. left[kind] \in Nat /\ left[kind] > 0 /\ left' = [left EXCEPT ![kind] = left[kind] - 1]
    BY DEF Use
<1> QED
    BY <1>1, <1>2

LEMMA AdvanceReads ==
    ASSUME BooksOK, NEW q \in Slots, Reads(q)
    PROVE  /\ DOMAIN req' = Slots /\ \A p \in Slots : RequestOK(req'[p])
           /\ left' \in [Kinds -> Nat] /\ left'["reopen"] = left["reopen"]
           /\ UNCHANGED <<session, courts, scores, people, tally>>
<1> USE DEF BooksOK
<1> DEFINE Goal == /\ DOMAIN req' = Slots /\ \A p \in Slots : RequestOK(req'[p])
                   /\ left' \in [Kinds -> Nat] /\ left'["reopen"] = left["reopen"]
                   /\ UNCHANGED <<session, courts, scores, people, tally>>
<1>1. ASSUME AdvCall(q, 0) \/ AdvCall(q, round) PROVE Goal
  <2>1. PICK e : AdvCall(q, e)
    BY <1>1
  <2>2. RequestOK([at |-> "adv.session", expected |-> e])
    BY DEF RequestOK, Labels, Planning, Deriving, Recounting
  <2>3. "advance" \in Kinds \ {"reopen"}
    BY DEF Kinds
  <2> QED
    BY <2>1, <2>2, <2>3, StepOK, UseOK DEF AdvCall, Call, record
<1>2. ASSUME AdvSession(q) PROVE Goal
  <2>1. CASE status = "live" /\ Believed(req[q].expected) /\ round < MaxRounds
    <3> DEFINE r == [at |-> "adv.courts", expected |-> req[q].expected,
                     round |-> round, bench |-> bench]
    <3>1. r.round \in 1..(MaxRounds - 1) /\ r.expected \in {0, r.round}
      BY <2>1 DEF Rounds, Believed
    <3>2. RequestOK(r)
      BY <3>1 DEF RequestOK, Labels, Planning, Deriving, Recounting
    <3> QED
      BY <1>2, <2>1, <3>2, StepOK DEF AdvSession, record
  <2>2. CASE ~(status = "live" /\ Believed(req[q].expected) /\ round < MaxRounds)
    BY <1>2, <2>2, IdleOK, StepOK DEF AdvSession, Done, record
  <2> QED
    BY <2>1, <2>2
<1>3. ASSUME AdvCourts(q) PROVE Goal
  <2> DEFINE fields == [at |-> "adv.scores", courts |-> courts[req[q].round],
                        taps |-> winner[req[q].round]]
  <2>1. DOMAIN fields = {"at", "courts", "taps"} /\ fields.at \in Planning
    BY DEF Planning
  <2>2. RequestOK(req[q]) /\ req[q].at \in Planning
    BY <1>3 DEF AdvCourts, At, Planning
  <2> HIDE DEF fields
  <2>3. RequestOK(Extend(req[q], fields))
    BY <2>1, <2>2, PlanningOn
  <2> QED
    BY <1>3, <2>3, StepOK DEF AdvCourts, record, fields
<1>4. ASSUME AdvScores(q) PROVE Goal
  <2> DEFINE o == req[q]
  <2>1. o.round \in 1..(MaxRounds - 1) /\ o.expected \in {0, o.round}
    BY <1>4 DEF AdvScores, At, RequestOK, Planning
  <2>2. \A b, cs, w, ps, t :
          RequestOK([at |-> "adv.persist", expected |-> o.expected,
                     round |-> o.round, bench |-> b, courts |-> cs,
                     won |-> w, patches |-> ps, tied |-> t])
    BY <2>1 DEF RequestOK, Labels, Planning, Deriving, Recounting
  <2>3. \E r : Step(q, r) /\ RequestOK(r)
    BY <1>4, <2>2 DEF AdvScores
  <2> QED
    BY <1>4, <2>3, StepOK DEF AdvScores, record
<1>5. ASSUME PersistWinner(q) PROVE Goal
  <2> DEFINE o == req[q]
             r == [o EXCEPT !.patches = Tail(@)]
  <2>1. RequestOK(o) /\ o.at \in {"adv.persist", "persist.winners"}
    BY <1>5 DEF PersistWinner
  <2>2. /\ DOMAIN r = DOMAIN o
        /\ \A x \in DOMAIN o : x # "patches" => r[x] = o[x]
    OBVIOUS
  <2> HIDE DEF r, o
  <2>3. RequestOK(r)
    BY <2>1, <2>2 DEF RequestOK, Labels, Planning, Deriving, Recounting
  <2>4. "fault" \in Kinds \ {"reopen"}
    BY DEF Kinds
  <2>5. Step(q, r) /\ (UNCHANGED left \/ Use("fault"))
    BY <1>5 DEF PersistWinner, r, o
  <2>6. UNCHANGED <<session, courts, scores, people, tally>>
    BY <1>5 DEF PersistWinner
  <2>7. left' \in [Kinds -> Nat] /\ left'["reopen"] = left["reopen"]
    BY <2>4, <2>5, UseOK
  <2> QED
    BY <2>3, <2>5, <2>6, <2>7, StepOK
<1>6. ASSUME AdvPersisted(q) PROVE Goal
  <2> DEFINE o == req[q]
  <2>1. o.round \in 1..(MaxRounds - 1) /\ o.expected \in {0, o.round}
    BY <1>6 DEF AdvPersisted, At, RequestOK, Planning
  <2>2. RequestOK([at |-> "adv.subs", expected |-> o.expected, round |-> o.round,
                   bench |-> o.bench, courts |-> o.courts, won |-> o.won])
    BY <2>1 DEF RequestOK, Labels, Planning, Deriving, Recounting
  <2>3. \E r : Step(q, r) /\ RequestOK(r)
    BY <1>6, <2>2, IdleOK DEF AdvPersisted, Done
  <2> QED
    BY <1>6, <2>3, StepOK DEF AdvPersisted, record
<1>7. ASSUME AdvSubs(q) PROVE Goal
  <2> DEFINE fields == [at |-> "adv.gone",
                        takeover |-> [p \in DOMAIN subs |-> subs[p].by]]
  <2>1. DOMAIN fields = {"at", "takeover"} /\ fields.at \in Planning
    BY DEF Planning
  <2>2. RequestOK(req[q]) /\ req[q].at \in Planning
    BY <1>7 DEF AdvSubs, At, Planning
  <2> HIDE DEF fields
  <2>3. RequestOK(Extend(req[q], fields))
    BY <2>1, <2>2, PlanningOn
  <2> QED
    BY <1>7, <2>3, StepOK DEF AdvSubs, record, fields
<1>8. ASSUME AdvGone(q) PROVE Goal
  <2> DEFINE fields == [at |-> "adv.active", gone |-> Gone]
  <2>1. DOMAIN fields = {"at", "gone"} /\ fields.at \in Planning
    BY DEF Planning
  <2>2. RequestOK(req[q]) /\ req[q].at \in Planning
    BY <1>8 DEF AdvGone, At, Planning
  <2> HIDE DEF fields
  <2>3. RequestOK(Extend(req[q], fields))
    BY <2>1, <2>2, PlanningOn
  <2> QED
    BY <1>8, <2>3, StepOK DEF AdvGone, record, fields
<1>9. ASSUME AdvActive(q) PROVE Goal
  <2> DEFINE fields == [at |-> "adv.plays", active |-> ActiveRow]
             r      == [req[q] EXCEPT !.at = "adv.plays"]
  <2>1. DOMAIN fields = {"at", "active"} /\ fields.at \in Planning
    BY DEF Planning
  <2>2. RequestOK(req[q]) /\ req[q].at \in Planning
    BY <1>9 DEF AdvActive, At, Planning
  <2>3. RequestOK(r)
    BY <2>2 DEF RequestOK, Labels, Planning, Deriving, Recounting
  <2>4. "fault" \in Kinds \ {"reopen"}
    BY DEF Kinds
  <2> HIDE DEF fields, r
  <2>5. RequestOK(Extend(req[q], fields))
    BY <2>1, <2>2, PlanningOn
  <2>6. \/ Step(q, Extend(req[q], fields)) /\ UNCHANGED left
        \/ Use("fault") /\ Step(q, r)
    BY <1>9 DEF AdvActive, fields, r
  <2>7. UNCHANGED <<session, courts, scores, people, tally>>
    BY <1>9 DEF AdvActive, record
  <2>8. left' \in [Kinds -> Nat] /\ left'["reopen"] = left["reopen"]
    BY <2>4, <2>6, UseOK
  <2> QED
    BY <2>3, <2>5, <2>6, <2>7, <2>8, StepOK
<1>10. ASSUME AdvPlays(q) PROVE Goal
  <2> DEFINE o == req[q]
  <2>1. o.round \in 1..(MaxRounds - 1) /\ o.expected \in {0, o.round}
    BY <1>10 DEF AdvPlays, At, RequestOK, Planning
  <2>2. \A cs, b : RequestOK([at |-> "adv.recheck", expected |-> o.expected,
                              round |-> o.round, courts |-> cs, bench |-> b])
    BY <2>1 DEF RequestOK, Labels, Planning, Deriving, Recounting
  <2>3. RequestOK([at |-> "end.round"])
    BY DEF RequestOK, Labels, Planning, Deriving, Recounting
  <2>4. \E r : Step(q, r) /\ RequestOK(r)
    BY <1>10, <2>2, <2>3, IdleOK DEF AdvPlays, Done
  <2>5. left' \in [Kinds -> Nat] /\ left'["reopen"] = left["reopen"]
    <3>1. "fault" \in Kinds \ {"reopen"}
      BY DEF Kinds
    <3>2. UNCHANGED left \/ Use("fault")
      BY <1>10 DEF AdvPlays
    <3> QED
      BY <3>1, <3>2, UseOK
  <2> QED
    BY <1>10, <2>4, <2>5, StepOK DEF AdvPlays, record
<1>11. ASSUME AdvRecheck(q) PROVE Goal
  <2> DEFINE r == [req[q] EXCEPT !.at = "adv.write"]
  <2>1. RequestOK(req[q]) /\ req[q].at \in Planning
    BY <1>11 DEF AdvRecheck, At, Planning
  <2>2. RequestOK(r)
    BY <2>1 DEF RequestOK, Labels, Planning, Deriving, Recounting
  <2>3. Done(q) \/ Step(q, r)
    BY <1>11 DEF AdvRecheck
  <2> QED
    BY <1>11, <2>2, <2>3, IdleOK, StepOK DEF AdvRecheck, Done, record
<1> QED
    BY <1>1, <1>2, <1>3, <1>4, <1>5, <1>6, <1>7, <1>8, <1>9, <1>10, <1>11 DEF Reads

\* A step that moves a request on and otherwise touches, of the books, at most
\* the roster and the wins.
Quiet ==
    /\ DOMAIN req' = Slots /\ \A p \in Slots : RequestOK(req'[p])
    /\ left' \in [Kinds -> Nat] /\ left'["reopen"] = left["reopen"]
    /\ UNCHANGED <<status, round, due, courts, subs, games, tallied>>
    /\ roster' \in [Players -> {"absent", "active", "left"}]
    /\ wins' \in [Players -> Nat]

\* Deriving winners, and the first statements of End and Resume.
LEMMA EndingReads ==
    ASSUME BooksOK, NEW q \in Slots,
           \/ PersistScores(q) \/ PersistCourts(q) \/ PersistDone(q)
           \/ EndCall(q) \/ EndRound(q) \/ ResumeRead(q) \/ Drop(q)
    PROVE  Quiet
<1> USE DEF BooksOK
<1>a. \A s \in {"end.round", "end.write", "idle", "retally"} : RequestOK([at |-> s])
  BY DEF RequestOK, Labels, Planning, Deriving, Recounting
<1>b. \A r, then : then \in {"end.write", "retally", "idle"} =>
                      RequestOK(DeriveWinners(r, then))
  BY DEF RequestOK, Labels, Planning, Deriving, Recounting, DeriveWinners
<1>c. {"end", "resume", "fault"} \subseteq Kinds \ {"reopen"}
  BY DEF Kinds
<1>1. CASE PersistScores(q)
  <2> DEFINE fields == [at |-> "persist.courts", scores |-> scores[req[q].round]]
             s == Extend(req[q], fields)
  <2>1. DOMAIN fields = {"at", "scores"} /\ fields.at = "persist.courts"
    OBVIOUS
  <2>2. RequestOK(req[q]) /\ req[q].at = "persist.scores"
    BY <1>1 DEF PersistScores, At
  <2> HIDE DEF fields
  <2>3. /\ DOMAIN s = (DOMAIN req[q]) \cup (DOMAIN fields)
        /\ \A x \in DOMAIN fields : s[x] = fields[x]
        /\ \A x \in (DOMAIN req[q]) \ (DOMAIN fields) : s[x] = req[q][x]
    BY Extended
  <2>4. Step(q, s) /\ UNCHANGED <<session, record, people, tally, left>>
    BY <1>1 DEF PersistScores, fields
  <2> HIDE DEF s
  <2>5. "then" \in DOMAIN req[q] /\ req[q].then \in {"end.write", "idle", "retally"}
    BY <2>2 DEF RequestOK, Deriving
  <2>6. RequestOK(s)
    BY <2>1, <2>3, <2>5 DEF RequestOK, Labels, Planning, Deriving, Recounting
  <2> QED
    BY <2>4, <2>6, StepOK DEF Quiet, session, record, people, tally
<1>2. CASE PersistCourts(q)
  <2>1. RequestOK(req[q]) /\ req[q].at = "persist.courts"
    BY <1>2 DEF PersistCourts, At
  <2>2. req[q].then \in {"end.write", "idle", "retally"}
    BY <2>1 DEF RequestOK, Deriving
  <2>3. \A r, ps : RequestOK([at |-> "persist.winners", round |-> r,
                               then |-> req[q].then, patches |-> ps])
    BY <2>2 DEF RequestOK, Labels, Planning, Deriving, Recounting
  <2>4. \E r : Step(q, r) /\ RequestOK(r)
    BY <1>2, <2>3 DEF PersistCourts
  <2> QED
    BY <1>2, <2>4, StepOK DEF PersistCourts, Quiet, session, record, people, tally
<1>3. CASE PersistDone(q)
  <2>1. RequestOK(req[q]) /\ req[q].at = "persist.winners"
    BY <1>3 DEF PersistDone, At
  <2>2. req[q].then \in {"end.write", "idle", "retally"}
    BY <2>1 DEF RequestOK, Deriving
  <2>3. RequestOK([at |-> req[q].then])
    BY <1>a, <2>2
  <2> QED
    BY <1>3, <2>3, StepOK DEF PersistDone, Quiet, session, record, people, tally
<1>4. CASE EndCall(q)
  <2>1. RequestOK([at |-> "end.round"])
    BY <1>a
  <2> QED
    BY <1>4, <1>c, <2>1, StepOK, UseOK DEF EndCall, Call, Quiet, session, record, people, tally
<1>5. CASE EndRound(q)
  <2>1. \E r : Step(q, r) /\ RequestOK(r) /\ (UNCHANGED left \/ Use("fault"))
    BY <1>5, <1>a, <1>b DEF EndRound
  <2>2. left' \in [Kinds -> Nat] /\ left'["reopen"] = left["reopen"]
    BY <1>c, <2>1, UseOK
  <2> QED
    BY <1>5, <2>1, <2>2, StepOK DEF EndRound, Quiet, session, record, people, tally
<1>6. CASE ResumeRead(q)
  <2>1. [due EXCEPT !.age = due.held] \in Deadlines
    BY DEF Deadlines
  <2>2. RequestOK([at |-> "resume.write", due |-> [due EXCEPT !.age = due.held]])
    BY <2>1 DEF RequestOK, Labels, Planning, Deriving, Recounting
  <2> QED
    BY <1>6, <1>c, <2>2, StepOK, UseOK
    DEF ResumeRead, Call, Quiet, session, record, people, tally
<1>7. CASE Drop(q)
  BY <1>7, <1>c, IdleOK, StepOK, UseOK DEF Drop, Done, Quiet, session, record, people, tally
<1> QED
  BY <1>1, <1>2, <1>3, <1>4, <1>5, <1>6, <1>7

\* Taps, scorecards and corrections.
LEMMA RecordingQuiet ==
    ASSUME BooksOK, NEW q \in Slots, Recording(q)
    PROVE  Quiet
<1> USE DEF BooksOK
<1>a. \A r : "at" \in DOMAIN r /\ r.at \in {"idle", "report.write", "score.check",
                 "score.write", "rederive", "retally", "correct.write"} => RequestOK(r)
  BY DEF RequestOK, Labels, Planning, Deriving, Recounting
<1>b. {"report", "score", "correct"} \subseteq Kinds \ {"reopen"}
  BY DEF Kinds
<1>1. ASSUME NEW r \in Rounds, NEW k, NEW card, ScoreCall(q, r, k, card) PROVE Quiet
  <2>1. RequestOK([at |-> "score.check", round |-> r, entries |-> Entries(courts[r][k], card)])
    BY <1>a
  <2> QED
    BY <1>1, <1>b, <2>1, StepOK, UseOK
    DEF ScoreCall, Call, Quiet, session, record, people, tally
<1>2. ASSUME NEW r \in Rounds, NEW k, NEW side, CorrectCheck(q, r, k, side) PROVE Quiet
  <2>1. RequestOK([at |-> "correct.write", round |-> r, court |-> k, side |-> side])
    BY <1>a
  <2> QED
    BY <1>2, <1>b, <2>1, StepOK, UseOK
    DEF CorrectCheck, Call, Quiet, session, record, people, tally
<1>3. ASSUME NEW k, NEW side, ReportCheck(q, k, side) PROVE Quiet
  <2>1. RequestOK([at |-> "report.write", round |-> round, court |-> k, side |-> side])
    BY <1>a
  <2> QED
    BY <1>3, <1>b, <2>1, StepOK, UseOK
    DEF ReportCheck, Call, Quiet, session, record, people, tally
<1>4. CASE ReportWrite(q)
  BY <1>4, IdleOK, StepOK DEF ReportWrite, Done, Quiet, session, people, tally
<1>5. CASE ScoreCheck(q)
  <2>1. RequestOK(req[q]) /\ req[q].at = "score.check"
    BY <1>5 DEF ScoreCheck, At
  <2>2. RequestOK([req[q] EXCEPT !.at = "score.write"])
    BY <2>1, <1>a DEF RequestOK
  <2> QED
    BY <1>5, <2>2, IdleOK, StepOK
    DEF ScoreCheck, Done, Quiet, session, record, people, tally
<1>6. CASE ScoreWrite(q)
  <2> DEFINE r == req[q]
             s == [r EXCEPT !.at = "score.check", !.entries = Tail(@)]
  <2>1. RequestOK(r) /\ r.at = "score.write"
    BY <1>6 DEF ScoreWrite, At
  <2>2. RequestOK(s)
    BY <2>1, <1>a DEF RequestOK
  <2>3. RequestOK([at |-> "rederive", round |-> r.round])
    BY <1>a
  <2>4. \E x : Step(q, x) /\ RequestOK(x)
    BY <1>6, <2>2, <2>3 DEF ScoreWrite
  <2> QED
    BY <1>6, <2>4, StepOK DEF ScoreWrite, Quiet, session, people, tally
<1>7. CASE Rederive(q)
  <2>1. \A r : RequestOK(DeriveWinners(r, "retally"))
    BY DEF RequestOK, Labels, Planning, Deriving, Recounting, DeriveWinners
  <2> QED
    BY <1>7, <2>1, IdleOK, StepOK
    DEF Rederive, Done, Quiet, session, record, people, tally
<1>8. CASE RetallyCourts(q)
  <2>1. \A p \in Players :
          Cardinality({c \in Rounds \X (1..Len(Order)) :
             c[2] \in DOMAIN courts[c[1]] /\ p \in CourtWinners(c[1], c[2])}) \in Nat
    <3>1. IsFiniteSet(Rounds) /\ IsFiniteSet(1..Len(Order))
      BY FS_Interval DEF Rounds
    <3>2. IsFiniteSet(Rounds \X (1..Len(Order)))
      BY <3>1, FS_Product
    <3> QED
      BY <3>2, FS_Subset, FS_CardinalityType
  <2>2. WinsFromCourts \in [Players -> Nat]
    BY <2>1 DEF WinsFromCourts
  <2>3. RequestOK([at |-> "retally.wins", want |-> WinsFromCourts])
    BY <2>2 DEF RequestOK, Labels, Planning, Deriving, Recounting
  <2> QED
    BY <1>8, <2>3, StepOK DEF RetallyCourts, Quiet, session, record, people, tally
<1>9. CASE RetallyWins(q)
  <2>1. req[q].want \in [Players -> Nat]
    BY <1>9 DEF RetallyWins, At, RequestOK, Recounting
  <2>2. \A todo : RequestOK([at |-> "retally.write", want |-> req[q].want, todo |-> todo])
    BY <2>1 DEF RequestOK, Labels, Planning, Deriving, Recounting
  <2>3. \E r : Step(q, r) /\ RequestOK(r)
    BY <1>9, <2>2 DEF RetallyWins
  <2> QED
    BY <1>9, <2>3, StepOK DEF RetallyWins, Quiet, session, record, people, tally
<1>10. CASE RetallyWrite(q)
  <2> DEFINE r == req[q]
             s == [r EXCEPT !.todo = Tail(@)]
  <2>1. RequestOK(r) /\ r.at = "retally.write"
    BY <1>10 DEF RetallyWrite, At
  <2>2. "want" \in DOMAIN r /\ r.want \in [Players -> Nat]
    BY <2>1 DEF RequestOK, Recounting
  <2>3. RequestOK(s)
    BY <2>1, <2>2 DEF RequestOK, Labels, Planning, Deriving, Recounting
  <2>4. UNCHANGED wins \/ wins' = [wins EXCEPT ![Head(r.todo)] = r.want[Head(r.todo)]]
    BY <1>10 DEF RetallyWrite
  <2>5. wins' \in [Players -> Nat]
    BY <2>2, <2>4
  <2>6. Done(q) \/ Step(q, s)
    BY <1>10 DEF RetallyWrite
  <2> QED
    BY <1>10, <2>3, <2>5, <2>6, IdleOK, StepOK
    DEF RetallyWrite, Done, Quiet, session, record, people
<1>11. CASE CorrectWrite(q)
  <2>1. RequestOK([at |-> "retally"])
    BY <1>a
  <2> QED
    BY <1>11, <2>1, StepOK DEF CorrectWrite, Quiet, session, people, tally
<1> QED
  BY <1>1, <1>2, <1>3, <1>4, <1>5, <1>6, <1>7, <1>8, <1>9, <1>10, <1>11 DEF Recording

\* Arrivals, sit-outs and returns.
LEMMA RosterQuiet ==
    ASSUME BooksOK, NEW q \in Slots, Roster(q)
    PROVE  Quiet
<1> USE DEF BooksOK
<1>a. \A r : "at" \in DOMAIN r /\ r.at = "join" => RequestOK(r)
  BY DEF RequestOK, Labels, Planning, Deriving, Recounting
<1>b. {"join", "out", "back"} \subseteq Kinds \ {"reopen"}
  BY DEF Kinds
<1>1. CASE JoinInsert(q)
  <2>1. RequestOK([at |-> "join", ids |-> <<NextNewcomer>>])
    BY <1>a
  <2>2. At(q, "join") => RequestOK([req[q] EXCEPT !.ids = Append(@, NextNewcomer)])
    BY <1>a DEF At, RequestOK
  <2>3. \E r : Step(q, r) /\ RequestOK(r)
    BY <1>1, <2>1, <2>2 DEF JoinInsert
  <2>4. left' \in [Kinds -> Nat] /\ left'["reopen"] = left["reopen"]
    BY <1>1, <1>b, UseOK DEF JoinInsert, Call
  <2>5. roster' \in [Players -> {"absent", "active", "left"}]
    BY <1>1 DEF JoinInsert, Arrive
  <2> QED
    BY <1>1, <2>3, <2>4, <2>5, StepOK DEF JoinInsert, Quiet, session, record, tally
<1>2. CASE JoinBench(q)
  BY <1>2, IdleOK, StepOK DEF JoinBench, Done, Quiet, record, people, tally
<1>3. ASSUME NEW p \in Players, OutCheck(q, p) PROVE Quiet
  <2>1. RequestOK([at |-> "roster.write", player |-> p, now |-> "left"])
    BY DEF RequestOK, Labels, Planning, Deriving, Recounting
  <2> QED
    BY <1>3, <1>b, <2>1, StepOK, UseOK
    DEF OutCheck, Call, Quiet, session, record, people, tally
<1>4. ASSUME NEW p \in Players, BackCheck(q, p) PROVE Quiet
  <2>1. RequestOK([at |-> "roster.write", player |-> p, now |-> "active"])
    BY DEF RequestOK, Labels, Planning, Deriving, Recounting
  <2> QED
    BY <1>4, <1>b, <2>1, StepOK, UseOK
    DEF BackCheck, Call, Quiet, session, record, people, tally
<1>5. CASE RosterWrite(q)
  <2>1. req[q].now \in {"active", "left"}
    BY <1>5 DEF RosterWrite, At, RequestOK
  <2>2. roster' \in [Players -> {"absent", "active", "left"}]
    BY <1>5, <2>1 DEF RosterWrite
  <2> QED
    BY <1>5, <2>2, IdleOK, StepOK DEF RosterWrite, Done, Quiet, session, record, tally
<1> QED
  BY <1>1, <1>2, <1>3, <1>4, <1>5 DEF Roster

-----------------------------------------------------------------------------
(* What a step can do to the record of the night: nothing, close a round,   *)
(* end, pause or resume, reopen, or hand a seat over.                       *)

KeepsReopens == left' \in [Kinds -> Nat] /\ left'["reopen"] = left["reopen"]

Still == UNCHANGED <<status, round, courts, games, tallied>> /\ KeepsReopens

Rotates ==
    /\ \E q \in Slots : At(q, "adv.write") /\ Believed(req[q].expected)
    /\ status = "live" /\ UNCHANGED status
    /\ round \in 1..(MaxRounds - 1) /\ round' = round + 1
    /\ \E layout : courts' = [courts EXCEPT ![round + 1] = layout]
    /\ Tally(round)
    /\ KeepsReopens

Ends ==
    /\ status \in {"live", "paused"} /\ status' = "done"
    /\ UNCHANGED <<round, courts>>
    /\ Tally(round)
    /\ KeepsReopens

Turns ==
    /\ {status, status'} \subseteq {"live", "paused"}
    /\ UNCHANGED <<round, courts, games, tallied>>
    /\ KeepsReopens

Restarts ==
    /\ status = "done" /\ status' = "live"
    /\ UNCHANGED <<round, courts, games, tallied>>
    /\ left' \in [Kinds -> Nat] /\ left["reopen"] > 0
    /\ left'["reopen"] = left["reopen"] - 1

HandsOver ==
    /\ status \in {"live", "paused"}
    /\ UNCHANGED <<status, round, games, tallied>>
    /\ DOMAIN courts' = Rounds /\ \A r \in Rounds : r < round => courts'[r] = courts[r]
    /\ KeepsReopens

LEMMA TallyOK ==
    ASSUME BooksOK, Tally(round)
    PROVE  /\ wins' \in [Players -> Nat] /\ games' \in [Players -> Nat]
           /\ tallied' \in [Rounds -> Nat]
<1>1. wins' \in [Players -> Nat]
  BY DEF BooksOK, Tally
<1>2. games' \in [Players -> Nat]
  <2>1. games' = [p \in Players |-> IF p \in Seated(courts[round]) THEN games[p] + 1
                                                                 ELSE games[p]]
    BY DEF BooksOK, Tally, CountClosing
  <2> QED
    BY <2>1 DEF BooksOK
<1>3. tallied' = [tallied EXCEPT ![round] = tallied[round] + 1] /\ tallied[round] \in Nat
  BY DEF BooksOK, Tally
<1>4. tallied' \in [Rounds -> Nat]
  BY <1>3 DEF BooksOK
<1> QED
  BY <1>1, <1>2, <1>4

LEMMA AdvWriteOK ==
    ASSUME BooksOK, NEW q \in Slots, AdvWrite(q)
    PROVE  BooksOK' /\ (Still \/ Rotates)
<1> USE DEF BooksOK
<1>1. DOMAIN req' = Slots /\ \A p \in Slots : RequestOK(req'[p])
  BY IdleOK, StepOK DEF AdvWrite, Done
<1>2. KeepsReopens /\ UNCHANGED <<roster, subs, left>>
  BY DEF AdvWrite, KeepsReopens, people
<1>3. CASE Current(req[q].round) /\ MayMoveOn
  <2>1. /\ At(q, "adv.write") /\ status = "live" /\ status' = "live"
        /\ round = req[q].round /\ round' = round + 1
        /\ courts' = [courts EXCEPT ![round + 1] = req[q].courts]
        /\ due' = Deadline(round + 1)
        /\ Tally(round)
    BY <1>3 DEF AdvWrite, Current, MayMoveOn
  <2>2. round \in 1..(MaxRounds - 1) /\ req[q].expected \in {0, round}
    BY <2>1 DEF RequestOK, At, Planning
  <2>3. due' \in Deadlines
    BY <2>1, <2>2 DEF Deadline, Deadlines, Ages, Rounds
  <2>4. round' \in Rounds /\ DOMAIN courts' = Rounds
    BY <2>1, <2>2 DEF Rounds
  <2>5. BooksOK'
    BY <1>1, <1>2, <2>1, <2>3, <2>4, TallyOK
  <2>6. Rotates
    BY <1>2, <2>1, <2>2 DEF Rotates, Believed
  <2> QED
    BY <2>5, <2>6
<1>4. CASE ~(Current(req[q].round) /\ MayMoveOn)
  <2>1. UNCHANGED <<session, courts, tally>>
    BY <1>4 DEF AdvWrite
  <2> QED
    BY <1>1, <1>2, <2>1 DEF Still, session, tally
<1> QED
  BY <1>3, <1>4

LEMMA EndWriteOK ==
    ASSUME BooksOK, NEW q \in Slots, EndWrite(q)
    PROVE  BooksOK' /\ (Still \/ Ends)
<1> USE DEF BooksOK
<1>1. DOMAIN req' = Slots /\ \A p \in Slots : RequestOK(req'[p])
  BY IdleOK, StepOK DEF EndWrite, Done
<1>2. KeepsReopens /\ UNCHANGED <<round, courts, roster, subs, left>>
  BY DEF EndWrite, KeepsReopens, record, people
<1>3. CASE status \in {"live", "paused"}
  <2>1. Tally(round) /\ status' = "done" /\ due' = [due EXCEPT !.age = "none"]
    BY <1>3 DEF EndWrite
  <2>2. due' \in Deadlines
    BY <2>1 DEF Deadlines, Ages
  <2> QED
    BY <1>1, <1>2, <1>3, <2>1, <2>2, TallyOK DEF Ends
<1>4. CASE status \notin {"live", "paused"}
  BY <1>1, <1>2, <1>4 DEF EndWrite, Still, tally
<1> QED
  BY <1>3, <1>4

LEMMA ClockOK ==
    ASSUME BooksOK, Clock
    PROVE  BooksOK' /\ (Still \/ Turns \/ Restarts)
<1> USE DEF BooksOK
<1>a. {"pause", "abandon"} \subseteq Kinds \ {"reopen"} /\ "reopen" \in Kinds
  BY DEF Kinds
<1>1. CASE Pause
  <2>1. due' \in Deadlines
    BY <1>1 DEF Pause, Deadlines
  <2>2. KeepsReopens
    BY <1>1, <1>a, UseOK DEF Pause, Instant, KeepsReopens
  <2> QED
    BY <1>1, <2>1, <2>2 DEF Pause, Turns, KeepsReopens, record, people, tally
<1>2. CASE Reopen
  <2>1. due' \in Deadlines
    BY <1>2 DEF Reopen, Deadline, Deadlines, Ages
  <2>2. left["reopen"] \in Nat /\ left["reopen"] > 0
        /\ left' = [left EXCEPT !["reopen"] = left["reopen"] - 1]
    BY <1>2, <1>a DEF Reopen, Instant, Use
  <2>3. /\ left' \in [Kinds -> Nat]
        /\ left'["reopen"] = left["reopen"] - 1
    BY <1>a, <2>2
  <2>4. left'["reopen"] <= Budget["reopen"]
    BY <1>a, <2>2, <2>3
  <2> QED
    BY <1>2, <2>1, <2>2, <2>3, <2>4 DEF Reopen, Restarts, record, people, tally
<1>3. CASE TimePasses
  <2>1. due' \in Deadlines
    BY <1>3 DEF TimePasses, Deadlines, Ages
  <2>2. KeepsReopens
    BY <1>3, <1>a, UseOK DEF TimePasses, KeepsReopens
  <2> QED
    BY <1>3, <2>1, <2>2 DEF TimePasses, Still, KeepsReopens, record, people, tally
<1>4. CASE Sweep
  <2>1. RequestOK([at |-> "adv.session", expected |-> round])
    BY DEF RequestOK, Labels, Planning, Deriving, Recounting
  <2>2. Sweeper \in Slots
    BY DEF Slots
  <2>3. DOMAIN req' = Slots /\ \A p \in Slots : RequestOK(req'[p])
    BY <1>4, <2>1, <2>2, StepOK DEF Sweep
  <2> QED
    BY <1>4, <2>3 DEF Sweep, Still, KeepsReopens, session, record, people, tally
<1>5. CASE EndAbandoned
  <2>1. RequestOK([at |-> "end.round"])
    BY DEF RequestOK, Labels, Planning, Deriving, Recounting
  <2>2. Janitor \in Slots
    BY DEF Slots
  <2>3. DOMAIN req' = Slots /\ \A p \in Slots : RequestOK(req'[p])
    BY <1>5, <2>1, <2>2, StepOK DEF EndAbandoned
  <2> QED
    BY <1>5, <2>3 DEF EndAbandoned, Still, KeepsReopens, session, record, people, tally
<1> QED
  BY <1>1, <1>2, <1>3, <1>4, <1>5 DEF Clock

LEMMA ResumeWriteOK ==
    ASSUME BooksOK, NEW q \in Slots, ResumeWrite(q)
    PROVE  BooksOK' /\ (Still \/ Turns)
<1> USE DEF BooksOK
<1>1. DOMAIN req' = Slots /\ \A p \in Slots : RequestOK(req'[p])
  BY IdleOK, StepOK DEF ResumeWrite, Done
<1>2. req[q].due \in Deadlines
  BY DEF ResumeWrite, At, RequestOK
<1> QED
  BY <1>1, <1>2 DEF ResumeWrite, Still, Turns, KeepsReopens, record, people, tally

LEMMA SubstituteOK ==
    ASSUME BooksOK, NEW out \in Players, Substitute(out)
    PROVE  BooksOK' /\ HandsOver
<1> USE DEF BooksOK
<1>1. KeepsReopens
  <2>1. "sub" \in Kinds \ {"reopen"}
    BY DEF Kinds
  <2> QED
    BY <2>1, UseOK DEF Substitute, Instant, KeepsReopens
<1>2. EffectiveRound(out) \in Nat /\ EffectiveRound(out) >= round
  BY DEF EffectiveRound, Rounds
<1>3. DOMAIN courts' = Rounds /\ \A r \in Rounds : r < round => courts'[r] = courts[r]
  BY <1>2 DEF Substitute, Rounds
<1>4. roster' \in [Players -> {"absent", "active", "left"}]
  BY DEF Substitute
<1>5. DOMAIN subs' \subseteq Players
  BY DEF Substitute
<1>6. status \in {"live", "paused"} /\ UNCHANGED <<status, round, due, tally, req>>
  BY DEF Substitute, Running
<1> QED
  BY <1>1, <1>3, <1>4, <1>5, <1>6 DEF HandsOver, KeepsReopens, tally

LEMMA QuietOK ==
    ASSUME BooksOK, Quiet
    PROVE  BooksOK' /\ Still
BY DEF BooksOK, Quiet, Still, KeepsReopens

LEMMA Moved ==
    ASSUME BooksOK, [Next]_vars
    PROVE  \/ BooksOK' /\ (Still \/ Rotates \/ Ends \/ Turns \/ Restarts)
           \/ \E out \in Players : Substitute(out)
<1>1. ASSUME NEW q \in Slots, Reads(q) PROVE BooksOK' /\ Still
  <2>1. Quiet
    BY <1>1, AdvanceReads DEF BooksOK, Quiet, session, people, tally
  <2> QED
    BY <2>1, QuietOK
<1>2. ASSUME NEW q \in Slots, Lifecycle(q)
      PROVE  BooksOK' /\ (Still \/ Rotates \/ Ends \/ Turns)
  <2>1. CASE Reads(q)
    BY <1>1, <2>1
  <2>2. CASE \/ PersistScores(q) \/ PersistCourts(q) \/ PersistDone(q)
             \/ EndCall(q) \/ EndRound(q) \/ ResumeRead(q) \/ Drop(q)
    BY <2>2, EndingReads, QuietOK
  <2> QED
    BY <1>2, <2>1, <2>2, AdvWriteOK, EndWriteOK, ResumeWriteOK DEF Lifecycle, Reads
<1>3. ASSUME NEW q \in Slots, Recording(q) \/ Roster(q) PROVE BooksOK' /\ Still
  BY <1>3, RecordingQuiet, RosterQuiet, QuietOK
<1>4. CASE UNCHANGED vars
  BY <1>4 DEF vars, session, record, people, tally, BooksOK, Still, KeepsReopens
<1> QED
  BY <1>2, <1>3, <1>4, ClockOK DEF Next

LEMMA Moves ==
    ASSUME BooksOK, [Next]_vars
    PROVE  BooksOK' /\ (Still \/ Rotates \/ Ends \/ Turns \/ Restarts \/ HandsOver)
BY Moved, SubstituteOK

\* The books keep their types, whatever interleaves: in particular an advance
\* only ever carries a round below the bound, and one its caller believed in.
THEOREM BooksInvariant == Spec => []BooksOK
<1>1. Init => BooksOK
  BY BooksInit
<1>2. BooksOK /\ [Next]_vars => BooksOK'
  BY Moves
<1> QED
  BY <1>1, <1>2, PTL DEF Spec

-----------------------------------------------------------------------------
(* Every round is tallied once per closing.                                 *)

\* For every number of buzzers, sweeps, Pauses and Ends racing each other:
\* a round that is over was tallied once, and at most once more for every
\* reopening; a round not over yet, at most once for every reopening
\* (advance_rotation_session, end_rotation_session).
THEOREM TalliedPerCloseHolds == Spec => []TalliedPerClose
<1> USE DEF BooksOK, Closed, Reopens
<1>1. BooksOK /\ Init => TalliedPerClose
  <2> SUFFICES ASSUME BooksOK, Init PROVE TalliedPerClose
    OBVIOUS
  <2>1. status = "live" /\ round = 1 /\ tallied = [r \in Rounds |-> 0] /\ left = Budget
    BY DEF Init
  <2>2. Budget["reopen"] \in Nat
    BY DEF Kinds
  <2> QED
    BY <2>1, <2>2 DEF TalliedPerClose, Rounds
<1>2. ASSUME BooksOK, BooksOK', TalliedPerClose, [Next]_vars PROVE TalliedPerClose'
  <2>0. /\ left["reopen"] \in Nat /\ left'["reopen"] \in Nat /\ Budget["reopen"] \in Nat
        /\ left["reopen"] <= Budget["reopen"]
    BY <1>2 DEF Kinds
  <2>1. CASE Still \/ Turns
    BY <1>2, <2>0, <2>1 DEF Still, Turns, KeepsReopens, TalliedPerClose, Rounds
  <2>2. CASE HandsOver
    BY <1>2, <2>0, <2>2 DEF HandsOver, KeepsReopens, TalliedPerClose, Rounds
  <2>3. CASE Rotates
    <3>1. /\ status = "live" /\ status' = "live" /\ round' = round + 1 /\ round \in Nat
          /\ left'["reopen"] = left["reopen"]
      BY <2>3 DEF Rotates, KeepsReopens
    <3>2. \A r \in Rounds : tallied'[r] = IF r = round THEN tallied[r] + 1 ELSE tallied[r]
      BY <1>2, <2>3 DEF Rotates, Tally
    <3>3. tallied \in [Rounds -> Nat] /\ Rounds \subseteq Nat
      BY <1>2 DEF Rounds
    <3> QED
      BY <1>2, <2>0, <3>1, <3>2, <3>3 DEF TalliedPerClose
  <2>4. CASE Ends
    <3>1. /\ status # "done" /\ status' = "done" /\ round' = round /\ round \in Nat
          /\ left'["reopen"] = left["reopen"]
      BY <1>2, <2>4 DEF Ends, KeepsReopens, Rounds
    <3>2. \A r \in Rounds : tallied'[r] = IF r = round THEN tallied[r] + 1 ELSE tallied[r]
      BY <1>2, <2>4 DEF Ends, Tally
    <3>3. tallied \in [Rounds -> Nat] /\ Rounds \subseteq Nat
      BY <1>2 DEF Rounds
    <3> QED
      BY <1>2, <2>0, <3>1, <3>2, <3>3 DEF TalliedPerClose
  <2>5. CASE Restarts
    <3>1. /\ status = "done" /\ status' = "live" /\ UNCHANGED <<round, tallied>>
          /\ left'["reopen"] = left["reopen"] - 1 /\ round \in Nat
      BY <1>2, <2>5 DEF Restarts, Rounds
    <3>2. tallied \in [Rounds -> Nat] /\ Rounds \subseteq Nat
      BY <1>2 DEF Rounds
    <3> QED
      BY <1>2, <2>0, <3>1, <3>2 DEF TalliedPerClose
  <2> QED
    BY <1>2, <2>1, <2>2, <2>3, <2>4, <2>5, Moves
<1> HIDE DEF BooksOK
<1> QED
  BY <1>1, <1>2, BooksInit, BooksInvariant, PTL DEF Spec

-----------------------------------------------------------------------------
(* What no step may do.                                                     *)

\* Rounds go up one at a time, on behalf of a caller who saw the round being
\* closed or named none (AdvanceRotationSession's expectedRound).
THEOREM NoRoundSkippedHolds == Spec => NoRoundSkipped
<1>1. BooksOK /\ [Next]_vars =>
        (round' # round => /\ round' = round + 1
                           /\ \E q \in Slots : At(q, "adv.write") /\ Believed(req[q].expected))
  BY Moves DEF Still, Rotates, Ends, Turns, Restarts, HandsOver
<1> QED
  BY <1>1, BooksInvariant, PTL DEF Spec, NoRoundSkipped

\* A pause holds the round and everybody's games until it is lifted or the
\* night ended, and an ended night keeps its round, seats and games until it
\* is reopened, whatever was in flight (PauseRotationSession,
\* add_advance_pause_guard.sql, end_rotation_session, rotation_substitute).
THEOREM StandsStillHolds == Spec => StandsStill
<1>1. BooksOK /\ [Next]_vars =>
        (status = "paused" => /\ round' = round
                              /\ status' = "done" \/ games' = games)
  BY Moves DEF Still, Rotates, Ends, Turns, Restarts, HandsOver
<1>2. BooksOK /\ [Next]_vars =>
        (status = "done" => UNCHANGED <<round, courts, games, tallied>>)
  BY Moves DEF Still, Rotates, Ends, Turns, Restarts, HandsOver
<1> QED
  BY <1>1, <1>2, BooksInvariant, PTL DEF Spec, StandsStill

-----------------------------------------------------------------------------
(* Games played are what the board shows.                                   *)

Played(p) == {r \in Rounds : Closed(r) /\ p \in Seated(courts[r])}

\* Closing the current round adds it to the rounds of exactly those seated.
LEMMA PlayedGrows ==
    ASSUME BooksOK, ~Closed(round), NEW p,
           \A r \in Rounds : Closed(r)' <=> (Closed(r) \/ r = round),
           \A r \in Rounds : r <= round => courts'[r] = courts[r]
    PROVE  Cardinality(Played(p)') =
               Cardinality(Played(p)) + IF p \in Seated(courts[round]) THEN 1 ELSE 0
<1>1. round \in Rounds /\ Rounds \subseteq Nat /\ round \in Nat
  BY DEF BooksOK, Rounds
<1>2. \A r \in Rounds : Closed(r) => r <= round
  BY <1>1 DEF Closed
<1>3. \A r \in Rounds : (Closed(r) \/ r = round) => courts'[r] = courts[r]
  BY <1>1, <1>2
<1>4. Rounds' = Rounds
  BY DEF Rounds
<1>5. Played(p)' = {r \in Rounds : Closed(r)' /\ p \in Seated(courts'[r])}
  BY <1>4 DEF Played, Seated, SeatRefs
<1>6. Played(p)' = {r \in Rounds : (Closed(r) \/ r = round) /\ p \in Seated(courts[r])}
  BY <1>3, <1>5
<1>7. Played(p)' = IF p \in Seated(courts[round]) THEN Played(p) \cup {round} ELSE Played(p)
  BY <1>1, <1>6 DEF Played
<1>8. round \notin Played(p)
  BY DEF Played
<1>9. IsFiniteSet(Played(p)) /\ Cardinality(Played(p)) \in Nat
  <2>1. IsFiniteSet(Rounds)
    BY FS_Interval DEF Rounds
  <2>2. Played(p) \subseteq Rounds
    BY DEF Played
  <2> QED
    BY <2>1, <2>2, FS_Subset, FS_CardinalityType
<1>10. CASE p \in Seated(courts[round])
  <2>1. Cardinality(Played(p) \cup {round}) = Cardinality(Played(p)) + 1
    BY <1>8, <1>9, FS_AddElement
  <2> QED
    BY <1>7, <1>10, <2>1
<1>11. CASE p \notin Seated(courts[round])
  BY <1>7, <1>9, <1>11
<1> QED
  BY <1>10, <1>11

\* For every mix of advances, substitutions and endings: while no night was
\* reopened, a player's games are the closed rounds whose courts seat them
\* (the tally, rotation_substitute's effective round).
THEOREM GamesMatchBoardHolds == Spec => []GamesMatchBoard
<1>1. BooksOK /\ Init => GamesMatchBoard
  <2> SUFFICES ASSUME BooksOK, Init, NEW p \in Players PROVE games[p] = Cardinality(Played(p))
    BY DEF GamesMatchBoard, Played
  <2>1. Played(p) = {} /\ games[p] = 0
    BY DEF Init, Played, Closed, Rounds
  <2> QED
    BY <2>1, FS_EmptySet
<1>2. ASSUME BooksOK, BooksOK', GamesMatchBoard, [Next]_vars PROVE GamesMatchBoard'
  <2>0. left["reopen"] \in Nat /\ left'["reopen"] \in Nat /\ Budget["reopen"] \in Nat
        /\ left["reopen"] <= Budget["reopen"]
    BY <1>2 DEF BooksOK, Kinds
  <2>1. (Reopens = 0)' => Reopens = 0 /\ ~Restarts
    BY <1>2, <2>0, Moves
    DEF Reopens, Still, Rotates, Ends, Turns, HandsOver, KeepsReopens, Restarts
  <2> SUFFICES ASSUME (Reopens = 0)', NEW p \in Players
               PROVE  games'[p] = Cardinality(Played(p)')
    BY DEF GamesMatchBoard, Played, Players
  <2>2. games[p] = Cardinality(Played(p)) /\ games[p] \in Nat
    BY <1>2, <2>1 DEF GamesMatchBoard, Played, BooksOK
  <2>3. CASE Still \/ Turns \/ HandsOver
    <3>1. round \in Rounds /\ Rounds \subseteq Nat /\ Rounds' = Rounds
      BY <1>2 DEF BooksOK, Rounds
    <3>2. \A r \in Rounds : Closed(r)' <=> Closed(r)
      BY <1>2, <2>3 DEF Still, Turns, HandsOver, Closed
    <3>3. \A r \in Rounds : Closed(r) => courts'[r] = courts[r]
      BY <1>2, <2>3, <3>1 DEF Still, Turns, HandsOver, Closed
    <3>4. Played(p)' = {r \in Rounds : Closed(r)' /\ p \in Seated(courts'[r])}
      BY <3>1 DEF Played, Seated, SeatRefs
    <3>5. Played(p)' = Played(p)
      BY <3>2, <3>3, <3>4 DEF Played
    <3> QED
      BY <2>2, <2>3, <3>5 DEF Still, Turns, HandsOver
  <2>4. CASE Rotates \/ Ends
    <3>1. round \in Nat /\ Rounds \subseteq Nat
      BY <1>2 DEF BooksOK, Rounds
    <3>2. status # "done" /\ round \in Rounds
      BY <1>2, <2>4 DEF Rotates, Ends, BooksOK, Rounds
    <3>3. ~Closed(round)
      BY <3>1, <3>2 DEF Closed
    <3>4. \A r \in Rounds : Closed(r)' <=> (Closed(r) \/ r = round)
      <4>1. CASE Rotates
        <5>1. round' = round + 1 /\ status' # "done"
          BY <3>2, <4>1 DEF Rotates
        <5> QED
          BY <3>1, <3>2, <5>1 DEF Closed
      <4>2. CASE Ends
        <5>1. round' = round /\ status' = "done"
          BY <4>2 DEF Ends
        <5> QED
          BY <3>1, <3>2, <5>1 DEF Closed
      <4> QED
        BY <2>4, <4>1, <4>2
    <3>5. \A r \in Rounds : r <= round => courts'[r] = courts[r]
      <4>1. CASE Rotates
        BY <1>2, <3>1, <4>1 DEF Rotates, BooksOK
      <4>2. CASE Ends
        BY <4>2 DEF Ends
      <4> QED
        BY <2>4, <4>1, <4>2
    <3>6. games'[p] = games[p] + IF p \in Seated(courts[round]) THEN 1 ELSE 0
      <4>1. Tally(round)
        BY <2>4 DEF Rotates, Ends
      <4> QED
        BY <1>2, <2>2, <4>1 DEF Tally, CountClosing, BooksOK
    <3> QED
      BY <1>2, <2>2, <3>1, <3>2, <3>3, <3>4, <3>5, <3>6, PlayedGrows
  <2> QED
    BY <1>2, <2>1, <2>3, <2>4, Moves
<1> QED
  BY <1>1, <1>2, BooksInit, BooksInvariant, PTL DEF Spec


-----------------------------------------------------------------------------
(* The deadline.                                                            *)

\* One pause a night, or one device that pauses and resumes.
NoOverlappingPauses == Budget["pause"] <= 1 \/ \E q : Requests = {q}

\* A resume in flight was read from the pause it will lift, if that lasts.
Resuming(q) == At(q, "resume.write")

DueOK ==
    /\ due.of = round
    /\ left["pause"] <= Budget["pause"]
    /\ status = "paused" => left["pause"] < Budget["pause"]
    /\ \A q \in Slots : Resuming(q) =>
           /\ q \in Requests
           /\ left["pause"] < Budget["pause"]
           /\ status = "paused" => req[q].due.of = round

\* A step that begins no resume, and leaves the clock alone.
Untimed ==
    /\ UNCHANGED <<status, round, due>>
    /\ left'["pause"] = left["pause"]
    /\ \A q \in Slots : Resuming(q)' => Resuming(q) /\ req'[q] = req[q]

LEMMA NotResuming ==
    ASSUME BooksOK, NEW q \in Slots, NEW r, Step(q, r), r.at # "resume.write"
    PROVE  \A p \in Slots : Resuming(p)' => Resuming(p) /\ req'[p] = req[p]
BY DEF BooksOK, Step, Resuming, At

LEMMA OtherCalls ==
    ASSUME BooksOK, NEW kind \in Kinds \ {"pause"}, Use(kind)
    PROVE  left'["pause"] = left["pause"]
<1>1. "pause" \in Kinds
    BY DEF Kinds
<1> QED
    BY <1>1 DEF BooksOK, Use

\* The two statements that write what was read for them alone.
Writing == {"resume.write", "score.write"}

\* The steps of an advance, and of an end, lead elsewhere.
LEMMA AdvanceGoes ==
    ASSUME BooksOK, NEW q \in Slots, Reads(q)
    PROVE  \E r : Step(q, r) /\ r.at \notin Writing
<1> USE DEF Writing
<1>1. CASE AdvCall(q, 0) \/ AdvCall(q, round)
  BY <1>1 DEF AdvCall
<1>2. CASE AdvSession(q)
  BY <1>2 DEF AdvSession, Done, Idle
<1>3. ASSUME NEW fields, "at" \in DOMAIN fields, fields.at \notin Writing,
             Step(q, Extend(req[q], fields))
      PROVE  \E r : Step(q, r) /\ r.at \notin Writing
  <2> DEFINE s == Extend(req[q], fields)
  <2>1. \A x \in DOMAIN fields : s[x] = fields[x]
    BY Extended
  <2>2. Step(q, s)
    BY <1>3
  <2> HIDE DEF s
  <2> QED
    BY <1>3, <2>1, <2>2
<1>4. CASE AdvCourts(q)
  BY <1>3, <1>4 DEF AdvCourts
<1>5. CASE AdvScores(q)
  BY <1>5 DEF AdvScores
<1>6. CASE PersistWinner(q)
  <2> DEFINE s == [req[q] EXCEPT !.patches = Tail(@)]
  <2>1. s.at = req[q].at
    BY DEF BooksOK, RequestOK
  <2>2. Step(q, s) /\ req[q].at \notin Writing
    BY <1>6 DEF PersistWinner
  <2> HIDE DEF s
  <2> QED
    BY <2>1, <2>2
<1>7. CASE AdvPersisted(q)
  BY <1>7 DEF AdvPersisted, Done, Idle
<1>8. CASE AdvSubs(q)
  BY <1>3, <1>8 DEF AdvSubs
<1>9. CASE AdvGone(q)
  BY <1>3, <1>9 DEF AdvGone
<1>10. CASE AdvActive(q)
  <2>1. CASE Step(q, [req[q] EXCEPT !.at = "adv.plays"])
    BY <2>1 DEF BooksOK, RequestOK
  <2> QED
    BY <1>3, <1>10, <2>1 DEF AdvActive
<1>11. CASE AdvPlays(q)
  BY <1>11 DEF AdvPlays, Done, Idle
<1>12. CASE AdvRecheck(q)
  <2>1. CASE Step(q, [req[q] EXCEPT !.at = "adv.write"])
    BY <2>1 DEF BooksOK, RequestOK
  <2> QED
    BY <1>12, <2>1 DEF AdvRecheck, Done, Idle
<1> QED
  BY <1>1, <1>2, <1>4, <1>5, <1>6, <1>7, <1>8, <1>9, <1>10, <1>11, <1>12 DEF Reads

LEMMA AdvanceUntimed ==
    ASSUME BooksOK, NEW q \in Slots, Reads(q)
    PROVE  Untimed
<1>1. \E r : Step(q, r) /\ r.at # "resume.write"
  BY AdvanceGoes DEF Writing
<1>2. left'["pause"] = left["pause"]
  <2>1. {"advance", "fault"} \subseteq Kinds \ {"pause"}
    BY DEF Kinds
  <2>2. UNCHANGED left \/ Use("advance") \/ Use("fault")
    BY DEF Reads, AdvCall, Call, AdvSession, AdvCourts, AdvScores, PersistWinner, AdvPersisted,
           AdvSubs, AdvGone, AdvActive, AdvPlays, AdvRecheck
  <2> QED
    BY <2>1, <2>2, OtherCalls
<1>3. UNCHANGED <<status, round, due>>
  BY AdvanceReads DEF session
<1> QED
  BY <1>1, <1>2, <1>3, NotResuming DEF Untimed

LEMMA EndingGoes ==
    ASSUME BooksOK, NEW q \in Slots,
           \/ PersistScores(q) \/ PersistCourts(q) \/ PersistDone(q)
           \/ EndCall(q) \/ EndRound(q) \/ Drop(q)
    PROVE  \E r : Step(q, r) /\ r.at \notin Writing
<1> USE DEF Writing
<1>1. CASE PersistScores(q)
  <2> DEFINE fields == [at |-> "persist.courts", scores |-> scores[req[q].round]]
             s == Extend(req[q], fields)
  <2>1. "at" \in DOMAIN fields /\ fields.at \notin Writing /\ Step(q, s)
    BY <1>1 DEF PersistScores
  <2> HIDE DEF fields
  <2>2. \A x \in DOMAIN fields : s[x] = fields[x]
    BY Extended
  <2> HIDE DEF s
  <2> QED
    BY <2>1, <2>2
<1>2. CASE PersistCourts(q)
  BY <1>2 DEF PersistCourts
<1>3. CASE PersistDone(q)
  <2>1. req[q].then \in {"end.write", "idle", "retally"}
    BY <1>3 DEF PersistDone, At, BooksOK, RequestOK, Deriving
  <2> QED
    BY <1>3, <2>1 DEF PersistDone
<1>4. CASE EndCall(q) \/ EndRound(q) \/ Drop(q)
  BY <1>4 DEF EndCall, EndRound, DeriveWinners, Drop, Done, Idle
<1> QED
  BY <1>1, <1>2, <1>3, <1>4

LEMMA EndingUntimed ==
    ASSUME BooksOK, NEW q \in Slots,
           \/ PersistScores(q) \/ PersistCourts(q) \/ PersistDone(q)
           \/ EndCall(q) \/ EndRound(q) \/ Drop(q)
    PROVE  Untimed
<1>1. \E r : Step(q, r) /\ r.at # "resume.write"
  BY EndingGoes DEF Writing
<1>2. left'["pause"] = left["pause"]
  <2>1. {"end", "fault"} \subseteq Kinds \ {"pause"}
    BY DEF Kinds
  <2>2. UNCHANGED left \/ Use("end") \/ Use("fault")
    BY DEF PersistScores, PersistCourts, PersistDone, EndCall, Call, EndRound, Drop
  <2> QED
    BY <2>1, <2>2, OtherCalls
<1>3. UNCHANGED <<status, round, due>>
  BY DEF PersistScores, PersistCourts, PersistDone, EndCall, EndRound, Drop, session
<1> QED
  BY <1>1, <1>2, <1>3, NotResuming DEF Untimed

LEMMA RecordingUntimed ==
    ASSUME BooksOK, NEW q \in Slots, Recording(q)
    PROVE  Untimed
<1> DEFINE Elsewhere == \E r : Step(q, r) /\ r.at # "resume.write"
<1>a. RequestOK(req[q])
  BY DEF BooksOK
<1>1. ASSUME NEW r \in Rounds, NEW k, NEW card, ScoreCall(q, r, k, card) PROVE Untimed
  <2>1. Elsewhere
    BY <1>1 DEF ScoreCall
  <2>2. Use("score") /\ "score" \in Kinds \ {"pause"} /\ UNCHANGED <<status, round, due>>
    BY <1>1 DEF ScoreCall, Call, Kinds, session
  <2> QED
    BY <2>1, <2>2, NotResuming, OtherCalls DEF Untimed
<1>2. ASSUME NEW r \in Rounds, NEW k, NEW side, CorrectCheck(q, r, k, side) PROVE Untimed
  <2>1. Elsewhere
    BY <1>2 DEF CorrectCheck
  <2>2. Use("correct") /\ "correct" \in Kinds \ {"pause"} /\ UNCHANGED <<status, round, due>>
    BY <1>2 DEF CorrectCheck, Call, Kinds, session
  <2> QED
    BY <2>1, <2>2, NotResuming, OtherCalls DEF Untimed
<1>3. ASSUME NEW k, NEW side, ReportCheck(q, k, side) PROVE Untimed
  <2>1. Elsewhere
    BY <1>3 DEF ReportCheck
  <2>2. Use("report") /\ "report" \in Kinds \ {"pause"} /\ UNCHANGED <<status, round, due>>
    BY <1>3 DEF ReportCheck, Call, Kinds, session
  <2> QED
    BY <2>1, <2>2, NotResuming, OtherCalls DEF Untimed
<1>4. CASE \/ ReportWrite(q) \/ ScoreCheck(q) \/ ScoreWrite(q) \/ Rederive(q)
           \/ RetallyCourts(q) \/ RetallyWins(q) \/ RetallyWrite(q) \/ CorrectWrite(q)
  <2>1. Elsewhere
    <3>1. CASE ReportWrite(q) \/ Rederive(q) \/ RetallyCourts(q) \/ RetallyWins(q) \/ CorrectWrite(q)
      BY <3>1 DEF ReportWrite, Rederive, RetallyCourts, RetallyWins, CorrectWrite, DeriveWinners,
                  Done, Idle
    <3>2. CASE ScoreCheck(q)
      BY <1>a, <3>2 DEF ScoreCheck, RequestOK, Done, Idle
    <3>3. CASE ScoreWrite(q)
      <4>1. "at" \in DOMAIN req[q]
        BY <1>a DEF RequestOK
      <4>2. [req[q] EXCEPT !.at = "score.check", !.entries = Tail(@)].at = "score.check"
        BY <4>1
      <4>3. PICK again : again = [req[q] EXCEPT !.at = "score.check", !.entries = Tail(@)]
        OBVIOUS
      <4>4. again.at # "resume.write"
        BY <4>2, <4>3
      <4>5. Step(q, again) \/ Step(q, [at |-> "rederive", round |-> req[q].round])
        BY <3>3, <4>3 DEF ScoreWrite
      <4> QED
        BY <4>4, <4>5
    <3>4. CASE RetallyWrite(q)
      <4>1. "at" \in DOMAIN req[q]
        BY <1>a DEF RequestOK
      <4>2. PICK s : s = [req[q] EXCEPT !.todo = Tail(@)]
        OBVIOUS
      <4>3. s.at = "retally.write"
        BY <3>4, <4>1, <4>2 DEF RetallyWrite, At
      <4>4. Step(q, s) \/ Step(q, Idle)
        BY <3>4, <4>2 DEF RetallyWrite, Done
      <4> QED
        BY <4>3, <4>4 DEF Idle
    <3> QED
      BY <1>4, <3>1, <3>2, <3>3, <3>4
  <2>2. UNCHANGED <<left, status, round, due>>
    BY <1>4 DEF ReportWrite, ScoreCheck, ScoreWrite, Rederive, RetallyCourts, RetallyWins,
                RetallyWrite, CorrectWrite, session
  <2> QED
    BY <2>1, <2>2, NotResuming DEF Untimed
<1> QED
  BY <1>1, <1>2, <1>3, <1>4 DEF Recording

LEMMA RosterUntimed ==
    ASSUME BooksOK, NEW q \in Slots, Roster(q)
    PROVE  Untimed
<1> DEFINE Elsewhere == \E r : Step(q, r) /\ r.at # "resume.write"
<1>a. RequestOK(req[q]) /\ {"join", "out", "back"} \subseteq Kinds \ {"pause"}
  BY DEF BooksOK, Kinds
<1>1. CASE JoinInsert(q)
  <2>1. "at" \in DOMAIN req[q]
    BY <1>a DEF RequestOK
  <2>2. PICK s : s = [req[q] EXCEPT !.ids = Append(@, NextNewcomer)]
    OBVIOUS
  <2>3. At(q, "join") => s.at = "join"
    BY <2>1, <2>2 DEF At
  <2>4. Step(q, [at |-> "join", ids |-> <<NextNewcomer>>]) \/ (At(q, "join") /\ Step(q, s))
    BY <1>1, <2>2 DEF JoinInsert
  <2>5. Elsewhere
    BY <2>3, <2>4
  <2>6. Use("join") /\ UNCHANGED <<status, round, due>>
    BY <1>1 DEF JoinInsert, Call, session
  <2> QED
    BY <1>a, <2>5, <2>6, NotResuming, OtherCalls DEF Untimed
<1>2. CASE JoinBench(q) \/ RosterWrite(q)
  <2>1. Elsewhere /\ UNCHANGED <<left, status, round, due>>
    BY <1>2 DEF JoinBench, RosterWrite, Done, Idle, session
  <2> QED
    BY <2>1, NotResuming DEF Untimed
<1>3. ASSUME NEW p \in Players, OutCheck(q, p) \/ BackCheck(q, p) PROVE Untimed
  <2>1. Elsewhere /\ (Use("out") \/ Use("back")) /\ UNCHANGED <<status, round, due>>
    BY <1>3 DEF OutCheck, BackCheck, Call, session
  <2> QED
    BY <1>a, <2>1, NotResuming, OtherCalls DEF Untimed
<1> QED
  BY <1>1, <1>2, <1>3 DEF Roster

LEMMA UntimedOK ==
    ASSUME DueOK, Untimed
    PROVE  DueOK'
BY DEF DueOK, Untimed

\* The four ways to touch the clock: a new round, the end, a pause and a resume.
LEMMA DueKept ==
    ASSUME NoOverlappingPauses, BooksOK, DueOK, [Next]_vars
    PROVE  DueOK'
<1>0. "pause" \in Kinds /\ left["pause"] \in Nat /\ Budget["pause"] \in Nat
  BY DEF BooksOK, Kinds
<1>1. ASSUME NEW q \in Slots, AdvWrite(q) \/ EndWrite(q) PROVE DueOK'
  <2>1. \A p \in Slots : Resuming(p)' => Resuming(p) /\ req'[p] = req[p]
    BY <1>1, NotResuming DEF AdvWrite, EndWrite, Done, Idle
  <2>2. (UNCHANGED left /\ status' # "paused") \/ Untimed
    BY <1>1, <2>1 DEF AdvWrite, EndWrite, MayMoveOn, session, Untimed, BooksOK
  <2>3. due'.of = round'
    BY <1>1 DEF AdvWrite, EndWrite, Deadline, DueOK, BooksOK, Deadlines, session
  <2> QED
    BY <2>1, <2>2, <2>3, UntimedOK DEF DueOK
<1>2. ASSUME NEW q \in Slots, ResumeRead(q) PROVE DueOK'
  <2>1. PICK d : d = [due EXCEPT !.age = due.held]
    OBVIOUS
  <2>2. /\ q \in Requests /\ status = "paused" /\ UNCHANGED <<status, round, due>>
        /\ Step(q, [at |-> "resume.write", due |-> d]) /\ Use("resume")
    BY <1>2, <2>1 DEF ResumeRead, Call, session
  <2>3. left'["pause"] = left["pause"]
    BY <2>2, OtherCalls DEF Kinds
  <2>4. d.of = round
    BY <2>1 DEF DueOK, BooksOK, Deadlines
  <2>5. \A p \in Slots : req'[p] = IF p = q THEN [at |-> "resume.write", due |-> d] ELSE req[p]
    BY <2>2 DEF Step, BooksOK
  <2>6. left["pause"] < Budget["pause"] /\ due.of = round
    BY <2>2 DEF DueOK
  <2>7. ASSUME NEW p \in Slots, Resuming(p)'
        PROVE  p \in Requests /\ req'[p].due.of = round
    <3>1. CASE p = q
      BY <2>2, <2>4, <2>5, <3>1
    <3>2. CASE p # q
      <4>1. req'[p] = req[p] /\ Resuming(p)
        BY <2>5, <2>7, <3>2 DEF Resuming, At
      <4> QED
        BY <2>2, <4>1 DEF DueOK
    <3> QED
      BY <3>1, <3>2
  <2> QED
    BY <1>0, <2>2, <2>3, <2>6, <2>7 DEF DueOK
<1>3. ASSUME NEW q \in Slots, ResumeWrite(q) PROVE DueOK'
  <2>1. \A p \in Slots : Resuming(p)' => Resuming(p) /\ req'[p] = req[p]
    BY <1>3, NotResuming DEF ResumeWrite, Done, Idle
  <2> QED
    BY <1>3, <2>1 DEF ResumeWrite, DueOK, Resuming, BooksOK
<1>4. CASE Pause
  <2>1. /\ Use("pause") /\ status' = "paused" /\ UNCHANGED <<round, req>>
        /\ due'.of = round
        /\ \E q \in Requests : req[q] = Idle
    BY <1>4 DEF Pause, Instant, DueOK, BooksOK, Deadlines
  <2>2. left'["pause"] = left["pause"] - 1 /\ left["pause"] > 0
    BY <1>0, <2>1 DEF Use, BooksOK
  <2>3. ASSUME NEW q \in Slots PROVE ~Resuming(q)
    <3>1. CASE Budget["pause"] <= 1
      BY <1>0, <2>2, <3>1 DEF DueOK
    <3>2. CASE \E o : Requests = {o}
      BY <2>1, <3>2 DEF DueOK, Resuming, At, Idle
    <3> QED
      BY <3>1, <3>2 DEF NoOverlappingPauses
  <2>4. \A q \in Slots : ~Resuming(q)'
    BY <2>1, <2>3 DEF Resuming, At
  <2> QED
    BY <1>0, <2>1, <2>2, <2>4 DEF DueOK
<1>5. CASE Reopen
  <2>1. /\ Use("reopen") /\ status' = "live" /\ UNCHANGED <<round, req>> /\ due'.of = round
    BY <1>5 DEF Reopen, Instant, Deadline
  <2>2. left'["pause"] = left["pause"]
    BY <2>1, OtherCalls DEF Kinds
  <2> QED
    BY <2>1, <2>2 DEF DueOK, Resuming, At
<1>6. CASE TimePasses
  <2>1. /\ UNCHANGED left \/ Use("abandon")
        /\ UNCHANGED <<status, round, req>> /\ due'.of = due.of
    BY <1>6 DEF TimePasses, BooksOK, Deadlines
  <2>2. left'["pause"] = left["pause"]
    BY <2>1, OtherCalls DEF Kinds
  <2> QED
    BY <2>1, <2>2 DEF DueOK, Resuming, At
<1>7. CASE Sweep \/ EndAbandoned
  <2>1. \E q \in Slots : \E r : Step(q, r) /\ r.at # "resume.write"
    <3>1. CASE Sweep
      <4>1. Step(Sweeper, [at |-> "adv.session", expected |-> round]) /\ Sweeper \in Slots
        BY <3>1 DEF Sweep, Slots
      <4>2. [at |-> "adv.session", expected |-> round].at # "resume.write"
        OBVIOUS
      <4> QED
        BY <4>1, <4>2
    <3>2. CASE EndAbandoned
      <4>1. Step(Janitor, [at |-> "end.round"]) /\ Janitor \in Slots
        BY <3>2 DEF EndAbandoned, Slots
      <4>2. [at |-> "end.round"].at # "resume.write"
        OBVIOUS
      <4> QED
        BY <4>1, <4>2
    <3> QED
      BY <1>7, <3>1, <3>2
  <2>2. Untimed
    BY <1>7, <2>1, NotResuming DEF Sweep, EndAbandoned, Untimed, session
  <2> QED
    BY <2>2, UntimedOK
<1>8. ASSUME NEW out \in Players, Substitute(out) PROVE DueOK'
  <2>1. Use("sub") /\ UNCHANGED <<status, round, due, req>>
    BY <1>8 DEF Substitute, Instant
  <2>2. left'["pause"] = left["pause"]
    BY <2>1, OtherCalls DEF Kinds
  <2> QED
    BY <2>1, <2>2 DEF DueOK, Resuming, At
<1>9. CASE UNCHANGED vars
  BY <1>9 DEF vars, session, DueOK, Resuming, At
<1>10. ASSUME NEW q \in Slots, Lifecycle(q) PROVE DueOK'
  <2>1. CASE Reads(q)
    BY <2>1, AdvanceUntimed, UntimedOK
  <2>2. CASE \/ PersistScores(q) \/ PersistCourts(q) \/ PersistDone(q)
             \/ EndCall(q) \/ EndRound(q) \/ Drop(q)
    BY <2>2, EndingUntimed, UntimedOK
  <2> QED
    BY <1>1, <1>2, <1>3, <1>10, <2>1, <2>2 DEF Lifecycle, Reads
<1>11. ASSUME NEW q \in Slots, Recording(q) \/ Roster(q) PROVE DueOK'
  BY <1>11, RecordingUntimed, RosterUntimed, UntimedOK
<1> QED
  BY <1>4, <1>5, <1>6, <1>7, <1>8, <1>9, <1>10, <1>11 DEF Next, Clock

\* The stored deadline is that of the current round, whatever buzzers, sweeps
\* and ends come between the two statements of a resume, while nobody pauses
\* again before it is through (ResumeRotationSession, ladder_rotation.go:1017).
THEOREM DeadlineIsOfThisRoundHolds ==
    ASSUME NoOverlappingPauses
    PROVE  Spec => []DeadlineIsOfThisRound
<1>1. Init => DueOK
  <2> SUFFICES ASSUME Init PROVE DueOK
    OBVIOUS
  <2>1. due.of = round /\ status = "live" /\ \A q \in Slots : ~Resuming(q)
    BY DEF Init, Deadline, Resuming, At, Idle
  <2>2. left["pause"] \in Nat /\ left = Budget
    BY DEF Init, Kinds
  <2> QED
    BY <2>1, <2>2 DEF DueOK
<1>2. BooksOK /\ DueOK /\ [Next]_vars => DueOK'
  BY DueKept
<1>3. DueOK => DeadlineIsOfThisRound
  BY DEF DueOK, DeadlineIsOfThisRound
<1> QED
  BY <1>1, <1>2, <1>3, BooksInvariant, PTL DEF Spec

-----------------------------------------------------------------------------
(* The sheets.                                                              *)

LEMMA OrderFacts ==
    /\ Order \in Seq(Players) /\ IsInjective(Order) /\ Blank \notin Players
    /\ Len(Order) \in Nat /\ DOMAIN Order = 1..Len(Order)
    /\ IsFiniteSet(Players)
<1>1. Order \in Seq(Players) /\ IsInjective(Order) /\ Blank \notin Players
  BY DEF Players
<1>2. Len(Order) \in Nat /\ DOMAIN Order = 1..Len(Order)
  BY <1>1
<1>3. Order \in Surjection(1..Len(Order), Players)
  BY <1>1, <1>2 DEF Surjection, Players, ToSet
<1>4. IsFiniteSet(1..Len(Order))
  <2> 1 \in Int /\ Len(Order) \in Int BY <1>2
  <2> QED BY FS_Interval
<1> QED BY <1>1, <1>2, <1>3, <1>4, FS_Surjection

LEMMA NewcomerIsAway ==
    ASSUME Newcomers # {}
    PROVE  NextNewcomer \in Players /\ roster[NextNewcomer] = "absent"
<1>1. Newcomers \in SUBSET Nat
  BY OrderFacts DEF Newcomers
<1>2. PICK i \in Newcomers : \A j \in Newcomers : i <= j
  <2> HIDE DEF Newcomers
  <2> QED BY <1>1, LeastNat
<1>3. PICK j \in Newcomers : NextNewcomer = Order[j]
  BY <1>2 DEF NextNewcomer
<1>4. Order[j] \in Players /\ roster[Order[j]] = "absent"
  BY <1>3, OrderFacts DEF Newcomers
<1> QED BY <1>3, <1>4

\* Whoever has come, and perhaps left again.
Here == {p \in Players : roster[p] # "absent"}

Has(m, x, S) == x \in DOMAIN m /\ m[x] \in S

Patches == [court : Nat, side : Sides]
Cells   == [player : Players, score : {0, 1, NoScore}]

\* What a request carries from one statement to the next, when H have come:
\* an advance, a board and a roster of theirs, and takeovers by them; whoever
\* writes winners, a side for each court; a scorecard, an entry at least; an
\* arrival, those who arrived.
CarriesPlan(m, H) ==
    /\ Has(m, "bench", Seq(H))
    /\ m.at # "adv.courts" => Has(m, "courts", Layouts(H))
    /\ "active" \in DOMAIN m => m.active \in Seq(H)
    /\ m.at \in {"adv.gone", "adv.active", "adv.plays"} =>
           /\ Has(m, "takeover", [DOMAIN m.takeover -> H])
           /\ DOMAIN m.takeover \subseteq Players

Carries(m, H) ==
    /\ m.at \in Planning => CarriesPlan(m, H)
    /\ m.at \in {"adv.persist", "persist.winners"} => Has(m, "patches", Seq(Patches))
    /\ m.at \in Deriving \cup {"score.check", "score.write", "rederive"} =>
           Has(m, "round", Rounds)
    /\ m.at \in {"score.check", "score.write"} =>
           Has(m, "entries", Seq(Cells)) /\ m.entries # <<>>
    /\ m.at \in {"report.write", "correct.write"} => m.side \in Sides \cup {Unreported}
    /\ m.at = "join" => Has(m, "ids", Seq(H))

\* The sheets hold only people who have come.
Board ==
    /\ bench \in Seq(Here)
    /\ DOMAIN winner = Rounds /\ DOMAIN scores = Rounds
    /\ \A r \in Rounds :
           /\ courts[r] \in Layouts(Here)
           /\ winner[r] \in [DOMAIN courts[r] -> Sides \cup {Unreported}]
           /\ scores[r] \in [Players -> {0, 1, NoScore}]
    /\ \A p \in DOMAIN subs : subs[p].by \in Here

Sheets == Board /\ \A q \in Slots : Carries(req[q], Here)

LEMMA MoreSeats ==
    ASSUME NEW S, NEW T, S \subseteq T
    PROVE  Seq(S) \subseteq Seq(T) /\ Layouts(S) \subseteq Layouts(T)
<1>1. Seq(S) \subseteq Seq(T)
  OBVIOUS
<1>2. [1..4 -> S] \subseteq [1..4 -> T]
  OBVIOUS
<1> DEFINE V == [1..4 -> S]
           W == [1..4 -> T]
<1>3. Seq(V) \subseteq Seq(W)
  <2>1. V \subseteq W BY <1>2
  <2> HIDE DEF V, W
  <2> QED BY <2>1
<1> QED BY <1>1, <1>3 DEF Layouts

\* Nothing carried is lost when somebody comes.
LEMMA CarriesMore ==
    ASSUME NEW m, NEW H, NEW H2, H \subseteq H2, Carries(m, H)
    PROVE  Carries(m, H2)
<1>1. Seq(H) \subseteq Seq(H2) /\ Layouts(H) \subseteq Layouts(H2)
  BY MoreSeats
<1>2. m.at \in Planning => CarriesPlan(m, H2)
  BY <1>1 DEF Carries, CarriesPlan, Has
<1>3. m.at = "join" => Has(m, "ids", Seq(H2))
  BY <1>1 DEF Carries, Has
<1> QED BY <1>2, <1>3 DEF Carries

\* Most requests carry nothing of the sheets.
Empty == {"idle", "adv.session", "end.round", "end.write", "resume.write", "retally",
          "retally.wins", "retally.write", "roster.write"}

LEMMA EmptyCarries ==
    ASSUME NEW m, NEW H, m.at \in Empty
    PROVE  Carries(m, H)
BY DEF Carries, Empty, Planning, Deriving

LEMMA MeansSheetsOK == BooksOK /\ Sheets => SheetsOK
<1> SUFFICES ASSUME BooksOK, Sheets PROVE SheetsOK
  OBVIOUS
<1>1. Here \subseteq Players
  BY DEF Here
<1>2. Seq(Here) \subseteq Seq(Players) /\ Layouts(Here) \subseteq Layouts(Players)
  BY <1>1, MoreSeats
<1>3. \A r \in Rounds : courts[r] \in Seq([1..4 -> Players])
  BY <1>2 DEF Sheets, Board, Layouts
<1> QED BY <1>2, <1>3 DEF Sheets, Board, SheetsOK

\* A request that moves on with what it should carry, while the sheets stay.
LEMMA CarriedOn ==
    ASSUME BooksOK, Sheets, NEW q \in Slots, NEW m, Step(q, m), Carries(m, Here),
           UNCHANGED <<bench, courts, winner, scores, subs, roster>>
    PROVE  Sheets'
<1>1. Here' = Here
  BY DEF Here
<1>2. \A p \in Slots : Carries(req'[p], Here)
  BY DEF Step, BooksOK, Sheets
<1>3. Slots' = Slots /\ Rounds' = Rounds
  BY DEF Slots, Rounds
<1>4. Board'
  BY <1>1, <1>3 DEF Sheets, Board
<1> QED BY <1>1, <1>2, <1>3, <1>4 DEF Sheets

\* A patch for every court that has a side to write.
LEMMA PatchesAre ==
    ASSUME NEW n \in Nat, NEW side, DOMAIN side = 1..n
    PROVE  PatchesFor(side) \in Seq(Patches)
<1> DEFINE all == [k \in DOMAIN side |-> [court |-> k, side |-> side[k]]] \o <<>>
           X == {side[k] : k \in 1..n}
           P == [court : Nat, side : X]
           I == {k \in DOMAIN all : all[k].side \in Sides}
           f == [k \in DOMAIN side |-> [court |-> k, side |-> side[k]]]
<1>1. f \in [1..n -> P]
  OBVIOUS
<1> HIDE DEF P
<1>2. f \in Seq(P)
  BY <1>1
<1> HIDE DEF f
<1>3. all = f
  BY <1>2, ConcatEmptySeq DEF f
<1>4. all \in Seq(P)
  BY <1>2, <1>3
<1> HIDE DEF all
<1>5. /\ Picked(all, I) \in Seq(P)
      /\ ToSet(Picked(all, I)) = {all[i] : i \in I}
  <2>1. I \in SUBSET (DOMAIN all) OBVIOUS
  <2> HIDE DEF I
  <2> QED BY <1>4, <2>1, PickedHolds
<1> DEFINE t == Picked(all, I)
<1>6. t \in Seq(P) /\ \A i \in 1..Len(t) : t[i] \in {all[j] : j \in I}
  <2>1. t \in Seq(P) BY <1>5
  <2>2. DOMAIN t = 1..Len(t) BY <2>1
  <2>3. \A i \in DOMAIN t : t[i] \in ToSet(t) BY DEF ToSet
  <2> QED BY <1>5, <2>1, <2>2, <2>3
<1>7. \A j \in I : all[j] \in Patches
  <2> TAKE j \in I
  <2>1. all[j] \in P /\ all[j].side \in Sides BY <1>4
  <2> QED BY <2>1 DEF P, Patches
<1>8. PatchesFor(side) = t
  BY DEF PatchesFor, all
<1> HIDE DEF t
<1>9. \A i \in 1..Len(t) : t[i] \in Patches
  BY <1>6, <1>7
<1>10. t \in Seq(Patches)
  <2>1. t = [i \in 1..Len(t) |-> t[i]] /\ Len(t) \in Nat BY <1>6
  <2> QED BY <1>9, <2>1
<1> QED BY <1>8, <1>10

\* An advance that reads on carries what it carried, and what it read.
LEMMA PlanCarriesOn ==
    ASSUME NEW m, NEW H, Carries(m, H), m.at \in Planning, NEW fields,
           "at" \in DOMAIN fields, fields.at \in Planning \ {"adv.courts", "adv.persist"},
           "bench" \notin DOMAIN fields,
           \/ m.at # "adv.courts" /\ "courts" \notin DOMAIN fields
           \/ Has(fields, "courts", Layouts(H)),
           "active" \in DOMAIN fields => fields.active \in Seq(H),
           \/ fields.at \notin {"adv.gone", "adv.active", "adv.plays"}
           \/ m.at \in {"adv.gone", "adv.active", "adv.plays"} /\ "takeover" \notin DOMAIN fields
           \/ /\ Has(fields, "takeover", [DOMAIN fields.takeover -> H])
              /\ DOMAIN fields.takeover \subseteq Players
    PROVE  Carries(Extend(m, fields), H)
<1> DEFINE s == Extend(m, fields)
<1>1. /\ DOMAIN s = (DOMAIN m) \cup (DOMAIN fields)
      /\ \A x \in DOMAIN fields : s[x] = fields[x]
      /\ \A x \in (DOMAIN m) \ (DOMAIN fields) : s[x] = m[x]
  BY Extended
<1> HIDE DEF s
<1>2. s.at = fields.at
  BY <1>1
<1>3. CarriesPlan(m, H)
  BY DEF Carries
<1>4. Has(s, "bench", Seq(H))
  BY <1>1, <1>3 DEF CarriesPlan, Has
<1>5. Has(s, "courts", Layouts(H))
  BY <1>1, <1>3 DEF CarriesPlan, Has
<1>6. "active" \in DOMAIN s => s.active \in Seq(H)
  BY <1>1, <1>3 DEF CarriesPlan
<1>7. s.at \in {"adv.gone", "adv.active", "adv.plays"} =>
           Has(s, "takeover", [DOMAIN s.takeover -> H]) /\ DOMAIN s.takeover \subseteq Players
  BY <1>1, <1>2, <1>3 DEF CarriesPlan, Has
<1>8. CarriesPlan(s, H)
  BY <1>4, <1>5, <1>6, <1>7 DEF CarriesPlan
<1>9. Carries(s, H)
  BY <1>2, <1>8 DEF Carries, Planning, Deriving
<1> QED BY <1>9 DEF s

LEMMA ReadsKeepSheets ==
    ASSUME BooksOK, Sheets, NEW q \in Slots,
           \/ AdvCall(q, 0) \/ AdvCall(q, round)
           \/ AdvSession(q) \/ AdvCourts(q) \/ AdvScores(q)
           \/ AdvPersisted(q) \/ AdvSubs(q) \/ AdvGone(q) \/ AdvActive(q)
           \/ AdvRecheck(q)
    PROVE  Sheets'
<1> DEFINE o == req[q]
           Kept == UNCHANGED <<bench, courts, winner, scores, subs, roster>>
           Onward == \E m : Step(q, m) /\ Carries(m, Here)
<1>1. Kept
  BY DEF AdvCall, AdvSession, AdvCourts, AdvScores, AdvPersisted, AdvSubs, AdvGone, AdvActive,
         AdvRecheck, session, record, people
<1>2. Carries(o, Here) /\ RequestOK(o)
  BY DEF Sheets, BooksOK
<1>3. Carries(Idle, Here)
  BY EmptyCarries DEF Idle, Empty
<1> SUFFICES Onward
  BY <1>1, CarriedOn
<1>4. CASE AdvCall(q, 0) \/ AdvCall(q, round)
  <2>1. PICK e : Step(q, [at |-> "adv.session", expected |-> e])
    BY <1>4 DEF AdvCall
  <2>2. Carries([at |-> "adv.session", expected |-> e], Here)
    BY EmptyCarries DEF Empty
  <2> QED BY <2>1, <2>2
<1>5. CASE AdvSession(q)
  <2> DEFINE m == [at |-> "adv.courts", expected |-> o.expected, round |-> round, bench |-> bench]
  <2>1. Step(q, m) \/ Step(q, Idle)
    BY <1>5 DEF AdvSession, Done
  <2>2. CarriesPlan(m, Here)
    BY DEF CarriesPlan, Has, Sheets, Board
  <2>3. Carries(m, Here)
    BY <2>2 DEF Carries, Deriving
  <2> QED BY <1>3, <2>1, <2>3
<1>6. CASE AdvCourts(q)
  <2> DEFINE fields == [at |-> "adv.scores", courts |-> courts[o.round], taps |-> winner[o.round]]
  <2>1. o.at \in Planning /\ o.round \in Rounds
    BY <1>2, <1>6 DEF AdvCourts, At, RequestOK, Planning, Rounds
  <2>2. DOMAIN fields = {"at", "courts", "taps"} /\ fields.at = "adv.scores"
        /\ fields.courts = courts[o.round]
    OBVIOUS
  <2>3. Step(q, Extend(o, fields))
    BY <1>6 DEF AdvCourts
  <2> HIDE DEF fields, o
  <2>4. Has(fields, "courts", Layouts(Here))
    BY <2>1, <2>2 DEF Has, Sheets, Board
  <2>5. Carries(Extend(o, fields), Here)
    BY <1>2, <2>1, <2>2, <2>4, PlanCarriesOn DEF Planning
  <2> QED BY <2>3, <2>5
<1>7. CASE AdvScores(q)
  <2> DEFINE scoreOf == scores[o.round]
             side == [k \in DOMAIN o.courts |-> Persisted(o.courts[k], o.taps[k], scoreOf)]
             m == [at |-> "adv.persist", expected |-> o.expected,
                   round |-> o.round, bench |-> o.bench, courts |-> o.courts,
                   won     |-> [k \in DOMAIN o.courts |->
                                   MovesUp(o.courts[k], o.taps[k], scoreOf)] \o <<>>,
                   patches |-> PatchesFor(side),
                   tied    |-> \E k \in DOMAIN o.courts :
                                   Tied(o.courts[k], o.taps[k], scoreOf)]
  <2>1. Step(q, m)
    BY <1>7 DEF AdvScores
  <2>2. o.at = "adv.scores"
    BY <1>7 DEF AdvScores, At
  <2>3. CarriesPlan(o, Here)
    BY <1>2, <2>2 DEF Carries, Planning
  <2>4. o.courts \in Layouts(Here) /\ o.bench \in Seq(Here)
    BY <2>2, <2>3 DEF CarriesPlan, Has
  <2>5. PatchesFor(side) \in Seq(Patches)
    <3>1. Len(o.courts) \in Nat /\ DOMAIN side = 1..Len(o.courts)
      BY <2>4, Seats
    <3> HIDE DEF side
    <3> QED BY <3>1, PatchesAre
  <2>6. m.at = "adv.persist" /\ Has(m, "bench", Seq(Here)) /\ Has(m, "courts", Layouts(Here))
        /\ Has(m, "patches", Seq(Patches)) /\ "active" \notin DOMAIN m
    <3> HIDE DEF side, scoreOf
    <3> QED BY <2>4, <2>5 DEF Has
  <2> HIDE DEF m
  <2>7. CarriesPlan(m, Here)
    BY <2>6 DEF CarriesPlan
  <2>8. Carries(m, Here)
    BY <2>6, <2>7 DEF Carries, Deriving
  <2> QED BY <2>1, <2>8
<1>8. CASE AdvPersisted(q)
  <2> DEFINE m == [at |-> "adv.subs", expected |-> o.expected,
                   round |-> o.round, bench |-> o.bench, courts |-> o.courts, won |-> o.won]
  <2>1. Step(q, m) \/ Step(q, Idle)
    BY <1>8 DEF AdvPersisted, Done
  <2>2. o.at = "adv.persist"
    BY <1>8 DEF AdvPersisted, At
  <2>3. CarriesPlan(o, Here)
    BY <1>2, <2>2 DEF Carries, Planning
  <2>4. CarriesPlan(m, Here)
    BY <2>2, <2>3 DEF CarriesPlan, Has
  <2>5. Carries(m, Here)
    BY <2>4 DEF Carries, Deriving
  <2> QED BY <1>3, <2>1, <2>5
<1>9. CASE AdvSubs(q)
  <2> DEFINE fields == [at |-> "adv.gone", takeover |-> [p \in DOMAIN subs |-> subs[p].by]]
  <2>1. DOMAIN fields = {"at", "takeover"} /\ fields.at = "adv.gone"
        /\ DOMAIN fields.takeover = DOMAIN subs
        /\ fields.takeover = [p \in DOMAIN subs |-> subs[p].by]
    OBVIOUS
  <2>2. o.at = "adv.subs" /\ Step(q, Extend(o, fields))
    BY <1>9 DEF AdvSubs, At
  <2> HIDE DEF fields, o
  <2>3. Has(fields, "takeover", [DOMAIN fields.takeover -> Here])
        /\ DOMAIN fields.takeover \subseteq Players
    <3>1. [p \in DOMAIN subs |-> subs[p].by] \in [DOMAIN subs -> Here]
      BY DEF Sheets, Board
    <3> QED BY <2>1, <3>1 DEF Has, BooksOK
  <2>4. Carries(Extend(o, fields), Here)
    BY <1>2, <2>1, <2>2, <2>3, PlanCarriesOn DEF Planning
  <2> QED BY <2>2, <2>4
<1>10. CASE AdvGone(q)
  <2> DEFINE fields == [at |-> "adv.active", gone |-> Gone]
  <2>1. DOMAIN fields = {"at", "gone"} /\ fields.at = "adv.active"
    OBVIOUS
  <2>2. o.at = "adv.gone" /\ Step(q, Extend(o, fields))
    BY <1>10 DEF AdvGone, At
  <2> HIDE DEF fields, o
  <2>3. Carries(Extend(o, fields), Here)
    BY <1>2, <2>1, <2>2, PlanCarriesOn DEF Planning
  <2> QED BY <2>2, <2>3
<1>11. CASE AdvActive(q)
  <2> DEFINE fields == [at |-> "adv.plays", active |-> ActiveRow]
             m == [o EXCEPT !.at = "adv.plays"]
  <2>1. DOMAIN fields = {"at", "active"} /\ fields.at = "adv.plays"
        /\ fields.active = ActiveRow
    OBVIOUS
  <2>2. o.at = "adv.active" /\ (Step(q, Extend(o, fields)) \/ Step(q, m))
    BY <1>11 DEF AdvActive, At
  <2>3. ActiveRow \in Seq(Here)
    <3> DEFINE A == {p \in Players : roster[p] = "active"}
    <3>1. Within(Order, A) \in Seq(Players) /\ ToSet(Within(Order, A)) = ToSet(Order) \cap A
      <4> HIDE DEF A
      <4> QED BY OrderFacts, WithinHolds
    <3> DEFINE w == Within(Order, A)
    <3>2. w \in Seq(Players) /\ ToSet(w) \subseteq Here
      BY <3>1 DEF Here
    <3> HIDE DEF w
    <3>3. \A i \in 1..Len(w) : w[i] \in Here
      BY <3>2 DEF ToSet
    <3>4. w \in Seq(Here)
      BY <3>2, <3>3
    <3> QED BY <3>4 DEF ActiveRow, w
  <2>4. "at" \in DOMAIN o
    BY <1>2 DEF RequestOK
  <2>5. DOMAIN m = DOMAIN o /\ m.at = "adv.plays" /\ \A x \in DOMAIN o : x # "at" => m[x] = o[x]
    BY <2>4
  <2> HIDE DEF fields, o, m
  <2>6. Carries(Extend(o, fields), Here)
    BY <1>2, <2>1, <2>2, <2>3, PlanCarriesOn DEF Planning
  <2>7. CarriesPlan(o, Here)
    BY <1>2, <2>2 DEF Carries, Planning
  <2>8. CarriesPlan(m, Here)
    BY <2>2, <2>5, <2>7 DEF CarriesPlan, Has
  <2>9. Carries(m, Here)
    BY <2>5, <2>8 DEF Carries, Deriving
  <2> QED BY <2>2, <2>6, <2>9
<1>12. CASE AdvRecheck(q)
  <2> DEFINE m == [o EXCEPT !.at = "adv.write"]
  <2>1. o.at = "adv.recheck" /\ (Step(q, m) \/ Step(q, Idle))
    BY <1>12 DEF AdvRecheck, At, Done
  <2>2. "at" \in DOMAIN o
    BY <1>2 DEF RequestOK
  <2>3. DOMAIN m = DOMAIN o /\ m.at = "adv.write" /\ \A x \in DOMAIN o : x # "at" => m[x] = o[x]
    BY <2>2
  <2> HIDE DEF o, m
  <2>4. CarriesPlan(o, Here)
    BY <1>2, <2>1 DEF Carries, Planning
  <2>5. CarriesPlan(m, Here)
    BY <2>1, <2>3, <2>4 DEF CarriesPlan, Has
  <2>6. Carries(m, Here)
    BY <2>3, <2>5 DEF Carries, Deriving
  <2> QED BY <1>3, <2>1, <2>6
<1> QED BY <1>4, <1>5, <1>6, <1>7, <1>8, <1>9, <1>10, <1>11, <1>12

\* A request that moves on with what it should carry, on sheets that stay what
\* they are while nobody who came is forgotten.
LEMMA CarriedThrough ==
    ASSUME BooksOK, Sheets, NEW q \in Slots, NEW m, Step(q, m), Here \subseteq Here',
           Carries(m, Here'), Board'
    PROVE  Sheets'
<1>1. \A p \in Slots : Carries(req[p], Here')
  BY CarriesMore DEF Sheets
<1>2. \A p \in Slots : Carries(req'[p], Here')
  BY <1>1 DEF Step, BooksOK
<1>3. Slots' = Slots
  BY DEF Slots
<1> QED BY <1>2, <1>3 DEF Sheets

\* The rows of a round on which a winner is written, or not.
LEMMA PatchOK ==
    ASSUME Board, NEW r, NEW x, x.side \in Sides \cup {Unreported},
           Patch(r, x) \/ UNCHANGED winner, UNCHANGED <<bench, courts, scores, subs, roster>>
    PROVE  Board'
<1>1. Here' = Here /\ Rounds' = Rounds
  BY DEF Here, Rounds
<1>2. DOMAIN winner' = Rounds
  BY DEF Board, Patch
<1>3. ASSUME NEW s \in Rounds PROVE winner'[s] \in [DOMAIN courts[s] -> Sides \cup {Unreported}]
  <2>1. winner[s] \in [DOMAIN courts[s] -> Sides \cup {Unreported}] /\ s \in DOMAIN winner
    BY DEF Board
  <2>2. CASE UNCHANGED winner
    BY <2>1, <2>2
  <2>3. CASE Patch(r, x)
    <3>1. CASE s = r
      <4>1. winner'[s] = [winner[s] EXCEPT ![x.court] = x.side]
        BY <2>1, <2>3, <3>1 DEF Patch
      <4> QED BY <2>1, <4>1
    <3>2. CASE s # r
      <4>1. winner'[s] = winner[s]
        BY <2>1, <2>3, <3>2 DEF Patch
      <4> QED BY <2>1, <4>1
    <3> QED BY <3>1, <3>2
  <2> QED BY <2>2, <2>3
<1> QED BY <1>1, <1>2, <1>3 DEF Board

LEMMA PersistKeepsSheets ==
    ASSUME BooksOK, Sheets, NEW q \in Slots, PersistWinner(q)
    PROVE  Sheets'
<1> DEFINE o == req[q]
           m == [o EXCEPT !.patches = Tail(@)]
<1>1. /\ o.at \in {"adv.persist", "persist.winners"} /\ o.patches # <<>>
      /\ Step(q, m)
      /\ Patch(o.round, Head(o.patches)) \/ UNCHANGED winner
      /\ UNCHANGED <<bench, courts, scores, subs, roster>>
  BY DEF PersistWinner, session, people
<1>2. Carries(o, Here)
  BY DEF Sheets
<1> HIDE DEF o
<1>3. "patches" \in DOMAIN o /\ o.patches \in Seq(Patches)
  BY <1>1, <1>2 DEF Carries, Has
<1>4. Head(o.patches) \in Patches /\ Tail(o.patches) \in Seq(Patches)
  BY <1>1, <1>3
<1>5. /\ DOMAIN m = DOMAIN o /\ m.patches = Tail(o.patches)
      /\ \A x \in DOMAIN o : x # "patches" => m[x] = o[x]
  BY <1>3
<1> HIDE DEF m
<1>6. m.at = o.at
  <2>1. "at" \in DOMAIN o BY DEF o, BooksOK, RequestOK
  <2> QED BY <1>5, <2>1
<1>7. o.at = "adv.persist" => CarriesPlan(m, Here)
  <2>1. o.at = "adv.persist" => CarriesPlan(o, Here)
    BY <1>2 DEF Carries, Planning
  <2> QED BY <1>5, <1>6, <2>1 DEF CarriesPlan, Has
<1>8. Carries(m, Here)
  <2>1. Has(m, "patches", Seq(Patches))
    BY <1>3, <1>4, <1>5 DEF Has
  <2>2. CASE o.at = "adv.persist"
    BY <1>6, <1>7, <2>1, <2>2 DEF Carries, Deriving
  <2>3. CASE o.at = "persist.winners"
    <3>1. Has(o, "round", Rounds)
      BY <1>2, <2>3 DEF Carries, Deriving
    <3>2. Has(m, "round", Rounds)
      BY <1>5, <3>1 DEF Has
    <3> QED BY <1>6, <2>1, <2>3, <3>2 DEF Carries, Planning
  <2> QED BY <1>1, <2>2, <2>3
<1>9. Head(o.patches).side \in Sides \cup {Unreported}
  BY <1>4 DEF Patches
<1>10. Board'
  BY <1>1, <1>9, PatchOK DEF Sheets
<1>11. Here' = Here
  BY <1>1 DEF Here
<1> QED BY <1>1, <1>8, <1>10, <1>11, CarriedThrough

\* Following takeovers by people who have come leads to people who have come.
LEMMA PlanReads ==
    ASSUME BooksOK, Sheets, NEW q \in Slots, At(q, "adv.plays"),
           NEW H \in SUBSET Players, Here \subseteq H, NEW played \in PlayCounts
    PROVE  AnyReads(Extend(req[q], [games |-> played]), Players, H)
<1> DEFINE o == req[q]
           fields == [games |-> played]
           s == Extend(o, fields)
<1>1. CarriesPlan(o, H) /\ o.at = "adv.plays"
  <2>1. o.at = "adv.plays" BY DEF At
  <2>2. Carries(o, H) BY CarriesMore DEF Sheets
  <2> QED BY <2>1, <2>2 DEF Carries, Planning
<1>2. DOMAIN fields = {"games"} /\ fields.games = played
  OBVIOUS
<1>3. /\ DOMAIN s = (DOMAIN o) \cup (DOMAIN fields)
      /\ \A x \in DOMAIN fields : s[x] = fields[x]
      /\ \A x \in (DOMAIN o) \ (DOMAIN fields) : s[x] = o[x]
  BY Extended
<1> HIDE DEF s, fields, o
<1>4. s.games = played /\ played \in [Players -> Nat]
  BY <1>2, <1>3 DEF BooksOK, PlayCounts, NobodyPlayed
<1>5. s.courts \in Layouts(H) /\ s.bench \in Seq(H)
  BY <1>1, <1>2, <1>3 DEF CarriesPlan, Has
<1>6. "active" \in DOMAIN s => s.active \in Seq(H)
  BY <1>1, <1>2, <1>3 DEF CarriesPlan
<1>7. s.takeover \in [DOMAIN s.takeover -> H] /\ DOMAIN s.takeover \subseteq Players
  BY <1>1, <1>2, <1>3 DEF CarriesPlan, Has
<1>8. Cardinality(DOMAIN s.takeover) \in Nat
  BY <1>7, OrderFacts, FS_Subset, FS_CardinalityType
<1>9. \A p \in H : Hop(p, s.takeover, s.gone) \in H
  BY <1>7 DEF Hop
<1> QED BY <1>4, <1>5, <1>6, <1>8, <1>9 DEF AnyReads, s, fields, o

\* What an advance writes gives each of its people one place.
LEMMA PlanIsLegal ==
    ASSUME BooksOK, Sheets, NEW q \in Slots, At(q, "adv.plays"),
           NEW played \in PlayCounts, ~Plan(req[q], played).stuck
    PROVE  /\ Plan(req[q], played).courts \in Layouts(Here) /\ Plan(req[q], played).bench \in Seq(Here)
           /\ LayoutAndBenchOK(Plan(req[q], played).courts, Plan(req[q], played).bench)
<1> DEFINE s == Extend(req[q], [games |-> played])
<1>2. Here \in SUBSET Players
  BY DEF Here
<1>1. AnyReads(s, Players, Here)
  BY <1>2, PlanReads
<1>3. Blank \notin Players /\ MaxCourts \in Nat
  BY OrderFacts
<1>4. Plan(req[q], played) = PlanNextRound(s, req[q].won, Mode, MaxCourts)
  BY DEF Plan
<1> HIDE DEF s
<1>5. ~PlanNextRound(s, req[q].won, Mode, MaxCourts).stuck
  BY <1>4
<1> QED BY <1>1, <1>2, <1>3, <1>4, <1>5, AnyPlanIsLegal

LEMMA PlansKeepSheets ==
    ASSUME BooksOK, Sheets, NEW q \in Slots, AdvPlays(q)
    PROVE  Sheets'
<1> DEFINE o == req[q]
<1>1. /\ At(q, "adv.plays")
      /\ UNCHANGED <<bench, courts, winner, scores, subs, roster>>
      /\ \/ Done(q) \/ Step(q, [at |-> "end.round"])
         \/ \E played \in PlayCounts : /\ ~Plan(o, played).stuck
            /\ Step(q, [at |-> "adv.recheck", expected |-> o.expected, round |-> o.round,
                        courts |-> Plan(o, played).courts, bench |-> Plan(o, played).bench])
  BY DEF AdvPlays, session, record, people
<1>2. Carries(Idle, Here) /\ Carries([at |-> "end.round"], Here)
  BY EmptyCarries DEF Idle, Empty
<1>3. CASE Done(q) \/ Step(q, [at |-> "end.round"])
  BY <1>1, <1>2, <1>3, CarriedOn DEF Done
<1>4. ASSUME NEW played \in PlayCounts, ~Plan(o, played).stuck,
             Step(q, [at |-> "adv.recheck", expected |-> o.expected, round |-> o.round,
                      courts |-> Plan(o, played).courts, bench |-> Plan(o, played).bench])
      PROVE  Sheets'
  <2> DEFINE p == Plan(o, played)
             m == [at |-> "adv.recheck", expected |-> o.expected, round |-> o.round,
                   courts |-> p.courts, bench |-> p.bench]
  <2>1. p.courts \in Layouts(Here) /\ p.bench \in Seq(Here)
    BY <1>1, <1>4, PlanIsLegal
  <2> HIDE DEF p
  <2>2. Carries(m, Here)
    <3>1. m.at = "adv.recheck" /\ Has(m, "courts", Layouts(Here))
          /\ Has(m, "bench", Seq(Here)) /\ "active" \notin DOMAIN m
      BY <2>1 DEF Has
    <3> HIDE DEF m
    <3>2. CarriesPlan(m, Here)
      BY <3>1 DEF CarriesPlan
    <3> QED BY <3>1, <3>2 DEF Carries, Deriving
  <2>3. Step(q, m)
    BY <1>4 DEF p
  <2> HIDE DEF m
  <2> QED BY <1>1, <2>2, <2>3, CarriedOn
<1> QED BY <1>1, <1>3, <1>4

\* A new round has no results.
LEMMA FreshIs ==
    ASSUME NEW S, NEW cs \in Layouts(S)
    PROVE  Fresh(cs) \in [DOMAIN cs -> Sides \cup {Unreported}]
<1> DEFINE f == [k \in DOMAIN cs |-> Unreported]
<1>1. Len(cs) \in Nat /\ DOMAIN cs = 1..Len(cs)
  BY Seats
<1>2. f \in Seq({Unreported})
  BY <1>1
<1>3. Fresh(cs) = f
  <2> HIDE DEF f
  <2>1. f \o <<>> = f BY <1>2, ConcatEmptySeq
  <2> QED BY <2>1 DEF Fresh, f
<1> QED BY <1>3

\* The next round goes on the sheets as it was planned.
LEMMA WriteKeepsSheets ==
    ASSUME BooksOK, Sheets, NEW q \in Slots, AdvWrite(q)
    PROVE  Sheets'
<1> DEFINE o == req[q]
<1>1. /\ o.at = "adv.write" /\ Step(q, Idle)
      /\ UNCHANGED <<scores, roster, subs>>
  BY DEF AdvWrite, At, Done, people
<1>2. Here' = Here /\ Rounds' = Rounds
  BY <1>1 DEF Here, Rounds
<1>3. CarriesPlan(o, Here) /\ o.round \in 1..(MaxRounds - 1)
  BY <1>1 DEF Sheets, Carries, Planning, BooksOK, RequestOK
<1>4. o.courts \in Layouts(Here) /\ o.bench \in Seq(Here)
  BY <1>1, <1>3 DEF CarriesPlan, Has
<1>5. Board'
  <2>1. CASE UNCHANGED <<bench, courts, winner>>
    BY <1>1, <1>2, <2>1 DEF Sheets, Board
  <2>2. ASSUME Current(o.round), MayMoveOn PROVE Board'
    <3>1. /\ bench' = o.bench
          /\ courts' = [courts EXCEPT ![round + 1] = o.courts]
          /\ winner' = [winner EXCEPT ![round + 1] = Fresh(o.courts)]
      BY <2>2 DEF AdvWrite
    <3>2. DOMAIN courts = Rounds /\ DOMAIN winner = Rounds
      BY DEF BooksOK, Sheets, Board
    <3>3. Fresh(o.courts) \in [DOMAIN o.courts -> Sides \cup {Unreported}]
      BY <1>4, FreshIs
    <3>4. ASSUME NEW r \in Rounds
          PROVE  /\ courts'[r] \in Layouts(Here)
                 /\ winner'[r] \in [DOMAIN courts'[r] -> Sides \cup {Unreported}]
      BY <1>4, <3>1, <3>2, <3>3 DEF Sheets, Board
    <3> QED BY <1>1, <1>2, <1>4, <3>1, <3>2, <3>4 DEF Sheets, Board
  <2> QED BY <2>1, <2>2 DEF AdvWrite, session
<1>6. Carries(Idle, Here)
  BY EmptyCarries DEF Idle, Empty
<1> QED BY <1>1, <1>2, <1>5, <1>6, CarriedThrough

\* Winners from a scorecard, and the statements of End, Pause and Resume.
LEMMA EndingKeepsSheets ==
    ASSUME BooksOK, Sheets, NEW q \in Slots,
           \/ PersistScores(q) \/ PersistCourts(q) \/ PersistDone(q)
           \/ EndCall(q) \/ EndRound(q) \/ EndWrite(q)
           \/ ResumeRead(q) \/ ResumeWrite(q) \/ Drop(q)
    PROVE  Sheets'
<1> DEFINE o == req[q]
           Onward == \E m : Step(q, m) /\ Carries(m, Here)
<1>1. UNCHANGED <<bench, courts, winner, scores, subs, roster>>
  BY DEF PersistScores, PersistCourts, PersistDone, EndCall, EndRound, EndWrite, ResumeRead,
         ResumeWrite, Drop, session, record, people
<1>2. Carries(o, Here) /\ RequestOK(o)
  BY DEF Sheets, BooksOK
<1>3. ASSUME NEW s \in Empty PROVE Carries([at |-> s], Here)
  BY EmptyCarries
<1>4. Carries(Idle, Here)
  BY EmptyCarries DEF Idle, Empty
<1> SUFFICES Onward
  BY <1>1, CarriedOn
<1>5. CASE PersistScores(q)
  <2> DEFINE fields == [at |-> "persist.courts", scores |-> scores[o.round]]
             s == Extend(o, fields)
  <2>1. DOMAIN fields = {"at", "scores"} /\ fields.at = "persist.courts"
    OBVIOUS
  <2>2. o.at = "persist.scores" /\ Step(q, s)
    BY <1>5 DEF PersistScores, At
  <2>3. Has(o, "round", Rounds)
    BY <1>2, <2>2 DEF Carries, Deriving
  <2> HIDE DEF fields, o
  <2>4. /\ DOMAIN s = (DOMAIN o) \cup (DOMAIN fields)
        /\ \A x \in DOMAIN fields : s[x] = fields[x]
        /\ \A x \in (DOMAIN o) \ (DOMAIN fields) : s[x] = o[x]
    BY Extended
  <2> HIDE DEF s
  <2>5. Has(s, "round", Rounds) /\ s.at = "persist.courts"
    BY <2>1, <2>3, <2>4 DEF Has
  <2>6. Carries(s, Here)
    BY <2>5 DEF Carries, Planning
  <2> QED BY <2>2, <2>6
<1>6. CASE PersistCourts(q)
  <2> DEFINE cs == courts[o.round]
             side == [k \in DOMAIN cs |-> Verdict(cs[k], o.scores)]
             m == [at |-> "persist.winners", round |-> o.round, then |-> o.then,
                   patches |-> PatchesFor(side)]
  <2>1. o.at = "persist.courts" /\ Step(q, m)
    BY <1>6 DEF PersistCourts, At
  <2>2. o.round \in Rounds
    BY <1>2, <2>1 DEF Carries, Deriving, Has
  <2>3. cs \in Layouts(Here)
    BY <2>2 DEF Sheets, Board
  <2>4. Len(cs) \in Nat /\ DOMAIN side = 1..Len(cs)
    BY <2>3, Seats
  <2>5. PatchesFor(side) \in Seq(Patches)
    <3> HIDE DEF side, cs
    <3> QED BY <2>4, PatchesAre
  <2>6. m.at = "persist.winners" /\ Has(m, "round", Rounds) /\ Has(m, "patches", Seq(Patches))
    <3> HIDE DEF side
    <3> QED BY <2>2, <2>5 DEF Has
  <2> HIDE DEF m
  <2>7. Carries(m, Here)
    BY <2>6 DEF Carries, Planning
  <2> QED BY <2>1, <2>7
<1>7. CASE PersistDone(q)
  <2>1. o.at = "persist.winners" /\ Step(q, [at |-> o.then])
    BY <1>7 DEF PersistDone, At
  <2>2. o.then \in Empty
    BY <1>2, <2>1 DEF RequestOK, Deriving, Empty
  <2> QED BY <1>3, <2>1, <2>2
<1>8. CASE EndCall(q)
  <2>1. Step(q, [at |-> "end.round"]) BY <1>8 DEF EndCall
  <2> QED BY <1>3, <2>1 DEF Empty
<1>9. CASE EndRound(q)
  <2>1. Step(q, DeriveWinners(round, "end.write")) \/ Step(q, [at |-> "end.write"])
    BY <1>9 DEF EndRound
  <2>2. Carries(DeriveWinners(round, "end.write"), Here)
    BY DEF Carries, Has, DeriveWinners, Planning, BooksOK
  <2> QED BY <1>3, <2>1, <2>2 DEF Empty
<1>10. CASE EndWrite(q) \/ ResumeWrite(q) \/ Drop(q)
  <2>1. Step(q, Idle) BY <1>10 DEF EndWrite, ResumeWrite, Drop, Done
  <2> QED BY <1>4, <2>1
<1>11. CASE ResumeRead(q)
  <2> DEFINE m == [at |-> "resume.write", due |-> [due EXCEPT !.age = due.held]]
  <2>1. Step(q, m) BY <1>11 DEF ResumeRead
  <2>2. Carries(m, Here) BY EmptyCarries DEF Empty
  <2> QED BY <2>1, <2>2
<1> QED BY <1>5, <1>6, <1>7, <1>8, <1>9, <1>10, <1>11

\* The clock and the sweeps do not touch the sheets.
LEMMA ClockKeepsSheets ==
    ASSUME BooksOK, Sheets, Clock
    PROVE  Sheets'
<1>1. UNCHANGED <<bench, courts, winner, scores, subs, roster>>
  BY DEF Clock, Pause, Reopen, TimePasses, Sweep, EndAbandoned, session, record, people
<1>2. CASE Pause \/ Reopen \/ TimePasses
  <2>1. UNCHANGED req
    BY <1>2 DEF Pause, Reopen, TimePasses
  <2> QED BY <1>1, <2>1 DEF Sheets, Board, Here, Slots, Rounds
<1>3. CASE Sweep
  <2> DEFINE m == [at |-> "adv.session", expected |-> round]
  <2>1. Step(Sweeper, m) /\ Sweeper \in Slots
    BY <1>3 DEF Sweep, Slots
  <2>2. Carries(m, Here)
    BY EmptyCarries DEF Empty
  <2> QED BY <1>1, <2>1, <2>2, CarriedOn
<1>4. CASE EndAbandoned
  <2> DEFINE m == [at |-> "end.round"]
  <2>1. Step(Janitor, m) /\ Janitor \in Slots
    BY <1>4 DEF EndAbandoned, Slots
  <2>2. Carries(m, Here)
    BY EmptyCarries DEF Empty
  <2> QED BY <1>1, <2>1, <2>2, CarriedOn
<1> QED BY <1>2, <1>3, <1>4 DEF Clock

LEMMA EntriesAre ==
    ASSUME NEW court \in [1..4 -> Players], NEW card \in Cards
    PROVE  Entries(court, card) \in Seq(Cells) /\ Entries(court, card) # <<>>
<1> DEFINE Score(i) == CASE card = "clear" -> NoScore
                         [] card = "level" -> 1
                         [] card = "a"     -> IF i <= 2 THEN 1 ELSE 0
                         [] card = "b"     -> IF i <= 2 THEN 0 ELSE 1
           f == [i \in 1..4 |-> [player |-> court[i], score |-> Score(i)]]
<1>1. \A i \in 1..4 : Score(i) \in {0, 1, NoScore}
  BY DEF Cards
<1>2. \A i \in 1..4 : f[i] \in Cells
  <2> HIDE DEF Score
  <2> QED BY <1>1 DEF Cells
<1>3. f \in Seq(Cells) /\ Len(f) = 4
  <2>1. f = [i \in 1..4 |-> f[i]] OBVIOUS
  <2> HIDE DEF f
  <2> QED BY <1>2, <2>1
<1>4. Entries(court, card) = f \o <<>>
  BY DEF Entries
<1> HIDE DEF f
<1>5. f \o <<>> = f
  BY <1>3, ConcatEmptySeq
<1>6. f # <<>>
  BY <1>3
<1>7. Entries(court, card) = f
  BY <1>4, <1>5
<1> QED BY <1>3, <1>6, <1>7

\* Taps, scorecards, corrections and the recount.
LEMMA RecordingKeepsSheets ==
    ASSUME BooksOK, Sheets, NEW q \in Slots, Recording(q)
    PROVE  Sheets'
<1> DEFINE o == req[q]
           Kept == UNCHANGED <<bench, courts, winner, scores, subs, roster>>
           Onward == \E m : Step(q, m) /\ Carries(m, Here)
<1>1. Carries(o, Here) /\ RequestOK(o)
  BY DEF Sheets, BooksOK
<1>2. Carries(Idle, Here) /\ \A s \in Empty : Carries([at |-> s], Here)
  BY EmptyCarries DEF Idle, Empty
<1>3. ASSUME Onward, Kept PROVE Sheets'
  BY <1>3, CarriedOn
<1>4. ASSUME NEW r \in Rounds, NEW k \in DOMAIN courts[r], NEW card \in Cards,
             ScoreCall(q, r, k, card)
      PROVE  Sheets'
  <2> DEFINE es == Entries(courts[r][k], card)
             m == [at |-> "score.check", round |-> r, entries |-> es]
  <2>1. courts[r][k] \in [1..4 -> Players]
    <3>1. courts[r] \in Layouts(Here) BY DEF Sheets, Board
    <3>2. courts[r][k] \in [1..4 -> Here] BY <3>1, Seats
    <3> QED BY <3>2 DEF Here
  <2>2. es \in Seq(Cells) /\ es # <<>>
    <3> DEFINE c == courts[r][k]
    <3> HIDE DEF c
    <3>1. c \in [1..4 -> Players] BY <2>1 DEF c
    <3>2. Entries(c, card) \in Seq(Cells) /\ Entries(c, card) # <<>> BY <3>1, EntriesAre
    <3> QED BY <3>2 DEF c
  <2> HIDE DEF es
  <2>3. m.at = "score.check" /\ Has(m, "round", Rounds) /\ Has(m, "entries", Seq(Cells))
        /\ m.entries # <<>>
    BY <2>2 DEF Has
  <2>4. Step(q, m) /\ Kept
    BY <1>4 DEF ScoreCall, es, session, record, people
  <2> HIDE DEF m
  <2>5. Carries(m, Here)
    BY <2>3 DEF Carries, Planning, Deriving
  <2> QED BY <1>3, <2>4, <2>5
<1>5. ASSUME NEW r, NEW k, NEW side \in Sides \cup {Unreported},
             CorrectCheck(q, r, k, side) \/ ReportCheck(q, k, side)
      PROVE  Sheets'
  <2>1. Kept /\ \E at \in {"report.write", "correct.write"} : \E n :
            Step(q, [at |-> at, round |-> n, court |-> k, side |-> side])
    BY <1>5 DEF CorrectCheck, ReportCheck, session, record, people
  <2>2. PICK at \in {"report.write", "correct.write"} :
            \E n : Step(q, [at |-> at, round |-> n, court |-> k, side |-> side])
    BY <2>1
  <2>3. PICK n : Step(q, [at |-> at, round |-> n, court |-> k, side |-> side])
    BY <2>2
  <2>4. Carries([at |-> at, round |-> n, court |-> k, side |-> side], Here)
    BY DEF Carries, Planning, Deriving
  <2> QED BY <1>3, <2>1, <2>3, <2>4
<1>6. CASE ReportWrite(q) \/ CorrectWrite(q)
  <2>1. /\ o.at \in {"report.write", "correct.write"}
        /\ Patch(o.round, o)
        /\ Step(q, Idle) \/ Step(q, [at |-> "retally"])
        /\ UNCHANGED <<bench, courts, scores, subs, roster>>
    BY <1>6 DEF ReportWrite, CorrectWrite, At, Done, session, people
  <2>2. o.side \in Sides \cup {Unreported}
    BY <1>1, <2>1 DEF Carries
  <2>3. Board'
    BY <2>1, <2>2, PatchOK DEF Sheets
  <2>4. Here' = Here
    BY <2>1 DEF Here
  <2>5. Carries([at |-> "retally"], Here)
    BY <1>2 DEF Empty
  <2> QED BY <1>2, <2>1, <2>3, <2>4, <2>5, CarriedThrough
<1>7. CASE ScoreCheck(q)
  <2> DEFINE m == [o EXCEPT !.at = "score.write"]
  <2>1. o.at = "score.check" /\ (Step(q, m) \/ Step(q, Idle)) /\ Kept
    BY <1>7 DEF ScoreCheck, At, Done, session, record, people
  <2>2. "at" \in DOMAIN o
    BY <1>1 DEF RequestOK
  <2>3. DOMAIN m = DOMAIN o /\ m.at = "score.write" /\ \A x \in DOMAIN o : x # "at" => m[x] = o[x]
    BY <2>2
  <2> HIDE DEF o, m
  <2>4. Has(o, "round", Rounds) /\ Has(o, "entries", Seq(Cells)) /\ o.entries # <<>>
    BY <1>1, <2>1 DEF Carries
  <2>5. Has(m, "round", Rounds) /\ Has(m, "entries", Seq(Cells)) /\ m.entries # <<>>
    BY <2>3, <2>4 DEF Has
  <2>6. Carries(m, Here)
    BY <2>3, <2>5 DEF Carries, Planning, Deriving
  <2> QED BY <1>2, <1>3, <2>1, <2>6
<1>8. CASE ScoreWrite(q)
  <2> DEFINE e == Head(o.entries)
             m == [o EXCEPT !.at = "score.check", !.entries = Tail(@)]
             n == [at |-> "rederive", round |-> o.round]
  <2>1. /\ o.at = "score.write"
        /\ scores' = [scores EXCEPT ![o.round][e.player] = e.score]
        /\ (Step(q, m) /\ Len(o.entries) > 1) \/ Step(q, n)
        /\ UNCHANGED <<bench, courts, winner, subs, roster>>
    BY <1>8 DEF ScoreWrite, At, session, people
  <2>2. o.round \in Rounds /\ o.entries \in Seq(Cells) /\ o.entries # <<>>
        /\ {"at", "round", "entries"} \subseteq DOMAIN o
    BY <1>1, <2>1 DEF Carries, Has, RequestOK
  <2>3. e \in Cells /\ Tail(o.entries) \in Seq(Cells)
        /\ (Len(o.entries) > 1 => Tail(o.entries) # <<>>)
    <3> DEFINE es == o.entries
    <3>1. es \in Seq(Cells) /\ es # <<>>
      BY <2>2
    <3> HIDE DEF es
    <3>2. Head(es) \in Cells /\ Tail(es) \in Seq(Cells) /\ Len(Tail(es)) = Len(es) - 1
      BY <3>1
    <3>3. Len(es) > 1 => Tail(es) # <<>>
      <4> DEFINE t == Tail(es)
      <4>1. t \in Seq(Cells) /\ Len(t) = Len(es) - 1 /\ Len(es) \in Nat
        BY <3>1, <3>2
      <4> HIDE DEF t
      <4>2. Len(es) > 1 => t # <<>>
        BY <4>1
      <4> QED BY <4>2 DEF t
    <3> QED BY <3>2, <3>3 DEF es
  <2>4. DOMAIN m = DOMAIN o /\ m.at = "score.check" /\ m.entries = Tail(o.entries)
        /\ m.round = o.round
    BY <2>2
  <2> HIDE DEF m, o
  <2>5. Len(o.entries) > 1 => Carries(m, Here)
    <3>1. "round" \in DOMAIN m /\ "entries" \in DOMAIN m
      BY <2>2, <2>4
    <3>2. Has(m, "round", Rounds) /\ Has(m, "entries", Seq(Cells))
      BY <2>2, <2>3, <2>4, <3>1 DEF Has
    <3> QED BY <2>3, <2>4, <3>2 DEF Carries, Planning, Deriving
  <2>6. Carries(n, Here)
    BY <2>2 DEF Carries, Has, Planning, Deriving
  <2>7. Here' = Here /\ Rounds' = Rounds
    BY <2>1 DEF Here, Rounds
  <2>8. Board'
    <3>1. e.player \in Players /\ e.score \in {0, 1, NoScore}
      BY <2>3 DEF Cells
    <3> HIDE DEF e
    <3>2. DOMAIN scores = Rounds /\ \A r \in Rounds : scores[r] \in [Players -> {0, 1, NoScore}]
      BY DEF Sheets, Board
    <3>3. DOMAIN scores' = Rounds
      BY <2>1, <3>2
    <3>4. ASSUME NEW r \in Rounds PROVE scores'[r] \in [Players -> {0, 1, NoScore}]
      <4>1. r # o.round => scores'[r] = scores[r]
        BY <2>1, <3>2
      <4>2. r = o.round => scores'[r] = [scores[r] EXCEPT ![e.player] = e.score]
        BY <2>1, <3>2
      <4> QED BY <3>1, <3>2, <4>1, <4>2
    <3> QED BY <2>1, <2>7, <3>3, <3>4 DEF Sheets, Board
  <2> QED BY <2>1, <2>5, <2>6, <2>7, <2>8, CarriedThrough
<1>9. CASE Rederive(q)
  <2>1. o.at = "rederive" /\ Kept
        /\ (Step(q, DeriveWinners(o.round, "retally")) \/ Step(q, Idle))
    BY <1>9 DEF Rederive, At, Done, session, record, people
  <2>2. o.round \in Rounds
    BY <1>1, <2>1 DEF Carries, Has
  <2>3. Carries(DeriveWinners(o.round, "retally"), Here)
    BY <2>2 DEF Carries, Has, DeriveWinners, Planning
  <2> QED BY <1>2, <1>3, <2>1, <2>3
<1>10. CASE RetallyCourts(q)
  <2> DEFINE m == [at |-> "retally.wins", want |-> WinsFromCourts]
  <2>1. Step(q, m) /\ Kept
    BY <1>10 DEF RetallyCourts, session, record, people
  <2>2. Carries(m, Here)
    BY EmptyCarries DEF Empty
  <2> QED BY <1>3, <2>1, <2>2
<1>11. CASE RetallyWins(q)
  <2> DEFINE m == [at |-> "retally.write", want |-> o.want,
                   todo |-> Picked(Order, {i \in DOMAIN Order :
                                               wins[Order[i]] # o.want[Order[i]]})]
  <2>1. Step(q, m) /\ Kept
    BY <1>11 DEF RetallyWins, session, record, people
  <2>2. Carries(m, Here)
    BY EmptyCarries DEF Empty
  <2> QED BY <1>3, <2>1, <2>2
<1>12. CASE RetallyWrite(q)
  <2> DEFINE m == [o EXCEPT !.todo = Tail(@)]
  <2>1. o.at = "retally.write" /\ (Step(q, m) \/ Step(q, Idle)) /\ Kept
    BY <1>12 DEF RetallyWrite, At, Done, session, record, people
  <2>2. "at" \in DOMAIN o
    BY <1>1 DEF RequestOK
  <2>3. m.at = "retally.write"
    BY <2>1, <2>2
  <2>4. Carries(m, Here)
    <3> HIDE DEF m
    <3> QED BY <2>3, EmptyCarries DEF Empty
  <2> QED BY <1>2, <1>3, <2>1, <2>4
<1> QED
  BY <1>4, <1>5, <1>6, <1>7, <1>8, <1>9, <1>10, <1>11, <1>12 DEF Recording

\* Arrivals, sit-outs and returns.
LEMMA RosterKeepsSheets ==
    ASSUME BooksOK, Sheets, NEW q \in Slots, Roster(q)
    PROVE  Sheets'
<1> DEFINE o == req[q]
<1>1. Carries(o, Here) /\ RequestOK(o)
  BY DEF Sheets, BooksOK
<1>2. Carries(Idle, Here) /\ Here \subseteq Players
  BY EmptyCarries DEF Idle, Empty, Here
<1>3. roster \in [Players -> {"absent", "active", "left"}]
  BY DEF BooksOK
\* Somebody comes, or comes back: the sheets hold no fewer.
<1>4. ASSUME Here \subseteq Here', UNCHANGED <<bench, courts, winner, scores, subs>>
      PROVE  Board'
  <2>1. Seq(Here) \subseteq Seq(Here') /\ Layouts(Here) \subseteq Layouts(Here')
    BY <1>4, MoreSeats
  <2>2. Rounds' = Rounds
    BY DEF Rounds
  <2> HIDE DEF Here
  <2>3. ASSUME NEW r \in Rounds
        PROVE  /\ courts[r] \in Layouts(Here')
               /\ winner[r] \in [DOMAIN courts[r] -> Sides \cup {Unreported}]
               /\ scores[r] \in [Players -> {0, 1, NoScore}]
    BY <2>1 DEF Sheets, Board
  <2>4. bench \in Seq(Here') /\ DOMAIN winner = Rounds /\ DOMAIN scores = Rounds
        /\ \A p \in DOMAIN subs : subs[p].by \in Here'
    BY <1>4, <2>1 DEF Sheets, Board
  <2> QED BY <1>4, <2>2, <2>3, <2>4 DEF Board
<1>5. CASE JoinInsert(q)
  <2> DEFINE in == NextNewcomer
             m == [at |-> "join", ids |-> <<in>>]
             n == [o EXCEPT !.ids = Append(@, in)]
  <2>1. /\ Newcomers # {} /\ Arrive(in)
        /\ Step(q, m) \/ (o.at = "join" /\ Step(q, n))
        /\ UNCHANGED <<bench, courts, winner, scores, subs>>
    BY <1>5 DEF JoinInsert, At, session, record
  <2>2. in \in Players
    BY <2>1, NewcomerIsAway
  <2>3. roster' = [roster EXCEPT ![in] = "active"]
    BY <2>1 DEF Arrive
  <2>4. Here \subseteq Here' /\ in \in Here'
    <3> HIDE DEF in
    <3> QED BY <1>3, <2>2, <2>3 DEF Here
  <2>5. Carries(m, Here')
    <3>1. <<in>> \in Seq(Here')
      <4> HIDE DEF in
      <4> QED BY <2>4
    <3> QED BY <3>1 DEF Carries, Has, Planning, Deriving
  <2>6. o.at = "join" => Carries(n, Here')
    <3> SUFFICES ASSUME o.at = "join" PROVE Carries(n, Here')
      OBVIOUS
    <3>1. Has(o, "ids", Seq(Here)) /\ "at" \in DOMAIN o
      BY <1>1 DEF Carries, RequestOK
    <3> HIDE DEF in
    <3>2. Append(o.ids, in) \in Seq(Here')
      <4>1. o.ids \in Seq(Here')
        BY <2>4, <3>1, MoreSeats DEF Has
      <4> QED BY <2>4, <4>1
    <3>3. DOMAIN n = DOMAIN o /\ n.at = o.at /\ n.ids = Append(o.ids, in)
      BY <3>1 DEF Has
    <3> HIDE DEF n, o
    <3>4. Has(n, "ids", Seq(Here'))
      BY <3>1, <3>2, <3>3 DEF Has
    <3> QED BY <3>3, <3>4 DEF Carries, Planning, Deriving
  <2>7. Board'
    BY <1>4, <2>1, <2>4
  <2> HIDE DEF m, n, in
  <2> QED BY <2>1, <2>4, <2>5, <2>6, <2>7, CarriedThrough
<1>6. CASE JoinBench(q)
  <2>1. /\ o.at = "join" /\ Step(q, Idle)
        /\ bench' = bench \/ bench' = bench \o o.ids
        /\ UNCHANGED <<courts, winner, scores, subs, roster>>
    BY <1>6 DEF JoinBench, At, Done, record, people
  <2>2. o.ids \in Seq(Here) /\ bench \in Seq(Here)
    BY <1>1, <2>1 DEF Carries, Has, Sheets, Board
  <2>3. bench' \in Seq(Here)
    <3>1. bench \o o.ids \in Seq(Here)
      BY <2>2, ConcatHolds
    <3> QED BY <2>1, <2>2, <3>1
  <2>4. Here' = Here /\ Rounds' = Rounds
    BY <2>1 DEF Here, Rounds
  <2>5. Board'
    BY <2>1, <2>3, <2>4 DEF Sheets, Board
  <2> QED BY <1>2, <2>1, <2>4, <2>5, CarriedThrough
<1>7. CASE RosterWrite(q)
  <2>1. /\ o.at = "roster.write" /\ Step(q, Idle)
        /\ roster' = [roster EXCEPT ![o.player] = o.now]
        /\ UNCHANGED <<bench, courts, winner, scores, subs>>
    BY <1>7 DEF RosterWrite, At, Done, session, record
  <2>2. o.now \in {"active", "left"}
    BY <1>1, <2>1 DEF RequestOK
  <2>3. Here \subseteq Here'
    <3> HIDE DEF o
    <3> QED BY <1>3, <2>1, <2>2 DEF Here
  <2>4. Carries(Idle, Here')
    BY EmptyCarries DEF Idle, Empty
  <2> QED BY <1>4, <2>1, <2>3, <2>4, CarriedThrough
<1>8. ASSUME NEW p \in Players, OutCheck(q, p) \/ BackCheck(q, p) PROVE Sheets'
  <2>1. /\ UNCHANGED <<bench, courts, winner, scores, subs, roster>>
        /\ \E now : Step(q, [at |-> "roster.write", player |-> p, now |-> now])
    BY <1>8 DEF OutCheck, BackCheck, session, record, people
  <2>2. PICK now : Step(q, [at |-> "roster.write", player |-> p, now |-> now])
    BY <2>1
  <2>3. Carries([at |-> "roster.write", player |-> p, now |-> now], Here)
    BY EmptyCarries DEF Empty
  <2> QED BY <2>1, <2>2, <2>3, CarriedOn
<1> QED BY <1>5, <1>6, <1>7, <1>8 DEF Roster

\* Writing somebody in for somebody else keeps every place.
LEMMA SwapsSeq ==
    ASSUME NEW T, NEW s \in Seq(T), NEW out, NEW in \in T
    PROVE  /\ Swap(s, out, in) \in Seq(T) /\ DOMAIN Swap(s, out, in) = DOMAIN s
           /\ \A i \in DOMAIN s : Swap(s, out, in)[i] = IF s[i] = out THEN in ELSE s[i]
<1> DEFINE f == [i \in DOMAIN s |-> IF s[i] = out THEN in ELSE s[i]]
<1>1. Len(s) \in Nat /\ DOMAIN s = 1..Len(s)
  OBVIOUS
<1>2. f \in [1..Len(s) -> T]
  BY <1>1
<1>3. f \in Seq(T)
  BY <1>1, <1>2
<1>4. Swap(s, out, in) = f \o <<>>
  BY DEF Swap
<1>5. DOMAIN f = DOMAIN s /\ \A i \in DOMAIN s : f[i] = IF s[i] = out THEN in ELSE s[i]
  OBVIOUS
<1> HIDE DEF f
<1>6. f \o <<>> = f
  BY <1>3, ConcatEmptySeq
<1> QED BY <1>3, <1>4, <1>5, <1>6

LEMMA SwapsCourt ==
    ASSUME NEW T, NEW c \in [1..4 -> T], NEW out, NEW in \in T
    PROVE  /\ Swap(c, out, in) \in [1..4 -> T]
           /\ \A i \in 1..4 : Swap(c, out, in)[i] = IF c[i] = out THEN in ELSE c[i]
<1>1. c \in Seq(T) /\ DOMAIN c = 1..4
  <2>1. c = [i \in 1..4 |-> c[i]] OBVIOUS
  <2> QED BY <2>1
<1> DEFINE t == Swap(c, out, in)
<1>2. /\ t \in Seq(T) /\ DOMAIN t = 1..4
      /\ \A i \in 1..4 : t[i] = IF c[i] = out THEN in ELSE c[i]
  <2>1. /\ t \in Seq(T) /\ DOMAIN t = DOMAIN c
        /\ \A i \in DOMAIN c : t[i] = IF c[i] = out THEN in ELSE c[i]
    BY <1>1, SwapsSeq
  <2> HIDE DEF t
  <2> QED BY <1>1, <2>1
<1> HIDE DEF t
<1>3. t \in [1..4 -> T]
  <2>1. \A i \in 1..4 : c[i] \in T OBVIOUS
  <2>2. \A i \in 1..4 : t[i] \in T BY <1>2, <2>1
  <2>3. t = [i \in 1..4 |-> t[i]] BY <1>2
  <2> QED BY <2>2, <2>3
<1> QED BY <1>2, <1>3 DEF t

SwapAll(cs, out, in) == [k \in DOMAIN cs |-> Swap(cs[k], out, in)] \o <<>>

LEMMA SwapsLayout ==
    ASSUME NEW T, NEW cs \in Layouts(T), NEW out, NEW in \in T
    PROVE  /\ SwapAll(cs, out, in) \in Layouts(T)
           /\ DOMAIN SwapAll(cs, out, in) = DOMAIN cs
           /\ \A k \in DOMAIN cs, i \in 1..4 :
                  SwapAll(cs, out, in)[k][i] = IF cs[k][i] = out THEN in ELSE cs[k][i]
<1> DEFINE W == [1..4 -> T]
           f == [k \in DOMAIN cs |-> Swap(cs[k], out, in)]
<1>1. Len(cs) \in Nat /\ DOMAIN cs = 1..Len(cs) /\ \A k \in DOMAIN cs : cs[k] \in [1..4 -> T]
  BY Seats
<1>2. ASSUME NEW k \in DOMAIN cs
      PROVE  f[k] \in W /\ \A i \in 1..4 : f[k][i] = IF cs[k][i] = out THEN in ELSE cs[k][i]
  <2> DEFINE c == cs[k]
  <2>1. c \in [1..4 -> T] BY <1>1
  <2>2. f[k] = Swap(c, out, in) OBVIOUS
  <2> HIDE DEF c, f, W
  <2>3. /\ Swap(c, out, in) \in [1..4 -> T]
        /\ \A i \in 1..4 : Swap(c, out, in)[i] = IF c[i] = out THEN in ELSE c[i]
    BY <2>1, SwapsCourt
  <2>4. f[k] \in W /\ \A i \in 1..4 : f[k][i] = IF c[i] = out THEN in ELSE c[i]
    BY <2>2, <2>3 DEF W
  <2> QED BY <2>4 DEF c
<1>3. DOMAIN f = DOMAIN cs /\ f = [k \in DOMAIN cs |-> f[k]]
  OBVIOUS
<1> HIDE DEF f, W
<1>4. f \in Seq(W)
  <2>1. f \in [1..Len(cs) -> W] BY <1>1, <1>2, <1>3
  <2> QED BY <1>1, <2>1
<1>5. f \o <<>> = f
  BY <1>4, ConcatEmptySeq
<1>6. SwapAll(cs, out, in) = f
  BY <1>5 DEF SwapAll, f
<1>7. f \in Layouts(T)
  BY <1>4 DEF Layouts, W
<1> QED BY <1>2, <1>3, <1>6, <1>7

\* A substitute takes over every place the sheets still have to come.
LEMMA SubstituteKeepsSheets ==
    ASSUME BooksOK, Sheets, NEW out \in Players, Substitute(out)
    PROVE  Sheets'
<1> DEFINE in == NextNewcomer
           from == EffectiveRound(out)
<1>1. /\ Newcomers # {}
      /\ courts' = [r \in Rounds |-> IF r < from THEN courts[r] ELSE SwapAll(courts[r], out, in)]
      /\ bench' = Swap(bench, out, in)
      /\ subs' = [p \in (DOMAIN subs) \cup {out} |->
                     IF p = out THEN [by |-> in, from |-> from] ELSE subs[p]]
      /\ roster' = [roster EXCEPT ![in] = "active", ![out] = "left"]
      /\ UNCHANGED <<winner, scores, req>>
  BY DEF Substitute, SwapAll
<1>2. in \in Players
  BY <1>1, NewcomerIsAway
<1> HIDE DEF in, from
<1>3. Here \subseteq Here' /\ in \in Here'
  BY <1>1, <1>2 DEF BooksOK, Here
<1> DEFINE H == Here
           T == Here'
<1>4. Seq(H) \subseteq Seq(T) /\ Layouts(H) \subseteq Layouts(T)
  BY <1>3, MoreSeats
<1>5. /\ bench \in Seq(H) /\ \A p \in DOMAIN subs : subs[p].by \in H
      /\ DOMAIN winner = Rounds /\ DOMAIN scores = Rounds
      /\ \A r \in Rounds : /\ courts[r] \in Layouts(H)
                           /\ winner[r] \in [DOMAIN courts[r] -> Sides \cup {Unreported}]
                           /\ scores[r] \in [Players -> {0, 1, NoScore}]
  BY DEF Sheets, Board
<1>6. \A p \in Slots : Carries(req[p], T)
  BY <1>3, CarriesMore DEF Sheets
<1>7. in \in T /\ H \subseteq T
  BY <1>3
<1>8. Slots' = Slots /\ Rounds' = Rounds
  BY DEF Slots, Rounds
<1>9. ASSUME NEW r \in Rounds
      PROVE  courts'[r] \in Layouts(T) /\ DOMAIN courts'[r] = DOMAIN courts[r]
  <2>1. courts[r] \in Layouts(T)
    BY <1>4, <1>5
  <2>2. SwapAll(courts[r], out, in) \in Layouts(T)
        /\ DOMAIN SwapAll(courts[r], out, in) = DOMAIN courts[r]
    <3> DEFINE cs == courts[r]
    <3> HIDE DEF cs, T, H
    <3>1. cs \in Layouts(T) BY <2>1 DEF cs
    <3>2. SwapAll(cs, out, in) \in Layouts(T) /\ DOMAIN SwapAll(cs, out, in) = DOMAIN cs
      BY <1>7, <3>1, SwapsLayout
    <3> QED BY <3>2 DEF cs
  <2> QED BY <1>1, <2>1, <2>2
<1>10. bench' \in Seq(T)
  <2> HIDE DEF T, H
  <2> QED BY <1>1, <1>4, <1>5, <1>7, SwapsSeq
<1>11. \A p \in DOMAIN subs' : subs'[p].by \in T
  <2>1. ASSUME NEW p \in DOMAIN subs' PROVE subs'[p].by \in T
    <3>1. CASE p = out
      <4>1. subs'[p].by = in BY <1>1, <3>1
      <4> QED BY <1>7, <4>1
    <3>2. CASE p # out
      <4>1. subs'[p] = subs[p] /\ p \in DOMAIN subs BY <1>1, <3>2
      <4> QED BY <1>5, <1>7, <4>1
    <3> QED BY <3>1, <3>2
  <2> QED BY <2>1
<1>12. Board'
  <2> HIDE DEF H
  <2>1. ASSUME NEW r \in Rounds
        PROVE  /\ courts'[r] \in Layouts(T)
               /\ winner'[r] \in [DOMAIN courts'[r] -> Sides \cup {Unreported}]
               /\ scores'[r] \in [Players -> {0, 1, NoScore}]
    BY <1>1, <1>5, <1>9
  <2> QED BY <1>1, <1>5, <1>8, <1>10, <1>11, <2>1 DEF Board
<1>13. \A q \in Slots' : Carries(req[q], Here)'
  BY <1>1, <1>6, <1>8
<1> QED BY <1>12, <1>13 DEF Sheets

LEMMA SheetsKept ==
    ASSUME BooksOK, Sheets, [Next]_vars
    PROVE  Sheets'
<1>1. ASSUME NEW q \in Slots, Lifecycle(q) PROVE Sheets'
  BY <1>1, ReadsKeepSheets, PersistKeepsSheets, PlansKeepSheets, WriteKeepsSheets,
     EndingKeepsSheets DEF Lifecycle
<1>2. CASE UNCHANGED vars
  BY <1>2 DEF vars, session, record, people, Sheets, Board, Here, Slots, Rounds
<1> QED
  BY <1>1, <1>2, RecordingKeepsSheets, RosterKeepsSheets, SubstituteKeepsSheets,
     ClockKeepsSheets DEF Next

LEMMA SheetsInit == Init => Sheets
<1> SUFFICES ASSUME Init PROVE Sheets
  OBVIOUS
<1> DEFINE first == SubSeq(Order, 1, Starters)
           open == SeedCourts(first, MaxCourts)
           F == ToSet(first)
<1>1. /\ bench = open.bench
      /\ courts = [r \in Rounds |-> IF r = 1 THEN open.courts ELSE <<>>]
      /\ winner = [r \in Rounds |-> IF r = 1 THEN Fresh(open.courts) ELSE <<>>]
      /\ scores = [r \in Rounds |-> [p \in Players |-> NoScore]]
      /\ roster = [p \in Players |-> IF p \in F THEN "active" ELSE "absent"]
      /\ subs = [p \in {} |-> Blank] /\ req = [q \in Slots |-> Idle]
  BY DEF Init
<1>2. first \in Seq(Players) /\ F \subseteq Players
  <2>1. first \in Seq(Players)
    <3>1. Starters \in Nat /\ Starters <= Len(Order)
      BY OrderFacts
    <3> QED BY <3>1, OrderFacts, SubSeqHolds
  <2> HIDE DEF first
  <2> QED BY <2>1 DEF ToSet
<1>3. first \in Seq(F)
  <2> HIDE DEF first
  <2>1. \A i \in 1..Len(first) : first[i] \in F
    BY <1>2 DEF ToSet
  <2>2. first = [i \in 1..Len(first) |-> first[i]] /\ Len(first) \in Nat
    BY <1>2
  <2> QED BY <2>1, <2>2
<1>4. Here = F
  BY <1>1, <1>2 DEF Here
<1> HIDE DEF F
<1>5. open.courts \in Layouts(F) /\ open.bench \in Seq(F)
  <2>1. Blank \notin F
    BY <1>2, OrderFacts
  <2>2. IsInjective(first)
    <3>1. Starters \in Nat /\ Starters <= Len(Order)
      BY OrderFacts
    <3> QED BY <3>1, OrderFacts, SubSeqHolds
  <2>3. MaxCourts \in Nat
    OBVIOUS
  <2> HIDE DEF first
  <2>4. Accommodated(SeedCourts(first, MaxCourts), F, ToSet(first), MaxCourts)
    BY <1>3, <2>1, <2>2, <2>3, RoundOneSeatsEverybodyOnce
  <2> QED BY <2>4 DEF Accommodated
<1> HIDE DEF open
<1>7. Fresh(open.courts) \in [DOMAIN open.courts -> Sides \cup {Unreported}]
  BY <1>5, FreshIs
<1>8. <<>> \in Layouts(F) /\ <<>> \in [DOMAIN <<>> -> Sides \cup {Unreported}]
  BY DEF Layouts
<1>9. ASSUME NEW r \in Rounds
      PROVE  /\ courts[r] \in Layouts(F)
             /\ winner[r] \in [DOMAIN courts[r] -> Sides \cup {Unreported}]
             /\ scores[r] \in [Players -> {0, 1, NoScore}]
  BY <1>1, <1>5, <1>7, <1>8
<1>10. DOMAIN winner = Rounds /\ DOMAIN scores = Rounds /\ DOMAIN subs = {}
  BY <1>1
<1>11. Board
  BY <1>1, <1>4, <1>5, <1>9, <1>10 DEF Board
<1>12. \A q \in Slots : Carries(req[q], Here)
  BY <1>1, EmptyCarries DEF Idle, Empty
<1> QED BY <1>11, <1>12 DEF Sheets

LEMMA SheetsInvariant == Spec => []Sheets
<1>1. BooksOK /\ Sheets /\ [Next]_vars => Sheets'
  BY SheetsKept
<1> QED
  BY <1>1, SheetsInit, BooksInvariant, PTL DEF Spec

\* Every column of every table, and everything a request carries from one
\* statement to the next, holds a value of its kind: courts of four players,
\* a result for each court, a plan that seats players of the night
\* (AdvanceRotationSession and everything that interleaves with it).
THEOREM TypeOKHolds == Spec => []TypeOK
<1>1. BooksOK /\ Sheets => TypeOK
  BY MeansSheetsOK DEF TypeOK
<1> QED
  BY <1>1, SheetsInvariant, BooksInvariant, PTL

LEMMA SeatsOf ==
    ASSUME NEW S, NEW cs \in Layouts(S)
    PROVE  Seated(cs) = {cs[k][i] : k \in DOMAIN cs, i \in 1..4}
<1>1. \A k \in DOMAIN cs, i \in 1..4 : cs[k][i] \in Seated(cs)
  BY Seats
<1>2. ASSUME NEW p \in Seated(cs) PROVE \E k \in DOMAIN cs, i \in 1..4 : p = cs[k][i]
  <2>1. PICK s \in (DOMAIN cs) \X (1..4) : p = cs[s[1]][s[2]]
    BY DEF Seated, SeatRefs
  <2> QED BY <2>1
<1> QED BY <1>1, <1>2

LEMMA OnCourt ==
    ASSUME BooksOK, Sheets
    PROVE  Seated(courts[round]) \subseteq Players
<1>1. courts[round] \in Layouts(Here) /\ Here \subseteq Players
  BY DEF BooksOK, Sheets, Board, Here
<1> DEFINE cs == courts[round]
<1>2. Seated(cs) \subseteq Here
  <2> HIDE DEF cs
  <2> QED BY <1>1, Seats DEF cs
<1> QED BY <1>1, <1>2

LEMMA OnCourtNext ==
    ASSUME BooksOK', Sheets'
    PROVE  Seated(courts[round])' \subseteq Players'
<1>1. courts[round]' \in Layouts(Here') /\ Here' \subseteq Players'
  BY DEF BooksOK, Sheets, Board, Here
<1> DEFINE cs == courts[round]'
<1>2. Seated(cs) \subseteq Here'
  <2> HIDE DEF cs
  <2> QED BY <1>1, Seats DEF cs
<1>3. Seated(courts[round])' = Seated(cs)
  BY DEF Seated, SeatRefs
<1> QED BY <1>1, <1>2, <1>3

\* What a step does, with whoever steps in.
LEMMA Happens ==
    ASSUME BooksOK, [Next]_vars
    PROVE  \/ Still \/ Rotates \/ Ends \/ Turns \/ Restarts
           \/ \E out \in Players : Substitute(out)
<1>1. CASE \E out \in Players : Substitute(out)
  BY <1>1
<1>2. ASSUME ~\E out \in Players : Substitute(out)
      PROVE  Still \/ Rotates \/ Ends \/ Turns \/ Restarts
  BY <1>2, Moved
<1> QED BY <1>1, <1>2

-----------------------------------------------------------------------------
(* The night the room sees.                                                 *)

\* Seats of the round in play, before and after a substitution: nothing
\* changed, or out's seat is in's.
LEMMA SubstituteHandsOver ==
    ASSUME BooksOK, Sheets, NEW out \in Players, Substitute(out)
    PROVE  \/ UNCHANGED Seated(courts[round])
           \/ /\ out \in Seated(courts[round]) /\ NextNewcomer \in Players
              /\ NextNewcomer \notin Seated(courts[round])
              /\ Seated(courts[round])'
                   = (Seated(courts[round]) \ {out}) \cup {NextNewcomer}
<1> DEFINE in == NextNewcomer
           from == EffectiveRound(out)
           cs == courts[round]
           new == SwapAll(cs, out, in)
<1>1. /\ Newcomers # {} /\ round' = round
      /\ courts' = [r \in Rounds |-> IF r < from THEN courts[r] ELSE SwapAll(courts[r], out, in)]
  BY DEF Substitute, SwapAll
<1>2. in \in Players /\ roster[in] = "absent"
  BY <1>1, NewcomerIsAway
<1> HIDE DEF in, from
<1>3. round \in Rounds /\ cs \in Layouts(Here)
  BY DEF BooksOK, Sheets, Board
<1> DEFINE T == Here \cup {in}
<1>4. Seated(cs) \subseteq Here /\ in \notin Seated(cs)
  <2>1. Seated(cs) \subseteq Here
    <3> HIDE DEF cs
    <3> QED BY <1>3, Seats
  <2>2. in \notin Here
    BY <1>2 DEF Here
  <2> QED BY <2>1, <2>2
<1>5. cs \in Layouts(T) /\ in \in T
  <2>1. Here \subseteq T /\ in \in T OBVIOUS
  <2> HIDE DEF T
  <2> QED BY <1>3, <2>1, MoreSeats
<1>6. Seated(courts[round])' = IF round < from THEN Seated(cs) ELSE Seated(new)
  <2> HIDE DEF cs, new
  <2>1. courts'[round] = IF round < from THEN cs ELSE new
    BY <1>1, <1>3 DEF cs, new
  <2>2. Seated(courts[round])' = Seated(courts'[round])
    BY <1>1 DEF Seated, SeatRefs
  <2> QED BY <2>1, <2>2
<1>7. /\ new \in Layouts(T) /\ DOMAIN new = DOMAIN cs
      /\ \A k \in DOMAIN cs, i \in 1..4 : new[k][i] = IF cs[k][i] = out THEN in ELSE cs[k][i]
  <2> HIDE DEF cs, T
  <2> QED BY <1>5, SwapsLayout
<1> HIDE DEF new, cs, T
<1>8. /\ Seated(cs) = {cs[k][i] : k \in DOMAIN cs, i \in 1..4}
      /\ Seated(new) = {new[k][i] : k \in DOMAIN cs, i \in 1..4}
  BY <1>5, <1>7, SeatsOf
<1>9. CASE round < from
  BY <1>6, <1>9 DEF cs
<1>10. CASE ~(round < from) /\ out \notin Seated(cs)
  <2>1. \A k \in DOMAIN cs, i \in 1..4 : new[k][i] = cs[k][i]
    BY <1>7, <1>8, <1>10
  <2>2. Seated(new) = Seated(cs)
    BY <1>8, <2>1
  <2> QED BY <1>6, <1>10, <2>2 DEF cs
<1>11. CASE ~(round < from) /\ out \in Seated(cs)
  <2>1. Seated(new) \subseteq (Seated(cs) \ {out}) \cup {in}
    BY <1>7, <1>8
  <2>2. ASSUME NEW p \in Seated(cs), p # out PROVE p \in Seated(new)
    BY <1>7, <1>8, <2>2
  <2>3. in \in Seated(new)
    BY <1>7, <1>8, <1>11
  <2>4. Seated(new) = (Seated(cs) \ {out}) \cup {in}
    BY <2>1, <2>2, <2>3
  <2> QED BY <1>2, <1>4, <1>6, <1>11, <2>4 DEF cs, in
<1> QED BY <1>9, <1>10, <1>11

\* However the statements of all the handlers interleave, what happens is a
\* night of RotationNight: rounds one after the other, a game for exactly those
\* on court when one closes, nothing while paused but handovers of seats, and
\* a finished night untouched until it is reopened (the stored procedures and
\* conditional patches behind Next).
THEOREM NightImplemented == Spec => IsANight
<1> DEFINE Phase == CASE status = "live" -> "playing" [] status = "done" -> "over"
                      [] OTHER -> status
           On == Seated(courts[round])
<1>1. BooksOK /\ Sheets /\ Init => Room!Init
  <2> SUFFICES ASSUME BooksOK, Sheets, Init PROVE Room!Init
    OBVIOUS
  <2>1. On \subseteq Players
    BY OnCourt
  <2> QED BY <2>1 DEF Init, Room!Init
<1>2. ASSUME BooksOK, Sheets, Sheets', BooksOK', [Next]_vars
      PROVE  [Room!Next]_(Room!night)
  <2>0. On \subseteq Players /\ On' \subseteq Players /\ Players' = Players
    <3>1. On \subseteq Players BY <1>2, OnCourt
    <3>2. On' \subseteq Players' BY <1>2, OnCourtNext
    <3> QED BY <3>1, <3>2 DEF Players
  <2>1. CASE Still
    <3>1. On' = On BY <2>1 DEF Still, Seated, SeatRefs
    <3> QED BY <2>1, <3>1 DEF Still, Room!night
  <2>2. CASE Rotates
    <3>1. Room!Close
      <4>1. /\ status = "live" /\ status' = "live" /\ round' = round + 1 /\ Tally(round)
            /\ round' \in Rounds
        BY <1>2, <2>2 DEF Rotates, BooksOK
      <4>2. round < MaxRounds
        BY <1>2, <4>1 DEF BooksOK, Rounds
      <4>3. Room!CreditGames
        BY <1>2, <4>1 DEF Tally, CountClosing, Room!CreditGames, BooksOK
      <4> QED BY <2>0, <4>1, <4>2, <4>3 DEF Room!Close
    <3> QED BY <3>1 DEF Room!Next
  <2>3. CASE Ends
    <3>1. /\ status \in {"live", "paused"} /\ status' = "done" /\ Tally(round)
          /\ UNCHANGED <<round, courts>>
      BY <2>3 DEF Ends
    <3>2. Room!CreditGames
      BY <1>2, <3>1 DEF Tally, CountClosing, Room!CreditGames, BooksOK
    <3>3. On' = On BY <3>1 DEF Seated, SeatRefs
    <3>4. Room!End
      BY <3>1, <3>2, <3>3 DEF Room!End
    <3> QED BY <3>4 DEF Room!Next
  <2>4. CASE Turns
    <3>1. On' = On BY <2>4 DEF Turns, Seated, SeatRefs
    <3>2. Room!Pause \/ Room!Resume \/ UNCHANGED Room!night
      BY <2>4, <3>1 DEF Turns, Room!Pause, Room!Resume, Room!night
    <3> QED BY <3>2 DEF Room!Next
  <2>5. CASE Restarts
    <3>1. On' = On BY <2>5 DEF Restarts, Seated, SeatRefs
    <3>2. Room!Reopen
      BY <2>5, <3>1 DEF Restarts, Room!Reopen
    <3> QED BY <3>2 DEF Room!Next
  <2>6. ASSUME NEW out \in Players, Substitute(out) PROVE [Room!Next]_(Room!night)
    <3>1. status \in {"live", "paused"} /\ UNCHANGED <<status, round, games>>
      BY <2>6 DEF Substitute, Running, tally
    <3>2. CASE UNCHANGED On
      BY <3>1, <3>2 DEF Room!night
    <3>3. CASE /\ out \in On /\ NextNewcomer \in Players /\ NextNewcomer \notin On
               /\ On' = (On \ {out}) \cup {NextNewcomer}
      <4>1. Room!HandOver(out, NextNewcomer)
        <5> HIDE DEF On
        <5>1. Phase # "over" /\ Phase' = Phase BY <3>1
        <5> QED BY <3>1, <3>3, <5>1 DEF Room!HandOver, On
      <4> QED BY <3>3, <4>1 DEF Room!Next
    <3> QED BY <1>2, <2>6, <3>2, <3>3, SubstituteHandsOver
  <2> QED BY <1>2, <2>1, <2>2, <2>3, <2>4, <2>5, <2>6, Happens
<1> QED
  BY <1>1, <1>2, SheetsInvariant, BooksInvariant, PTL DEF Spec, IsANight, Room!Spec

-----------------------------------------------------------------------------
(* Seats, when arrivals and substitutions keep clear of the advances.       *)

\* Nobody is on the way from their roster row to the queue when an advance
\* writes its round, and a night that has seen a substitution is not reopened.
Orderly ==
    /\ \A q, s \in Slots : ~(At(q, "adv.write") /\ At(s, "join"))
    /\ DOMAIN subs = {} \/ Reopens = 0

\* An advance that has read who is gone, and has not written its round.
Committed == {"adv.active", "adv.plays", "adv.recheck", "adv.write"}

\* No substitution falls between the moment an advance reads who is gone and
\* the moment it writes, nor before the last statement of the return of whoever
\* was replaced.
HandsOff ==
    subs' # subs => \A q \in Slots :
        /\ req[q].at \notin Committed
        /\ At(q, "roster.write") => ~(req[q].now = "active" /\ req[q].player \in DOMAIN subs')

By   == [p \in DOMAIN subs |-> subs[p].by]
Away == {p \in Players : roster[p] = "absent"}

\* The courts and the queue in play give everybody one place.
BoardFits ==
    /\ LayoutAndBenchOK(courts[round], bench)
    /\ \A r \in 1..round : courts[r] # <<>>

\* No two of those on a sheet are of one line of substitutes.
OneOfEachLine == \A r \in 1..round : HasLine(By, Seated(courts[r]), Away, Players)

\* Whoever was replaced has left, and their seat.
ReplacedHaveLeft ==
    /\ Running => DOMAIN subs \subseteq Gone
    /\ \A p \in DOMAIN subs : subs[p].from <= round => p \notin Seated(courts[round])

\* The statements of an advance before it has a plan; with a plan.
Reading == Planning \ {"adv.recheck", "adv.write"}

\* The plan gives everybody one place, and has nobody in it who was replaced.
Opens(m) ==
    /\ LayoutAndBenchOK(m.courts, m.bench)
    /\ m.courts # <<>>
    /\ Running => People(m.courts, m.bench) \cap DOMAIN subs = {}

\* The courts read fit the queue read, and hold nobody's place twice.
Fits(m) ==
    /\ LayoutAndBenchOK(m.courts, m.bench)
    /\ m.courts # <<>>
    /\ HasLine(By, Seated(m.courts), Away, Players)

\* What a request has read may be old, but fits together.
InStep(m) ==
    /\ m.at \in Planning =>
           m.round <= round /\ ("active" \in DOMAIN m => IsInjective(m.active))
    /\ m.at = "adv.courts" => LayoutAndBenchOK(courts[m.round], m.bench)
    /\ m.at \in Reading \ {"adv.courts"} => Fits(m)
    /\ m.at \in {"adv.gone", "adv.active", "adv.plays"} =>
           HasLine(m.takeover, Seated(m.courts), {}, Players)
    /\ m.at \in {"adv.active", "adv.plays"} =>
           "gone" \in DOMAIN m /\ (Running => DOMAIN subs \subseteq m.gone)
    /\ m.at \in {"adv.recheck", "adv.write"} => Opens(m)
    /\ m.at = "roster.write" /\ m.now = "active" /\ Running => m.player \notin DOMAIN subs

\* Whoever is on the way to the queue is nowhere yet, and on one way only.
Arriving ==
    /\ \A q \in Slots : At(q, "join") =>
           /\ IsInjective(req[q].ids)
           /\ ToSet(req[q].ids) \cap People(courts[round], bench) = {}
    /\ \A q, s \in Slots : At(q, "join") /\ At(s, "join") /\ q # s =>
           ToSet(req[q].ids) \cap ToSet(req[s].ids) = {}

Seating ==
    /\ BoardFits /\ OneOfEachLine /\ ReplacedHaveLeft /\ Arriving
    /\ \A q \in Slots : InStep(req[q])

\* People who were never replaced are of different lines.
LEMMA FirstsHaveLines ==
    ASSUME NEW S, NEW take, NEW crowd, NEW away, HasLine(take, crowd, away, S),
           NEW crowd2, crowd2 \subseteq S \ DOMAIN take, NEW away2, away2 \subseteq away
    PROVE  HasLine(take, crowd2, away2, S)
<1>1. PICK rep : Line(rep, take, crowd, away, S)
  BY DEF HasLine
<1>2. Line(rep, take, crowd2, away2, S)
  BY <1>1 DEF Line
<1> QED BY <1>2 DEF HasLine

LEMMA LessAway ==
    ASSUME NEW S, NEW take, NEW crowd, NEW away, HasLine(take, crowd, away, S),
           NEW away2, away2 \subseteq away
    PROVE  HasLine(take, crowd, away2, S)
<1>1. PICK rep : Line(rep, take, crowd, away, S)
  BY DEF HasLine
<1>2. Line(rep, take, crowd, away2, S)
  BY <1>1 DEF Line
<1> QED BY <1>2 DEF HasLine

LEMMA ElsewhereInStep ==
    ASSUME NEW m, m.at \notin Planning \cup {"roster.write"}
    PROVE  InStep(m)
BY DEF InStep, Planning, Reading

\* A request moves on, and neither the board nor the roster changes.
LEMMA SeatingOn ==
    ASSUME BooksOK, Seating, NEW q \in Slots, NEW m, Step(q, m), InStep(m), m.at # "join",
           UNCHANGED <<bench, courts, round, roster, subs>>, Running' => Running
    PROVE  Seating'
<1>1. /\ Slots' = Slots /\ Players' = Players /\ By' = By /\ Away' = Away /\ Gone' = Gone
  BY DEF Slots, Players, By, Away, Gone
<1>2. BoardFits' /\ OneOfEachLine' /\ ReplacedHaveLeft'
  <2>1. BoardFits' BY DEF Seating, BoardFits
  <2>2. OneOfEachLine'
    <3>1. \A r \in 1..round : HasLine(By, Seated(courts[r]), Away, Players)
      BY DEF Seating, OneOfEachLine
    <3> QED BY <1>1, <3>1 DEF OneOfEachLine
  <2>3. ReplacedHaveLeft' BY <1>1 DEF Seating, ReplacedHaveLeft
  <2> QED BY <2>1, <2>2, <2>3
<1>3. \A p \in Slots : req'[p] = IF p = q THEN m ELSE req[p]
  BY DEF Step, BooksOK
<1>4. ASSUME NEW n, InStep(n), NEW p, req'[p] = n PROVE InStep(req[p])'
  <2>1. Fits(n) => Fits(req[p])'
    BY <1>1, <1>4 DEF Fits
  <2> QED BY <1>1, <1>4, <2>1 DEF InStep, Opens
<1>5. \A p \in Slots : InStep(req[p])'
  BY <1>3, <1>4 DEF Seating
<1>6. Arriving'
  BY <1>1, <1>3 DEF Seating, Arriving, At
<1> QED BY <1>1, <1>2, <1>5, <1>6 DEF Seating

\* A read leaves what was read before.
LEMMA ReadsOn ==
    ASSUME NEW o, InStep(o), o.at \in Reading \ {"adv.courts"},
           NEW m, m.at \in Reading \ {"adv.courts"},
           m.round = o.round, m.bench = o.bench, m.courts = o.courts,
           "active" \in DOMAIN m => IsInjective(m.active),
           m.at \in {"adv.gone", "adv.active", "adv.plays"} =>
               HasLine(m.takeover, Seated(m.courts), {}, Players),
           m.at \in {"adv.active", "adv.plays"} =>
               "gone" \in DOMAIN m /\ (Running => DOMAIN subs \subseteq m.gone)
    PROVE  InStep(m)
<1>1. o.at \in Planning /\ m.at \notin {"adv.recheck", "adv.write", "roster.write"}
  BY DEF Reading, Planning
<1>2. m.round <= round /\ Fits(m)
  BY <1>1 DEF InStep, Fits
<1> QED BY <1>1, <1>2 DEF InStep

LEMMA ReadsKeepSeating ==
    ASSUME BooksOK, Sheets, Seating, NEW q \in Slots,
           \/ AdvCall(q, 0) \/ AdvCall(q, round)
           \/ AdvSession(q) \/ AdvCourts(q) \/ AdvScores(q)
           \/ AdvPersisted(q) \/ AdvSubs(q) \/ AdvGone(q) \/ AdvActive(q)
           \/ AdvRecheck(q)
    PROVE  Seating'
<1> DEFINE o == req[q]
           Onward == \E m : Step(q, m) /\ InStep(m) /\ m.at # "join"
<1>1. UNCHANGED <<status, bench, courts, round, roster, subs>>
  BY DEF AdvCall, AdvSession, AdvCourts, AdvScores, AdvPersisted, AdvSubs, AdvGone, AdvActive,
         AdvRecheck, session, record, people
<1>2. InStep(o) /\ RequestOK(o) /\ Carries(o, Here)
  BY DEF Seating, BooksOK, Sheets
<1>3. InStep(Idle) /\ Idle.at # "join"
  BY ElsewhereInStep DEF Idle, Planning
<1>0. round \in Nat /\ LayoutAndBenchOK(courts[round], bench)
  BY DEF BooksOK, Rounds, Seating, BoardFits
<1> SUFFICES Onward
  <2>1. Running' => Running
    BY <1>1 DEF Running
  <2> QED BY <1>1, <2>1, SeatingOn
<1>4. CASE AdvCall(q, 0) \/ AdvCall(q, round)
  <2>1. PICK e : Step(q, [at |-> "adv.session", expected |-> e])
    BY <1>4 DEF AdvCall
  <2>2. InStep([at |-> "adv.session", expected |-> e])
    BY ElsewhereInStep DEF Planning
  <2> QED BY <2>1, <2>2
<1>5. CASE AdvSession(q)
  <2> DEFINE m == [at |-> "adv.courts", expected |-> o.expected, round |-> round, bench |-> bench]
  <2>1. Step(q, m) \/ Step(q, Idle)
    BY <1>5 DEF AdvSession, Done
  <2>2. m.at = "adv.courts" /\ m.round = round /\ m.bench = bench /\ "active" \notin DOMAIN m
    OBVIOUS
  <2> HIDE DEF m
  <2>3. InStep(m)
    BY <1>0, <2>2 DEF InStep, Planning, Reading
  <2> QED BY <1>3, <2>1, <2>2, <2>3
<1>6. CASE AdvCourts(q)
  <2> DEFINE fields == [at |-> "adv.scores", courts |-> courts[o.round], taps |-> winner[o.round]]
             m == Extend(o, fields)
  <2>1. o.at = "adv.courts" /\ {"at", "round", "bench"} \subseteq DOMAIN o /\ "active" \in DOMAIN o => IsInjective(o.active)
    BY <1>2, <1>6 DEF AdvCourts, At, RequestOK, Planning, Carries, CarriesPlan, Has, InStep
  <2>2. DOMAIN fields = {"at", "courts", "taps"} /\ fields.at = "adv.scores"
        /\ fields.courts = courts[o.round]
    OBVIOUS
  <2>3. Step(q, m)
    BY <1>6 DEF AdvCourts
  <2>4. /\ DOMAIN m = (DOMAIN o) \cup (DOMAIN fields)
        /\ \A x \in DOMAIN fields : m[x] = fields[x]
        /\ \A x \in (DOMAIN o) \ (DOMAIN fields) : m[x] = o[x]
    BY Extended
  <2> HIDE DEF fields, o, m
  <2>5. InStep(m) /\ m.at # "join"
    <3>1. o.at \in Planning /\ m.at = "adv.scores" /\ o.at = "adv.courts"
      BY <1>6, <2>2, <2>4 DEF AdvCourts, At, Planning, o
    <3>2. m.round = o.round /\ m.bench = o.bench /\ m.courts = courts[o.round] /\ o.round \in 1..round
      BY <1>0, <1>2, <2>2, <2>4, <3>1 DEF RequestOK, Carries, CarriesPlan, Has, InStep
    <3>3. "active" \in DOMAIN m => IsInjective(m.active)
      BY <1>2, <2>2, <2>4, <3>1 DEF InStep
    <3>4. Fits(m)
      BY <1>2, <3>1, <3>2 DEF InStep, Fits, Seating, BoardFits, OneOfEachLine
    <3> QED BY <1>2, <3>1, <3>2, <3>3, <3>4 DEF InStep, Reading
  <2> QED BY <2>3, <2>5
<1>7. CASE AdvScores(q)
  <2> DEFINE scoreOf == scores[o.round]
             side == [k \in DOMAIN o.courts |-> Persisted(o.courts[k], o.taps[k], scoreOf)]
             m == [at |-> "adv.persist", expected |-> o.expected,
                   round |-> o.round, bench |-> o.bench, courts |-> o.courts,
                   won     |-> [k \in DOMAIN o.courts |->
                                   MovesUp(o.courts[k], o.taps[k], scoreOf)] \o <<>>,
                   patches |-> PatchesFor(side),
                   tied    |-> \E k \in DOMAIN o.courts :
                                   Tied(o.courts[k], o.taps[k], scoreOf)]
  <2>1. Step(q, m)
    BY <1>7 DEF AdvScores
  <2>2. o.at = "adv.scores"
    BY <1>7 DEF AdvScores, At
  <2>3. m.at = "adv.persist" /\ m.round = o.round /\ m.bench = o.bench /\ m.courts = o.courts
        /\ "active" \notin DOMAIN m
    OBVIOUS
  <2> HIDE DEF m, o
  <2>4. o.at \in Reading \ {"adv.courts"} /\ m.at \in Reading \ {"adv.courts"}
    BY <2>2, <2>3 DEF Reading, Planning
  <2>5. InStep(m)
    BY <1>2, <2>3, <2>4, ReadsOn
  <2> QED BY <2>1, <2>3, <2>5
<1>8. CASE AdvPersisted(q)
  <2> DEFINE m == [at |-> "adv.subs", expected |-> o.expected,
                   round |-> o.round, bench |-> o.bench, courts |-> o.courts, won |-> o.won]
  <2>1. Step(q, m) \/ Step(q, Idle)
    BY <1>8 DEF AdvPersisted, Done
  <2>2. o.at = "adv.persist"
    BY <1>8 DEF AdvPersisted, At
  <2>3. m.at = "adv.subs" /\ m.round = o.round /\ m.bench = o.bench /\ m.courts = o.courts
        /\ "active" \notin DOMAIN m
    OBVIOUS
  <2> HIDE DEF m, o
  <2>4. o.at \in Reading \ {"adv.courts"} /\ m.at \in Reading \ {"adv.courts"}
    BY <2>2, <2>3 DEF Reading, Planning
  <2>5. InStep(m)
    BY <1>2, <2>3, <2>4, ReadsOn
  <2> QED BY <1>3, <2>1, <2>3, <2>5
\* The reads of subs, of who is gone and of who is active add a field each.
<1>9. ASSUME o.at \in {"adv.subs", "adv.gone", "adv.active"}, NEW fields,
             "at" \in DOMAIN fields, fields.at \in {"adv.gone", "adv.active", "adv.plays"},
             {"round", "bench", "courts"} \cap DOMAIN fields = {},
             "active" \in DOMAIN fields => IsInjective(fields.active),
             IF o.at = "adv.subs"
             THEN "takeover" \in DOMAIN fields /\ HasLine(fields.takeover, Seated(o.courts), {}, Players)
             ELSE "takeover" \notin DOMAIN fields,
             IF o.at = "adv.gone"
             THEN "gone" \in DOMAIN fields /\ (Running => DOMAIN subs \subseteq fields.gone)
             ELSE "gone" \notin DOMAIN fields,
             o.at = "adv.subs" => fields.at = "adv.gone",
             Step(q, Extend(o, fields))
      PROVE  Onward
  <2> DEFINE m == Extend(o, fields)
  <2>1. /\ DOMAIN m = (DOMAIN o) \cup (DOMAIN fields)
        /\ \A x \in DOMAIN fields : m[x] = fields[x]
        /\ \A x \in (DOMAIN o) \ (DOMAIN fields) : m[x] = o[x]
    BY Extended
  <2>2. Step(q, m)
    BY <1>9
  <2> HIDE DEF o, m
  <2>3. o.at \in Reading \ {"adv.courts"} /\ m.at = fields.at /\ m.at \in Reading \ {"adv.courts"}
    BY <1>9, <2>1 DEF Reading, Planning
  <2>4. CarriesPlan(o, Here) /\ "round" \in DOMAIN o
    BY <1>2, <1>9 DEF Carries, RequestOK, Planning
  <2>5. m.round = o.round /\ m.bench = o.bench /\ m.courts = o.courts
    <3>1. {"bench", "courts", "round"} \subseteq DOMAIN o
      BY <1>9, <2>4 DEF CarriesPlan, Has
    <3> QED BY <1>9, <2>1, <3>1
  <2>6. "active" \in DOMAIN m => IsInjective(m.active)
    BY <1>2, <1>9, <2>1, <2>3 DEF InStep, Reading
  <2>7. HasLine(m.takeover, Seated(m.courts), {}, Players)
    <3>1. CASE o.at = "adv.subs"
      BY <1>9, <2>1, <2>5, <3>1
    <3>2. CASE o.at # "adv.subs"
      <4>1. HasLine(o.takeover, Seated(o.courts), {}, Players) /\ "takeover" \in DOMAIN o
        BY <1>2, <1>9, <2>4, <3>2 DEF InStep, CarriesPlan, Has
      <4>2. m.takeover = o.takeover
        BY <1>9, <2>1, <3>2, <4>1
      <4> QED BY <2>5, <4>1, <4>2
    <3> QED BY <3>1, <3>2
  <2>8. m.at \in {"adv.active", "adv.plays"} =>
            "gone" \in DOMAIN m /\ (Running => DOMAIN subs \subseteq m.gone)
    <3>1. o.at = "adv.active" => "gone" \in DOMAIN o /\ (Running => DOMAIN subs \subseteq o.gone)
      BY <1>2 DEF InStep
    <3> QED BY <1>9, <2>1, <2>3, <3>1
  <2>9. InStep(m)
    BY <1>2, <2>3, <2>5, <2>6, <2>7, <2>8, ReadsOn
  <2> QED BY <1>9, <2>2, <2>3, <2>9
<1>10. CASE AdvSubs(q)
  <2> DEFINE fields == [at |-> "adv.gone", takeover |-> [p \in DOMAIN subs |-> subs[p].by]]
  <2>1. DOMAIN fields = {"at", "takeover"} /\ fields.at = "adv.gone" /\ fields.takeover = By
    BY DEF By
  <2>2. o.at = "adv.subs" /\ Step(q, Extend(o, fields))
    BY <1>10 DEF AdvSubs, At
  <2> HIDE DEF fields, o
  <2>3. HasLine(By, Seated(o.courts), {}, Players)
    <3>1. HasLine(By, Seated(o.courts), Away, Players)
      BY <1>2, <2>2 DEF InStep, Fits, Reading, Planning
    <3> QED BY <3>1, LessAway
  <2> QED BY <1>9, <2>1, <2>2, <2>3
<1>11. CASE AdvGone(q)
  <2> DEFINE fields == [at |-> "adv.active", gone |-> Gone]
  <2>1. DOMAIN fields = {"at", "gone"} /\ fields.at = "adv.active" /\ fields.gone = Gone
    OBVIOUS
  <2>2. o.at = "adv.gone" /\ Step(q, Extend(o, fields))
    BY <1>11 DEF AdvGone, At
  <2>3. Running => DOMAIN subs \subseteq Gone
    BY DEF Seating, ReplacedHaveLeft
  <2> HIDE DEF fields, o
  <2> QED BY <1>9, <2>1, <2>2, <2>3
<1>12. CASE AdvActive(q)
  <2> DEFINE fields == [at |-> "adv.plays", active |-> ActiveRow]
             m == [o EXCEPT !.at = "adv.plays"]
  <2>1. DOMAIN fields = {"at", "active"} /\ fields.at = "adv.plays"
        /\ fields.active = ActiveRow
    OBVIOUS
  <2>2. o.at = "adv.active" /\ (Step(q, Extend(o, fields)) \/ Step(q, m))
    BY <1>12 DEF AdvActive, At
  <2>3. IsInjective(ActiveRow)
    <3> DEFINE A == {p \in Players : roster[p] = "active"}
    <3>1. IsInjective(Within(Order, A))
      <4> HIDE DEF A
      <4> QED BY OrderFacts, WithinHolds
    <3> QED BY <3>1 DEF ActiveRow
  <2>4. "at" \in DOMAIN o
    BY <1>2 DEF RequestOK
  <2>5. DOMAIN m = DOMAIN o /\ m.at = "adv.plays" /\ \A x \in DOMAIN o : x # "at" => m[x] = o[x]
    BY <2>4
  <2> HIDE DEF fields, o, m
  <2>6. CASE Step(q, Extend(o, fields))
    BY <1>9, <2>1, <2>2, <2>3, <2>6
  <2>7. CASE Step(q, m)
    <3>1. o.at \in Reading \ {"adv.courts"} /\ m.at \in Reading \ {"adv.courts"} /\ o.at \in Planning
      BY <2>2, <2>5 DEF Reading, Planning
    <3>2. CarriesPlan(o, Here) /\ "round" \in DOMAIN o
      BY <1>2, <3>1 DEF Carries, RequestOK
    <3>3. /\ m.round = o.round /\ m.bench = o.bench /\ m.courts = o.courts
          /\ HasLine(m.takeover, Seated(m.courts), {}, Players)
      BY <1>2, <2>2, <2>5, <3>1, <3>2 DEF InStep, CarriesPlan, Has
    <3>4. "active" \in DOMAIN m => IsInjective(m.active)
      BY <1>2, <2>5, <3>1 DEF InStep
    <3>5. "gone" \in DOMAIN m /\ (Running => DOMAIN subs \subseteq m.gone)
      BY <1>2, <2>2, <2>5 DEF InStep
    <3>6. InStep(m)
      BY <1>2, <3>1, <3>3, <3>4, <3>5, ReadsOn
    <3> QED BY <2>5, <2>7, <3>6
  <2> QED BY <2>2, <2>6, <2>7
<1>13. CASE AdvRecheck(q)
  <2> DEFINE m == [o EXCEPT !.at = "adv.write"]
  <2>1. o.at = "adv.recheck" /\ (Step(q, m) \/ Step(q, Idle))
    BY <1>13 DEF AdvRecheck, At, Done
  <2>2. "at" \in DOMAIN o
    BY <1>2 DEF RequestOK
  <2>3. DOMAIN m = DOMAIN o /\ m.at = "adv.write" /\ \A x \in DOMAIN o : x # "at" => m[x] = o[x]
    BY <2>2
  <2> HIDE DEF o, m
  <2>4. CarriesPlan(o, Here) /\ "round" \in DOMAIN o
    BY <1>2, <2>1 DEF Carries, RequestOK, Planning
  <2>5. m.round = o.round /\ m.bench = o.bench /\ m.courts = o.courts
    BY <2>1, <2>3, <2>4 DEF CarriesPlan, Has
  <2>6. InStep(m)
    <3>1. Opens(m)
      BY <1>2, <2>1, <2>5 DEF InStep, Opens
    <3>2. m.round <= round /\ ("active" \in DOMAIN m => IsInjective(m.active))
      BY <1>2, <2>1, <2>3, <2>5 DEF InStep, Planning
    <3> QED BY <2>3, <3>1, <3>2 DEF InStep, Reading
  <2> QED BY <1>3, <2>1, <2>3, <2>6
<1> QED BY <1>4, <1>5, <1>6, <1>7, <1>8, <1>10, <1>11, <1>12, <1>13

LEMMA PersistKeepsSeating ==
    ASSUME BooksOK, Sheets, Seating, NEW q \in Slots, PersistWinner(q)
    PROVE  Seating'
<1> DEFINE o == req[q]
           m == [o EXCEPT !.patches = Tail(@)]
<1>1. /\ o.at \in {"adv.persist", "persist.winners"} /\ Step(q, m)
      /\ UNCHANGED <<status, bench, courts, round, roster, subs>>
  BY DEF PersistWinner, session, people
<1>2. InStep(o) /\ Carries(o, Here) /\ RequestOK(o)
  BY DEF Seating, Sheets, BooksOK
<1> HIDE DEF o
<1>3. "patches" \in DOMAIN o /\ "at" \in DOMAIN o
  BY <1>1, <1>2 DEF Carries, Has, RequestOK
<1>4. DOMAIN m = DOMAIN o /\ \A x \in DOMAIN o : x # "patches" => m[x] = o[x]
  BY <1>3
<1> HIDE DEF m
<1>5. m.at = o.at
  BY <1>3, <1>4
<1>6. InStep(m)
  <2>1. CASE o.at = "persist.winners"
    BY <1>5, <2>1, ElsewhereInStep DEF Planning
  <2>2. CASE o.at = "adv.persist"
    <3>1. o.at \in Planning /\ {o.at, m.at} \subseteq Reading \ {"adv.courts"}
      BY <1>5, <2>2 DEF Planning, Reading
    <3>2. CarriesPlan(o, Here) /\ "round" \in DOMAIN o
      BY <1>2, <3>1 DEF Carries, RequestOK
    <3>3. m.round = o.round /\ m.bench = o.bench /\ m.courts = o.courts
      BY <1>4, <2>2, <3>2 DEF CarriesPlan, Has
    <3>4. "active" \in DOMAIN m => IsInjective(m.active)
      BY <1>2, <1>4, <3>1 DEF InStep
    <3> QED BY <1>2, <1>5, <2>2, <3>1, <3>3, <3>4, ReadsOn
  <2> QED BY <1>1, <2>1, <2>2
<1>7. Running' => Running
  BY <1>1 DEF Running
<1> QED BY <1>1, <1>5, <1>6, <1>7, SeatingOn

\* A plan has nobody in it who was replaced: they are gone, as far as the
\* advance has read.
LEMMA PlansKeepSeating ==
    ASSUME BooksOK, Sheets, Seating, NEW q \in Slots, AdvPlays(q)
    PROVE  Seating'
<1> DEFINE o == req[q]
<1>1. /\ At(q, "adv.plays")
      /\ UNCHANGED <<status, bench, courts, round, roster, subs>>
      /\ \/ Done(q) \/ Step(q, [at |-> "end.round"])
         \/ \E played \in PlayCounts :
            /\ ~Plan(o, played).stuck /\ Plan(o, played).courts # <<>>
            /\ Step(q, [at |-> "adv.recheck", expected |-> o.expected, round |-> o.round,
                        courts |-> Plan(o, played).courts, bench |-> Plan(o, played).bench])
  BY DEF AdvPlays, session, record, people
<1>2. InStep(o) /\ o.at = "adv.plays"
  BY <1>1 DEF Seating, At
<1>3. InStep(Idle) /\ InStep([at |-> "end.round"]) /\ Idle.at # "join"
  BY ElsewhereInStep DEF Idle, Planning
<1>4. Running' => Running
  BY <1>1 DEF Running
<1>5. CASE Done(q) \/ Step(q, [at |-> "end.round"])
  BY <1>1, <1>3, <1>4, <1>5, SeatingOn DEF Done
<1>6. ASSUME NEW played \in PlayCounts, ~Plan(o, played).stuck, Plan(o, played).courts # <<>>,
             Step(q, [at |-> "adv.recheck", expected |-> o.expected, round |-> o.round,
                      courts |-> Plan(o, played).courts, bench |-> Plan(o, played).bench])
      PROVE  Seating'
  <2> DEFINE s == Extend(o, [games |-> played])
  <2>1. s.gone = o.gone
    <3> DEFINE fields == [games |-> played]
    <3>1. DOMAIN fields = {"games"} /\ s = Extend(o, fields) OBVIOUS
    <3>2. "gone" \in DOMAIN o
      BY <1>2 DEF InStep
    <3> HIDE DEF fields, o, s
    <3> QED BY <3>1, <3>2, Extended
  <2> DEFINE p == Plan(o, played)
             m == [at |-> "adv.recheck", expected |-> o.expected, round |-> o.round,
                   courts |-> p.courts, bench |-> p.bench]
  <2>2. LayoutAndBenchOK(p.courts, p.bench) /\ People(p.courts, p.bench) \cap o.gone = {}
    <3>1. Here \in SUBSET Players
      BY DEF Here
    <3>2. AnyReads(s, Players, Here)
      BY <1>1, <3>1, PlanReads
    <3>3. Blank \notin Players /\ MaxCourts \in Nat
      BY OrderFacts
    <3>4. p = PlanNextRound(s, o.won, Mode, MaxCourts)
      BY DEF Plan
    <3>5. ~PlanNextRound(s, o.won, Mode, MaxCourts).stuck
      BY <1>6, <3>4
    <3> HIDE DEF p, s
    <3> QED BY <2>1, <3>1, <3>2, <3>3, <3>4, <3>5, AnyPlanIsLegal
  <2>3. p.courts # <<>>
    BY <1>6
  <2> HIDE DEF p
  <2>4. /\ m.at = "adv.recheck" /\ m.round = o.round /\ m.courts = p.courts /\ m.bench = p.bench
        /\ "active" \notin DOMAIN m
    OBVIOUS
  <2>5. Step(q, m)
    BY <1>6 DEF p
  <2> HIDE DEF m, o
  <2>6. Opens(m)
    <3>1. Running => DOMAIN subs \subseteq o.gone
      BY <1>2 DEF InStep
    <3> QED BY <2>2, <2>3, <2>4, <3>1 DEF Opens
  <2>7. m.round <= round
    BY <1>2, <2>4 DEF InStep, Planning
  <2>8. InStep(m)
    BY <2>4, <2>6, <2>7 DEF InStep, Reading
  <2> QED BY <1>1, <1>4, <2>4, <2>5, <2>8, SeatingOn
<1> QED BY <1>1, <1>5, <1>6

\* The statements of an advance, of a sit-out or return, and of an arrival.
Moving == Planning \cup {"roster.write", "join"}

LEMMA Standing ==
    {"idle", "adv.session", "end.round", "end.write", "resume.write", "report.write",
     "score.check", "score.write", "rederive", "retally", "retally.wins", "retally.write",
     "correct.write", "persist.scores", "persist.courts", "persist.winners"} \cap Moving = {}
BY DEF Moving, Planning

LEMMA ElsewhereOn ==
    ASSUME BooksOK, Seating, NEW q \in Slots, \E m : Step(q, m) /\ m.at \notin Moving,
           UNCHANGED <<bench, courts, round, roster, subs>>, Running' => Running
    PROVE  Seating'
<1>1. PICK m : Step(q, m) /\ m.at \notin Moving
  OBVIOUS
<1>2. InStep(m) /\ m.at # "join"
  BY <1>1, ElsewhereInStep DEF Moving
<1> QED BY <1>1, <1>2, SeatingOn

LEMMA EndingElsewhere ==
    ASSUME BooksOK, NEW q \in Slots,
           \/ PersistScores(q) \/ PersistCourts(q) \/ PersistDone(q)
           \/ EndCall(q) \/ EndRound(q) \/ EndWrite(q) \/ ResumeRead(q) \/ ResumeWrite(q)
           \/ Drop(q)
    PROVE  \E m : Step(q, m) /\ m.at \notin Moving
<1>1. CASE PersistScores(q)
  <2> DEFINE fields == [at |-> "persist.courts", scores |-> scores[req[q].round]]
             s == Extend(req[q], fields)
  <2>1. "at" \in DOMAIN fields /\ fields.at \notin Moving /\ Step(q, s)
    BY <1>1, Standing DEF PersistScores
  <2>2. s.at = fields.at
    BY DEF Extend
  <2> HIDE DEF fields, s
  <2> QED BY <2>1, <2>2
<1>2. CASE PersistCourts(q)
  BY <1>2, Standing DEF PersistCourts
<1>3. CASE PersistDone(q)
  <2>1. req[q].then \in {"end.write", "idle", "retally"}
    BY <1>3 DEF PersistDone, At, BooksOK, RequestOK, Deriving
  <2> QED BY <1>3, <2>1, Standing DEF PersistDone
<1>4. CASE EndCall(q) \/ EndRound(q) \/ Drop(q)
  BY <1>4, Standing DEF EndCall, EndRound, DeriveWinners, Drop, Done, Idle
<1>5. CASE EndWrite(q) \/ ResumeRead(q) \/ ResumeWrite(q)
  BY <1>5, Standing DEF EndWrite, ResumeRead, ResumeWrite, Done, Idle
<1> QED BY <1>1, <1>2, <1>3, <1>4, <1>5

LEMMA EndingKeepsSeating ==
    ASSUME BooksOK, Seating, NEW q \in Slots,
           \/ PersistScores(q) \/ PersistCourts(q) \/ PersistDone(q)
           \/ EndCall(q) \/ EndRound(q) \/ EndWrite(q) \/ ResumeRead(q) \/ ResumeWrite(q)
           \/ Drop(q)
    PROVE  Seating'
<1>1. \E m : Step(q, m) /\ m.at \notin Moving
  BY EndingElsewhere
<1>2. UNCHANGED <<bench, courts, round, roster, subs>>
  BY DEF PersistScores, PersistCourts, PersistDone, EndCall, EndRound, EndWrite, ResumeRead,
         ResumeWrite, Drop, session, record, people
<1>3. Running' => Running
  BY DEF PersistScores, PersistCourts, PersistDone, EndCall, EndRound, EndWrite, ResumeRead,
         ResumeWrite, Drop, session, Running
<1> QED BY <1>1, <1>2, <1>3, ElsewhereOn

LEMMA RecordingElsewhere ==
    ASSUME BooksOK, NEW q \in Slots, Recording(q)
    PROVE  /\ \E m : Step(q, m) /\ m.at \notin Moving
           /\ UNCHANGED <<status, bench, courts, round, roster, subs>>
<1> DEFINE Elsewhere == \E r : Step(q, r) /\ r.at \notin Moving
           Kept == UNCHANGED <<status, bench, courts, round, roster, subs>>
<1>a. "at" \in DOMAIN req[q]
  BY DEF BooksOK, RequestOK
<1>1. ASSUME NEW r \in Rounds, NEW k, NEW card, ScoreCall(q, r, k, card) PROVE Elsewhere /\ Kept
  BY <1>1, Standing DEF ScoreCall, session, record, people
<1>2. ASSUME NEW r \in Rounds, NEW k, NEW side, CorrectCheck(q, r, k, side)
      PROVE  Elsewhere /\ Kept
  BY <1>2, Standing DEF CorrectCheck, session, record, people
<1>3. ASSUME NEW k, NEW side, ReportCheck(q, k, side) PROVE Elsewhere /\ Kept
  BY <1>3, Standing DEF ReportCheck, session, record, people
<1>4. CASE \/ ReportWrite(q) \/ ScoreCheck(q) \/ ScoreWrite(q) \/ Rederive(q)
           \/ RetallyCourts(q) \/ RetallyWins(q) \/ RetallyWrite(q) \/ CorrectWrite(q)
  <2>1. Elsewhere
    <3>1. CASE ReportWrite(q) \/ Rederive(q) \/ RetallyCourts(q) \/ RetallyWins(q) \/ CorrectWrite(q)
      BY <3>1, Standing DEF ReportWrite, Rederive, RetallyCourts, RetallyWins, CorrectWrite,
                            DeriveWinners, Done, Idle
    <3>2. CASE ScoreCheck(q)
      <4>1. [req[q] EXCEPT !.at = "score.write"].at = "score.write"
        BY <1>a
      <4>2. PICK s : s = [req[q] EXCEPT !.at = "score.write"]
        OBVIOUS
      <4>3. s.at \notin Moving /\ Idle.at \notin Moving
        BY <4>1, <4>2, Standing DEF Idle
      <4>4. Step(q, s) \/ Step(q, Idle)
        BY <3>2, <4>2 DEF ScoreCheck, Done
      <4> QED BY <4>3, <4>4
    <3>3. CASE ScoreWrite(q)
      <4>2. [req[q] EXCEPT !.at = "score.check", !.entries = Tail(@)].at = "score.check"
        BY <1>a
      <4>3. PICK again : again = [req[q] EXCEPT !.at = "score.check", !.entries = Tail(@)]
        OBVIOUS
      <4>4. again.at \notin Moving
        BY <4>2, <4>3, Standing
      <4>5. Step(q, again) \/ Step(q, [at |-> "rederive", round |-> req[q].round])
        BY <3>3, <4>3 DEF ScoreWrite
      <4> QED BY <4>4, <4>5, Standing
    <3>4. CASE RetallyWrite(q)
      <4>2. PICK s : s = [req[q] EXCEPT !.todo = Tail(@)]
        OBVIOUS
      <4>3. s.at = "retally.write"
        BY <1>a, <3>4, <4>2 DEF RetallyWrite, At
      <4>4. Step(q, s) \/ Step(q, Idle)
        BY <3>4, <4>2 DEF RetallyWrite, Done
      <4> QED BY <4>3, <4>4, Standing DEF Idle
    <3> QED BY <1>4, <3>1, <3>2, <3>3, <3>4
  <2>2. Kept
    BY <1>4 DEF ReportWrite, ScoreCheck, ScoreWrite, Rederive, RetallyCourts, RetallyWins,
                RetallyWrite, CorrectWrite, session, record, people
  <2> QED BY <2>1, <2>2
<1> QED BY <1>1, <1>2, <1>3, <1>4 DEF Recording

LEMMA RecordingKeepsSeating ==
    ASSUME BooksOK, Seating, NEW q \in Slots, Recording(q)
    PROVE  Seating'
<1>1. /\ \E m : Step(q, m) /\ m.at \notin Moving
      /\ UNCHANGED <<status, bench, courts, round, roster, subs>>
  BY RecordingElsewhere
<1>2. Running' => Running
  BY <1>1 DEF Running
<1> QED BY <1>1, <1>2, ElsewhereOn

\* The clock moves no request but the sweeps'.  A night reopened has seen no
\* substitution.
LEMMA ClockKeepsSeating ==
    ASSUME BooksOK, Seating, Clock, Orderly'
    PROVE  Seating'
<1>1. UNCHANGED <<bench, courts, round, roster, subs>>
  BY DEF Clock, Pause, Reopen, TimePasses, Sweep, EndAbandoned, session, record, people
<1>2. CASE Sweep \/ EndAbandoned
  <2>1. Running' => Running
    BY <1>2 DEF Sweep, EndAbandoned, session, Running
  <2>2. \E q \in Slots : \E m : Step(q, m) /\ m.at \notin Moving
    <3>1. CASE Sweep
      <4>1. Sweeper \in Slots /\ Step(Sweeper, [at |-> "adv.session", expected |-> round])
        BY <3>1 DEF Sweep, Slots
      <4>2. [at |-> "adv.session", expected |-> round].at \notin Moving
        BY Standing
      <4> QED BY <4>1, <4>2
    <3>2. CASE EndAbandoned
      <4>1. Janitor \in Slots /\ Step(Janitor, [at |-> "end.round"])
        BY <3>2 DEF EndAbandoned, Slots
      <4>2. [at |-> "end.round"].at \notin Moving
        BY Standing
      <4> QED BY <4>1, <4>2
    <3> QED BY <1>2, <3>1, <3>2
  <2> QED BY <1>1, <2>1, <2>2, ElsewhereOn
<1>3. ASSUME req' = req, (Running' => Running) \/ DOMAIN subs = {} PROVE Seating'
  <2>1. /\ Slots' = Slots /\ Players' = Players /\ By' = By /\ Away' = Away /\ Gone' = Gone
    BY <1>1 DEF Slots, Players, By, Away, Gone
  <2>2. BoardFits'
    BY <1>1 DEF Seating, BoardFits
  <2>3. OneOfEachLine'
    <3>1. \A r \in 1..round : HasLine(By, Seated(courts[r]), Away, Players)
      BY DEF Seating, OneOfEachLine
    <3> QED BY <1>1, <2>1, <3>1 DEF OneOfEachLine
  <2>4. ReplacedHaveLeft'
    BY <1>1, <1>3, <2>1 DEF Seating, ReplacedHaveLeft
  <2>5. Arriving'
    BY <1>1, <1>3, <2>1 DEF Seating, Arriving, At
  <2>6. ASSUME NEW n, InStep(n), NEW p, req'[p] = n PROVE InStep(req[p])'
    <3>1. Fits(n) => Fits(req[p])'
      BY <2>1, <2>6 DEF Fits
    <3> QED BY <1>1, <1>3, <2>1, <2>6, <3>1 DEF InStep, Opens
  <2>7. \A p \in Slots : InStep(req[p])'
    BY <1>3, <2>6 DEF Seating
  <2> QED BY <2>1, <2>2, <2>3, <2>4, <2>5, <2>7 DEF Seating
<1>4. CASE Pause \/ TimePasses
  <2>1. req' = req /\ (Running' => Running)
    BY <1>4 DEF Pause, TimePasses, Running
  <2> QED BY <1>3, <2>1
<1>5. CASE Reopen
  <2>1. req' = req /\ subs' = subs
    BY <1>5 DEF Reopen, people
  <2>2. Reopens' # 0
    <3>1. "reopen" \in Kinds
      BY DEF Kinds
    <3>2. /\ left["reopen"] \in Nat /\ Budget["reopen"] \in Nat /\ left["reopen"] <= Budget["reopen"]
          /\ left["reopen"] > 0 /\ left'["reopen"] = left["reopen"] - 1
      BY <1>5, <3>1 DEF BooksOK, Reopen, Instant, Use
    <3> QED BY <3>2 DEF Reopens
  <2>3. DOMAIN subs = {}
    BY <2>1, <2>2 DEF Orderly
  <2> QED BY <1>3, <2>1, <2>3
<1> QED BY <1>2, <1>4, <1>5 DEF Clock

\* The round that opens is one nobody was substituted out of, and nobody is
\* on the way to its queue.
LEMMA WriteKeepsSeating ==
    ASSUME BooksOK, Sheets, Seating, Orderly, NEW q \in Slots, AdvWrite(q)
    PROVE  Seating'
<1> DEFINE o == req[q]
<1>1. o.at = "adv.write" /\ Step(q, Idle) /\ UNCHANGED <<roster, subs>>
  BY DEF AdvWrite, At, Done, people
<1>2. /\ Slots' = Slots /\ Players' = Players /\ By' = By /\ Away' = Away /\ Gone' = Gone
  BY <1>1 DEF Slots, Players, By, Away, Gone
<1>3. CASE UNCHANGED <<session, courts>>
  <2>1. InStep(Idle) /\ Idle.at # "join"
    BY ElsewhereInStep DEF Idle, Planning
  <2>2. UNCHANGED <<bench, courts, round, roster, subs>> /\ (Running' => Running)
    BY <1>1, <1>3 DEF session, Running
  <2> QED BY <1>1, <2>1, <2>2, SeatingOn
<1>4. ASSUME Current(o.round), MayMoveOn,
             status' = "live", round' = round + 1, bench' = o.bench,
             courts' = [courts EXCEPT ![round + 1] = o.courts]
      PROVE  Seating'
  <2>1. InStep(o) /\ Carries(o, Here) /\ RequestOK(o)
    BY DEF Seating, Sheets, BooksOK
  <2>2. Running /\ Opens(o) /\ o.round = round
    BY <1>1, <1>4, <2>1 DEF InStep, MayMoveOn, Running, Current
  <2>3. round \in Nat /\ round + 1 \in Rounds /\ DOMAIN courts = Rounds /\ round \in Rounds
    <3>1. o.round \in 1..(MaxRounds - 1)
      BY <1>1, <2>1 DEF RequestOK, Planning
    <3> QED BY <2>2, <3>1 DEF BooksOK, Rounds
  <2>4. CarriesPlan(o, Here)
    BY <1>1, <2>1 DEF Carries, Planning
  <2> DEFINE oc == o.courts
  <2>5. oc \in Layouts(Here)
    BY <1>1, <2>4 DEF CarriesPlan, Has
  <2>6. Seated(oc) \subseteq Players
    <3>1. Here \subseteq Players
      BY DEF Here
    <3> HIDE DEF oc
    <3>2. Seated(oc) \subseteq Here
      BY <2>5, Seats
    <3> QED BY <3>1, <3>2
  <2>7. LayoutAndBenchOK(oc, o.bench) /\ oc # <<>> /\ Seated(oc) \cap DOMAIN subs = {}
    BY <2>2 DEF Opens, People
  <2>8. \A r \in 1..round' : courts'[r] = IF r = round + 1 THEN oc ELSE courts[r]
    BY <1>4, <2>3 DEF Rounds
  <2>9. BoardFits'
    <3>1. courts'[round'] = oc
      BY <1>4, <2>3
    <3>2. LayoutAndBenchOK(courts'[round'], bench')
      BY <1>4, <2>7, <3>1
    <3>3. \A r \in 1..round : courts[r] # <<>>
      BY DEF Seating, BoardFits
    <3>4. \A r \in 1..round' : courts'[r] # <<>>
      BY <1>4, <2>3, <2>7, <2>8, <3>3
    <3> QED BY <3>2, <3>4 DEF BoardFits
  <2>10. OneOfEachLine'
    <3>1. \A r \in 1..round : HasLine(By, Seated(courts[r]), Away, Players)
      BY DEF Seating, OneOfEachLine
    <3>2. HasLine(By, Seated(oc), Away, Players)
      <4>1. HasLine(By, Seated(courts[round]), Away, Players)
        BY <2>3, <3>1 DEF Rounds
      <4>2. Seated(oc) \subseteq Players \ DOMAIN By /\ Away \subseteq Away
        BY <2>6, <2>7 DEF By
      <4> QED BY <4>1, <4>2, FirstsHaveLines
    <3>3. ASSUME NEW r \in 1..round' PROVE HasLine(By, Seated(courts'[r]), Away, Players)
      <4>1. CASE r = round + 1
        BY <2>8, <3>2, <4>1
      <4>2. CASE r # round + 1
        <5>1. r \in 1..round
          BY <1>4, <2>3, <4>2
        <5> QED BY <2>8, <3>1, <4>2, <5>1
      <4> QED BY <4>1, <4>2
    <3>4. \A r \in 1..round' : Seated(courts[r])' = Seated(courts'[r])
      BY DEF Seated, SeatRefs
    <3> QED BY <1>2, <3>3, <3>4 DEF OneOfEachLine
  <2>11. ReplacedHaveLeft'
    <3>1. courts'[round'] = oc
      BY <1>4, <2>3
    <3>2. Seated(courts[round])' = Seated(courts'[round'])
      BY DEF Seated, SeatRefs
    <3>3. DOMAIN subs \subseteq Gone
      BY <2>2 DEF Seating, ReplacedHaveLeft
    <3> QED BY <1>1, <1>2, <2>7, <3>1, <3>2, <3>3 DEF ReplacedHaveLeft
  <2>12. \A s \in Slots : req'[s] = IF s = q THEN Idle ELSE req[s]
    BY <1>1 DEF Step, BooksOK
  <2>13. Arriving'
    <3>1. \A s \in Slots : ~At(s, "join")
      BY <1>1 DEF Orderly, At
    <3>2. \A s \in Slots : ~At(s, "join")'
      BY <2>12, <3>1 DEF At, Idle
    <3> QED BY <1>2, <3>2 DEF Arriving
  <2>14. ASSUME NEW n, InStep(n), n.at \in Planning => n.round \in Rounds,
                NEW s, req'[s] = n
         PROVE  InStep(req[s])'
    <3>1. n.at \in Planning => n.round <= round + 1 /\ courts'[n.round] = courts[n.round]
      BY <1>4, <2>3, <2>14 DEF InStep, Rounds
    <3>2. Fits(n) => Fits(req[s])'
      BY <1>2, <2>14 DEF Fits
    <3>3. "adv.courts" \in Planning
      BY DEF Planning
    <3> HIDE DEF o
    <3> QED BY <1>1, <1>2, <1>4, <2>2, <2>14, <3>1, <3>2, <3>3 DEF InStep, Opens
  <2>15. \A s \in Slots : InStep(req[s])'
    <3>1. ASSUME NEW s \in Slots PROVE InStep(req'[s]) /\ (req'[s].at \in Planning => req'[s].round \in Rounds)
      <4>1. InStep(Idle) /\ Idle.at \notin Planning
        BY ElsewhereInStep DEF Idle, Planning
      <4>2. InStep(req[s]) /\ RequestOK(req[s])
        BY DEF Seating, BooksOK
      <4>3. req[s].at \in Planning => req[s].round \in Rounds
        BY <4>2 DEF RequestOK, Rounds
      <4> QED BY <2>12, <4>1, <4>2, <4>3
    <3> QED BY <2>14, <3>1
  <2> QED BY <1>2, <2>9, <2>10, <2>11, <2>13, <2>15 DEF Seating
<1> QED BY <1>3, <1>4 DEF AdvWrite

\* Sit-outs and returns change who is gone; an arrival is on its way to the
\* queue.
LEMMA RosterKeepsSeating ==
    ASSUME BooksOK, Sheets, Seating, NEW q \in Slots, Roster(q)
    PROVE  Seating'
<1> DEFINE o == req[q]
<1>1. InStep(o) /\ Carries(o, Here) /\ RequestOK(o)
  BY DEF Seating, Sheets, BooksOK
<1>2. roster \in [Players -> {"absent", "active", "left"}] /\ round \in Rounds
  BY DEF BooksOK
<1>3. People(courts[round], bench) \subseteq Here /\ Here \subseteq Players
  <2> DEFINE cs == courts[round]
  <2>1. cs \in Layouts(Here) /\ bench \in Seq(Here)
    BY <1>2 DEF Sheets, Board
  <2> HIDE DEF cs
  <2>2. Seated(cs) \subseteq Here /\ ToSet(bench) \subseteq Here
    BY <2>1, Seats DEF ToSet
  <2> QED BY <2>2 DEF People, cs, Here
<1>4. ASSUME NEW p \in Players, OutCheck(q, p) \/ BackCheck(q, p) PROVE Seating'
  <2>1. \E m : Step(q, m) /\ InStep(m) /\ m.at # "join"
    <3>1. CASE OutCheck(q, p)
      <4> DEFINE m == [at |-> "roster.write", player |-> p, now |-> "left"]
      <4>1. Step(q, m) /\ m.at = "roster.write" /\ m.now = "left"
        BY <3>1 DEF OutCheck
      <4> HIDE DEF m
      <4>2. InStep(m)
        BY <4>1 DEF InStep, Planning, Reading
      <4> QED BY <4>1, <4>2
    <3>2. CASE BackCheck(q, p)
      <4> DEFINE m == [at |-> "roster.write", player |-> p, now |-> "active"]
      <4>1. Step(q, m) /\ m.at = "roster.write" /\ m.player = p /\ (Running => p \notin DOMAIN subs)
        BY <3>2 DEF BackCheck
      <4> HIDE DEF m
      <4>2. InStep(m)
        BY <4>1 DEF InStep, Planning, Reading
      <4> QED BY <4>1, <4>2
    <3> QED BY <1>4, <3>1, <3>2
  <2>2. UNCHANGED <<bench, courts, round, roster, subs>> /\ (Running' => Running)
    BY <1>4 DEF OutCheck, BackCheck, session, record, people, Running
  <2> QED BY <2>1, <2>2, SeatingOn
\* The courts and the substitutions stay in what follows.
<1>5. ASSUME UNCHANGED <<status, courts, round, subs>>, Away' \subseteq Away,
             Running => DOMAIN subs \subseteq Gone',
             BoardFits', Arriving', \A p \in Slots : InStep(req'[p])
      PROVE  Seating'
  <2>1. Slots' = Slots /\ Players' = Players /\ By' = By /\ Running' = Running
    BY <1>5 DEF Slots, Players, By, Running
  <2>2. OneOfEachLine'
    <3> DEFINE away2 == Away'
    <3>1. \A r \in 1..round : HasLine(By, Seated(courts[r]), Away, Players)
      BY DEF Seating, OneOfEachLine
    <3>2. away2 \subseteq Away
      BY <1>5
    <3> HIDE DEF away2
    <3>3. \A r \in 1..round : HasLine(By, Seated(courts[r]), away2, Players)
      BY <3>1, <3>2, LessAway
    <3> QED BY <1>5, <2>1, <3>3 DEF OneOfEachLine, away2
  <2>3. ReplacedHaveLeft'
    BY <1>5, <2>1 DEF Seating, ReplacedHaveLeft
  <2>4. ASSUME NEW n, InStep(n), NEW p, req'[p] = n PROVE InStep(req[p])'
    <3>1. Fits(n) => Fits(req[p])'
      <4> DEFINE away2 == Away'
      <4>1. away2 \subseteq Away
        BY <1>5
      <4> HIDE DEF away2
      <4>2. HasLine(By, Seated(n.courts), Away, Players) => HasLine(By, Seated(n.courts), away2, Players)
        BY <4>1, LessAway
      <4> QED BY <2>1, <2>4, <4>2 DEF Fits, away2
    <3> QED BY <1>5, <2>1, <2>4, <3>1 DEF InStep, Opens
  <2>5. \A p \in Slots : InStep(req[p])'
    BY <1>5, <2>4
  <2> QED BY <1>5, <2>1, <2>2, <2>3, <2>5 DEF Seating
<1>6. ASSUME NEW m, Step(q, m) PROVE \A p \in Slots : req'[p] = IF p = q THEN m ELSE req[p]
  BY <1>6 DEF Step, BooksOK
<1>7. \A p \in Slots : InStep(req[p])
  BY DEF Seating
<1>8. InStep(Idle) /\ Idle.at # "join"
  BY ElsewhereInStep DEF Idle, Planning
<1>9. Slots' = Slots
  BY DEF Slots
<1>10. CASE RosterWrite(q)
  <2>1. /\ o.at = "roster.write" /\ Step(q, Idle)
        /\ roster' = [roster EXCEPT ![o.player] = o.now]
        /\ UNCHANGED <<status, bench, courts, round, subs>>
    BY <1>10 DEF RosterWrite, At, Done, session, record
  <2>2. o.now \in {"active", "left"} /\ (Running /\ o.now = "active" => o.player \notin DOMAIN subs)
    BY <1>1, <2>1 DEF RequestOK, InStep
  <2> HIDE DEF o
  <2>3. Away' \subseteq Away
    BY <1>2, <2>1, <2>2 DEF Away
  <2>4. Running => DOMAIN subs \subseteq Gone'
    BY <1>2, <2>1, <2>2 DEF Seating, ReplacedHaveLeft, Gone
  <2>5. BoardFits'
    BY <2>1 DEF Seating, BoardFits
  <2>6. \A p \in Slots : req'[p] = IF p = q THEN Idle ELSE req[p]
    BY <1>6, <2>1
  <2>7. Arriving'
    BY <1>8, <1>9, <2>1, <2>6 DEF Seating, Arriving, At
  <2>8. \A p \in Slots : InStep(req'[p])
    BY <1>7, <1>8, <2>6
  <2> QED BY <1>5, <2>1, <2>3, <2>4, <2>5, <2>7, <2>8
<1>11. CASE JoinInsert(q)
  <2> DEFINE in == NextNewcomer
             m == [at |-> "join", ids |-> <<in>>]
             n == [o EXCEPT !.ids = Append(@, in)]
  <2>1. /\ Newcomers # {} /\ Arrive(in)
        /\ Step(q, m) \/ (o.at = "join" /\ Step(q, n))
        /\ UNCHANGED <<status, bench, courts, round, subs>>
    BY <1>11 DEF JoinInsert, At, session, record
  <2>2. in \in Players /\ roster[in] = "absent"
    BY <2>1, NewcomerIsAway
  <2>3. roster' = [roster EXCEPT ![in] = "active"]
    BY <2>1 DEF Arrive
  <2> HIDE DEF in
  <2>4. Away' \subseteq Away /\ Gone' = Gone /\ in \notin Here
    BY <1>2, <2>2, <2>3 DEF Away, Gone, Here
  <2>5. \E k : /\ Step(q, k) /\ k.at = "join" /\ IsInjective(k.ids)
               /\ \/ ToSet(k.ids) = {in}
                  \/ At(q, "join") /\ ToSet(k.ids) = ToSet(o.ids) \cup {in}
    <3>1. CASE Step(q, m)
      <4> DEFINE ids == <<in>>
      <4>1. ToSet(ids) = {in} /\ IsInjective(ids)
        BY DEF ToSet, IsInjective
      <4>2. m.at = "join" /\ m.ids = ids
        OBVIOUS
      <4> HIDE DEF m, ids
      <4> QED BY <3>1, <4>1, <4>2
    <3>2. CASE o.at = "join" /\ Step(q, n)
      <4> DEFINE ids == o.ids
      <4>1. ids \in Seq(Here) /\ {"ids", "at"} \subseteq DOMAIN o /\ IsInjective(ids)
        BY <1>1, <3>2 DEF Carries, Has, RequestOK, Seating, Arriving, At
      <4>2. n.at = "join" /\ n.ids = Append(ids, in)
        BY <3>2, <4>1
      <4> DEFINE T == Here \cup {in}
                 one == <<in>>
      <4>3. ids \in Seq(T) /\ one \in Seq(T) /\ Append(ids, in) = ids \o one
        <5>1. Here \subseteq T /\ in \in T OBVIOUS
        <5> HIDE DEF T, ids
        <5>2. Seq(Here) \subseteq Seq(T)
          BY <5>1, MoreSeats
        <5> QED BY <4>1, <5>1, <5>2
      <4>4. ToSet(one) = {in} /\ IsInjective(one) /\ in \notin ToSet(ids)
        BY <2>4, <4>1 DEF ToSet, IsInjective
      <4> HIDE DEF n, T, one, ids
      <4>5. ToSet(n.ids) = ToSet(ids) \cup {in} /\ IsInjective(n.ids)
        BY <4>1, <4>2, <4>3, <4>4, ConcatHolds
      <4> QED BY <3>2, <4>2, <4>5 DEF At, ids
    <3> QED BY <2>1, <3>1, <3>2
  <2>6. PICK k : /\ Step(q, k) /\ k.at = "join" /\ IsInjective(k.ids)
                 /\ \/ ToSet(k.ids) = {in}
                    \/ At(q, "join") /\ ToSet(k.ids) = ToSet(o.ids) \cup {in}
    BY <2>5
  <2> HIDE DEF m, n, o
  <2>7. \A p \in Slots : req'[p] = IF p = q THEN k ELSE req[p]
    BY <1>6, <2>6
  <2>8. BoardFits'
    BY <2>1 DEF Seating, BoardFits
  <2>9. InStep(k)
    BY <2>6, ElsewhereInStep DEF Planning
  <2>10. \A p \in Slots : InStep(req'[p])
    BY <1>7, <2>7, <2>9
  <2>11. Arriving'
    <3> DEFINE P == People(courts[round], bench)
    <3>1. People(courts[round], bench)' = P
      BY <2>1 DEF People, Seated, SeatRefs, ToSet
    <3>2. \A s \in Slots : At(s, "join") =>
             ToSet(req[s].ids) \cap P = {} /\ in \notin ToSet(req[s].ids) /\ IsInjective(req[s].ids)
      <4>1. ASSUME NEW s \in Slots, At(s, "join") PROVE in \notin ToSet(req[s].ids)
        <5>1. req[s].ids \in Seq(Here)
          BY <4>1 DEF Sheets, Carries, Has, At
        <5> QED BY <2>4, <5>1 DEF ToSet
      <4> QED BY <4>1 DEF Seating, Arriving
    <3>3. ToSet(k.ids) \cap P = {}
      BY <1>3, <2>4, <2>6, <3>2 DEF o
    <3>4. ASSUME NEW s \in Slots, s # q, At(s, "join") PROVE ToSet(k.ids) \cap ToSet(req[s].ids) = {}
      <4>1. At(q, "join") => ToSet(o.ids) \cap ToSet(req[s].ids) = {}
        BY <3>4 DEF Seating, Arriving, o
      <4> QED BY <2>6, <3>2, <3>4, <4>1
    <3> HIDE DEF P
    <3>5. \A s \in Slots : At(s, "join")' => s = q \/ At(s, "join")
      BY <2>7 DEF At
    <3>6. \A s \in Slots : At(s, "join")' =>
             IsInjective(req'[s].ids) /\ ToSet(req'[s].ids) \cap P = {}
      BY <2>6, <2>7, <3>2, <3>3, <3>5
    <3>7. \A s, t \in Slots : At(s, "join")' /\ At(t, "join")' /\ s # t =>
             ToSet(req'[s].ids) \cap ToSet(req'[t].ids) = {}
      <4>1. \A s, t \in Slots : At(s, "join") /\ At(t, "join") /\ s # t =>
                ToSet(req[s].ids) \cap ToSet(req[t].ids) = {}
        BY DEF Seating, Arriving
      <4> QED BY <2>7, <3>4, <3>5, <4>1
    <3>8. \A s \in Slots : IsInjective(req[s].ids)' = IsInjective(req'[s].ids)
                           /\ ToSet(req[s].ids)' = ToSet(req'[s].ids)
      BY DEF IsInjective, ToSet
    <3> QED BY <1>9, <3>1, <3>6, <3>7, <3>8 DEF Arriving
  <2>12. Running => DOMAIN subs \subseteq Gone'
    BY <2>4 DEF Seating, ReplacedHaveLeft
  <2> QED BY <1>5, <2>1, <2>4, <2>8, <2>10, <2>11, <2>12
<1>12. CASE JoinBench(q)
  <2>1. /\ o.at = "join" /\ Step(q, Idle)
        /\ bench' = bench \/ bench' = bench \o o.ids
        /\ UNCHANGED <<status, courts, round, subs, roster>>
    BY <1>12 DEF JoinBench, At, Done, record, people
  <2> DEFINE cs == courts[round]
             ids == o.ids
             P == People(cs, bench)
  <2>2. /\ ids \in Seq(Players) /\ IsInjective(ids) /\ ToSet(ids) \cap P = {}
        /\ cs \in Layouts(Players) /\ bench \in Seq(Players)
    <3>1. ids \in Seq(Here) /\ bench \in Seq(Here) /\ cs \in Layouts(Here)
      BY <1>1, <1>2, <2>1 DEF Carries, Has, Sheets, Board
    <3> HIDE DEF ids, cs
    <3>2. ids \in Seq(Players) /\ bench \in Seq(Players) /\ cs \in Layouts(Players)
      BY <1>3, <3>1, MoreSeats
    <3>3. IsInjective(ids) /\ ToSet(ids) \cap P = {}
      BY <2>1 DEF Seating, Arriving, At, ids, cs
    <3> QED BY <3>2, <3>3
  <2>3. LayoutAndBenchOK(cs, bench) /\ \A r \in 1..round : courts[r] # <<>>
    BY DEF Seating, BoardFits
  <2>4. LayoutAndBenchOK(cs, bench') /\ People(cs, bench') \subseteq P \cup ToSet(ids)
    <3>1. CASE bench' = bench
      BY <2>3, <3>1
    <3>2. CASE bench' = bench \o ids
      <4> HIDE DEF cs, ids
      <4>1. LayoutAndBenchOK(cs, bench \o ids) /\ People(cs, bench \o ids) = P \cup ToSet(ids)
        BY <2>2, <2>3, OrderFacts, QueueGrows
      <4> QED BY <3>2, <4>1
    <3> QED BY <2>1, <3>1, <3>2
  <2>5. People(courts[round], bench)' = People(cs, bench')
    BY <2>1 DEF People, Seated, SeatRefs, ToSet
  <2>6. BoardFits'
    BY <2>1, <2>3, <2>4 DEF BoardFits
  <2>7. \A p \in Slots : req'[p] = IF p = q THEN Idle ELSE req[p]
    BY <1>6, <2>1
  <2>8. \A p \in Slots : InStep(req'[p])
    BY <1>7, <1>8, <2>7
  <2>9. Arriving'
    <3>1. \A s \in Slots : At(s, "join")' => s # q /\ At(s, "join") /\ req'[s] = req[s]
      BY <1>8, <2>7 DEF At
    <3>2. ASSUME NEW s \in Slots, s # q, At(s, "join")
          PROVE  IsInjective(req[s].ids) /\ ToSet(req[s].ids) \cap (P \cup ToSet(ids)) = {}
      BY <2>1, <3>2 DEF Seating, Arriving, At
    <3>3. \A s, t \in Slots : At(s, "join") /\ At(t, "join") /\ s # t =>
              ToSet(req[s].ids) \cap ToSet(req[t].ids) = {}
      BY DEF Seating, Arriving
    <3>4. \A s \in Slots : IsInjective(req[s].ids)' = IsInjective(req'[s].ids)
                           /\ ToSet(req[s].ids)' = ToSet(req'[s].ids)
      BY DEF IsInjective, ToSet
    <3> HIDE DEF P, ids, cs
    <3> QED BY <1>9, <2>4, <2>5, <3>1, <3>2, <3>3, <3>4 DEF Arriving
  <2>10. Away' = Away /\ (Running => DOMAIN subs \subseteq Gone')
    BY <2>1 DEF Seating, ReplacedHaveLeft, Away, Gone
  <2> QED BY <1>5, <2>1, <2>6, <2>8, <2>9, <2>10
<1> QED BY <1>4, <1>10, <1>11, <1>12 DEF Roster

\* Whoever comes in for somebody takes their seats, and no others.
LEMMA SwapsSeats ==
    ASSUME NEW T, NEW cs \in Layouts(T), NEW out, NEW in \in T, in \notin Seated(cs)
    PROVE  LET new == SwapAll(cs, out, in)
           IN  /\ Seated(new) = {IF p = out THEN in ELSE p : p \in Seated(cs)}
               /\ NoSeatTwice(cs) => NoSeatTwice(new)
<1> DEFINE new == SwapAll(cs, out, in)
           name == [p \in T |-> IF p = out THEN in ELSE p]
<1>1. /\ new \in Layouts(T) /\ DOMAIN new = DOMAIN cs
      /\ \A k \in DOMAIN cs, i \in 1..4 : new[k][i] = IF cs[k][i] = out THEN in ELSE cs[k][i]
  BY SwapsLayout
<1> HIDE DEF new
<1>2. /\ Seated(cs) \subseteq T /\ DOMAIN cs = 1..Len(cs) /\ DOMAIN new = 1..Len(new)
      /\ Len(cs) \in Nat /\ Len(new) \in Nat
      /\ \A k \in 1..Len(cs), i \in 1..4 : cs[k][i] \in T
  BY <1>1, Seats
<1>3. Len(new) = Len(cs)
  BY <1>1, <1>2
<1>4. Renames(name, cs, new)
  BY <1>1, <1>2 DEF Renames
<1>5. NamedApart(name, cs)
  BY <1>2 DEF NamedApart
<1>6. {name[p] : p \in Seated(cs)} = {IF p = out THEN in ELSE p : p \in Seated(cs)}
  BY <1>2
<1> HIDE DEF name
<1>7. Seated(new) = {name[p] : p \in Seated(cs)} /\ (NoSeatTwice(cs) => NoSeatTwice(new))
  BY <1>1, <1>3, <1>4, <1>5, Renamed
<1> QED BY <1>6, <1>7 DEF new

LEMMA SwapsQueue ==
    ASSUME NEW T, NEW b \in Seq(T), IsInjective(b), NEW out, NEW in \in T, in \notin ToSet(b)
    PROVE  LET new == Swap(b, out, in)
           IN  ToSet(new) = {IF p = out THEN in ELSE p : p \in ToSet(b)} /\ IsInjective(new)
<1> DEFINE new == Swap(b, out, in)
<1>1. /\ new \in Seq(T) /\ DOMAIN new = DOMAIN b
      /\ \A i \in DOMAIN b : new[i] = IF b[i] = out THEN in ELSE b[i]
  BY SwapsSeq
<1> HIDE DEF new
<1>2. ToSet(b) = {b[i] : i \in DOMAIN b} /\ ToSet(new) = {new[i] : i \in DOMAIN b}
  BY <1>1 DEF ToSet
<1>3. ToSet(new) = {IF p = out THEN in ELSE p : p \in ToSet(b)}
  BY <1>1, <1>2
<1>4. IsInjective(new)
  BY <1>1, <1>2 DEF IsInjective
<1> QED BY <1>3, <1>4 DEF new

\* Also when only the courts, or only the queue, have been changed yet.
LEMMA SwapsBoard ==
    ASSUME NEW T, Blank \notin T, NEW cs \in Layouts(T), NEW b \in Seq(T),
           LayoutAndBenchOK(cs, b), NEW out, NEW in \in T, in \notin People(cs, b),
           NEW cs2 \in {cs, SwapAll(cs, out, in)}, NEW b2 \in {b, Swap(b, out, in)}
    PROVE  LayoutAndBenchOK(cs2, b2)
<1> DEFINE name(p) == IF p = out THEN in ELSE p
<1>1. /\ in \notin Seated(cs) /\ in \notin ToSet(b) /\ IsInjective(b) /\ NoSeatTwice(cs)
      /\ Seated(cs) \cap ToSet(b) = {} /\ Blank \notin Seated(cs) \cup ToSet(b) /\ Blank # in
  BY DEF People, LayoutAndBenchOK, NoSeatTwice
<1>2. /\ Seated(cs2) = Seated(cs) \/ Seated(cs2) = {name(p) : p \in Seated(cs)}
      /\ NoSeatTwice(cs2)
  <2>1. CASE cs2 = cs BY <1>1, <2>1
  <2>2. CASE cs2 = SwapAll(cs, out, in) BY <1>1, <2>2, SwapsSeats
  <2> QED BY <2>1, <2>2
<1>3. /\ ToSet(b2) = ToSet(b) \/ ToSet(b2) = {name(p) : p \in ToSet(b)}
      /\ IsInjective(b2)
  <2>1. CASE b2 = b BY <1>1, <2>1
  <2>2. CASE b2 = Swap(b, out, in) BY <1>1, <2>2, SwapsQueue
  <2> QED BY <2>1, <2>2
<1>4. Seated(cs2) \cap ToSet(b2) = {} /\ Blank \notin Seated(cs2) \cup ToSet(b2)
  <2>1. \A p \in Seated(cs2) : p \in Seated(cs) \/ p = in
    BY <1>2
  <2>2. \A p \in ToSet(b2) : p \in ToSet(b) \/ p = in
    BY <1>3
  <2>3. ASSUME in \in Seated(cs2), in \in ToSet(b2) PROVE FALSE
    <3>1. out \in Seated(cs) BY <1>1, <1>2, <2>3
    <3>2. out \in ToSet(b) BY <1>1, <1>3, <2>3
    <3> QED BY <1>1, <3>1, <3>2
  <2> QED BY <1>1, <2>1, <2>2, <2>3
<1> QED BY <1>2, <1>3, <1>4 DEF LayoutAndBenchOK, NoSeatTwice

\* Whoever is replaced shares a line with their substitute; nobody on a sheet
\* does.
LEMMA SubstituteKeepsLines ==
    ASSUME BooksOK, Sheets, NEW out \in Players, Substitute(out),
           NEW crowd \in SUBSET Here, HasLine(By, crowd, Away, Players),
           NEW crowd2, crowd2 \subseteq crowd \cup {NextNewcomer},
           NextNewcomer \in crowd2 => out \in crowd /\ out \notin crowd2
    PROVE  HasLine(By', crowd2, Away', Players)
<1> DEFINE in == NextNewcomer
           take2 == By'
           away2 == Away'
<1>1. /\ Newcomers # {} /\ roster[out] = "active" /\ out \notin DOMAIN subs
      /\ subs' = [p \in (DOMAIN subs) \cup {out} |->
                     IF p = out THEN [by |-> in, from |-> EffectiveRound(out)] ELSE subs[p]]
      /\ roster' = [roster EXCEPT ![in] = "active", ![out] = "left"]
  BY DEF Substitute
<1>2. in \in Players /\ roster[in] = "absent"
  BY <1>1, NewcomerIsAway
<1> HIDE DEF in
<1>3. away2 = Away \ {in} /\ in \in Away /\ out \notin Away /\ Away \cap crowd = {}
  BY <1>1, <1>2 DEF BooksOK, Away, Here
<1>4. Adds(take2, By, out, in)
  BY <1>1 DEF Adds, By
<1>5. By \in [DOMAIN By -> Players] /\ DOMAIN By \subseteq Players /\ out \notin DOMAIN By
  <2>1. Here \subseteq Players BY DEF Here
  <2> QED BY <1>1, <2>1 DEF BooksOK, Sheets, Board, By
<1>6. crowd \in SUBSET Players /\ Away \in SUBSET Players
  BY DEF Here, Away
<1>7. PICK rep : Line(rep, By, crowd, Away, Players)
  BY DEF HasLine
<1>8. crowd2 \subseteq crowd \cup {in} /\ (in \in crowd2 => out \in crowd /\ out \notin crowd2)
  BY DEF in
<1> HIDE DEF take2, away2
<1>9. HasLine(take2, crowd2, Away \ {in}, Players)
  BY <1>3, <1>4, <1>5, <1>6, <1>7, <1>8, LineGrows
<1> QED BY <1>3, <1>9 DEF take2, away2

\* Whoever comes in was nowhere before.  What requests have read of the night
\* from before the substitution is put right by the takeovers they read later.
LEMMA SubstituteKeepsSeating ==
    ASSUME BooksOK, Sheets, Seating, NEW out \in Players, Substitute(out), HandsOff
    PROVE  Seating'
<1> DEFINE in == NextNewcomer
           from == EffectiveRound(out)
<1>1. /\ Newcomers # {} /\ roster[out] = "active" /\ out \notin DOMAIN subs
      /\ subs' = [p \in (DOMAIN subs) \cup {out} |->
                     IF p = out THEN [by |-> in, from |-> from] ELSE subs[p]]
      /\ roster' = [roster EXCEPT ![in] = "active", ![out] = "left"]
      /\ courts' = [r \in Rounds |-> IF r < from THEN courts[r] ELSE SwapAll(courts[r], out, in)]
      /\ bench' = Swap(bench, out, in)
      /\ UNCHANGED <<status, round, req>>
  BY DEF Substitute, SwapAll
<1>2. in \in Players /\ roster[in] = "absent"
  BY <1>1, NewcomerIsAway
<1>3. from \in {round, round + 1}
  BY DEF EffectiveRound
<1>4. ASSUME NEW crowd \in SUBSET Here, HasLine(By, crowd, Away, Players),
             NEW crowd2, crowd2 \subseteq crowd \cup {in},
             in \in crowd2 => out \in crowd /\ out \notin crowd2
      PROVE  HasLine(By', crowd2, Away', Players)
  BY <1>4, SubstituteKeepsLines
<1> HIDE DEF in, from
<1>5. /\ Slots' = Slots /\ Players' = Players /\ Gone' = Gone \cup {out} /\ out # in
      /\ Here' = Here \cup {in} /\ in \notin Here /\ Here \subseteq Players /\ out \in Here
  BY <1>1, <1>2 DEF Slots, Players, Gone, Here, BooksOK
<1>6. /\ \A q \in Slots : req[q].at \notin Committed
      /\ \A q \in Slots : req[q].at = "roster.write" /\ req[q].now = "active" =>
                              req[q].player \notin DOMAIN subs'
  <2>1. subs' # subs
    BY <1>1
  <2> QED BY <2>1 DEF HandsOff, At
<1>7. round \in Nat /\ round \in Rounds /\ 1..round \subseteq Rounds
  BY DEF BooksOK, Rounds
<1> DEFINE T == Here \cup {in}
<1>8. Blank \notin T /\ in \in T /\ Seq(Here) \subseteq Seq(T) /\ Layouts(Here) \subseteq Layouts(T)
  <2>1. Blank \notin T /\ in \in T /\ Here \subseteq T
    BY <1>2, <1>5, OrderFacts
  <2> HIDE DEF T
  <2> QED BY <2>1, MoreSeats
<1> HIDE DEF T
\* The courts of a round, before and after.
<1>9. ASSUME NEW r \in Rounds
      PROVE  /\ courts[r] \in Layouts(T) /\ Seated(courts[r]) \subseteq Here
             /\ courts'[r] \in {courts[r], SwapAll(courts[r], out, in)}
             /\ ~(r < from) => courts'[r] = SwapAll(courts[r], out, in)
             /\ DOMAIN courts'[r] = DOMAIN courts[r]
             /\ \/ Seated(courts'[r]) = Seated(courts[r])
                \/ Seated(courts'[r]) = {IF p = out THEN in ELSE p : p \in Seated(courts[r])}
             /\ ~(r < from) =>
                  Seated(courts'[r]) = {IF p = out THEN in ELSE p : p \in Seated(courts[r])}
  <2> DEFINE cs == courts[r]
             cs2 == courts'[r]
  <2>1. cs \in Layouts(Here) /\ cs2 = IF r < from THEN cs ELSE SwapAll(cs, out, in)
    BY <1>1 DEF Sheets, Board
  <2> HIDE DEF cs, cs2
  <2>2. cs \in Layouts(T) /\ Seated(cs) \subseteq Here
    BY <1>8, <2>1, Seats
  <2>3. in \notin Seated(cs)
    BY <1>5, <2>2
  <2>4. /\ DOMAIN SwapAll(cs, out, in) = DOMAIN cs
        /\ Seated(SwapAll(cs, out, in)) = {IF p = out THEN in ELSE p : p \in Seated(cs)}
    BY <1>8, <2>2, <2>3, SwapsLayout, SwapsSeats
  <2>5. /\ cs2 \in {cs, SwapAll(cs, out, in)}
        /\ ~(r < from) => cs2 = SwapAll(cs, out, in)
        /\ DOMAIN cs2 = DOMAIN cs
    BY <2>1, <2>4
  <2>6. /\ ~(r < from) => Seated(cs2) = {IF p = out THEN in ELSE p : p \in Seated(cs)}
        /\ \/ Seated(cs2) = Seated(cs)
           \/ Seated(cs2) = {IF p = out THEN in ELSE p : p \in Seated(cs)}
    BY <2>1, <2>4
  <2> QED BY <2>2, <2>5, <2>6 DEF cs, cs2
\* The courts of a round, with a queue read before.
<1>10. ASSUME NEW r \in Rounds, NEW b \in Seq(Here), LayoutAndBenchOK(courts[r], b),
              NEW b2 \in {b, Swap(b, out, in)}
       PROVE  LayoutAndBenchOK(courts'[r], b2)
  <2> DEFINE cs == courts[r]
             cs2 == courts'[r]
  <2>1. /\ cs \in Layouts(T) /\ b \in Seq(T) /\ LayoutAndBenchOK(cs, b)
        /\ cs2 \in {cs, SwapAll(cs, out, in)} /\ Seated(cs) \subseteq Here
    BY <1>8, <1>9, <1>10
  <2>2. ToSet(b) \subseteq Here
    BY DEF ToSet
  <2> HIDE DEF cs, cs2
  <2>3. in \notin People(cs, b)
    BY <1>5, <2>1, <2>2 DEF People
  <2>4. LayoutAndBenchOK(cs2, b2)
    BY <1>8, <1>10, <2>1, <2>3, SwapsBoard
  <2> QED BY <2>4 DEF cs2
<1>11. BoardFits'
  <2>1. bench \in Seq(Here) /\ LayoutAndBenchOK(courts[round], bench)
        /\ \A r \in 1..round : courts[r] # <<>>
    BY DEF Sheets, Board, Seating, BoardFits
  <2>2. LayoutAndBenchOK(courts'[round], bench')
    BY <1>1, <1>7, <1>10, <2>1
  <2>3. ASSUME NEW r \in 1..round PROVE courts'[r] # <<>>
    <3> DEFINE cs == courts[r]
               cs2 == courts'[r]
    <3>1. cs \in Layouts(T) /\ DOMAIN cs2 = DOMAIN cs /\ cs # <<>>
      BY <1>7, <1>9, <2>1
    <3> HIDE DEF cs, cs2
    <3>2. Len(cs) \in Nat /\ DOMAIN cs = 1..Len(cs) /\ cs \in Seq([1..4 -> T])
      BY <3>1, Seats DEF Layouts
    <3>3. DOMAIN cs # {}
      <4> DEFINE V == [1..4 -> T]
      <4>1. cs \in Seq(V) BY <3>2
      <4> HIDE DEF V
      <4>2. Len(cs) # 0 BY <3>1, <4>1, EmptySeq
      <4>3. 1 \in 1..Len(cs) BY <3>2, <4>2
      <4> QED BY <3>2, <4>3
    <3> QED BY <3>1, <3>3 DEF cs2
  <2> QED BY <1>1, <2>2, <2>3 DEF BoardFits
<1>12. OneOfEachLine'
  <2>1. ASSUME NEW r \in 1..round PROVE HasLine(By', Seated(courts'[r]), Away', Players)
    <3> DEFINE crowd == Seated(courts[r])
               crowd2 == Seated(courts'[r])
    <3>1. crowd \in SUBSET Here /\ HasLine(By, crowd, Away, Players)
      BY <1>7, <1>9 DEF Seating, OneOfEachLine
    <3>2. crowd2 = crowd \/ crowd2 = {IF p = out THEN in ELSE p : p \in crowd}
      BY <1>7, <1>9
    <3> HIDE DEF crowd, crowd2
    <3>3. crowd2 \subseteq crowd \cup {in} /\ (in \in crowd2 => out \in crowd /\ out \notin crowd2)
      BY <1>5, <3>1, <3>2
    <3>4. HasLine(By', crowd2, Away', Players)
      BY <1>4, <3>1, <3>3
    <3> QED BY <3>4 DEF crowd2
  <2>2. \A r \in 1..round' : Seated(courts[r])' = Seated(courts'[r])
    BY DEF Seated, SeatRefs
  <2> QED BY <1>1, <1>5, <2>1, <2>2 DEF OneOfEachLine
<1>13. ReplacedHaveLeft'
  <2>1. Running' = Running /\ (Running => DOMAIN subs' \subseteq Gone')
    BY <1>1, <1>5 DEF Seating, ReplacedHaveLeft, Running
  <2>2. ASSUME NEW p \in DOMAIN subs', subs'[p].from <= round PROVE p \notin Seated(courts'[round])
    <3> DEFINE crowd == Seated(courts[round])
               crowd2 == Seated(courts'[round])
    <3>1. crowd2 = crowd \/ crowd2 = {IF x = out THEN in ELSE x : x \in crowd}
      BY <1>7, <1>9
    <3>2. CASE p = out
      <4>1. ~(round < from)
        BY <1>1, <1>3, <1>7, <2>2, <3>2
      <4>2. crowd2 = {IF x = out THEN in ELSE x : x \in crowd}
        BY <1>7, <1>9, <4>1
      <4> HIDE DEF crowd, crowd2
      <4>3. out \notin crowd2
        BY <1>5, <4>2
      <4> QED BY <3>2, <4>3 DEF crowd2
    <3>3. CASE p # out
      <4>1. p \in DOMAIN subs /\ subs'[p] = subs[p]
        BY <1>1, <3>3
      <4>2. p \notin crowd
        BY <2>2, <4>1 DEF Seating, ReplacedHaveLeft
      <4>3. p # in
        <5>1. Running
          BY DEF Substitute
        <5>2. p \in Gone
          BY <4>1, <5>1 DEF Seating, ReplacedHaveLeft
        <5> QED BY <1>2, <5>2 DEF Gone
      <4> HIDE DEF crowd, crowd2
      <4>4. p \notin crowd2
        BY <3>1, <4>2, <4>3
      <4> QED BY <4>4 DEF crowd2
    <3> QED BY <3>2, <3>3
  <2>3. Seated(courts[round])' = Seated(courts'[round'])
    BY DEF Seated, SeatRefs
  <2> QED BY <1>1, <2>1, <2>2, <2>3 DEF ReplacedHaveLeft
<1>14. Arriving'
  <2> DEFINE P == People(courts[round], bench)
             P2 == People(courts'[round], bench')
  <2>1. P2 \subseteq P \cup {in}
    <3> DEFINE b2 == bench'
    <3>1. bench \in Seq(Here) /\ b2 = Swap(bench, out, in)
      BY <1>1 DEF Sheets, Board
    <3>2. /\ DOMAIN b2 = DOMAIN bench
          /\ \A i \in DOMAIN bench : b2[i] = IF bench[i] = out THEN in ELSE bench[i]
      BY <1>8, <3>1, SwapsSeq
    <3> HIDE DEF b2
    <3>3. ToSet(b2) \subseteq ToSet(bench) \cup {in}
      BY <3>2 DEF ToSet
    <3>4. Seated(courts'[round]) \subseteq Seated(courts[round]) \cup {in}
      <4> DEFINE crowd == Seated(courts[round])
                 crowd2 == Seated(courts'[round])
      <4>1. crowd2 = crowd \/ crowd2 = {IF p = out THEN in ELSE p : p \in crowd}
        BY <1>7, <1>9
      <4> HIDE DEF crowd, crowd2
      <4>2. crowd2 \subseteq crowd \cup {in}
        BY <4>1
      <4> QED BY <4>2 DEF crowd, crowd2
    <3> QED BY <3>3, <3>4 DEF People, b2
  <2>2. People(courts[round], bench)' = P2
    BY <1>1 DEF People, Seated, SeatRefs, ToSet
  <2>3. \A q \in Slots : At(q, "join")' => At(q, "join")
    BY <1>1 DEF At
  <2>4. ASSUME NEW q \in Slots, At(q, "join")
        PROVE  IsInjective(req[q].ids) /\ ToSet(req[q].ids) \cap P2 = {}
    <3>1. req[q].ids \in Seq(Here)
      BY <2>4 DEF Sheets, Carries, Has, At
    <3>2. in \notin ToSet(req[q].ids)
      BY <1>5, <3>1 DEF ToSet
    <3>3. IsInjective(req[q].ids) /\ ToSet(req[q].ids) \cap P = {}
      BY <2>4 DEF Seating, Arriving
    <3> HIDE DEF P, P2
    <3> QED BY <2>1, <3>2, <3>3
  <2>5. \A q, s \in Slots : At(q, "join") /\ At(s, "join") /\ q # s =>
            ToSet(req[q].ids) \cap ToSet(req[s].ids) = {}
    BY DEF Seating, Arriving
  <2>6. \A q \in Slots : IsInjective(req[q].ids)' = IsInjective(req[q].ids)
                         /\ ToSet(req[q].ids)' = ToSet(req[q].ids)
    BY <1>1 DEF IsInjective, ToSet
  <2> HIDE DEF P2
  <2> QED BY <1>5, <2>2, <2>3, <2>4, <2>5, <2>6 DEF Arriving
<1>15. ASSUME NEW q \in Slots PROVE InStep(req[q])'
  <2> DEFINE o == req[q]
  <2>1. InStep(o) /\ Carries(o, Here) /\ RequestOK(o) /\ o.at \notin Committed
    BY <1>6 DEF Seating, Sheets, BooksOK
  <2>2. req'[q] = o
    BY <1>1
  <2> HIDE DEF o
  <2>3. o.at = "adv.courts" => LayoutAndBenchOK(courts'[o.round], o.bench)
    <3> SUFFICES ASSUME o.at = "adv.courts" PROVE LayoutAndBenchOK(courts'[o.round], o.bench)
      OBVIOUS
    <3>1. o.at \in Planning
      BY DEF Planning
    <3>2. o.bench \in Seq(Here) /\ o.round \in Rounds
      BY <2>1, <3>1 DEF Carries, CarriesPlan, Has, RequestOK, Rounds
    <3>3. LayoutAndBenchOK(courts[o.round], o.bench)
      BY <2>1 DEF InStep
    <3> QED BY <1>10, <3>2, <3>3
  <2>4. o.at \in Reading \ {"adv.courts"} => Fits(req[q])'
    <3> SUFFICES ASSUME o.at \in Reading \ {"adv.courts"} PROVE Fits(req[q])'
      OBVIOUS
    <3>1. Fits(o) /\ o.at \in Planning
      BY <2>1 DEF InStep, Reading
    <3> DEFINE crowd == Seated(o.courts)
    <3>2. crowd \in SUBSET Here
      <4>1. o.courts \in Layouts(Here)
        BY <2>1, <3>1 DEF Carries, CarriesPlan, Has
      <4> QED BY <4>1, Seats
    <3>3. HasLine(By, crowd, Away, Players)
      BY <3>1 DEF Fits
    <3>4. in \notin crowd
      BY <1>5, <3>2
    <3> HIDE DEF crowd
    <3>5. HasLine(By', crowd, Away', Players)
      BY <1>4, <3>2, <3>3, <3>4
    <3> QED BY <1>5, <2>2, <3>1, <3>5 DEF Fits, crowd
  <2>5. o.at \notin {"adv.active", "adv.plays", "adv.recheck", "adv.write"}
    BY <2>1 DEF Committed
  <2>6. o.at = "roster.write" /\ o.now = "active" => o.player \notin DOMAIN subs'
    BY <1>6 DEF o
  <2> QED BY <1>1, <1>5, <2>1, <2>2, <2>3, <2>4, <2>5, <2>6 DEF InStep
<1> QED BY <1>5, <1>11, <1>12, <1>13, <1>14, <1>15 DEF Seating

LEMMA SeatingInit == Init => Seating
<1> SUFFICES ASSUME Init PROVE Seating
  OBVIOUS
<1> DEFINE first == SubSeq(Order, 1, Starters)
           open == SeedCourts(first, MaxCourts)
           cs == open.courts
<1>1. /\ bench = open.bench /\ round = 1
      /\ courts = [r \in Rounds |-> IF r = 1 THEN cs ELSE <<>>]
      /\ subs = [p \in {} |-> Blank] /\ req = [q \in Slots |-> Idle]
      /\ roster = [p \in Players |-> IF p \in ToSet(first) THEN "active" ELSE "absent"]
  BY DEF Init
<1>2. first \in Seq(Players) /\ IsInjective(first) /\ Len(first) >= 4
  <2> DEFINE k == Starters
  <2>1. k \in Nat /\ 4 <= k /\ k <= Len(Order) /\ 1 \in Nat \ {0} /\ k - 1 + 1 = k
    BY OrderFacts
  <2> HIDE DEF k
  <2>2. /\ SubSeq(Order, 1, k) \in Seq(Players) /\ IsInjective(SubSeq(Order, 1, k))
        /\ Len(SubSeq(Order, 1, k)) = IF 1 <= k THEN k - 1 + 1 ELSE 0
    BY <2>1, OrderFacts, SubSeqHolds
  <2> QED BY <2>1, <2>2 DEF k
<1>3. MaxCourts \in Nat
  OBVIOUS
<1> HIDE DEF first
<1>4. Accommodated(open, Players, ToSet(first), MaxCourts) /\ Cardinality(ToSet(first)) >= 4
  BY <1>2, <1>3, OrderFacts, RoundOneSeatsEverybodyOnce, QueueCounts
<1> HIDE DEF open
<1>5. /\ cs \in Layouts(Players) /\ open.bench \in Seq(Players)
      /\ LayoutAndBenchOK(cs, open.bench) /\ People(cs, open.bench) = ToSet(first)
      /\ cs # <<>>
  <2>1. Len(open.courts) # 0
    BY <1>3, <1>4, CourtForFour
  <2>2. cs # <<>>
    BY <2>1
  <2> QED BY <1>4, <2>2 DEF Accommodated
<1> HIDE DEF cs
<1>6. courts[1] = cs /\ 1..round = {1} /\ courts[round] = cs
  <2>1. 1 \in Rounds
    BY DEF Rounds
  <2> QED BY <1>1, <2>1
<1>7. BoardFits
  BY <1>1, <1>5, <1>6 DEF BoardFits
<1>8. OneOfEachLine
  <2> DEFINE rep == [p \in Players |-> p]
             crowd == Seated(cs)
  <2>1. crowd \subseteq Players
    BY <1>5, Seats
  <2>2. By = [p \in {} |-> Blank] /\ DOMAIN By = {}
    BY <1>1 DEF By
  <2>3. Away \subseteq Players
    BY DEF Away
  <2> HIDE DEF crowd
  <2>4. Line(rep, By, crowd, Away, Players)
    BY <2>1, <2>2, <2>3 DEF Line
  <2>5. HasLine(By, crowd, Away, Players)
    BY <2>4 DEF HasLine
  <2> QED BY <1>6, <2>5 DEF OneOfEachLine, crowd
<1>9. ReplacedHaveLeft
  BY <1>1 DEF ReplacedHaveLeft
<1>10. /\ Arriving
       /\ \A q \in Slots : InStep(req[q])
  BY <1>1, ElsewhereInStep DEF Arriving, At, Idle, Planning
<1> QED BY <1>7, <1>8, <1>9, <1>10 DEF Seating

LEMMA SeatingKept ==
    ASSUME BooksOK, Sheets, Seating, Orderly, Orderly', [Next]_vars, [HandsOff]_vars
    PROVE  Seating'
<1>1. ASSUME NEW q \in Slots, Lifecycle(q) PROVE Seating'
  BY <1>1, ReadsKeepSeating, PersistKeepsSeating, PlansKeepSeating, WriteKeepsSeating,
     EndingKeepsSeating DEF Lifecycle
<1>2. ASSUME NEW out \in Players, Substitute(out) PROVE Seating'
  <2>1. subs' # subs
    <3>1. out \in DOMAIN subs' /\ out \notin DOMAIN subs
      BY <1>2 DEF Substitute
    <3> QED BY <3>1
  <2>2. HandsOff
    BY <2>1 DEF vars, people
  <2> QED BY <1>2, <2>2, SubstituteKeepsSeating
<1>3. CASE UNCHANGED vars
  <2>1. /\ UNCHANGED <<status, bench, courts, round, roster, subs, req>>
        /\ Slots' = Slots /\ Players' = Players /\ By' = By /\ Away' = Away /\ Gone' = Gone
    BY <1>3 DEF vars, session, record, people, Slots, Players, By, Away, Gone
  <2>2. Running' = Running
    BY <2>1 DEF Running
  <2>3. OneOfEachLine'
    <3>1. \A r \in 1..round : HasLine(By, Seated(courts[r]), Away, Players)
      BY DEF Seating, OneOfEachLine
    <3> QED BY <2>1, <3>1 DEF OneOfEachLine
  <2>4. BoardFits' /\ ReplacedHaveLeft'
    BY <2>1, <2>2 DEF Seating, BoardFits, ReplacedHaveLeft
  <2>5. Arriving'
    BY <2>1 DEF Seating, Arriving, At
  <2>6. ASSUME NEW n, InStep(n), NEW p, req'[p] = n PROVE InStep(req[p])'
    <3>1. Fits(n) => Fits(req[p])'
      BY <2>1, <2>6 DEF Fits
    <3> QED BY <2>1, <2>2, <2>6, <3>1 DEF InStep, Opens
  <2>7. \A p \in Slots : InStep(req[p])'
    BY <2>1, <2>6 DEF Seating
  <2> QED BY <2>1, <2>3, <2>4, <2>5, <2>7 DEF Seating
<1> QED
  BY <1>1, <1>2, <1>3, RecordingKeepsSeating, RosterKeepsSeating, ClockKeepsSeating DEF Next

\* A round that fits together opens the next, whoever has left in the meantime.
LEMMA SeatingMoves ==
    ASSUME BooksOK, Sheets, Seating, NEW q \in Slots, At(q, "adv.plays"),
           NEW played \in PlayCounts
    PROVE  ~Plan(req[q], played).stuck
<1> DEFINE o == req[q]
           fields == [games |-> played]
           s == Extend(o, fields)
<1>1. o.at = "adv.plays" /\ InStep(o) /\ Carries(o, Here)
  BY DEF At, Seating, Sheets
<1>2. o.at \in Planning /\ o.at \in Reading \ {"adv.courts"}
  BY <1>1 DEF Planning, Reading
<1>3. /\ LayoutAndBenchOK(o.courts, o.bench) /\ o.courts # <<>>
      /\ HasLine(o.takeover, Seated(o.courts), {}, Players)
      /\ "active" \in DOMAIN o => IsInjective(o.active)
      /\ "gone" \in DOMAIN o
  BY <1>1, <1>2 DEF InStep, Fits
<1>4. {"courts", "bench", "takeover"} \subseteq DOMAIN o
      /\ o.courts \in Layouts(Here) /\ o.takeover \in [DOMAIN o.takeover -> Here]
  BY <1>1, <1>2 DEF Carries, CarriesPlan, Has
<1>5. AnyReads(s, Players, Players)
  <2>1. Here \subseteq Players /\ Players \in SUBSET Players
    BY DEF Here
  <2> QED BY <2>1, PlanReads
<1>6. /\ s.courts = o.courts /\ s.bench = o.bench /\ s.takeover = o.takeover /\ s.gone = o.gone
      /\ "active" \in DOMAIN s => "active" \in DOMAIN o /\ s.active = o.active
  <2>1. DOMAIN fields = {"games"}
    OBVIOUS
  <2>2. /\ DOMAIN s = (DOMAIN o) \cup (DOMAIN fields)
        /\ \A x \in (DOMAIN o) \ (DOMAIN fields) : s[x] = o[x]
    BY Extended
  <2> HIDE DEF fields, o, s
  <2> QED BY <1>3, <1>4, <2>1, <2>2
<1>7. Plan(o, played) = PlanNextRound(s, o.won, Mode, MaxCourts)
  BY DEF Plan
<1> HIDE DEF s, o
<1>8. Apart(s.courts, s.takeover, s.gone)
  <2> DEFINE c == s.courts
             take == s.takeover
             gone == s.gone
  <2>1. Cardinality(DOMAIN take) \in Nat /\ c \in Layouts(Players)
    BY <1>5 DEF AnyReads
  <2>2. take \in [DOMAIN take -> Players]
    <3>1. Here \subseteq Players BY DEF Here
    <3> QED BY <1>4, <1>6, <3>1
  <2>3. PICK rep : Line(rep, take, Seated(c), {}, Players)
    BY <1>3, <1>6 DEF HasLine
  <2> HIDE DEF c, take, gone
  <2>4. Seated(c) \subseteq Players
    BY <2>1, Seats
  <2>5. Apart(c, take, gone)
    BY <2>1, <2>2, <2>3, <2>4, LineApart
  <2> QED BY <2>5 DEF c, take, gone
<1>9. Len(s.courts) # 0
  <2> DEFINE V == [1..4 -> Here]
             c == s.courts
  <2>1. c \in Seq(V) /\ c # <<>>
    BY <1>3, <1>4, <1>6 DEF Layouts
  <2> HIDE DEF V, c
  <2>2. Len(c) # 0
    BY <2>1, EmptySeq
  <2> QED BY <2>2 DEF c
<1>10. /\ LayoutAndBenchOK(s.courts, s.bench)
       /\ "active" \in DOMAIN s => IsInjective(s.active)
  BY <1>3, <1>6
<1>11. ~PlanNextRound(s, o.won, Mode, MaxCourts).stuck
  BY <1>5, <1>8, <1>9, <1>10, OrderFacts, PlansMove
<1> QED BY <1>7, <1>11 DEF o

LEMMA SeatingInvariant == Spec /\ []Orderly /\ [][HandsOff]_vars => []Seating
<1>1. BooksOK /\ Sheets /\ Seating /\ Orderly /\ Orderly' /\ [Next]_vars /\ [HandsOff]_vars
        => Seating'
  BY SeatingKept
<1> QED
  BY <1>1, SeatingInit, BooksInvariant, SheetsInvariant, PTL DEF Spec

\* The night never bricks, when arrivals and substitutions keep clear of the
\* advances: whatever else interleaves, and whoever sits out, comes back or
\* corrects a result in the meantime, no advance is refused for an
\* inconsistent layout (the reconciliation in AdvanceRotationSession).
THEOREM NeverBrickedHolds ==
    Spec /\ []Orderly /\ [][HandsOff]_vars => []NeverBricked
<1>1. BooksOK /\ Sheets /\ Seating => NeverBricked
  BY SeatingMoves DEF NeverBricked
<1> QED
  BY <1>1, SeatingInvariant, BooksInvariant, SheetsInvariant, PTL

\* Then also nobody plays and waits at once, and nobody who was replaced keeps
\* a seat in a round from which the substitute takes over
\* (rotation_substitute, rotation_join_bench).
THEOREM SeatedAsTheRosterSaysHolds ==
    Spec /\ []Orderly /\ [][HandsOff]_vars => []SeatedAsTheRosterSays
<1>1. Seating => SeatedAsTheRosterSays
  BY DEF Seating, BoardFits, ReplacedHaveLeft, SeatedAsTheRosterSays, LayoutAndBenchOK
<1> QED
  BY <1>1, SeatingInvariant, PTL

-----------------------------------------------------------------------------
(* Nights on which nothing gets in an advance's way.                        *)

\* A call is paid for from the budget of its kind.
Spends == left' = left \/ \E kind \in Kinds : Use(kind)

LEMMA CallsSpend ==
    ASSUME NEW q, Lifecycle(q) \/ Recording(q)
    PROVE  Spends
<1>1. CASE Lifecycle(q)
  <2>1. CASE \/ AdvCall(q, 0) \/ AdvCall(q, round) \/ EndCall(q) \/ ResumeRead(q)
             \/ PersistWinner(q) \/ AdvActive(q) \/ AdvPlays(q) \/ EndRound(q) \/ Drop(q)
    BY <2>1 DEF AdvCall, EndCall, ResumeRead, PersistWinner, AdvActive, AdvPlays, EndRound, Drop,
                Call, Kinds, Spends
  <2>2. CASE \/ AdvSession(q) \/ AdvCourts(q) \/ AdvScores(q) \/ AdvPersisted(q)
             \/ AdvSubs(q) \/ AdvGone(q) \/ AdvRecheck(q) \/ AdvWrite(q)
    BY <2>2 DEF AdvSession, AdvCourts, AdvScores, AdvPersisted, AdvSubs, AdvGone,
                AdvRecheck, AdvWrite, Spends
  <2>3. CASE \/ PersistScores(q) \/ PersistCourts(q) \/ PersistDone(q)
             \/ EndWrite(q) \/ ResumeWrite(q)
    BY <2>3 DEF PersistScores, PersistCourts, PersistDone, EndWrite, ResumeWrite, Spends
  <2> QED BY <1>1, <2>1, <2>2, <2>3 DEF Lifecycle
<1>2. CASE Recording(q)
  <2>1. ASSUME NEW r, NEW k, NEW x, \/ ScoreCall(q, r, k, x) \/ CorrectCheck(q, r, k, x)
                                    \/ ReportCheck(q, k, x)
        PROVE  Spends
    BY <2>1 DEF ScoreCall, CorrectCheck, ReportCheck, Call, Kinds, Spends
  <2>2. CASE \/ ReportWrite(q) \/ ScoreCheck(q) \/ ScoreWrite(q) \/ Rederive(q)
             \/ RetallyCourts(q) \/ RetallyWins(q) \/ RetallyWrite(q) \/ CorrectWrite(q)
    BY <2>2 DEF ReportWrite, ScoreCheck, ScoreWrite, Rederive, RetallyCourts, RetallyWins,
                RetallyWrite, CorrectWrite, Spends
  <2> QED BY <1>2, <2>1, <2>2 DEF Recording
<1> QED BY <1>1, <1>2

LEMMA OthersSpend ==
    ASSUME \/ \E q \in Slots : Roster(q)
           \/ \E out \in Players : Substitute(out)
           \/ Clock
    PROVE  Spends
<1>1. ASSUME NEW q, Roster(q) PROVE Spends
  <2>1. ASSUME NEW p, OutCheck(q, p) \/ BackCheck(q, p) PROVE Spends
    BY <2>1 DEF OutCheck, BackCheck, Call, Kinds, Spends
  <2>2. CASE JoinInsert(q) \/ JoinBench(q) \/ RosterWrite(q)
    BY <2>2 DEF JoinInsert, JoinBench, RosterWrite, Call, Kinds, Spends
  <2> QED BY <1>1, <2>1, <2>2 DEF Roster
<1>2. ASSUME NEW out, Substitute(out) PROVE Spends
  BY <1>2 DEF Substitute, Instant, Kinds, Spends
<1>3. CASE Clock
  BY <1>3 DEF Clock, Pause, Reopen, TimePasses, Sweep, EndAbandoned, Instant, Kinds, Spends
<1> QED BY <1>1, <1>2, <1>3

\* What there is no budget for never happens.
LEMMA NothingLeft ==
    ASSUME BooksOK, [Next]_vars, NEW kind \in Kinds, left[kind] = 0
    PROVE  left'[kind] = 0 /\ ~Use(kind)
<1>1. ~Use(kind)
  BY DEF Use
<1>2. Spends
  BY CallsSpend, OthersSpend DEF Next, vars, Spends
<1>3. ASSUME NEW other \in Kinds, Use(other) PROVE left'[kind] = 0
  <2>1. other # kind
    BY <1>1, <1>3
  <2> QED BY <1>3, <2>1 DEF BooksOK, Use
<1> QED BY <1>1, <1>2, <1>3 DEF Spends

\* The room is full: nobody is substituted and nobody arrives.
Settled ==
    /\ left["join"] = 0 /\ left["sub"] = 0
    /\ DOMAIN subs = {}
    /\ \A q \in Slots : ~At(q, "join")

LEMMA AdvancingStays ==
    ASSUME BooksOK, NEW q \in Slots,
           \/ AdvCall(q, 0) \/ AdvCall(q, round)
           \/ AdvSession(q) \/ AdvCourts(q) \/ AdvScores(q) \/ PersistWinner(q)
           \/ AdvPersisted(q) \/ AdvSubs(q) \/ AdvGone(q) \/ AdvActive(q)
           \/ AdvPlays(q) \/ AdvRecheck(q) \/ AdvWrite(q)
    PROVE  \E m : Step(q, m) /\ m.at # "join"
<1> DEFINE Stays == \E m : Step(q, m) /\ m.at # "join"
<1>1. "at" \in DOMAIN req[q]
  BY DEF BooksOK, RequestOK
<1>2. ASSUME NEW fields, "at" \in DOMAIN fields, fields.at # "join",
             Step(q, Extend(req[q], fields))
      PROVE  Stays
  <2>1. Extend(req[q], fields).at = fields.at
    BY <1>2 DEF Extend
  <2> QED BY <1>2, <2>1
<1>3. CASE AdvCall(q, 0) \/ AdvCall(q, round) \/ AdvSession(q) \/ AdvScores(q) \/ AdvPersisted(q)
           \/ AdvWrite(q)
  BY <1>3 DEF AdvCall, AdvSession, AdvScores, AdvPersisted, AdvWrite, Done, Idle
<1>4. CASE AdvCourts(q)
  <2> DEFINE fields == [at |-> "adv.scores", courts |-> courts[req[q].round],
                        taps |-> winner[req[q].round]]
  <2>1. "at" \in DOMAIN fields /\ fields.at # "join" /\ Step(q, Extend(req[q], fields))
    BY <1>4 DEF AdvCourts
  <2> HIDE DEF fields
  <2> QED BY <1>2, <2>1
<1>5. CASE AdvSubs(q)
  <2> DEFINE fields == [at |-> "adv.gone", takeover |-> [p \in DOMAIN subs |-> subs[p].by]]
  <2>1. "at" \in DOMAIN fields /\ fields.at # "join" /\ Step(q, Extend(req[q], fields))
    BY <1>5 DEF AdvSubs
  <2> HIDE DEF fields
  <2> QED BY <1>2, <2>1
<1>6. CASE AdvGone(q)
  <2> DEFINE fields == [at |-> "adv.active", gone |-> Gone]
  <2>1. "at" \in DOMAIN fields /\ fields.at # "join" /\ Step(q, Extend(req[q], fields))
    BY <1>6 DEF AdvGone
  <2> HIDE DEF fields
  <2> QED BY <1>2, <2>1
<1>7. CASE AdvActive(q)
  <2> DEFINE fields == [at |-> "adv.plays", active |-> ActiveRow]
  <2>1. PICK m : m = [req[q] EXCEPT !.at = "adv.plays"]
    OBVIOUS
  <2>2. m.at # "join"
    BY <1>1, <2>1
  <2>3. "at" \in DOMAIN fields /\ fields.at # "join"
    OBVIOUS
  <2>4. Step(q, Extend(req[q], fields)) \/ Step(q, m)
    BY <1>7, <2>1 DEF AdvActive
  <2> HIDE DEF fields
  <2> QED BY <1>2, <2>2, <2>3, <2>4
<1>8. CASE AdvPlays(q)
  <2>1. Done(q) \/ \E m : Step(q, m) /\ m.at \in {"end.round", "adv.recheck"}
    BY <1>8 DEF AdvPlays
  <2> QED BY <2>1 DEF Done, Idle
<1>9. CASE AdvRecheck(q)
  <2>1. PICK m : m = [req[q] EXCEPT !.at = "adv.write"]
    OBVIOUS
  <2>2. m.at # "join"
    BY <1>1, <2>1
  <2>3. Step(q, Idle) \/ Step(q, m)
    BY <1>9, <2>1 DEF AdvRecheck, Done
  <2> QED BY <2>2, <2>3 DEF Idle
<1>10. CASE PersistWinner(q)
  <2>1. PICK m : m = [req[q] EXCEPT !.patches = Tail(@)]
    OBVIOUS
  <2>2. m.at = req[q].at
    BY <1>1, <2>1
  <2>3. Step(q, m) /\ req[q].at # "join"
    BY <1>10, <2>1 DEF PersistWinner
  <2> QED BY <2>2, <2>3
<1> QED BY <1>3, <1>4, <1>5, <1>6, <1>7, <1>8, <1>9, <1>10

LEMMA SettledStays ==
    ASSUME BooksOK, Settled, [Next]_vars
    PROVE  Settled' /\ [HandsOff]_vars
<1>1. /\ left'["join"] = 0 /\ left'["sub"] = 0 /\ ~Use("join") /\ ~Use("sub")
      /\ \A q \in Slots : ~JoinInsert(q)
      /\ \A out \in Players : ~Substitute(out)
  <2>1. {"join", "sub"} \subseteq Kinds
    BY DEF Kinds
  <2>2. /\ left'["join"] = 0 /\ left'["sub"] = 0 /\ ~Use("join") /\ ~Use("sub")
    BY <2>1, NothingLeft DEF Settled
  <2> QED BY <2>2 DEF JoinInsert, Call, Substitute, Instant
<1>2. ASSUME NEW q \in Slots, \E m : Step(q, m) /\ m.at # "join"
      PROVE  \A s \in Slots : req'[s].at # "join"
  BY <1>2 DEF Settled, At, BooksOK, Step
<1>3. ASSUME NEW q \in Slots, Lifecycle(q) \/ Recording(q) \/ Roster(q)
      PROVE  /\ subs' = subs
             /\ \A s \in Slots : req'[s].at # "join"
  <2>1. CASE Lifecycle(q)
    <3>1. \E m : Step(q, m) /\ m.at # "join"
      BY <2>1, AdvancingStays, EndingElsewhere DEF Lifecycle, Moving
    <3>2. subs' = subs
      BY <2>1 DEF Lifecycle, AdvCall, EndCall, ResumeRead, AdvSession, AdvCourts, AdvScores,
                  PersistWinner, AdvPersisted, AdvSubs, AdvGone, AdvActive, AdvPlays, AdvRecheck,
                  AdvWrite, PersistScores, PersistCourts, PersistDone, EndRound, EndWrite,
                  ResumeWrite, Drop, people
    <3> QED BY <1>2, <3>1, <3>2
  <2>2. CASE Recording(q)
    BY <1>2, <2>2, RecordingElsewhere DEF Moving
  <2>3. CASE Roster(q)
    <3>1. CASE RosterWrite(q) \/ JoinBench(q)
      <4>1. Step(q, Idle) /\ Idle.at # "join" /\ subs' = subs
        BY <3>1 DEF RosterWrite, JoinBench, Done, Idle, people
      <4> QED BY <1>2, <4>1
    <3>2. ASSUME NEW p \in Players, OutCheck(q, p) \/ BackCheck(q, p)
          PROVE  /\ \E m : Step(q, m) /\ m.at # "join"
                 /\ subs' = subs
      BY <3>2 DEF OutCheck, BackCheck, people
    <3> QED BY <1>1, <1>2, <2>3, <3>1, <3>2 DEF Roster
  <2> QED BY <1>3, <2>1, <2>2, <2>3
<1>4. ASSUME Clock \/ UNCHANGED vars
      PROVE  /\ subs' = subs
             /\ \A s \in Slots : req'[s].at # "join"
  <2>1. subs' = subs
    BY <1>4 DEF Clock, Pause, Reopen, TimePasses, Sweep, EndAbandoned, vars, people
  <2>2. ASSUME req' = req PROVE \A s \in Slots : req'[s].at # "join"
    BY <2>2 DEF Settled, At
  <2>3. ASSUME Sweep PROVE \A s \in Slots : req'[s].at # "join"
    <3>1. Sweeper \in Slots /\ \E m : Step(Sweeper, m) /\ m.at # "join"
      BY <2>3 DEF Sweep, Slots
    <3> QED BY <1>2, <3>1
  <2>4. ASSUME EndAbandoned PROVE \A s \in Slots : req'[s].at # "join"
    <3>1. Janitor \in Slots /\ \E m : Step(Janitor, m) /\ m.at # "join"
      BY <2>4 DEF EndAbandoned, Slots
    <3> QED BY <1>2, <3>1
  <2> QED BY <1>4, <2>1, <2>2, <2>3, <2>4 DEF Clock, Pause, Reopen, TimePasses, vars
<1>6. subs' = subs /\ \A s \in Slots : req'[s].at # "join"
  BY <1>1, <1>3, <1>4 DEF Next
<1>7. HandsOff
  BY <1>6 DEF HandsOff
<1> QED BY <1>1, <1>6, <1>7 DEF Settled, At, Slots

\* Nobody substituted and nobody new: then nothing gets in the way of the
\* advances, however many devices and sweeps press for the next round while
\* players sit out and come back, and results are corrected
\* (AdvanceRotationSession, SetRotationPlayerActive).
THEOREM FullRoomsNeverBrick ==
    ASSUME Budget["join"] = 0, Budget["sub"] = 0
    PROVE  Spec => []NeverBricked /\ []SeatedAsTheRosterSays
<1>1. Init => Settled
  BY DEF Init, Settled, At, Idle
<1>2. BooksOK /\ Settled /\ [Next]_vars => Settled' /\ [HandsOff]_vars
  BY SettledStays
<1>3. Settled => Orderly
  BY DEF Settled, Orderly
<1> QED
  BY <1>1, <1>2, <1>3, NeverBrickedHolds, SeatedAsTheRosterSaysHolds, BooksInvariant, PTL DEF Spec

\* Nothing but a substitution records one.
LEMMA OnlySubstitutes ==
    ASSUME [Next]_vars, subs' # subs
    PROVE  \E out \in Players : Substitute(out)
<1>1. ASSUME NEW q, Lifecycle(q) PROVE subs' = subs
  BY <1>1 DEF Lifecycle, AdvCall, EndCall, ResumeRead, AdvSession, AdvCourts, AdvScores,
              PersistWinner, AdvPersisted, AdvSubs, AdvGone, AdvActive, AdvPlays, AdvRecheck,
              AdvWrite, PersistScores, PersistCourts, PersistDone, EndRound, EndWrite,
              ResumeWrite, Drop, people
<1>2. ASSUME NEW q, Recording(q) PROVE subs' = subs
  <2>1. ASSUME NEW r, NEW k, NEW x, \/ ScoreCall(q, r, k, x) \/ CorrectCheck(q, r, k, x)
                                    \/ ReportCheck(q, k, x)
        PROVE  subs' = subs
    BY <2>1 DEF ScoreCall, CorrectCheck, ReportCheck, people
  <2>2. CASE \/ ReportWrite(q) \/ ScoreCheck(q) \/ ScoreWrite(q) \/ Rederive(q)
             \/ RetallyCourts(q) \/ RetallyWins(q) \/ RetallyWrite(q) \/ CorrectWrite(q)
    BY <2>2 DEF ReportWrite, ScoreCheck, ScoreWrite, Rederive, RetallyCourts, RetallyWins,
                RetallyWrite, CorrectWrite, people
  <2> QED BY <1>2, <2>1, <2>2 DEF Recording
<1>3. ASSUME NEW q, Roster(q) PROVE subs' = subs
  BY <1>3 DEF Roster, JoinInsert, JoinBench, RosterWrite, OutCheck, BackCheck, people
<1>4. Clock => subs' = subs
  BY DEF Clock, Pause, Reopen, TimePasses, Sweep, EndAbandoned, people
<1> QED BY <1>1, <1>2, <1>3, <1>4 DEF Next, vars, people

\* The sweep that ends abandoned nights, and nothing else of the server's own.
Closing == {"idle", "end.round", "end.write"} \cup Deriving

Attended ==
    /\ left["reopen"] = 0
    /\ req[Sweeper] = Idle
    /\ req[Janitor].at \in Closing
    /\ req[Janitor].at \in Deriving => req[Janitor].then = "end.write"

\* A sweep that is not under way takes no step of a handler.
LEMMA NothingUnderWay ==
    ASSUME NEW q, q \notin Requests, req[q] = Idle
    PROVE  ~Lifecycle(q) /\ ~Recording(q) /\ ~Roster(q)
<1>1. ~Lifecycle(q)
  BY DEF Lifecycle, AdvCall, EndCall, ResumeRead, AdvSession, AdvCourts, AdvScores,
         PersistWinner, AdvPersisted, AdvSubs, AdvGone, AdvActive, AdvPlays, AdvRecheck,
         AdvWrite, PersistScores, PersistCourts, PersistDone, EndRound, EndWrite,
         ResumeWrite, Drop, Call, At, Idle
<1>2. ~Recording(q)
  <2>1. req[q].at = "idle"
    BY DEF Idle
  <2>2. ASSUME NEW r, NEW k, NEW x
        PROVE  ~ScoreCall(q, r, k, x) /\ ~CorrectCheck(q, r, k, x) /\ ~ReportCheck(q, k, x)
    BY DEF ScoreCall, CorrectCheck, ReportCheck, Call
  <2>3. /\ ~ReportWrite(q) /\ ~ScoreCheck(q) /\ ~ScoreWrite(q) /\ ~Rederive(q)
        /\ ~RetallyCourts(q) /\ ~RetallyWins(q) /\ ~RetallyWrite(q) /\ ~CorrectWrite(q)
    BY <2>1 DEF ReportWrite, ScoreCheck, ScoreWrite, Rederive, RetallyCourts, RetallyWins,
                RetallyWrite, CorrectWrite, At
  <2> QED BY <2>2, <2>3 DEF Recording
<1>3. ~Roster(q)
  <2>1. req[q].at = "idle"
    BY DEF Idle
  <2>2. \A p : ~OutCheck(q, p) /\ ~BackCheck(q, p)
    BY DEF OutCheck, BackCheck, Call
  <2>3. ~JoinInsert(q) /\ ~JoinBench(q) /\ ~RosterWrite(q)
    BY <2>1 DEF JoinInsert, JoinBench, RosterWrite, Call, At
  <2> QED BY <2>2, <2>3 DEF Roster
<1> QED BY <1>1, <1>2, <1>3

\* A sweep that is ending a night goes on ending it.
LEMMA SweepEnds ==
    ASSUME BooksOK, Attended, NEW m, m = req[Janitor],
           Lifecycle(Janitor) \/ Recording(Janitor) \/ Roster(Janitor)
    PROVE  \E n : /\ Step(Janitor, n) /\ n.at \in Closing
                  /\ n.at \in Deriving => n.then = "end.write"
<1>1. /\ Janitor \in Slots /\ Janitor \notin Requests /\ RequestOK(m)
      /\ m.at \in Closing /\ (m.at \in Deriving => m.then = "end.write" /\ "then" \in DOMAIN m)
  BY DEF Slots, BooksOK, Attended, RequestOK
<1>2. CASE Lifecycle(Janitor)
  <2>1. \/ EndRound(Janitor) \/ EndWrite(Janitor) \/ Drop(Janitor)
        \/ PersistScores(Janitor) \/ PersistCourts(Janitor) \/ PersistWinner(Janitor)
        \/ PersistDone(Janitor)
    BY <1>1, <1>2 DEF Lifecycle, AdvCall, EndCall, ResumeRead, AdvSession, AdvCourts, AdvScores,
                      AdvPersisted, AdvSubs, AdvGone, AdvActive, AdvPlays, AdvRecheck, AdvWrite,
                      ResumeWrite, Call, At, Closing, Deriving
  <2>2. CASE EndWrite(Janitor) \/ Drop(Janitor)
    BY <2>2 DEF EndWrite, Drop, Done, Idle, Closing, Deriving
  <2>3. CASE EndRound(Janitor)
    BY <2>3 DEF EndRound, DeriveWinners, Closing, Deriving
  <2>4. CASE PersistCourts(Janitor) \/ PersistDone(Janitor)
    BY <1>1, <2>4 DEF PersistCourts, PersistDone, At, Closing, Deriving
  <2>5. CASE PersistScores(Janitor)
    <3> DEFINE fields == [at |-> "persist.courts", scores |-> scores[m.round]]
               n == Extend(m, fields)
    <3>1. DOMAIN fields = {"at", "scores"} /\ fields.at = "persist.courts"
      OBVIOUS
    <3>2. Step(Janitor, n) /\ m.at = "persist.scores"
      BY <2>5 DEF PersistScores, At
    <3> HIDE DEF fields
    <3>3. /\ DOMAIN n = (DOMAIN m) \cup (DOMAIN fields)
          /\ \A x \in DOMAIN fields : n[x] = fields[x]
          /\ \A x \in (DOMAIN m) \ (DOMAIN fields) : n[x] = m[x]
      BY DEF Extend
    <3> HIDE DEF n
    <3>4. n.at = "persist.courts" /\ n.then = "end.write"
      BY <1>1, <3>1, <3>2, <3>3 DEF Deriving
    <3> QED BY <3>2, <3>4 DEF Closing, Deriving
  <2>6. CASE PersistWinner(Janitor)
    <3>1. PICK n : n = [m EXCEPT !.patches = Tail(@)]
      OBVIOUS
    <3>2. Step(Janitor, n)
      BY <2>6, <3>1 DEF PersistWinner
    <3>3. "at" \in DOMAIN m
      BY <1>1 DEF RequestOK
    <3>4. n.at = m.at /\ (m.at \in Deriving => n.then = m.then)
      BY <1>1, <3>1, <3>3
    <3> QED BY <1>1, <3>2, <3>4
  <2> QED BY <2>1, <2>2, <2>3, <2>4, <2>5, <2>6
<1>3. ~Recording(Janitor)
  BY <1>1 DEF Recording, ScoreCall, CorrectCheck, ReportCheck, ReportWrite, ScoreCheck,
              ScoreWrite, Rederive, RetallyCourts, RetallyWins, RetallyWrite, CorrectWrite,
              Call, At, Closing, Deriving
<1>4. ~Roster(Janitor)
  BY <1>1 DEF Roster, JoinInsert, JoinBench, RosterWrite, OutCheck, BackCheck, Call, At,
              Closing, Deriving
<1> QED BY <1>2, <1>3, <1>4

\* A handler moves its own request.
LEMMA StepsOfItsOwn ==
    ASSUME NEW q, Lifecycle(q) \/ Recording(q) \/ Roster(q)
    PROVE  \E n : Step(q, n)
<1>1. CASE Lifecycle(q)
  <2>1. CASE \/ AdvCall(q, 0) \/ AdvCall(q, round) \/ EndCall(q) \/ ResumeRead(q)
             \/ PersistWinner(q) \/ AdvActive(q) \/ EndRound(q) \/ Drop(q)
    BY <2>1 DEF AdvCall, EndCall, ResumeRead, PersistWinner, AdvActive, EndRound, Drop, Done
  <2>2. CASE \/ AdvSession(q) \/ AdvCourts(q) \/ AdvScores(q) \/ AdvPersisted(q)
             \/ AdvSubs(q) \/ AdvGone(q) \/ AdvPlays(q) \/ AdvRecheck(q) \/ AdvWrite(q)
    BY <2>2 DEF AdvSession, AdvCourts, AdvScores, AdvPersisted, AdvSubs, AdvGone, AdvPlays,
                AdvRecheck, AdvWrite, Done
  <2>3. CASE \/ PersistScores(q) \/ PersistCourts(q) \/ PersistDone(q)
             \/ EndWrite(q) \/ ResumeWrite(q)
    BY <2>3 DEF PersistScores, PersistCourts, PersistDone, EndWrite, ResumeWrite, Done
  <2> QED BY <1>1, <2>1, <2>2, <2>3 DEF Lifecycle
<1>2. CASE Recording(q)
  <2>1. ASSUME NEW r, NEW k, NEW x, \/ ScoreCall(q, r, k, x) \/ CorrectCheck(q, r, k, x)
                                    \/ ReportCheck(q, k, x)
        PROVE  \E n : Step(q, n)
    BY <2>1 DEF ScoreCall, CorrectCheck, ReportCheck
  <2>2. CASE \/ ReportWrite(q) \/ ScoreCheck(q) \/ ScoreWrite(q) \/ Rederive(q)
             \/ RetallyCourts(q) \/ RetallyWins(q) \/ RetallyWrite(q) \/ CorrectWrite(q)
    BY <2>2 DEF ReportWrite, ScoreCheck, ScoreWrite, Rederive, RetallyCourts, RetallyWins,
                RetallyWrite, CorrectWrite, Done
  <2> QED BY <1>2, <2>1, <2>2 DEF Recording
<1>3. CASE Roster(q)
  BY <1>3 DEF Roster, JoinInsert, JoinBench, RosterWrite, OutCheck, BackCheck, Done
<1> QED BY <1>1, <1>2, <1>3

LEMMA AttendedStays ==
    ASSUME BooksOK, Attended, ~AutoAdvance, [Next]_vars
    PROVE  Attended'
<1>1. left'["reopen"] = 0
  <2>1. "reopen" \in Kinds
    BY DEF Kinds
  <2> QED BY <2>1, NothingLeft DEF Attended
<1>2. Sweeper # Janitor /\ {Sweeper, Janitor} \cap Requests = {} /\ {Sweeper, Janitor} \subseteq Slots
  BY DEF Slots
<1>3. ASSUME NEW n, Step(Janitor, n), n.at \in Closing,
             n.at \in Deriving => n.then = "end.write"
      PROVE  Attended'
  <2>1. req'[Janitor] = n /\ req'[Sweeper] = Idle
    BY <1>2, <1>3 DEF Step, BooksOK, Attended
  <2> QED BY <1>1, <1>3, <2>1 DEF Attended
<1>4. ASSUME req'[Sweeper] = req[Sweeper], req'[Janitor] = req[Janitor]
      PROVE  Attended'
  BY <1>1, <1>4 DEF Attended
<1>5. ASSUME NEW q \in Slots, Lifecycle(q) \/ Recording(q) \/ Roster(q) PROVE Attended'
  <2>1. CASE q \in Requests
    <3>1. \E n : Step(q, n)
      BY <1>5, StepsOfItsOwn
    <3>2. req'[Sweeper] = req[Sweeper] /\ req'[Janitor] = req[Janitor]
      BY <1>2, <2>1, <3>1 DEF Step
    <3> QED BY <1>4, <3>2
  <2>2. CASE q = Sweeper
    BY <1>2, <1>5, <2>2, NothingUnderWay DEF Attended
  <2>3. CASE q = Janitor
    BY <1>3, <1>5, <2>3, SweepEnds
  <2> QED BY <2>1, <2>2, <2>3 DEF Slots
<1>6. CASE Clock
  <2>1. CASE EndAbandoned
    BY <1>3, <2>1 DEF EndAbandoned, Closing, Deriving
  <2>2. CASE Pause \/ Reopen \/ TimePasses
    <3>1. req' = req
      BY <2>2 DEF Pause, Reopen, TimePasses
    <3> QED BY <1>4, <3>1
  <2>3. ~Sweep
    BY DEF Sweep
  <2> QED BY <1>6, <2>1, <2>2, <2>3 DEF Clock
<1>7. ASSUME NEW out, Substitute(out) PROVE Attended'
  <2>1. req' = req
    BY <1>7 DEF Substitute
  <2> QED BY <1>4, <2>1
<1>8. CASE UNCHANGED vars
  BY <1>4, <1>8 DEF vars
<1> QED BY <1>5, <1>6, <1>7, <1>8 DEF Next

\* One device runs the night, and the server does not advance it by itself:
\* then newcomers, substitutions, sit-outs and returns, corrections, failed
\* statements and the sweep that ends abandoned nights leave every round one
\* that can be closed, for any number of players, courts and calls
\* (AddRotationPlayer, rotation_substitute, AdvanceRotationSession).
THEOREM OneDeviceNeverBricks ==
    ASSUME \A p, q \in Requests : p = q, ~AutoAdvance, Budget["reopen"] = 0
    PROVE  Spec => []NeverBricked /\ []SeatedAsTheRosterSays
<1>1. Init => Attended
  BY DEF Init, Attended, Idle, Closing, Deriving, Slots, Kinds
<1>2. BooksOK /\ Attended /\ [Next]_vars => Attended'
  BY AttendedStays
<1>3. BooksOK /\ Attended => Orderly
  <2> SUFFICES ASSUME BooksOK, Attended PROVE Orderly
    OBVIOUS
  <2>1. \A q \in Slots : At(q, "adv.write") \/ At(q, "join") => q \in Requests
    BY DEF Slots, At, Attended, Idle, Closing, Deriving
  <2>2. Reopens = 0
    BY DEF Reopens, Attended
  <2> QED BY <2>1, <2>2 DEF Orderly, At
<1>4. BooksOK /\ Attended /\ [Next]_vars => [HandsOff]_vars
  <2> SUFFICES ASSUME Attended, [Next]_vars, subs' # subs,
                      NEW q \in Slots
               PROVE  req[q].at \notin Committed /\ ~At(q, "roster.write")
    BY DEF HandsOff
  <2>1. \E s \in Requests : req[s] = Idle
    BY OnlySubstitutes DEF Substitute, Instant
  <2>2. req[q].at \in Closing
    BY <2>1 DEF Slots, Attended, Idle, Closing
  <2> QED BY <2>2 DEF Closing, Deriving, Committed, At
<1> QED
  BY <1>1, <1>2, <1>3, <1>4, NeverBrickedHolds, SeatedAsTheRosterSaysHolds, BooksInvariant,
     PTL DEF Spec

-----------------------------------------------------------------------------
(* The record, when calls are made one after the other.                     *)

\* One request at a time, no statement fails, no winner is corrected by hand,
\* and a night that has seen a substitution is not reopened.
OneByOne ==
    /\ \A q, s \in Slots : q = s \/ req[q] = Idle \/ req[s] = Idle
    /\ left["correct"] = Budget["correct"] /\ left["fault"] = Budget["fault"]
    /\ DOMAIN subs = {} \/ Reopens = 0

\* Nobody is substituted in the middle of a call.
BetweenCalls == subs' # subs => AllIdle

\* Whoever is seated in a round may be scored in it: they were not replaced
\* by then, and had come.
Scorable(p, r) ==
    /\ p \in DOMAIN subs => r < subs[p].from
    /\ \A out \in DOMAIN subs : subs[out].by = p => r >= subs[out].from

AllScorable ==
    /\ \A out \in DOMAIN subs : subs[out].from \in Nat /\ subs[out].from <= round + 1
    /\ \A r \in Rounds : \A p \in Seated(courts[r]) : r <= round /\ Scorable(p, r)

\* The court has the winner its scorecard says it has.
Agrees(r, k) == LET v == Verdict(courts[r][k], scores[r])
                IN  v \in Sides => winner[r][k] = v

Decided(r) == \A k \in DOMAIN courts[r] : Agrees(r, k)

\* A scorecard is being filled in, or its round is being decided again.
Deciding(m) == \/ m.at \in {"score.check", "score.write", "rederive"}
               \/ m.at \in Deriving /\ m.then = "retally"

\* The winners about to be written are the scorecard's, where it has a say,
\* and every court that lacks its winner is among them.
Writes(x, r) == LET v == Verdict(courts[r][x.court], scores[r])
                IN  x.court \in DOMAIN courts[r] /\ (v \in Sides => x.side = v)

Patching(m) ==
    /\ \A i \in DOMAIN m.patches : Writes(m.patches[i], m.round)
    /\ \A k \in DOMAIN courts[m.round] :
           Agrees(m.round, k) \/ \E i \in DOMAIN m.patches : m.patches[i].court = k

\* What a request knows of the record is so.
Knows(m) ==
    /\ m.at \in Planning \cup {"report.write"} => m.round = round /\ status # "done"
    /\ m.at # "correct.write"
    /\ m.at \in {"score.check", "score.write"} =>
           \A i \in DOMAIN m.entries : m.entries[i].player \in Seated(courts[m.round])
    /\ m.at = "adv.scores" => m.courts = courts[round]
    /\ m.at \in {"adv.persist", "persist.winners"} => Patching(m)
    /\ m.at \in Planning \ {"adv.courts", "adv.scores", "adv.persist"} => Decided(round)
    /\ m.at = "persist.courts" => m.scores = scores[m.round]
    /\ m.at \in Deriving => m.then \in {"end.write", "retally"}
    /\ m.at \in Deriving /\ m.then = "end.write" => m.round = round
    /\ m.at = "end.write" => Decided(round)

Decisive ==
    \A r \in Rounds : Closed(r) =>
        \/ Decided(r)
        \/ \E q \in Slots : Deciding(req[q]) /\ req[q].round = r

Recorded ==
    /\ AllScorable
    /\ \A q \in Slots : Knows(req[q])
    /\ Decisive

\* Then nothing fails, and nothing is corrected.
LEMMA NothingFails ==
    ASSUME BooksOK, OneByOne, OneByOne'
    PROVE  ~Use("fault") /\ ~Use("correct")
<1>1. {"fault", "correct"} \subseteq Kinds
  BY DEF Kinds
<1>2. \A k \in {"fault", "correct"} : left'[k] = left[k] /\ left[k] \in Nat
  BY <1>1 DEF OneByOne, BooksOK
<1>3. ASSUME NEW k \in {"fault", "correct"}, Use(k) PROVE FALSE
  <2>1. left'[k] = left[k] - 1
    BY <1>1, <1>3 DEF Use, BooksOK
  <2> QED BY <1>2, <2>1
<1> QED BY <1>3

\* A request that is made, or moves on, is the only one.
LEMMA Alone ==
    ASSUME BooksOK, OneByOne, OneByOne', NEW q \in Slots, NEW m, Step(q, m),
           req[q] # Idle \/ m # Idle
    PROVE  /\ req'[q] = m /\ DOMAIN req' = Slots /\ Slots' = Slots
           /\ \A s \in Slots \ {q} : req[s] = Idle /\ req'[s] = Idle
<1>1. /\ req'[q] = m /\ DOMAIN req' = Slots /\ Slots' = Slots
      /\ \A s \in Slots \ {q} : req'[s] = req[s]
  BY DEF Step, BooksOK, Slots
<1>2. /\ \A s \in Slots : s = q \/ req[q] = Idle \/ req[s] = Idle
      /\ \A s \in Slots : s = q \/ req'[q] = Idle \/ req'[s] = Idle
  BY <1>1 DEF OneByOne
<1> QED BY <1>1, <1>2

LEMMA NothingKnown ==
    Knows(Idle) /\ Knows(Idle)' /\ ~Deciding(Idle)
BY DEF Knows, Idle, Planning, Deriving, Deciding

\* Closed rounds are decided, but for the one a request is deciding.
LEMMA OnlyOneDecides ==
    ASSUME NEW q \in Slots, \A s \in Slots \ {q} : req[s] = Idle, Decisive, NEW r \in Rounds, Closed(r)
    PROVE  Decided(r) \/ (Deciding(req[q]) /\ req[q].round = r)
BY NothingKnown DEF Decisive

\* What the request that moved has to show.
LEMMA RecordedMoves ==
    ASSUME BooksOK, OneByOne, OneByOne', NEW q \in Slots, NEW m, Step(q, m),
           req[q] # Idle \/ m # Idle,
           Knows(m)', AllScorable',
           \A r \in Rounds : Closed(r)' => Decided(r)' \/ (Deciding(m) /\ m.round = r)
    PROVE  Recorded'
<1>1. /\ req'[q] = m /\ DOMAIN req' = Slots /\ Slots' = Slots
      /\ \A s \in Slots \ {q} : req[s] = Idle /\ req'[s] = Idle
  BY Alone
<1>2. ASSUME NEW n, Knows(n)', NEW p, req'[p] = n PROVE Knows(req[p])'
  BY <1>2 DEF Knows, Patching
<1>3. \A s \in Slots : Knows(req[s])'
  <2> SUFFICES ASSUME NEW s \in Slots PROVE Knows(req[s])'
    OBVIOUS
  <2>1. CASE s = q
    BY <1>1, <1>2, <2>1
  <2>2. CASE s # q
    BY <1>1, <1>2, <2>2, NothingKnown
  <2> QED BY <2>1, <2>2
<1>4. Decisive'
  <2> SUFFICES ASSUME NEW r \in Rounds, Closed(r)'
               PROVE  Decided(r)' \/ (Deciding(req[q]) /\ req[q].round = r)'
    BY <1>1 DEF Decisive, Rounds
  <2>1. Deciding(m) => Deciding(req[q])'
    BY <1>1 DEF Deciding
  <2> QED BY <1>1, <2>1
<1> QED BY <1>1, <1>3, <1>4 DEF Recorded

\* A request that only reads knows what it knew, and goes on deciding its
\* round or has decided it.
LEMMA RecordRead ==
    ASSUME BooksOK, Recorded, OneByOne, OneByOne', NEW q \in Slots, NEW m, Step(q, m),
           req[q] # Idle \/ m # Idle,
           UNCHANGED <<round, record, subs>>, status' = "done" => status = "done",
           Knows(m),
           Deciding(req[q]) => \/ Deciding(m) /\ m.round = req[q].round
                               \/ Closed(req[q].round) => Decided(req[q].round)
    PROVE  Recorded'
<1>1. /\ courts' = courts /\ winner' = winner /\ scores' = scores
      /\ round' = round /\ subs' = subs
  BY DEF record
<1>2. \A r \in Rounds : Decided(r) => Decided(r)'
  BY <1>1 DEF Decided, Agrees
<1>3. \A r : Closed(r)' => Closed(r)
  BY <1>1 DEF Closed
<1>4. Knows(m)'
  BY <1>1 DEF Knows, Patching, Writes, Agrees, Decided
<1>5. AllScorable'
  BY <1>1 DEF Recorded, AllScorable, Scorable, Rounds
<1>6. \A s \in Slots \ {q} : req[s] = Idle
  BY Alone
<1>7. \A r \in Rounds : Closed(r)' => Decided(r)' \/ (Deciding(m) /\ m.round = r)
  BY <1>2, <1>3, <1>6, OnlyOneDecides DEF Recorded
<1> QED BY <1>4, <1>5, <1>7, RecordedMoves

\* Nothing the record is about changes.
LEMMA RecordStands ==
    ASSUME Recorded, UNCHANGED <<round, record, subs, req>>, status' = "done" => status = "done"
    PROVE  Recorded'
<1>1. /\ courts' = courts /\ winner' = winner /\ scores' = scores
      /\ round' = round /\ subs' = subs /\ req' = req
      /\ Slots' = Slots /\ Rounds' = Rounds
  BY DEF record, Slots, Rounds
<1>2. \A r \in Rounds : Decided(r) => Decided(r)'
  BY <1>1 DEF Decided, Agrees
<1>3. \A r : Closed(r)' => Closed(r)
  BY <1>1 DEF Closed
<1>4. \A q \in Slots : Knows(req[q]) => Knows(req[q])'
  BY <1>1 DEF Knows, Patching, Writes, Agrees, Decided
<1>5. AllScorable'
  BY <1>1 DEF Recorded, AllScorable, Scorable
<1>6. Decisive'
  BY <1>1, <1>2, <1>3 DEF Recorded, Decisive, Deciding
<1> QED BY <1>1, <1>4, <1>5, <1>6 DEF Recorded

\* The patches are the sides there are to write, each for its court.
LEMMA PatchesHold ==
    ASSUME NEW n \in Nat, NEW side, DOMAIN side = 1..n, NEW t, t = PatchesFor(side)
    PROVE  /\ \A i \in DOMAIN t : t[i].court \in 1..n /\ t[i].side = side[t[i].court]
           /\ \A k \in 1..n : side[k] \in Sides => \E i \in DOMAIN t : t[i].court = k
<1> DEFINE all == [k \in DOMAIN side |-> [court |-> k, side |-> side[k]]] \o <<>>
           X == {side[k] : k \in 1..n}
           P == [court : Nat, side : X]
           I == {k \in DOMAIN all : all[k].side \in Sides}
           f == [k \in DOMAIN side |-> [court |-> k, side |-> side[k]]]
<1>1. f \in [1..n -> P] /\ DOMAIN f = 1..n
  OBVIOUS
<1>2. f \in Seq(P)
  <2> HIDE DEF P
  <2>1. f \in Seq(P) BY <1>1
  <2> QED BY <2>1 DEF P
<1>3. \A k \in 1..n : f[k].court = k /\ f[k].side = side[k]
  OBVIOUS
<1> HIDE DEF f, P
<1>4. all = f
  BY <1>2, ConcatEmptySeq DEF f
<1> HIDE DEF all
<1>5. ToSet(Picked(all, I)) = {all[i] : i \in I}
  <2>1. I \in SUBSET (DOMAIN all) OBVIOUS
  <2> HIDE DEF I
  <2> QED BY <1>2, <1>4, <2>1, PickedHolds
<1>6. t = Picked(all, I)
  BY DEF PatchesFor, all
<1>7. \A i \in DOMAIN t : \E j \in I : t[i] = all[j]
  BY <1>5, <1>6 DEF ToSet
<1>8. \A j \in I : \E i \in DOMAIN t : t[i] = all[j]
  BY <1>5, <1>6 DEF ToSet
<1>9. \A i \in DOMAIN t : t[i].court \in 1..n /\ t[i].side = side[t[i].court]
  BY <1>1, <1>3, <1>4, <1>7
<1>10. ASSUME NEW k \in 1..n, side[k] \in Sides PROVE \E i \in DOMAIN t : t[i].court = k
  <2>1. k \in I
    BY <1>1, <1>3, <1>4, <1>10
  <2> QED BY <1>3, <1>4, <1>8, <2>1
<1> QED BY <1>9, <1>10

\* Patches for sides that are the scorecard's, where it has a say.
LEMMA PatchesDecide ==
    ASSUME Board, NEW r \in Rounds, NEW side, DOMAIN side = DOMAIN courts[r],
           \A k \in DOMAIN courts[r] :
               Verdict(courts[r][k], scores[r]) \in Sides =>
                   side[k] = Verdict(courts[r][k], scores[r]),
           NEW m, m.round = r, m.patches = PatchesFor(side)
    PROVE  Patching(m)
<1> DEFINE V == [1..4 -> Here]
           n == Len(courts[r])
<1>1. n \in Nat /\ DOMAIN courts[r] = 1..n
  <2>1. courts[r] \in Seq(V) BY DEF Board, Layouts
  <2> HIDE DEF V
  <2> QED BY <2>1
<1> HIDE DEF V, n
<1> DEFINE t == m.patches
<1>2. /\ \A i \in DOMAIN t : t[i].court \in 1..n /\ t[i].side = side[t[i].court]
      /\ \A k \in 1..n : side[k] \in Sides => \E i \in DOMAIN t : t[i].court = k
  BY <1>1, PatchesHold
<1>3. \A i \in DOMAIN t : Writes(t[i], r)
  BY <1>1, <1>2 DEF Writes
<1>4. \A k \in DOMAIN courts[r] : Agrees(r, k) \/ \E i \in DOMAIN t : t[i].court = k
  BY <1>1, <1>2 DEF Agrees
<1> QED BY <1>3, <1>4 DEF Patching

\* Writing the scorecard's winner leaves what agrees.
LEMMA PatchAgrees ==
    ASSUME Board, NEW r \in Rounds, NEW x, Writes(x, r), Patch(r, x), UNCHANGED <<courts, scores>>
    PROVE  /\ Agrees(r, x.court)'
           /\ \A k \in DOMAIN courts[r] : Agrees(r, k) => Agrees(r, k)'
           /\ \A s \in Rounds : Decided(s) => Decided(s)'
<1>1. \A s \in Rounds \ {r} : winner'[s] = winner[s]
  BY DEF Patch, Board
<1>2. /\ winner'[r][x.court] = x.side
      /\ \A k \in DOMAIN courts[r] \ {x.court} : winner'[r][k] = winner[r][k]
  BY DEF Patch, Board, Writes
<1>3. Agrees(r, x.court)'
  BY <1>2 DEF Agrees, Writes
<1>4. \A k \in DOMAIN courts[r] : Agrees(r, k) => Agrees(r, k)'
  BY <1>2, <1>3 DEF Agrees
<1>5. \A s \in Rounds : Decided(s) => Decided(s)'
  BY <1>1, <1>4 DEF Decided, Agrees
<1> QED BY <1>3, <1>4, <1>5

\* The patches that are left decide what is left.
LEMMA PatchGoesOn ==
    ASSUME Board, NEW r \in Rounds, NEW o, o.round = r, o.patches \in Seq(Patches),
           o.patches # <<>>, Patching(o), Patch(r, Head(o.patches)),
           UNCHANGED <<courts, scores>>,
           NEW m, m.round = r, m.patches = Tail(o.patches)
    PROVE  Patching(m)' /\ \A s \in Rounds : Decided(s) => Decided(s)'
<1> DEFINE t == o.patches
           x == Head(t)
<1>1. /\ x = t[1] /\ 1 \in DOMAIN t /\ Tail(t) \in Seq(Patches)
      /\ DOMAIN Tail(t) = 1..(Len(t) - 1) /\ DOMAIN t = 1..Len(t)
      /\ \A i \in 1..(Len(t) - 1) : Tail(t)[i] = t[i + 1]
  OBVIOUS
<1>2. Writes(x, r)
  BY <1>1 DEF Patching
<1>3. /\ Agrees(r, x.court)'
      /\ \A k \in DOMAIN courts[r] : Agrees(r, k) => Agrees(r, k)'
      /\ \A s \in Rounds : Decided(s) => Decided(s)'
  BY <1>2, PatchAgrees
<1>4. \A i \in DOMAIN m.patches : Writes(m.patches[i], r)'
  <2>1. ASSUME NEW y, Writes(y, r) PROVE Writes(y, r)'
    BY <2>1 DEF Writes
  <2>2. \A i \in 1..(Len(t) - 1) : i + 1 \in DOMAIN t
    BY <1>1
  <2>3. \A i \in DOMAIN m.patches : m.patches[i] = t[i + 1] /\ i + 1 \in DOMAIN t
    BY <1>1, <2>2
  <2>4. ASSUME NEW i \in DOMAIN m.patches PROVE Writes(m.patches[i], r)'
    <3>1. PICK y : y = m.patches[i]
      OBVIOUS
    <3>2. Writes(y, r)
      BY <2>3, <3>1 DEF Patching
    <3> QED BY <2>1, <3>1, <3>2
  <2> QED BY <2>4
<1>5. ASSUME NEW k \in DOMAIN courts[r], ~Agrees(r, k)'
      PROVE  \E i \in DOMAIN m.patches : m.patches[i].court = k
  <2>1. ~Agrees(r, k) /\ k # x.court
    BY <1>3, <1>5
  <2>2. PICK i \in DOMAIN t : t[i].court = k
    BY <2>1 DEF Patching
  <2>3. i # 1 /\ i \in 1..Len(t) /\ Len(t) \in Nat
    BY <1>1, <2>1, <2>2
  <2>4. i - 1 \in 1..(Len(t) - 1) /\ (i - 1) + 1 = i
    BY <2>3
  <2> QED BY <1>1, <2>2, <2>4
<1>6. Patching(m)'
  BY <1>4, <1>5 DEF Patching
<1> QED BY <1>3, <1>6

\* A request that goes on planning, past the sheets.
LEMMA PlansOn ==
    ASSUME NEW o, o.at \in Planning \ {"adv.courts", "adv.scores", "adv.persist"}, Knows(o),
           NEW m, m.at \in Planning \ {"adv.courts", "adv.scores", "adv.persist"},
           m.round = o.round
    PROVE  Knows(m)
BY DEF Knows, Planning, Deriving

LEMMA Unaware ==
    ASSUME NEW m, m.at \in {"idle", "adv.session", "end.round", "resume.write", "retally",
                            "retally.wins", "retally.write", "roster.write", "join"}
    PROVE  Knows(m) /\ Knows(m)' /\ ~Deciding(m)
BY DEF Knows, Planning, Deriving, Deciding

\* The calls that start an advance, and what an advance reads.
LEMMA AdvanceRecords ==
    ASSUME BooksOK, Sheets, Recorded, OneByOne, OneByOne', NEW q \in Slots,
           \/ \E expected : AdvCall(q, expected)
           \/ AdvSession(q) \/ AdvCourts(q) \/ AdvScores(q) \/ AdvPersisted(q)
           \/ AdvSubs(q) \/ AdvGone(q) \/ AdvActive(q) \/ AdvPlays(q) \/ AdvRecheck(q)
    PROVE  Recorded'
<1> DEFINE o == req[q]
<1>1. /\ RequestOK(o) /\ Knows(o) /\ "at" \in DOMAIN o /\ o.at \in Labels
      /\ o.at \in Planning => {"round", "expected"} \subseteq DOMAIN o /\ o.round \in Rounds
  BY DEF BooksOK, Recorded, RequestOK, Rounds
<1>2. /\ ~Use("fault") /\ Idle.at = "idle"
      /\ UNCHANGED <<round, record, subs, status>>
  BY NothingFails DEF Idle, AdvCall, AdvSession, AdvCourts, AdvScores, AdvPersisted, AdvSubs,
     AdvGone, AdvActive, AdvPlays, AdvRecheck, session, people
<1>3. ASSUME NEW m, Step(q, m), o.at # "idle" \/ m.at # "idle", ~Deciding(o), Knows(m)
      PROVE  Recorded'
  <2>1. o # Idle \/ m # Idle
    BY <1>2, <1>3
  <2> HIDE DEF o
  <2> QED BY <1>2, <1>3, <2>1, RecordRead DEF o
<1>4. ASSUME NEW m, Step(q, m), m.at \in {"idle", "adv.session", "end.round"},
             o.at # "idle" \/ m.at # "idle", ~Deciding(o)
      PROVE  Recorded'
  <2>1. Knows(m)
    BY <1>4, Unaware
  <2> HIDE DEF o
  <2> QED BY <1>3, <1>4, <2>1
<1>5. ASSUME o.at \in Planning \cup {"idle", "adv.session"} PROVE ~Deciding(o)
  BY <1>5 DEF Planning, Deciding, Deriving
<1>6. CASE \E expected : AdvCall(q, expected)
  <2>1. PICK m : Step(q, m) /\ m.at = "adv.session" /\ req[q] = Idle
    BY <1>6 DEF AdvCall, Call
  <2>2. o.at = "idle"
    BY <1>2, <2>1
  <2> HIDE DEF o
  <2> QED BY <1>4, <1>5, <2>1, <2>2
<1>7. CASE AdvSession(q)
  <2>1. o.at = "adv.session"
    BY <1>7 DEF AdvSession, At
  <2>2. \/ Done(q)
        \/ \E m : Step(q, m) /\ m.at = "adv.courts" /\ m.round = round /\ status = "live"
    BY <1>7 DEF AdvSession
  <2>3. ASSUME NEW m, m.at = "adv.courts", m.round = round, status = "live" PROVE Knows(m)
    BY <2>3 DEF Knows, Planning, Deriving
  <2>4. Done(q) => Step(q, Idle)
    BY DEF Done
  <2> HIDE DEF o
  <2> QED BY <1>2, <1>3, <1>4, <1>5, <2>1, <2>2, <2>3, <2>4
<1>8. CASE AdvCourts(q)
  <2> DEFINE fields == [at |-> "adv.scores", courts |-> courts[o.round], taps |-> winner[o.round]]
             m == Extend(o, fields)
  <2>1. o.at = "adv.courts" /\ Step(q, m)
    BY <1>8 DEF AdvCourts, At
  <2>2. o.at \in Planning
    BY <2>1 DEF Planning
  <2>3. /\ DOMAIN fields = {"at", "courts", "taps"} /\ fields.at = "adv.scores"
        /\ fields.courts = courts[o.round]
    OBVIOUS
  <2> HIDE DEF fields
  <2>6. /\ \A x \in DOMAIN fields : m[x] = fields[x]
        /\ \A x \in (DOMAIN o) \ (DOMAIN fields) : m[x] = o[x]
    BY DEF Extend
  <2> HIDE DEF m
  <2>4. m.at = "adv.scores" /\ m.courts = courts[o.round] /\ m.round = o.round
    BY <1>1, <2>2, <2>3, <2>6
  <2> HIDE DEF o
  <2>5. Knows(m)
    BY <1>1, <2>2, <2>4 DEF Knows, Planning, Deriving
  <2> QED BY <1>3, <1>5, <2>1, <2>2, <2>4, <2>5
<1>9. CASE AdvScores(q)
  <2>1. o.at = "adv.scores" /\ o.at \in Planning
    BY <1>9 DEF AdvScores, At, Planning
  <2>2. o.round = round /\ status # "done" /\ o.courts = courts[round] /\ round \in Rounds
    BY <1>1, <2>1 DEF Knows
  <2> DEFINE side == [k \in DOMAIN o.courts |->
                         Persisted(o.courts[k], o.taps[k], scores[o.round])]
  <2>3. PICK m : /\ Step(q, m) /\ m.at = "adv.persist" /\ m.round = o.round
                 /\ m.patches = PatchesFor(side)
    BY <1>9 DEF AdvScores
  <2>8. \A k \in DOMAIN courts[round] :
            side[k] = Persisted(courts[round][k], o.taps[k], scores[round])
    BY <2>2
  <2>9. ASSUME NEW court, NEW tap, NEW scoreOf, Verdict(court, scoreOf) \in Sides
        PROVE  Persisted(court, tap, scoreOf) = Verdict(court, scoreOf)
    BY <2>9 DEF Persisted, Sides
  <2>4. /\ DOMAIN side = DOMAIN courts[round]
        /\ \A k \in DOMAIN courts[round] :
               Verdict(courts[round][k], scores[round]) \in Sides =>
                   side[k] = Verdict(courts[round][k], scores[round])
    BY <2>2, <2>8, <2>9
  <2> HIDE DEF side
  <2>5. Board
    BY DEF Sheets
  <2>6. Patching(m)
    BY <2>2, <2>3, <2>4, <2>5, PatchesDecide
  <2>7. Knows(m)
    BY <2>2, <2>3, <2>6 DEF Knows, Planning, Deriving
  <2> HIDE DEF o
  <2> QED BY <1>3, <1>5, <2>1, <2>3, <2>7
<1>10. CASE AdvPersisted(q)
  <2>1. o.at = "adv.persist" /\ o.at \in Planning /\ o.patches = <<>>
    BY <1>10 DEF AdvPersisted, At, Planning
  <2>2. o.round = round /\ status # "done" /\ Patching(o)
    BY <1>1, <2>1 DEF Knows
  <2>3. Decided(round)
    BY <2>1, <2>2 DEF Decided, Patching
  <2>4. Step(q, Idle) \/ \E m : Step(q, m) /\ m.at = "adv.subs" /\ m.round = o.round
    BY <1>10 DEF AdvPersisted, Done
  <2>5. ASSUME NEW m, m.at = "adv.subs", m.round = o.round PROVE Knows(m)
    BY <2>2, <2>3, <2>5 DEF Knows, Planning, Deriving
  <2> HIDE DEF o
  <2> QED BY <1>2, <1>3, <1>4, <1>5, <2>1, <2>4, <2>5
<1> DEFINE Late == Planning \ {"adv.courts", "adv.scores", "adv.persist"}
<1>11. ASSUME NEW fields, "at" \in DOMAIN fields, fields.at \in Late, "round" \notin DOMAIN fields,
              o.at \in Late, Step(q, Extend(o, fields))
       PROVE  Recorded'
  <2> DEFINE m == Extend(o, fields)
  <2>3. /\ \A x \in DOMAIN fields : m[x] = fields[x]
        /\ \A x \in (DOMAIN o) \ (DOMAIN fields) : m[x] = o[x]
    BY DEF Extend
  <2> HIDE DEF m
  <2>1. m.at \in Late /\ m.round = o.round
    BY <1>1, <1>11, <2>3
  <2> HIDE DEF o
  <2>2. Knows(m)
    BY <1>1, <1>11, <2>1, PlansOn
  <2> QED BY <1>3, <1>5, <1>11, <2>1, <2>2 DEF m, Planning
<1>12. CASE AdvSubs(q)
  <2> DEFINE fields == [at |-> "adv.gone", takeover |-> [p \in DOMAIN subs |-> subs[p].by]]
  <2>1. DOMAIN fields = {"at", "takeover"} /\ fields.at \in Late
    BY DEF Planning
  <2>2. Step(q, Extend(o, fields)) /\ o.at \in Late
    BY <1>12 DEF AdvSubs, At, Planning
  <2> HIDE DEF fields, o
  <2> QED BY <1>11, <2>1, <2>2
<1>13. CASE AdvGone(q)
  <2> DEFINE fields == [at |-> "adv.active", gone |-> Gone]
  <2>1. DOMAIN fields = {"at", "gone"} /\ fields.at \in Late
    BY DEF Planning
  <2>2. Step(q, Extend(o, fields)) /\ o.at \in Late
    BY <1>13 DEF AdvGone, At, Planning
  <2> HIDE DEF fields, o
  <2> QED BY <1>11, <2>1, <2>2
<1>14. CASE AdvActive(q)
  <2> DEFINE fields == [at |-> "adv.plays", active |-> ActiveRow]
  <2>1. DOMAIN fields = {"at", "active"} /\ fields.at \in Late
    BY DEF Planning
  <2>2. Step(q, Extend(o, fields)) /\ o.at \in Late
    BY <1>2, <1>14 DEF AdvActive, At, Planning
  <2> HIDE DEF fields, o
  <2> QED BY <1>11, <2>1, <2>2
<1>15. ASSUME NEW m, Step(q, m), o.at \in Late, m.at \in Late, m.round = o.round PROVE Recorded'
  <2> HIDE DEF o
  <2>1. Knows(m)
    BY <1>1, <1>15, PlansOn
  <2> QED BY <1>3, <1>5, <1>15, <2>1 DEF Planning
<1>16. CASE AdvPlays(q)
  <2>1. o.at = "adv.plays" /\ o.at \in Late
    BY <1>16 DEF AdvPlays, At, Planning
  <2>2. \/ \E m : Step(q, m) /\ m.at \in {"idle", "end.round"}
        \/ \E m : Step(q, m) /\ m.at = "adv.recheck" /\ m.round = o.round
    BY <1>2, <1>16 DEF AdvPlays, Done
  <2> HIDE DEF o
  <2> QED BY <1>4, <1>5, <1>15, <2>1, <2>2 DEF Planning
<1>17. CASE AdvRecheck(q)
  <2>1. o.at = "adv.recheck" /\ o.at \in Late
    BY <1>17 DEF AdvRecheck, At, Planning
  <2>2. PICK m : m = [o EXCEPT !.at = "adv.write"]
    OBVIOUS
  <2>3. m.at = "adv.write" /\ m.round = o.round
    BY <1>1, <2>2
  <2>4. Step(q, Idle) \/ Step(q, m)
    BY <1>17, <2>2 DEF AdvRecheck, Done
  <2> HIDE DEF o
  <2> QED BY <1>2, <1>4, <1>5, <1>15, <2>1, <2>3, <2>4 DEF Planning
<1> QED BY <1>6, <1>7, <1>8, <1>9, <1>10, <1>12, <1>13, <1>14, <1>16, <1>17

\* The winners of a round written from its scorecard, and the calls that end a
\* night or resume it.
LEMMA PersistRecords ==
    ASSUME BooksOK, Sheets, Recorded, OneByOne, OneByOne', NEW q \in Slots,
           \/ PersistScores(q) \/ PersistCourts(q) \/ PersistWinner(q) \/ PersistDone(q)
           \/ EndCall(q) \/ EndRound(q) \/ EndWrite(q) \/ ResumeRead(q) \/ ResumeWrite(q)
           \/ Drop(q)
    PROVE  Recorded'
<1>0. PICK o : o = req[q]
  OBVIOUS
<1>1. /\ RequestOK(o) /\ Knows(o) /\ "at" \in DOMAIN o /\ o.at \in Labels
      /\ o.at \in Deriving => "then" \in DOMAIN o
      /\ o.at \in Planning => o.round \in Rounds
      /\ o.at \in Deriving => "round" \in DOMAIN o /\ o.round \in Rounds
      /\ o.at \in {"adv.persist", "persist.winners"} =>
             "patches" \in DOMAIN o /\ o.patches \in Seq(Patches)
      /\ Board /\ Decisive
  BY <1>0 DEF BooksOK, Recorded, RequestOK, Rounds, Sheets, Carries, Has
<1>2. ~Use("fault") /\ Idle.at = "idle"
  BY NothingFails DEF Idle
<1>3. ASSUME NEW m, Step(q, m), o.at # "idle" \/ m.at # "idle", Knows(m),
             UNCHANGED <<round, record, subs>>, status' = "done" => status = "done",
             Deciding(o) => \/ Deciding(m) /\ m.round = o.round
                            \/ Closed(o.round) => Decided(o.round)
      PROVE  Recorded'
  <2>1. o # Idle \/ m # Idle
    BY <1>2, <1>3
  <2> QED BY <1>0, <1>3, <2>1, RecordRead
<1>4. CASE EndCall(q) \/ ResumeRead(q)
  <2>1. /\ o.at = "idle" /\ UNCHANGED <<round, record, subs, status>>
        /\ \E m : Step(q, m) /\ m.at \in {"end.round", "resume.write"}
    BY <1>0, <1>2, <1>4 DEF EndCall, ResumeRead, Call, session, people
  <2> QED BY <1>3, <2>1, Unaware DEF Deciding, Deriving
<1>5. CASE ResumeWrite(q)
  <2>1. /\ o.at = "resume.write" /\ UNCHANGED <<round, record, subs>>
        /\ status' = "done" => status = "done"
        /\ Step(q, Idle)
    BY <1>0, <1>5 DEF ResumeWrite, At, Done, people
  <2> QED BY <1>2, <1>3, <2>1, Unaware DEF Deciding, Deriving
<1>6. CASE EndRound(q)
  <2>1. /\ o.at = "end.round" /\ UNCHANGED <<round, record, subs, status>>
        /\ Step(q, DeriveWinners(round, "end.write"))
    BY <1>0, <1>2, <1>6 DEF EndRound, At, session, people
  <2>2. Knows(DeriveWinners(round, "end.write")) /\ DeriveWinners(round, "end.write").at # "idle"
    BY DEF Knows, DeriveWinners, Planning
  <2> QED BY <1>3, <2>1, <2>2 DEF Deciding, Deriving
<1>7. CASE PersistScores(q)
  <2> DEFINE fields == [at |-> "persist.courts", scores |-> scores[o.round]]
             m == Extend(o, fields)
  <2>1. /\ o.at = "persist.scores" /\ o.at \in Deriving
        /\ UNCHANGED <<round, record, subs, status>>
        /\ Step(q, m)
    BY <1>0, <1>7 DEF PersistScores, At, session, people, Deriving
  <2>2. DOMAIN fields = {"at", "scores"} /\ fields.at = "persist.courts"
        /\ fields.scores = scores[o.round]
    OBVIOUS
  <2> HIDE DEF fields
  <2>3. /\ \A x \in DOMAIN fields : m[x] = fields[x]
        /\ \A x \in (DOMAIN o) \ (DOMAIN fields) : m[x] = o[x]
    BY DEF Extend
  <2> HIDE DEF m
  <2>4. /\ m.at = "persist.courts" /\ m.scores = scores[o.round]
        /\ m.round = o.round /\ m.then = o.then
    BY <1>1, <2>1, <2>2, <2>3
  <2>5. Knows(m) /\ (Deciding(o) => Deciding(m))
    BY <1>1, <2>1, <2>4 DEF Knows, Planning, Deriving, Deciding
  <2> QED BY <1>3, <2>1, <2>4, <2>5
<1>8. CASE PersistCourts(q)
  <2>1. /\ o.at = "persist.courts" /\ o.at \in Deriving
        /\ UNCHANGED <<round, record, subs, status>>
    BY <1>0, <1>8 DEF PersistCourts, At, session, people, Deriving
  <2> DEFINE r == o.round
             side == [k \in DOMAIN courts[r] |-> Verdict(courts[r][k], o.scores)]
  <2>7. PICK m : m = [at |-> "persist.winners", round |-> r, then |-> o.then,
                      patches |-> PatchesFor(side)]
    OBVIOUS
  <2>8. Step(q, m)
    BY <1>0, <1>8, <2>7 DEF PersistCourts
  <2>2. /\ Step(q, m) /\ m.at = "persist.winners" /\ m.round = r
        /\ m.then = o.then /\ m.patches = PatchesFor(side)
    BY <2>7, <2>8
  <2>3. o.scores = scores[r] /\ r \in Rounds
    BY <1>1, <2>1 DEF Knows
  <2>4. /\ DOMAIN side = DOMAIN courts[r]
        /\ \A k \in DOMAIN courts[r] :
               Verdict(courts[r][k], scores[r]) \in Sides =>
                   side[k] = Verdict(courts[r][k], scores[r])
    BY <2>3
  <2> HIDE DEF side
  <2>5. Patching(m)
    BY <1>1, <2>2, <2>3, <2>4, PatchesDecide
  <2>6. Knows(m) /\ (Deciding(o) => Deciding(m))
    BY <1>1, <2>1, <2>2, <2>5 DEF Knows, Planning, Deriving, Deciding
  <2> QED BY <1>3, <2>1, <2>2, <2>6
<1>9. CASE PersistDone(q)
  <2>1. /\ o.at = "persist.winners" /\ o.at \in Deriving /\ o.patches = <<>>
        /\ UNCHANGED <<round, record, subs, status>>
        /\ Step(q, [at |-> o.then])
    BY <1>0, <1>9 DEF PersistDone, At, session, people, Deriving
  <2>2. Patching(o) /\ o.then \in {"end.write", "retally"}
        /\ (o.then = "end.write" => o.round = round)
    BY <1>1, <2>1 DEF Knows
  <2>3. Decided(o.round)
    BY <2>1, <2>2 DEF Decided, Patching
  <2>4. PICK m : m = [at |-> o.then]
    OBVIOUS
  <2>5. m.at = o.then
    BY <2>4
  <2>6. Knows(m)
    BY <2>2, <2>3, <2>5 DEF Knows, Planning, Deriving
  <2> QED BY <1>3, <2>1, <2>2, <2>3, <2>4, <2>5, <2>6
<1>10. CASE PersistWinner(q)
  <2> DEFINE r == o.round
             m == [o EXCEPT !.patches = Tail(@)]
  <2>1. /\ o.at \in {"adv.persist", "persist.winners"} /\ o.patches # <<>> /\ Step(q, m)
        /\ Patch(r, Head(o.patches)) /\ UNCHANGED <<courts, scores, round, status, subs>>
    BY <1>0, <1>2, <1>10 DEF PersistWinner, session, people
  <2>2. r \in Rounds /\ o.patches \in Seq(Patches) /\ "round" \in DOMAIN o
        /\ (o.at = "persist.winners" => "then" \in DOMAIN o) /\ Patching(o)
    <3>1. o.at \in Planning => "round" \in DOMAIN o
      BY <1>1 DEF RequestOK
    <3> QED BY <1>1, <2>1, <3>1 DEF Deriving, Planning, Knows
  <2>3. /\ m.at = o.at /\ m.round = r /\ m.patches = Tail(o.patches)
        /\ o.at = "persist.winners" => m.then = o.then
    BY <1>1, <2>1, <2>2
  <2> HIDE DEF m
  <2>4. Patching(m)' /\ \A s \in Rounds : Decided(s) => Decided(s)'
    BY <1>1, <2>1, <2>2, <2>3, PatchGoesOn
  <2>5. Knows(m)'
    BY <1>1, <2>1, <2>3, <2>4 DEF Knows, Planning, Deriving
  <2>6. AllScorable'
    BY <2>1 DEF Recorded, AllScorable, Scorable, Rounds
  <2>7. o # Idle
    BY <1>2, <2>1
  <2>8. \A s \in Slots \ {q} : req[s] = Idle
    BY <1>0, <2>1, <2>7, Alone
  <2>9. \A s \in Rounds : Closed(s)' => Decided(s)' \/ (Deciding(m) /\ m.round = s)
    <3>1. \A s : Closed(s)' => Closed(s)
      BY <2>1 DEF Closed
    <3>2. Deciding(o) => Deciding(m)
      BY <2>1, <2>3 DEF Deciding, Deriving
    <3> QED BY <1>0, <1>1, <2>3, <2>4, <2>8, <3>1, <3>2, OnlyOneDecides
  <2> QED BY <1>0, <2>1, <2>5, <2>6, <2>7, <2>9, RecordedMoves
<1>11. CASE EndWrite(q)
  <2>1. /\ o.at = "end.write" /\ Step(q, Idle) /\ UNCHANGED <<round, record, subs>>
        /\ status' \in {status, "done"}
    BY <1>0, <1>11 DEF EndWrite, At, Done, people
  <2>2. /\ courts' = courts /\ winner' = winner /\ scores' = scores
        /\ round' = round /\ subs' = subs
    BY <2>1 DEF record
  <2>3. Decided(round) /\ ~Deciding(o) /\ o # Idle
    BY <1>1, <1>2, <2>1 DEF Knows, Deciding, Deriving
  <2>4. \A s \in Slots \ {q} : req[s] = Idle
    BY <1>0, <2>1, <2>3, Alone
  <2>5. \A r \in Rounds : Closed(r)' => Decided(r)'
    <3> SUFFICES ASSUME NEW r \in Rounds, Closed(r)' PROVE Decided(r)'
      OBVIOUS
    <3>1. Closed(r) \/ r = round
      BY <2>2 DEF Closed
    <3>2. Decided(r)
      BY <1>0, <1>1, <2>3, <2>4, <3>1, OnlyOneDecides
    <3> QED BY <2>2, <3>2 DEF Decided, Agrees
  <2>6. AllScorable'
    BY <2>2 DEF Recorded, AllScorable, Scorable, Rounds
  <2> QED BY <1>0, <2>1, <2>3, <2>5, <2>6, NothingKnown, RecordedMoves
<1>12. ~Drop(q)
  BY <1>2 DEF Drop
<1> QED BY <1>4, <1>5, <1>6, <1>7, <1>8, <1>9, <1>10, <1>11, <1>12

\* A round is closed with the winners its scorecard says, and the next opens
\* with players who can be scored in it.
LEMMA AdvWriteRecords ==
    ASSUME BooksOK, Sheets, Recorded, OneByOne, OneByOne', NEW q \in Slots, AdvWrite(q),
           SeatedAsTheRosterSays'
    PROVE  Recorded'
<1>0. PICK o : o = req[q]
  OBVIOUS
<1>1. /\ o.at = "adv.write" /\ o.at \in Planning /\ RequestOK(o) /\ Knows(o) /\ Decisive
      /\ Board /\ Step(q, Idle) /\ Idle.at = "idle" /\ UNCHANGED <<scores, subs>>
  BY <1>0 DEF AdvWrite, At, Planning, BooksOK, Recorded, Sheets, Done, Idle, people
<1>2. /\ o.round = round /\ round \in 1..(MaxRounds - 1) /\ Decided(round) /\ ~Deciding(o)
      /\ o # Idle
  BY <1>1 DEF RequestOK, Knows, Deciding, Deriving
<1>3. \A s \in Slots \ {q} : req[s] = Idle
  BY <1>0, <1>1, <1>2, Alone
<1>4. CASE UNCHANGED <<session, courts, winner, tally>>
  <2>1. UNCHANGED <<round, record, subs, status>>
    BY <1>1, <1>4 DEF session, record
  <2> QED BY <1>0, <1>1, <1>2, <2>1, NothingKnown, RecordRead
<1>5. CASE /\ status' = "live" /\ round' = round + 1
           /\ courts' = [courts EXCEPT ![round + 1] = o.courts]
           /\ winner' = [winner EXCEPT ![round + 1] = Fresh(o.courts)]
  <2>1. \A r \in Rounds \ {round + 1} : courts'[r] = courts[r] /\ winner'[r] = winner[r]
    BY <1>1, <1>5 DEF BooksOK, Board
  <2>2. \A r \in Rounds : Closed(r)' => r <= round /\ r # round + 1
    BY <1>2, <1>5 DEF Closed, Rounds
  <2>3. \A r \in Rounds : r <= round => Closed(r) \/ r = round
    BY <1>2 DEF Closed, Rounds
  <2>4. \A r \in Rounds : Closed(r)' => Decided(r)
    BY <1>0, <1>1, <1>2, <1>3, <2>2, <2>3, OnlyOneDecides
  <2>5. \A r \in Rounds : Closed(r)' => Decided(r)'
    <3> SUFFICES ASSUME NEW r \in Rounds, Closed(r)' PROVE Decided(r)'
      OBVIOUS
    <3>1. courts'[r] = courts[r] /\ winner'[r] = winner[r] /\ scores' = scores /\ Decided(r)
      BY <1>1, <2>1, <2>2, <2>4
    <3> QED BY <3>1 DEF Decided, Agrees
  <2>6. AllScorable'
    <3>1. \A out \in DOMAIN subs : subs[out].from \in Nat /\ subs[out].from <= round + 1
      BY DEF Recorded, AllScorable
    <3>2. \A r \in Rounds \ {round + 1} : \A p \in Seated(courts'[r]) : r <= round /\ Scorable(p, r)
      BY <2>1 DEF Recorded, AllScorable
    <3>3. ASSUME NEW p \in Seated(courts'[round + 1]) PROVE Scorable(p, round + 1)
      <4>1. \A x \in DOMAIN subs : subs[x].from <= round + 1 => x \notin Seated(courts'[round + 1])
        BY <1>1, <1>5 DEF SeatedAsTheRosterSays
      <4> QED BY <1>2, <3>1, <3>3, <4>1 DEF Scorable
    <3>4. \A p, r : Scorable(p, r) => Scorable(p, r)'
      BY <1>1 DEF Scorable
    <3>5. Rounds' = Rounds /\ \A r \in Rounds : r <= round => r <= round + 1
      BY <1>2 DEF Rounds
    <3>6. \A out \in DOMAIN subs' : subs'[out].from \in Nat /\ subs'[out].from <= round' + 1
      BY <1>1, <1>2, <1>5, <3>1
    <3>7. \A r \in Rounds : \A p \in Seated(courts'[r]) : r <= round' /\ Scorable(p, r)'
      BY <1>2, <1>5, <3>2, <3>3, <3>4, <3>5
    <3> QED BY <3>5, <3>6, <3>7 DEF AllScorable
  <2> QED BY <1>0, <1>1, <1>2, <2>5, <2>6, NothingKnown, RecordedMoves
<1> QED BY <1>0, <1>2, <1>4, <1>5 DEF AdvWrite, Current

\* A scorecard is filled in for those on the court.
LEMMA EntriesSeated ==
    ASSUME NEW S, NEW cs \in Layouts(S), NEW k \in DOMAIN cs, NEW card,
           NEW t, t = Entries(cs[k], card)
    PROVE  \A i \in DOMAIN t : t[i].player \in Seated(cs)
<1> DEFINE court == cs[k]
           Score(i) == CASE card = "clear" -> NoScore
                         [] card = "level" -> 1
                         [] card = "a"     -> IF i <= 2 THEN 1 ELSE 0
                         [] card = "b"     -> IF i <= 2 THEN 0 ELSE 1
           f == [i \in 1..4 |-> [player |-> court[i], score |-> Score(i)]]
           X == {Score(i) : i \in 1..4}
           C == [player : {court[i] : i \in 1..4}, score : X]
<1>1. f \in [1..4 -> C]
  <2> HIDE DEF Score
  <2> QED OBVIOUS
<1>2. f \in Seq(C) /\ DOMAIN f = 1..4
  <2>1. f = [i \in 1..4 |-> f[i]] /\ \A i \in 1..4 : f[i] \in C
    BY <1>1
  <2> HIDE DEF C, f
  <2> QED BY <2>1
<1>3. \A i \in 1..4 : f[i].player = court[i]
  OBVIOUS
<1>4. t = f \o <<>>
  BY DEF Entries
<1> HIDE DEF f, C
<1>5. t = f
  BY <1>2, <1>4, ConcatEmptySeq
<1>6. \A i \in 1..4 : court[i] \in Seated(cs)
  BY SeatsOf
<1> QED BY <1>2, <1>3, <1>5, <1>6

LEMMA TailsEntries ==
    ASSUME NEW S, NEW t \in Seq(S), t # <<>>
    PROVE  /\ Head(t) = t[1] /\ 1 \in DOMAIN t
           /\ \A i \in DOMAIN Tail(t) : Tail(t)[i] = t[i + 1] /\ i + 1 \in DOMAIN t
OBVIOUS

\* Taps, and scorecards filled in cell by cell.
LEMMA ScoresRecord ==
    ASSUME BooksOK, Sheets, Recorded, OneByOne, OneByOne', NEW q \in Slots,
           \/ \E r \in Rounds : \E k \in DOMAIN courts[r] : \E x :
                  ScoreCall(q, r, k, x) \/ CorrectCheck(q, r, k, x)
           \/ \E k, x : ReportCheck(q, k, x)
           \/ ReportWrite(q) \/ ScoreCheck(q) \/ ScoreWrite(q) \/ Rederive(q)
           \/ RetallyCourts(q) \/ RetallyWins(q) \/ RetallyWrite(q) \/ CorrectWrite(q)
    PROVE  Recorded'
<1>0. PICK o : o = req[q]
  OBVIOUS
<1>1. /\ Knows(o) /\ "at" \in DOMAIN o /\ Board /\ Decisive
      /\ o.at \in {"score.check", "score.write"} =>
             /\ "round" \in DOMAIN o /\ o.round \in Rounds
             /\ "entries" \in DOMAIN o /\ o.entries \in Seq(Cells) /\ o.entries # <<>>
             /\ \A i \in DOMAIN o.entries : o.entries[i].player \in Seated(courts[o.round])
      /\ o.at = "rederive" => o.round \in Rounds
  BY <1>0 DEF BooksOK, Recorded, RequestOK, Sheets, Carries, Has, Knows
<1>2. ~Use("correct") /\ Idle.at = "idle"
  BY NothingFails DEF Idle
<1>3. ASSUME NEW m, Step(q, m), o.at # "idle" \/ m.at # "idle", Knows(m),
             UNCHANGED <<round, record, subs, status>>,
             Deciding(o) => \/ Deciding(m) /\ m.round = o.round
                            \/ Closed(o.round) => Decided(o.round)
      PROVE  Recorded'
  <2>1. o # Idle \/ m # Idle
    BY <1>2, <1>3
  <2> QED BY <1>0, <1>3, <2>1, RecordRead
<1>4. ASSUME NEW r \in Rounds, NEW k \in DOMAIN courts[r], NEW x, ScoreCall(q, r, k, x)
      PROVE  Recorded'
  <2>1. PICK m : /\ Step(q, m) /\ m.at = "score.check" /\ m.round = r
                 /\ m.entries = Entries(courts[r][k], x)
    BY <1>4 DEF ScoreCall
  <2>2. o.at = "idle" /\ UNCHANGED <<round, record, subs, status>>
    BY <1>0, <1>2, <1>4 DEF ScoreCall, Call, session, people
  <2>3. \A i \in DOMAIN m.entries : m.entries[i].player \in Seated(courts[r])
    <3>1. courts[r] \in Layouts(Here)
      BY <1>1 DEF Board
    <3> QED BY <2>1, <3>1, EntriesSeated
  <2>4. Knows(m)
    BY <2>1, <2>3 DEF Knows, Planning, Deriving
  <2> QED BY <1>3, <2>1, <2>2, <2>4 DEF Deciding, Deriving
<1>5. ASSUME NEW k, NEW x, ReportCheck(q, k, x)
      PROVE  Recorded'
  <2>1. PICK m : Step(q, m) /\ m.at = "report.write" /\ m.round = round
    BY <1>5 DEF ReportCheck
  <2>2. o.at = "idle" /\ UNCHANGED <<round, record, subs, status>> /\ status # "done"
    BY <1>0, <1>2, <1>5 DEF ReportCheck, Call, session, people
  <2>3. Knows(m)
    BY <2>1, <2>2 DEF Knows, Planning, Deriving
  <2> QED BY <1>3, <2>1, <2>2, <2>3 DEF Deciding, Deriving
<1>6. CASE ReportWrite(q)
  <2>1. /\ o.at = "report.write" /\ Step(q, Idle) /\ Patch(o.round, o)
        /\ UNCHANGED <<courts, scores, round, status, subs>>
    BY <1>0, <1>6 DEF ReportWrite, At, Done, session, people
  <2>2. o.round = round /\ status # "done" /\ ~Deciding(o) /\ o # Idle
    BY <1>1, <1>2, <2>1 DEF Knows, Deciding, Deriving
  <2>3. \A s \in Slots \ {q} : req[s] = Idle
    BY <1>0, <2>1, <2>2, Alone
  <2>4. \A r \in Rounds : Closed(r)' => Closed(r) /\ r # round
    BY <2>1, <2>2 DEF Closed, Rounds, BooksOK
  <2>5. \A r \in Rounds \ {round} : winner'[r] = winner[r]
    BY <1>1, <2>1, <2>2 DEF Patch, Board
  <2>6. \A r \in Rounds : Closed(r)' => Decided(r)'
    <3> SUFFICES ASSUME NEW r \in Rounds, Closed(r)' PROVE Decided(r)'
      OBVIOUS
    <3>1. Decided(r) /\ winner'[r] = winner[r]
      BY <1>0, <1>1, <2>2, <2>3, <2>4, <2>5, OnlyOneDecides
    <3> QED BY <2>1, <3>1 DEF Decided, Agrees
  <2>7. AllScorable'
    BY <2>1 DEF Recorded, AllScorable, Scorable, Rounds
  <2> QED BY <1>0, <2>1, <2>2, <2>6, <2>7, NothingKnown, RecordedMoves
<1>7. CASE ScoreCheck(q)
  <2>1. o.at = "score.check" /\ UNCHANGED <<round, record, subs, status>>
    BY <1>0, <1>7 DEF ScoreCheck, At, session, people
  <2>2. MayScore(Head(o.entries), o.round)
    <3>1. Head(o.entries).player \in Seated(courts[o.round])
      BY <1>1, <2>1, TailsEntries
    <3>2. Scorable(Head(o.entries).player, o.round)
      BY <1>1, <2>1, <3>1 DEF Recorded, AllScorable
    <3> QED BY <3>1, <3>2 DEF MayScore, Scorable
  <2>3. PICK m : m = [o EXCEPT !.at = "score.write"]
    OBVIOUS
  <2>4. /\ Step(q, m) /\ m.at = "score.write" /\ m.round = o.round
        /\ m.entries = o.entries
    BY <1>0, <1>1, <1>7, <2>1, <2>2, <2>3 DEF ScoreCheck
  <2>5. Knows(m)
    BY <1>1, <2>1, <2>4 DEF Knows, Planning, Deriving
  <2> QED BY <1>3, <2>1, <2>4, <2>5 DEF Deciding
<1>8. CASE ScoreWrite(q)
  <2> DEFINE r == o.round
  <2>1. /\ o.at = "score.write" /\ UNCHANGED <<round, courts, winner, subs, status>>
        /\ scores' = [scores EXCEPT ![r][Head(o.entries).player] = Head(o.entries).score]
    BY <1>0, <1>8 DEF ScoreWrite, At, session, people
  <2>2. \A s \in Rounds \ {r} : scores'[s] = scores[s]
    BY <1>1, <2>1 DEF Board
  <2>3. PICK m : m = IF Len(o.entries) > 1
                     THEN [o EXCEPT !.at = "score.check", !.entries = Tail(@)]
                     ELSE [at |-> "rederive", round |-> r]
    OBVIOUS
  <2>4. Step(q, m)
    BY <1>0, <1>8, <2>3 DEF ScoreWrite
  <2>5. /\ m.round = r
        /\ m.at = "rederive" \/ (m.at = "score.check" /\ m.entries = Tail(o.entries))
    BY <1>1, <2>1, <2>3
  <2>6. Knows(m)'
    <3>1. \A i \in DOMAIN Tail(o.entries) : Tail(o.entries)[i].player \in Seated(courts[r])
      BY <1>1, <2>1, TailsEntries
    <3> QED BY <2>1, <2>5, <3>1 DEF Knows, Planning, Deriving
  <2>7. AllScorable'
    BY <2>1 DEF Recorded, AllScorable, Scorable, Rounds
  <2>8. o # Idle /\ Deciding(m)
    BY <1>2, <2>1, <2>5 DEF Deciding
  <2>9. \A s \in Slots \ {q} : req[s] = Idle
    BY <1>0, <2>4, <2>8, Alone
  <2>10. \A s \in Rounds : Closed(s)' => Decided(s)' \/ (Deciding(m) /\ m.round = s)
    <3> SUFFICES ASSUME NEW s \in Rounds, Closed(s)', s # r PROVE Decided(s)'
      BY <2>5, <2>8
    <3>1. Closed(s)
      BY <2>1 DEF Closed
    <3>2. Decided(s)
      BY <1>0, <1>1, <2>9, <3>1, OnlyOneDecides
    <3> QED BY <2>1, <2>2, <3>2 DEF Decided, Agrees
  <2> QED BY <1>0, <2>4, <2>6, <2>7, <2>8, <2>10, RecordedMoves
<1>9. CASE Rederive(q)
  <2>1. o.at = "rederive" /\ UNCHANGED <<round, record, subs, status>>
    BY <1>0, <1>9 DEF Rederive, At, session, people
  <2>2. CASE IsPast(o.round)
    <3>1. Step(q, DeriveWinners(o.round, "retally"))
      BY <1>0, <1>9, <2>2 DEF Rederive
    <3>2. PICK m : m = DeriveWinners(o.round, "retally")
      OBVIOUS
    <3>3. m.at = "persist.scores" /\ m.then = "retally" /\ m.round = o.round
      BY <3>2 DEF DeriveWinners
    <3>4. Knows(m) /\ Deciding(m)
      BY <3>3 DEF Knows, Planning, Deciding, Deriving
    <3> QED BY <1>3, <2>1, <3>1, <3>2, <3>3, <3>4
  <2>3. CASE ~IsPast(o.round)
    <3>1. Step(q, Idle)
      BY <1>0, <1>9, <2>3 DEF Rederive, Done
    <3>2. ~Closed(o.round)
      BY <2>3 DEF IsPast, Closed
    <3> QED BY <1>3, <2>1, <3>1, <3>2, NothingKnown
  <2> QED BY <2>2, <2>3
<1>10. CASE RetallyCourts(q) \/ RetallyWins(q) \/ RetallyWrite(q)
  <2>1. /\ o.at \in {"retally", "retally.wins", "retally.write"}
        /\ UNCHANGED <<round, record, subs, status>>
    BY <1>0, <1>10 DEF RetallyCourts, RetallyWins, RetallyWrite, At, session, people
  <2>2. \E m : Step(q, m) /\ m.at \in {"retally.wins", "retally.write", "idle"}
    <3>1. RetallyCourts(q) \/ RetallyWins(q) => \E m : Step(q, m) /\ m.at \in {"retally.wins", "retally.write"}
      BY DEF RetallyCourts, RetallyWins
    <3>2. CASE RetallyWrite(q)
      <4>1. PICK m : m = [o EXCEPT !.todo = Tail(@)]
        OBVIOUS
      <4>2. Step(q, Idle) \/ Step(q, m)
        BY <1>0, <3>2, <4>1 DEF RetallyWrite, Done
      <4>3. m.at = "retally.write"
        BY <1>0, <1>1, <3>2, <4>1 DEF RetallyWrite, At
      <4> QED BY <1>2, <2>1, <4>2, <4>3
    <3> QED BY <1>10, <3>1, <3>2
  <2> QED BY <1>3, <2>1, <2>2, Unaware DEF Deciding, Deriving
<1>11. ~CorrectWrite(q) /\ \A r, k, x : ~CorrectCheck(q, r, k, x)
  BY <1>0, <1>1, <1>2 DEF CorrectWrite, At, Knows, CorrectCheck, Call
<1> QED BY <1>4, <1>5, <1>6, <1>7, <1>8, <1>9, <1>10, <1>11

\* Arrivals, returns and the clock are not about the record.
LEMMA OthersRecord ==
    ASSUME BooksOK, Recorded, OneByOne, OneByOne',
           \/ Clock
           \/ \E q \in Slots : Roster(q)
           \/ UNCHANGED vars
    PROVE  Recorded'
<1>1. ASSUME NEW q \in Slots, NEW m, Step(q, m),
             m.at \in {"idle", "join", "roster.write", "adv.session", "end.round"},
             req[q].at \in {"idle", "join", "roster.write"},
             req[q].at # "idle" \/ m.at # "idle",
             UNCHANGED <<round, record, subs, status>>
      PROVE  Recorded'
  <2>1. req[q] # Idle \/ m # Idle
    BY <1>1 DEF Idle
  <2>2. Knows(m) /\ ~Deciding(req[q])
    BY <1>1, Unaware
  <2> QED BY <1>1, <2>1, <2>2, RecordRead
<1>2. Idle.at = "idle"
  BY DEF Idle
<1>3. CASE Clock
  <2>1. CASE Pause \/ Reopen \/ TimePasses
    <3>1. UNCHANGED <<round, record, subs, req>> /\ (status' = "done" => status = "done")
      BY <2>1 DEF Pause, Reopen, TimePasses, people
    <3> QED BY <3>1, RecordStands
  <2>2. CASE Sweep \/ EndAbandoned
    <3>1. /\ \E q \in Slots : /\ req[q].at = "idle"
                             /\ \E m : Step(q, m) /\ m.at \in {"adv.session", "end.round"}
          /\ UNCHANGED <<round, record, subs, status>>
      BY <1>2, <2>2 DEF Sweep, EndAbandoned, Slots, session, people
    <3> QED BY <1>1, <3>1
  <2> QED BY <1>3, <2>1, <2>2 DEF Clock
<1>4. ASSUME NEW q \in Slots, Roster(q) PROVE Recorded'
  <2>1. UNCHANGED <<round, record, subs, status>>
    BY <1>4 DEF Roster, JoinInsert, JoinBench, RosterWrite, OutCheck, BackCheck, session, people
  <2>2. CASE JoinInsert(q)
    <3>1. CASE Call(q, "join")
      <4>1. \E m : Step(q, m) /\ m.at = "join"
        <5>1. "at" \in DOMAIN req[q]
          BY DEF BooksOK, RequestOK
        <5>2. PICK m : m = [req[q] EXCEPT !.ids = Append(@, NextNewcomer)]
          OBVIOUS
        <5>3. m.at = req[q].at
          BY <5>1, <5>2
        <5>4. PICK n : n = [at |-> "join", ids |-> <<NextNewcomer>>]
          OBVIOUS
        <5>5. n.at = "join"
          BY <5>4
        <5>6. Step(q, n) \/ (Step(q, m) /\ req[q].at = "join")
          BY <2>2, <5>2, <5>4 DEF JoinInsert, At
        <5> QED BY <5>3, <5>5, <5>6
      <4>2. req[q].at = "idle"
        BY <1>2, <3>1 DEF Call
      <4> QED BY <1>1, <2>1, <4>1, <4>2
    <3>2. CASE At(q, "join")
      <4>1. PICK m : m = [req[q] EXCEPT !.ids = Append(@, NextNewcomer)]
        OBVIOUS
      <4>2. Step(q, m) \/ Call(q, "join")
        BY <2>2, <4>1 DEF JoinInsert
      <4>3. "at" \in DOMAIN req[q] /\ req[q].at = "join"
        BY <3>2 DEF BooksOK, RequestOK, At
      <4>4. m.at = "join"
        BY <4>1, <4>3
      <4> QED BY <1>1, <2>1, <3>1, <4>2, <4>3, <4>4
    <3> QED BY <2>2, <3>1, <3>2 DEF JoinInsert
  <2>3. CASE JoinBench(q) \/ RosterWrite(q)
    <3>1. Step(q, Idle) /\ req[q].at \in {"join", "roster.write"}
      BY <2>3 DEF JoinBench, RosterWrite, At, Done
    <3> QED BY <1>1, <1>2, <2>1, <3>1
  <2>4. ASSUME NEW p, OutCheck(q, p) \/ BackCheck(q, p) PROVE Recorded'
    <3>1. req[q].at = "idle" /\ \E m : Step(q, m) /\ m.at = "roster.write"
      BY <1>2, <2>4 DEF OutCheck, BackCheck, Call
    <3> QED BY <1>1, <2>1, <3>1
  <2> QED BY <1>4, <2>2, <2>3, <2>4 DEF Roster
<1>5. CASE UNCHANGED vars
  <2>1. UNCHANGED <<round, record, subs, req, status>>
    BY <1>5 DEF vars, session, people
  <2> QED BY <2>1, RecordStands
<1> QED BY <1>3, <1>4, <1>5

\* A substitution between calls takes seats in rounds that are not over, and
\* for someone who can be scored there.
LEMMA SubstituteRecords ==
    ASSUME BooksOK, Sheets, Seating, Recorded, AllIdle, NEW out \in Players, Substitute(out)
    PROVE  Recorded'
<1> DEFINE in == NextNewcomer
           from == EffectiveRound(out)
<1>1. /\ Newcomers # {} /\ roster[out] = "active" /\ out \notin DOMAIN subs /\ Running
      /\ subs' = [p \in (DOMAIN subs) \cup {out} |->
                     IF p = out THEN [by |-> in, from |-> from] ELSE subs[p]]
      /\ courts' = [r \in Rounds |-> IF r < from THEN courts[r] ELSE SwapAll(courts[r], out, in)]
      /\ UNCHANGED <<status, round, winner, scores, req>>
  BY DEF Substitute, SwapAll
<1>2. in \in Players /\ roster[in] = "absent"
  BY <1>1, NewcomerIsAway
<1>3. from \in {round, round + 1} /\ round \in Rounds /\ round \in Nat
  BY DEF EffectiveRound, BooksOK, Rounds
<1> HIDE DEF in, from
<1>4. /\ in # out /\ in \notin Here /\ in \notin DOMAIN subs
      /\ \A o \in DOMAIN subs : subs[o].by # in
  <2>1. in \notin Here
    BY <1>2 DEF Here
  <2>2. DOMAIN subs \subseteq Gone
    BY <1>1 DEF Seating, ReplacedHaveLeft
  <2> QED BY <1>1, <1>2, <2>1, <2>2 DEF Gone, Sheets, Board
<1>5. Slots' = Slots /\ \A q \in Slots : req'[q] = Idle /\ req[q] = Idle
  BY <1>1 DEF AllIdle, Slots
<1>6. \A r \in Rounds : Closed(r) => r < round
  BY <1>1 DEF Closed, Running
<1>7. ASSUME NEW r \in Rounds, r < from \/ r < round
      PROVE  courts'[r] = courts[r]
  BY <1>1, <1>3, <1>7 DEF Rounds
<1>8. Decisive'
  <2> SUFFICES ASSUME NEW r \in Rounds, Closed(r)' PROVE Decided(r)'
    BY DEF Decisive, Rounds
  <2>1. Closed(r) /\ courts'[r] = courts[r]
    BY <1>1, <1>6, <1>7 DEF Closed
  <2>2. Decided(r)
    BY <1>5, <2>1, NothingKnown DEF Recorded, Decisive
  <2> QED BY <1>1, <2>1, <2>2 DEF Decided, Agrees
<1>9. \A q \in Slots : Knows(req[q])'
  BY <1>5, NothingKnown
<1>10. /\ \A o \in DOMAIN subs : subs[o].from \in Nat /\ subs[o].from <= round + 1
       /\ \A r \in Rounds : \A p \in Seated(courts[r]) : r <= round /\ Scorable(p, r)
  BY DEF Recorded, AllScorable
<1>11. \A o \in DOMAIN subs' : subs'[o].from \in Nat /\ subs'[o].from <= round' + 1
  BY <1>1, <1>3, <1>10
<1>12. ASSUME NEW r \in Rounds, NEW p, p # out, p # in, Scorable(p, r)
       PROVE  Scorable(p, r)'
  BY <1>1, <1>12 DEF Scorable
<1>13. ASSUME NEW r \in Rounds, NEW p \in Seated(courts'[r])
       PROVE  r <= round /\ Scorable(p, r)'
  <2>1. courts[r] \in Layouts(Here) /\ in \notin Seated(courts[r])
    <3> DEFINE cs == courts[r]
    <3>1. cs \in Layouts(Here)
      BY DEF Sheets, Board
    <3> HIDE DEF cs
    <3>2. Seated(cs) \subseteq Here
      BY <3>1, Seats
    <3> QED BY <1>4, <3>1, <3>2 DEF cs
  <2>2. CASE r < from
    <3>1. p \in Seated(courts[r]) /\ p # in
      BY <1>7, <1>13, <2>1, <2>2
    <3>2. r <= round /\ Scorable(p, r)
      BY <1>10, <3>1
    <3>3. CASE p # out
      BY <1>12, <3>1, <3>2, <3>3
    <3>4. CASE p = out
      <4>1. \A o \in DOMAIN subs' : subs'[o].by = out => r >= subs'[o].from
        BY <1>1, <1>4, <3>2, <3>4 DEF Scorable
      <4> QED BY <1>1, <2>2, <3>2, <3>4, <4>1 DEF Scorable
    <3> QED BY <3>3, <3>4
  <2>3. CASE ~(r < from)
    <3> DEFINE T == Here \cup {in}
               cs == courts[r]
    <3>1. courts'[r] = SwapAll(cs, out, in)
      BY <1>1, <2>3
    <3>2. cs \in Layouts(T) /\ in \in T
      <4>1. Here \subseteq T
        OBVIOUS
      <4> HIDE DEF T
      <4> QED BY <2>1, <4>1, MoreSeats DEF T
    <3> HIDE DEF T, cs
    <3>3. Seated(courts'[r]) = {IF p_1 = out THEN in ELSE p_1 : p_1 \in Seated(cs)}
      BY <2>1, <3>1, <3>2, SwapsSeats DEF cs
    <3>4. PICK was \in Seated(cs) : p = IF was = out THEN in ELSE was
      BY <1>13, <3>3
    <3>5. r <= round /\ Scorable(was, r) /\ was # in
      BY <1>10, <2>1, <3>4 DEF cs
    <3>6. CASE was # out
      BY <1>12, <3>4, <3>5, <3>6
    <3>7. CASE was = out
      <4>1. p = in /\ r >= from
        BY <1>3, <2>3, <3>4, <3>7 DEF Rounds
      <4>2. in \notin DOMAIN subs'
        BY <1>1, <1>4
      <4>3. \A o \in DOMAIN subs' : subs'[o].by = in => r >= subs'[o].from
        BY <1>1, <1>4, <4>1
      <4> QED BY <3>5, <4>1, <4>2, <4>3 DEF Scorable
    <3> QED BY <3>6, <3>7
  <2> QED BY <2>2, <2>3
<1>14. AllScorable'
  <2>1. Rounds' = Rounds
    BY DEF Rounds
  <2> QED BY <1>1, <1>11, <1>13, <2>1 DEF AllScorable
<1> QED BY <1>5, <1>8, <1>9, <1>14 DEF Recorded

LEMMA RecordInit == Init => Recorded
<1> SUFFICES ASSUME Init PROVE Recorded
  OBVIOUS
<1>1. /\ DOMAIN subs = {} /\ round = 1 /\ status = "live"
      /\ \A q \in Slots : req[q] = Idle
      /\ \A r \in Rounds : r # 1 => courts[r] = <<>>
  BY DEF Init
<1>2. Seated(<<>>) = {}
  BY DEF Seated, SeatRefs
<1>3. AllScorable
  BY <1>1, <1>2 DEF AllScorable, Scorable
<1>4. Decisive
  BY <1>1 DEF Decisive, Closed, Rounds
<1> QED BY <1>1, <1>3, <1>4, NothingKnown DEF Recorded

LEMMA RecordKept ==
    ASSUME BooksOK, Sheets, Seating, SeatedAsTheRosterSays', Recorded, OneByOne, OneByOne',
           [Next]_vars, [BetweenCalls]_vars
    PROVE  Recorded'
<1>1. ASSUME NEW q \in Slots, Lifecycle(q) PROVE Recorded'
  BY <1>1, AdvanceRecords, PersistRecords, AdvWriteRecords DEF Lifecycle
<1>2. ASSUME NEW q \in Slots, Recording(q) PROVE Recorded'
  BY <1>2, ScoresRecord DEF Recording
<1>3. ASSUME NEW out \in Players, Substitute(out) PROVE Recorded'
  <2>1. subs' # subs
    <3>1. out \in DOMAIN subs' /\ out \notin DOMAIN subs
      BY <1>3 DEF Substitute
    <3> QED BY <3>1
  <2>2. AllIdle
    BY <2>1 DEF BetweenCalls, vars, people
  <2> QED BY <1>3, <2>2, SubstituteRecords
<1> QED BY <1>1, <1>2, <1>3, OthersRecord DEF Next

\* When calls are made one after the other, a round that is over has the
\* winners its scorecard says it has: whatever was tapped before, whoever
\* closed the round, and however its scores are corrected afterwards
\* (persistScorecardWinners, rederivePastRound, SetRotationScores).
THEOREM ScorecardDecidesHolds ==
    Spec /\ []OneByOne /\ [][BetweenCalls]_vars => []ScorecardDecides
<1>1. OneByOne => Orderly
  BY DEF OneByOne, Orderly, At, Idle
<1>2. [BetweenCalls]_vars => [HandsOff]_vars
  BY DEF BetweenCalls, HandsOff, AllIdle, Committed, At, Idle
<1>3. /\ BooksOK /\ Sheets /\ Seating /\ SeatedAsTheRosterSays' /\ Recorded
      /\ OneByOne /\ OneByOne' /\ [Next]_vars /\ [BetweenCalls]_vars
      => Recorded'
  BY RecordKept
<1>4. Recorded => ScorecardDecides
  <2> SUFFICES ASSUME Recorded, AllIdle, NEW r \in Rounds, Closed(r) PROVE Decided(r)
    BY DEF ScorecardDecides, Decided, Agrees
  <2> QED BY NothingKnown DEF Recorded, Decisive, AllIdle
<1> QED
  BY <1>1, <1>2, <1>3, <1>4, RecordInit, SeatingInvariant, SeatedAsTheRosterSaysHolds,
     BooksInvariant, SheetsInvariant, PTL DEF Spec

-----------------------------------------------------------------------------
(* Scores.                                                                  *)

\* Whoever is about to get a score has the seat; nobody sits in a round to come.
ScoredOK ==
    /\ \A r \in Rounds : \A p \in Seated(courts[r]) : r <= round
    /\ ScoresHaveSeats
    /\ \A q \in Slots : At(q, "score.write") =>
           LET e == Head(req[q].entries)
           IN  e.score # NoScore => e.player \in Seated(courts[req[q].round])

\* A step that writes no score, and checks none.
Unscored ==
    /\ UNCHANGED scores
    /\ \A q \in Slots : At(q, "score.write")' => At(q, "score.write") /\ req'[q] = req[q]

LEMMA NotScoring ==
    ASSUME BooksOK, NEW q \in Slots, NEW m, Step(q, m), m.at # "score.write"
    PROVE  \A p \in Slots : At(p, "score.write")' => At(p, "score.write") /\ req'[p] = req[p]
BY DEF BooksOK, Step, At

LEMMA RecordingUnscored ==
    ASSUME BooksOK, NEW q \in Slots, Recording(q), ~ScoreCheck(q), ~ScoreWrite(q)
    PROVE  Unscored
<1> DEFINE Elsewhere == \E m : Step(q, m) /\ m.at # "score.write"
<1>1. ASSUME NEW r \in Rounds, NEW k, NEW card, ScoreCall(q, r, k, card)
      PROVE  Elsewhere /\ UNCHANGED scores
  BY <1>1 DEF ScoreCall, record
<1>2. ASSUME NEW r \in Rounds, NEW k, NEW side, CorrectCheck(q, r, k, side)
      PROVE  Elsewhere /\ UNCHANGED scores
  BY <1>2 DEF CorrectCheck, record
<1>3. ASSUME NEW k, NEW side, ReportCheck(q, k, side) PROVE Elsewhere /\ UNCHANGED scores
  BY <1>3 DEF ReportCheck, record
<1>4. ASSUME \/ ReportWrite(q) \/ Rederive(q) \/ RetallyCourts(q) \/ RetallyWins(q)
             \/ CorrectWrite(q)
      PROVE  Elsewhere /\ UNCHANGED scores
  <2>1. Elsewhere
    BY <1>4 DEF ReportWrite, Rederive, RetallyCourts, RetallyWins, CorrectWrite, DeriveWinners,
                Done, Idle
  <2>2. UNCHANGED scores
    BY <1>4 DEF ReportWrite, Rederive, RetallyCourts, RetallyWins, CorrectWrite, record
  <2> QED BY <2>1, <2>2
<1>5. ASSUME RetallyWrite(q) PROVE Elsewhere /\ UNCHANGED scores
  <2>1. PICK m : m = [req[q] EXCEPT !.todo = Tail(@)]
    OBVIOUS
  <2>2. m.at = "retally.write"
    BY <1>5, <2>1 DEF RetallyWrite, At, BooksOK, RequestOK
  <2>3. Step(q, m) \/ Step(q, Idle)
    BY <1>5, <2>1 DEF RetallyWrite, Done
  <2>4. UNCHANGED scores
    BY <1>5 DEF RetallyWrite, record
  <2> QED BY <2>2, <2>3, <2>4 DEF Idle
<1>6. Elsewhere /\ UNCHANGED scores
  BY <1>1, <1>2, <1>3, <1>4, <1>5 DEF Recording
<1> QED BY <1>6, NotScoring DEF Unscored

LEMMA RosterUnscored ==
    ASSUME BooksOK, NEW q \in Slots, Roster(q)
    PROVE  Unscored
<1> DEFINE Elsewhere == \E m : Step(q, m) /\ m.at # "score.write"
<1>1. CASE JoinInsert(q)
  <2>1. PICK m : m = [req[q] EXCEPT !.ids = Append(@, NextNewcomer)]
    OBVIOUS
  <2>2. At(q, "join") => m.at = "join"
    BY <2>1 DEF At, BooksOK, RequestOK
  <2>3. Step(q, [at |-> "join", ids |-> <<NextNewcomer>>]) \/ (At(q, "join") /\ Step(q, m))
    BY <1>1, <2>1 DEF JoinInsert
  <2>4. Elsewhere
    BY <2>2, <2>3
  <2>5. UNCHANGED scores
    BY <1>1 DEF JoinInsert, record
  <2> QED BY <2>4, <2>5, NotScoring DEF Unscored
<1>2. ASSUME \/ JoinBench(q) \/ RosterWrite(q)
             \/ \E p \in Players : OutCheck(q, p) \/ BackCheck(q, p)
      PROVE  Unscored
  <2>1. Elsewhere
    <3>1. CASE JoinBench(q) \/ RosterWrite(q)
      BY <3>1 DEF JoinBench, RosterWrite, Done, Idle
    <3>2. ASSUME NEW p \in Players, OutCheck(q, p) \/ BackCheck(q, p) PROVE Elsewhere
      BY <3>2 DEF OutCheck, BackCheck
    <3> QED BY <1>2, <3>1, <3>2
  <2>2. UNCHANGED scores
    BY <1>2 DEF JoinBench, RosterWrite, OutCheck, BackCheck, record
  <2> QED BY <2>1, <2>2, NotScoring DEF Unscored
<1> QED BY <1>1, <1>2 DEF Roster

LEMMA LifecycleUnscored ==
    ASSUME BooksOK, NEW q \in Slots, Lifecycle(q)
    PROVE  Unscored
<1>1. CASE Reads(q)
  <2>1. \E m : Step(q, m) /\ m.at # "score.write"
    BY <1>1, AdvanceGoes DEF Writing
  <2>2. UNCHANGED scores
    BY <1>1, AdvanceReads
  <2> QED BY <2>1, <2>2, NotScoring DEF Unscored
<1>2. CASE \/ PersistScores(q) \/ PersistCourts(q) \/ PersistDone(q)
           \/ EndCall(q) \/ EndRound(q) \/ Drop(q)
  <2>1. \E m : Step(q, m) /\ m.at # "score.write"
    BY <1>2, EndingGoes DEF Writing
  <2>2. UNCHANGED scores
    BY <1>2 DEF PersistScores, PersistCourts, PersistDone, EndCall, EndRound, Drop, record
  <2> QED BY <2>1, <2>2, NotScoring DEF Unscored
<1>3. CASE AdvWrite(q) \/ EndWrite(q) \/ ResumeRead(q) \/ ResumeWrite(q)
  <2>1. \E m : Step(q, m) /\ m.at # "score.write"
    BY <1>3 DEF AdvWrite, EndWrite, ResumeRead, ResumeWrite, Done, Idle
  <2>2. UNCHANGED scores
    BY <1>3 DEF AdvWrite, EndWrite, ResumeRead, ResumeWrite, record
  <2> QED BY <2>1, <2>2, NotScoring DEF Unscored
<1> QED BY <1>1, <1>2, <1>3 DEF Lifecycle, Reads

LEMMA ClockUnscored ==
    ASSUME BooksOK, Clock
    PROVE  Unscored
<1>1. CASE Pause \/ Reopen \/ TimePasses
  <2>1. UNCHANGED <<req, scores>>
    BY <1>1 DEF Pause, Reopen, TimePasses, Instant, record
  <2> QED BY <2>1 DEF Unscored, At
<1>2. CASE Sweep \/ EndAbandoned
  <2>1. \E q \in Slots : \E m : Step(q, m) /\ m.at # "score.write"
    <3>1. CASE Sweep
      <4>1. Step(Sweeper, [at |-> "adv.session", expected |-> round]) /\ Sweeper \in Slots
        BY <3>1 DEF Sweep, Slots
      <4>2. [at |-> "adv.session", expected |-> round].at # "score.write"
        OBVIOUS
      <4> QED BY <4>1, <4>2
    <3>2. CASE EndAbandoned
      <4>1. Step(Janitor, [at |-> "end.round"]) /\ Janitor \in Slots
        BY <3>2 DEF EndAbandoned, Slots
      <4>2. [at |-> "end.round"].at # "score.write"
        OBVIOUS
      <4> QED BY <4>1, <4>2
    <3> QED BY <1>2, <3>1, <3>2
  <2>2. UNCHANGED scores
    BY <1>2 DEF Sweep, EndAbandoned, record
  <2> QED BY <2>1, <2>2, NotScoring DEF Unscored
<1> QED BY <1>1, <1>2 DEF Clock

\* Scores and seats stay where they are, apart from a new round's.
LEMMA ScoredStays ==
    ASSUME BooksOK, Sheets, ScoredOK, Unscored, round \in Nat,
           \A r \in Rounds : r <= round => courts'[r] = courts[r],
           \A r \in Rounds : \A p \in Seated(courts'[r]) : r <= round'
    PROVE  ScoredOK'
<1>1. Rounds' = Rounds /\ Players' = Players /\ Slots' = Slots
  BY DEF Rounds, Players, Slots
<1>2. ASSUME NEW r \in Rounds, NEW p \in Players, scores[r][p] # NoScore
      PROVE  p \in Seated(courts'[r])
  <2>1. p \in Seated(courts[r])
    BY <1>2 DEF ScoredOK, ScoresHaveSeats
  <2>2. r <= round
    BY <2>1 DEF ScoredOK
  <2> QED BY <2>1, <2>2
<1>3. ScoresHaveSeats'
  BY <1>1, <1>2 DEF Unscored, ScoresHaveSeats
<1>4. ASSUME NEW q \in Slots, At(q, "score.write")', Head(req'[q].entries).score # NoScore
      PROVE  Head(req'[q].entries).player \in Seated(courts'[req'[q].round])
  <2> DEFINE m == req[q]
             e == Head(m.entries)
  <2>1. At(q, "score.write") /\ req'[q] = m
    BY <1>4 DEF Unscored
  <2>2. m.round \in Rounds
    BY <2>1 DEF Sheets, Carries, Has, At
  <2>3. e.player \in Seated(courts[m.round])
    BY <1>4, <2>1 DEF ScoredOK
  <2>4. m.round <= round
    BY <2>2, <2>3 DEF ScoredOK
  <2> QED BY <2>1, <2>2, <2>3, <2>4
<1> QED BY <1>1, <1>3, <1>4 DEF ScoredOK

LEMMA ScoreCheckKeeps ==
    ASSUME BooksOK, ScoredOK, NEW q \in Slots, ScoreCheck(q)
    PROVE  ScoredOK'
<1> DEFINE o == req[q]
<1>1. PICK m : m = [o EXCEPT !.at = "score.write"]
  OBVIOUS
<1>2. m.entries = o.entries /\ m.round = o.round
  BY <1>1
<1>3. /\ UNCHANGED <<courts, scores, round>>
      /\ (MayScore(Head(o.entries), o.round) /\ Step(q, m)) \/ Step(q, Idle)
  BY <1>1 DEF ScoreCheck, session, record, Done
<1>4. Slots' = Slots /\ Rounds' = Rounds /\ Players' = Players
  BY DEF Slots, Rounds, Players
<1>5. ASSUME NEW s \in Slots, At(s, "score.write")', Head(req'[s].entries).score # NoScore
      PROVE  Head(req'[s].entries).player \in Seated(courts'[req'[s].round])
  <2>1. CASE s # q
    <3>1. req'[s] = req[s] /\ At(s, "score.write")
      BY <1>3, <1>5, <2>1 DEF Step, At, BooksOK
    <3> QED BY <1>3, <1>5, <3>1 DEF ScoredOK
  <2>2. CASE s = q
    <3>1. req'[q] \in {m, Idle}
      BY <1>3 DEF Step, BooksOK
    <3>2. req'[q] # Idle
      BY <1>5, <2>2 DEF At, Idle
    <3>3. req'[q] = m /\ MayScore(Head(o.entries), o.round)
      <4>1. CASE Step(q, Idle)
        BY <3>2, <4>1 DEF Step, BooksOK
      <4>2. CASE MayScore(Head(o.entries), o.round) /\ Step(q, m)
        BY <4>2 DEF Step, BooksOK
      <4> QED BY <1>3, <4>1, <4>2
    <3>4. Head(m.entries) = Head(o.entries)
      BY <1>2
    <3> HIDE DEF o
    <3> QED BY <1>2, <1>3, <1>5, <2>2, <3>3, <3>4 DEF MayScore
  <2> QED BY <2>1, <2>2
<1>6. ScoresHaveSeats' /\ \A r \in Rounds : \A p \in Seated(courts'[r]) : r <= round'
  BY <1>3, <1>4 DEF ScoredOK, ScoresHaveSeats
<1> QED BY <1>4, <1>5, <1>6 DEF ScoredOK

LEMMA ScoreWriteKeeps ==
    ASSUME BooksOK, Sheets, ScoredOK, NEW q \in Slots, ScoreWrite(q)
    PROVE  ScoredOK'
<1> DEFINE o == req[q]
           e == Head(o.entries)
<1>1. PICK m : m = [o EXCEPT !.at = "score.check", !.entries = Tail(@)]
  OBVIOUS
<1>2. m.at = "score.check"
  BY <1>1 DEF BooksOK, RequestOK
<1>3. /\ At(q, "score.write") /\ UNCHANGED <<courts, round>>
      /\ scores' = [scores EXCEPT ![o.round][e.player] = e.score]
      /\ Step(q, m) \/ Step(q, [at |-> "rederive", round |-> o.round])
  BY <1>1 DEF ScoreWrite, session
<1>4. \A s \in Slots : At(s, "score.write")' => At(s, "score.write") /\ req'[s] = req[s]
  BY <1>2, <1>3, NotScoring
<1>5. o.round \in Rounds /\ scores[o.round] \in [Players -> {0, 1, NoScore}] /\ DOMAIN scores = Rounds
  BY <1>3 DEF Sheets, Board, Carries, Has, At
<1>6. e.score # NoScore => e.player \in Seated(courts[o.round])
  BY <1>3 DEF ScoredOK
<1> HIDE DEF o, e
<1>7. ASSUME NEW r \in Rounds, NEW p \in Players, scores'[r][p] # NoScore
      PROVE  p \in Seated(courts[r])
  <2>1. CASE r = o.round /\ p = e.player
    BY <1>3, <1>5, <1>6, <1>7, <2>1
  <2>2. CASE ~(r = o.round /\ p = e.player)
    <3>1. scores'[r][p] = scores[r][p]
      BY <1>3, <1>5, <2>2
    <3> QED BY <1>7, <3>1 DEF ScoredOK, ScoresHaveSeats
  <2> QED BY <2>1, <2>2
<1>8. Slots' = Slots /\ Rounds' = Rounds /\ Players' = Players
  BY DEF Slots, Rounds, Players
<1>9. ScoresHaveSeats'
  BY <1>3, <1>7, <1>8 DEF ScoresHaveSeats
<1> QED BY <1>3, <1>4, <1>8, <1>9 DEF ScoredOK

\* Whoever is replaced in the round in play has no score in it.
LEMMA SubstituteKeepsScored ==
    ASSUME BooksOK, Sheets, ScoredOK, AllIdle, NEW out \in Players, Substitute(out)
    PROVE  ScoredOK'
<1> DEFINE in == NextNewcomer
           from == EffectiveRound(out)
<1>1. /\ Newcomers # {}
      /\ courts' = [r \in Rounds |-> IF r < from THEN courts[r] ELSE SwapAll(courts[r], out, in)]
      /\ UNCHANGED <<status, round, scores, req>>
  BY DEF Substitute, SwapAll
<1>2. in \in Players /\ in \notin Here
  BY <1>1, NewcomerIsAway DEF Here
<1>3. /\ round \in Nat /\ round \in Rounds
      /\ from = round + 1 \/ (from = round /\ scores[round][out] = NoScore)
  BY DEF EffectiveRound, BooksOK, Rounds
<1> HIDE DEF in, from
<1>4. Slots' = Slots /\ Rounds' = Rounds /\ Players' = Players
  BY DEF Slots, Rounds, Players
<1>5. ASSUME NEW r \in Rounds, r >= from
      PROVE  Seated(courts'[r]) = {IF p = out THEN in ELSE p : p \in Seated(courts[r])}
  <2> DEFINE cs == courts[r]
  <2>1. cs \in Layouts(Here) /\ Here \subseteq Players
    BY DEF Sheets, Board, Here
  <2>2. cs \in Layouts(Players)
    BY <2>1, MoreSeats
  <2> HIDE DEF cs
  <2>3. in \notin Seated(cs)
    BY <1>2, <2>1, Seats
  <2>4. Seated(SwapAll(cs, out, in)) = {IF p = out THEN in ELSE p : p \in Seated(cs)}
    BY <1>2, <2>2, <2>3, SwapsSeats
  <2>5. courts'[r] = SwapAll(cs, out, in)
    BY <1>1, <1>3, <1>5 DEF cs, Rounds
  <2> QED BY <2>4, <2>5 DEF cs
<1>6. ASSUME NEW r \in Rounds, r < from PROVE courts'[r] = courts[r]
  BY <1>1, <1>6
<1>7. ASSUME NEW r \in Rounds, NEW p \in Seated(courts'[r]) PROVE r <= round
  <2>1. \E s \in Seated(courts[r]) : TRUE
    <3>1. CASE r < from
      BY <1>6, <1>7, <3>1
    <3>2. CASE r >= from
      <4>1. p \in {IF s = out THEN in ELSE s : s \in Seated(courts[r])}
        BY <1>5, <1>7, <3>2
      <4> QED BY <4>1
    <3> QED BY <1>3, <3>1, <3>2 DEF Rounds
  <2> QED BY <2>1 DEF ScoredOK
<1>8. ASSUME NEW r \in Rounds, NEW p \in Players, scores[r][p] # NoScore
      PROVE  p \in Seated(courts'[r])
  <2>1. p \in Seated(courts[r]) /\ r <= round
    BY <1>8 DEF ScoredOK, ScoresHaveSeats
  <2>2. CASE r < from
    BY <1>6, <2>1, <2>2
  <2>3. CASE r >= from
    <3>1. r = round /\ p # out
      BY <1>3, <1>8, <2>1, <2>3 DEF Rounds
    <3> QED BY <1>5, <2>1, <2>3, <3>1
  <2> QED BY <1>3, <2>2, <2>3 DEF Rounds
<1>9. ScoresHaveSeats'
  BY <1>1, <1>4, <1>8 DEF ScoresHaveSeats
<1>10. \A q \in Slots : ~At(q, "score.write")'
  BY <1>1 DEF AllIdle, At, Idle
<1> QED BY <1>1, <1>4, <1>7, <1>9, <1>10 DEF ScoredOK

LEMMA ScoredKept ==
    ASSUME BooksOK, Sheets, ScoredOK, [Next]_vars, [BetweenCalls]_vars
    PROVE  ScoredOK'
<1>0. round \in Nat
  BY DEF BooksOK, Rounds
<1>1. ASSUME NEW out \in Players, Substitute(out) PROVE ScoredOK'
  <2>1. subs' # subs
    <3>1. out \in DOMAIN subs' /\ out \notin DOMAIN subs
      BY <1>1 DEF Substitute
    <3> QED BY <3>1
  <2>2. AllIdle
    BY <2>1 DEF BetweenCalls, vars, people
  <2> QED BY <1>1, <2>2, SubstituteKeepsScored
<1>2. ASSUME Unscored, Still \/ Rotates \/ Ends \/ Turns \/ Restarts PROVE ScoredOK'
  <2>1. CASE Still \/ Ends \/ Turns \/ Restarts
    <3>1. UNCHANGED <<round, courts>>
      BY <2>1 DEF Still, Ends, Turns, Restarts
    <3> QED BY <1>0, <1>2, <3>1, ScoredStays DEF ScoredOK
  <2>2. CASE Rotates
    <3>1. PICK layout : courts' = [courts EXCEPT ![round + 1] = layout]
      BY <2>2 DEF Rotates
    <3>2. round' = round + 1
      BY <2>2 DEF Rotates
    <3>3. \A r \in Rounds : r # round + 1 => courts'[r] = courts[r]
      BY <3>1
    <3>4. \A r \in Rounds : r \in Nat
      BY DEF Rounds
    <3>5. \A r \in Rounds : \A p \in Seated(courts'[r]) : r <= round'
      <4> SUFFICES ASSUME NEW r \in Rounds, NEW p \in Seated(courts'[r]) PROVE r <= round'
        OBVIOUS
      <4>1. CASE r = round + 1
        BY <1>0, <3>2, <4>1
      <4>2. CASE r # round + 1
        <5>1. p \in Seated(courts[r])
          BY <3>3, <4>2
        <5>2. r <= round
          BY <5>1 DEF ScoredOK
        <5> QED BY <1>0, <3>2, <3>4, <5>2
      <4> QED BY <4>1, <4>2
    <3>6. \A r \in Rounds : r <= round => courts'[r] = courts[r]
      BY <1>0, <3>3, <3>4
    <3> QED BY <1>0, <1>2, <3>5, <3>6, ScoredStays
  <2> QED BY <1>2, <2>1, <2>2
<1>3. (\E out \in Players : Substitute(out)) \/ Still \/ Rotates \/ Ends \/ Turns \/ Restarts
  BY Moved
<1>4. CASE Unscored
  BY <1>1, <1>2, <1>3, <1>4
<1>5. CASE UNCHANGED vars
  BY <1>4, <1>5 DEF vars, record, Unscored, At
<1>6. ASSUME NEW q \in Slots, Recording(q) PROVE ScoredOK'
  BY <1>4, <1>6, RecordingUnscored, ScoreCheckKeeps, ScoreWriteKeeps
<1> QED
  BY <1>1, <1>4, <1>5, <1>6, LifecycleUnscored, RosterUnscored, ClockUnscored DEF Next

LEMMA ScoredInit == Init => ScoredOK
<1> SUFFICES ASSUME Init PROVE ScoredOK
  OBVIOUS
<1>1. /\ round = 1 /\ \A q \in Slots : req[q] = Idle
      /\ \A r \in Rounds : r # 1 => courts[r] = <<>>
      /\ scores = [r \in Rounds |-> [p \in Players |-> NoScore]]
  BY DEF Init
<1>2. Seated(<<>>) = {}
  BY DEF Seated, SeatRefs
<1> QED BY <1>1, <1>2 DEF ScoredOK, ScoresHaveSeats, At, Idle, Rounds

\* Whoever has a score in a round has a seat in it, however often a place is
\* handed over: rotation_substitute leaves the round to whom it has a score of.
\* Scores may race buzzers, ends and each other, and statements may fail, as
\* long as nobody is substituted in the middle of a call.
THEOREM ScoresHaveSeatsHolds ==
    Spec /\ [][BetweenCalls]_vars => []ScoresHaveSeats
<1>1. BooksOK /\ Sheets /\ ScoredOK /\ [Next]_vars /\ [BetweenCalls]_vars => ScoredOK'
  BY ScoredKept
<1>2. ScoredOK => ScoresHaveSeats
  BY DEF ScoredOK
<1> QED
  BY <1>1, <1>2, ScoredInit, BooksInvariant, SheetsInvariant, PTL DEF Spec

-----------------------------------------------------------------------------
(* Wins.                                                                    *)

\* No night is reopened, and the wins are not counted again while a court in
\* play has a winner already: a recount would take it for a round that is over.
CountsApart ==
    /\ Reopens = 0
    /\ \A q \in Slots : At(q, "retally") => Closed(round) \/ Credited(round) = {}

\* The rounds a player has won.
Won(p) == {r \in Rounds : Closed(r) /\ p \in Credited(r)}

\* The wins are being counted again, or will be at the end of the call.
Recount(m) == \/ m.at \in {"retally"} \cup Recounting
              \/ m.at \in Deriving /\ m.then = "retally"

\* A derivation writes what the scorecard says; a recount wants everybody's
\* rounds, and has still to write whoever has another number.
Counts(m) ==
    /\ m.at = "persist.winners" =>
           \A i \in DOMAIN m.patches :
               m.patches[i].side = Verdict(courts[m.round][m.patches[i].court], scores[m.round])
    /\ m.at \in Recounting => m.want = [p \in Players |-> Cardinality(Won(p))]
    /\ m.at = "retally.write" =>
           /\ Has(m, "todo", Seq(Players))
           /\ \A p \in Players : wins[p] = m.want[p] \/ p \in ToSet(m.todo)

\* Nobody sits twice in a round.
SeatsApart == \A r \in Rounds : NoSeatTwice(courts[r])

Counted ==
    \/ \E q \in Slots : Recount(req[q])
    \/ \A p \in Players : wins[p] = Cardinality(Won(p))

Counting == SeatsApart /\ Counted /\ \A q \in Slots : Counts(req[q])

LEMMA NothingCounted ==
    Counts(Idle) /\ Counts(Idle)' /\ ~Recount(Idle)
BY DEF Counts, Idle, Recount, Recounting, Deriving

LEMMA NotCounting ==
    ASSUME NEW m, m.at \notin {"persist.winners", "retally"} \cup Recounting
    PROVE  Counts(m) /\ Counts(m)'
BY DEF Counts, Recounting

\* The request that moved is counting, or has counted.
LEMMA CountMoves ==
    ASSUME BooksOK, OneByOne, OneByOne', NEW q \in Slots, NEW m, Step(q, m),
           req[q] # Idle \/ m # Idle, Counts(m)', SeatsApart',
           Recount(m) \/ \A p \in Players : wins'[p] = Cardinality(Won(p)')
    PROVE  Counting'
<1>1. /\ req'[q] = m /\ Slots' = Slots /\ Players' = Players
      /\ \A s \in Slots \ {q} : req'[s] = Idle
  BY Alone DEF Players
<1>2. ASSUME NEW n, Counts(n)', NEW p, req'[p] = n PROVE Counts(req[p])'
  BY <1>2 DEF Counts, Has
<1>3. \A s \in Slots : Counts(req[s])'
  <2> SUFFICES ASSUME NEW s \in Slots PROVE Counts(req[s])'
    OBVIOUS
  <2>1. CASE s = q
    BY <1>1, <1>2, <2>1
  <2>2. CASE s # q
    BY <1>1, <1>2, <2>2, NothingCounted
  <2> QED BY <2>1, <2>2
<1>4. Counted'
  BY <1>1 DEF Counted, Recount
<1> QED BY <1>1, <1>3, <1>4 DEF Counting

\* A request that leaves the wins, and the rounds won.
LEMMA CountGoesOn ==
    ASSUME BooksOK, OneByOne, OneByOne', Counting, NEW q \in Slots, NEW m, Step(q, m),
           req[q] # Idle \/ m # Idle, Counts(m)', SeatsApart', wins' = wins,
           Recount(m) \/ (~Recount(req[q]) /\ \A p \in Players : Won(p)' = Won(p))
    PROVE  Counting'
<1>1. \A s \in Slots \ {q} : req[s] = Idle
  BY Alone
<1>2. Recount(m) \/ \A p \in Players : wins'[p] = Cardinality(Won(p)')
  <2> SUFFICES ASSUME ~Recount(m) PROVE \A p \in Players : wins'[p] = Cardinality(Won(p)')
    OBVIOUS
  <2>1. \A p \in Players : wins[p] = Cardinality(Won(p)) /\ Won(p)' = Won(p)
    BY <1>1, NothingCounted DEF Counting, Counted
  <2> QED BY <2>1
<1> QED BY <1>2, CountMoves

\* The rounds won stay when the closed rounds and their results do.
LEMMA WonStays ==
    ASSUME \A r \in Rounds : Closed(r)' <=> Closed(r),
           \A r \in Rounds : Closed(r) => courts'[r] = courts[r] /\ winner'[r] = winner[r]
    PROVE  \A p : Won(p)' = Won(p)
<1>1. \A r \in Rounds : Closed(r) => Credited(r)' = Credited(r)
  BY DEF Credited, CourtWinners
<1>2. Rounds' = Rounds
  BY DEF Rounds
<1> QED BY <1>1, <1>2 DEF Won

\* Nothing the wins are about changes.
LEMMA CountRead ==
    ASSUME BooksOK, OneByOne, OneByOne', Counting, NEW q \in Slots, NEW m, Step(q, m),
           req[q] # Idle \/ m # Idle, Counts(m), Recount(req[q]) => Recount(m),
           UNCHANGED <<round, courts, winner, scores, wins>>, (status' = "done") <=> (status = "done")
    PROVE  Counting'
<1>1. \A r : Closed(r)' <=> Closed(r)
  BY DEF Closed
<1>2. \A p : Won(p)' = Won(p)
  BY <1>1, WonStays
<1>3. Counts(m)'
  <2>1. Players' = Players
    BY DEF Players
  <2>2. [p \in Players |-> Cardinality(Won(p))]' = [p \in Players |-> Cardinality(Won(p))]
    BY <1>2, <2>1
  <2> QED BY <2>1, <2>2 DEF Counts
<1>4. SeatsApart'
  BY DEF Counting, SeatsApart, NoSeatTwice, SeatRefs, Rounds
<1> QED BY <1>2, <1>3, <1>4, CountGoesOn

LEMMA CountStands ==
    ASSUME Counting, UNCHANGED <<req, wins>>,
           \A q \in Slots : req[q] = Idle \/ UNCHANGED <<courts, scores>>,
           \A p : Won(p)' = Won(p), SeatsApart'
    PROVE  Counting'
<1>1. Players' = Players /\ Slots' = Slots
  BY DEF Players, Slots
<1>2. \A q \in Slots : Counts(req[q])'
  <2> SUFFICES ASSUME NEW q \in Slots PROVE Counts(req[q])'
    BY <1>1
  <2>0. PICK m : m = req[q]
    OBVIOUS
  <2>1. [p \in Players |-> Cardinality(Won(p))]' = [p \in Players |-> Cardinality(Won(p))]
    BY <1>1
  <2>2. Counts(m)
    BY <2>0 DEF Counting
  <2>3. CASE UNCHANGED <<courts, scores>>
    BY <1>1, <2>0, <2>1, <2>2, <2>3 DEF Counts
  <2>4. CASE req[q] = Idle
    BY <2>4, NotCounting DEF Idle, Recounting, Counts
  <2> QED BY <2>3, <2>4
<1>3. Counted'
  BY <1>1 DEF Counting, Counted, Recount
<1> QED BY <1>1, <1>2, <1>3 DEF Counting

\* Closing the current round is a round more for exactly its winners.
LEMMA WonGrows ==
    ASSUME BooksOK, ~Closed(round), NEW p,
           \A r \in Rounds : Closed(r)' <=> (Closed(r) \/ r = round),
           \A r \in Rounds : r <= round => courts'[r] = courts[r] /\ winner'[r] = winner[r]
    PROVE  Cardinality(Won(p)') =
               Cardinality(Won(p)) + IF p \in Credited(round) THEN 1 ELSE 0
<1>1. round \in Rounds /\ Rounds \subseteq Nat /\ round \in Nat
  BY DEF BooksOK, Rounds
<1>2. \A r \in Rounds : Closed(r) => r <= round
  <2> SUFFICES ASSUME NEW r \in Rounds, Closed(r) PROVE r <= round
    OBVIOUS
  <2>1. r \in Nat
    BY <1>1
  <2> QED BY <1>1, <2>1 DEF Closed
<1>3. \A r \in Rounds : (Closed(r) \/ r = round) => Credited(r)' = Credited(r)
  BY <1>1, <1>2 DEF Credited, CourtWinners
<1>4. Rounds' = Rounds
  BY DEF Rounds
<1>5. Won(p)' = {r \in Rounds : Closed(r)' /\ p \in Credited(r)'}
  BY <1>4 DEF Won
<1>6. Won(p)' = {r \in Rounds : (Closed(r) \/ r = round) /\ p \in Credited(r)}
  BY <1>3, <1>5
<1>7. Won(p)' = IF p \in Credited(round) THEN Won(p) \cup {round} ELSE Won(p)
  BY <1>1, <1>6 DEF Won
<1>8. round \notin Won(p)
  BY DEF Won
<1>9. IsFiniteSet(Won(p)) /\ Cardinality(Won(p)) \in Nat
  <2>1. IsFiniteSet(Rounds)
    BY FS_Interval DEF Rounds
  <2>2. Won(p) \subseteq Rounds
    BY DEF Won
  <2> QED
    BY <2>1, <2>2, FS_Subset, FS_CardinalityType
<1>10. CASE p \in Credited(round)
  <2>1. Cardinality(Won(p) \cup {round}) = Cardinality(Won(p)) + 1
    BY <1>8, <1>9, FS_AddElement
  <2> QED
    BY <1>7, <1>10, <2>1
<1>11. CASE p \notin Credited(round)
  BY <1>7, <1>9, <1>11
<1> QED
  BY <1>10, <1>11

\* Rows of different rounds, one for each, are as many as the rounds.
LEMMA RowsCount ==
    ASSUME NEW A, IsFiniteSet(A), NEW R, \A c \in A : c[1] \in R,
           \A r \in R : \E c \in A : c[1] = r,
           \A c, d \in A : c[1] = d[1] => c = d
    PROVE  Cardinality(A) = Cardinality(R)
<1> DEFINE f == [c \in A |-> c[1]]
<1>1. f \in [A -> R] /\ IsInjective(f) /\ \A r \in R : \E c \in A : f[c] = r
  BY DEF IsInjective
<1>2. f \in Bijection(A, R)
  BY <1>1 DEF Bijection, Injection, Surjection
<1>3. ExistsBijection(A, R)
  BY <1>2 DEF ExistsBijection
<1> QED BY <1>3, FS_Bijection

\* There are no more courts than players.
LEMMA FewCourts ==
    ASSUME NEW S, S \subseteq Players, NEW cs \in Layouts(S), NoSeatTwice(cs)
    PROVE  DOMAIN cs \subseteq 1..Len(Order)
<1>1. /\ Len(cs) \in Nat /\ DOMAIN cs = 1..Len(cs)
      /\ \A k \in 1..Len(cs), i \in 1..4 : cs[k][i] \in S
  BY Seats
<1> DEFINE n == Len(cs)
           f == [k \in 1..n |-> cs[k][1]]
<1>2. ASSUME NEW j \in 1..n, NEW k \in 1..n, cs[j][1] = cs[k][1] PROVE j = k
  <2>1. <<j, 1>> \in SeatRefs(cs) /\ <<k, 1>> \in SeatRefs(cs)
    BY <1>1 DEF SeatRefs
  <2>2. cs[<<j, 1>>[1]][<<j, 1>>[2]] = cs[<<k, 1>>[1]][<<k, 1>>[2]]
    BY <1>2
  <2>3. <<j, 1>> = <<k, 1>>
    BY <2>1, <2>2 DEF NoSeatTwice
  <2> QED BY <2>3
<1>3. f \in [1..n -> Players]
  BY <1>1
<1>4. f \in Injection(1..n, Players)
  BY <1>2, <1>3 DEF Injection, IsInjective
<1>5. IsFiniteSet(Players) /\ Cardinality(Players) = Len(Order) /\ Len(Order) \in Nat
  BY OrderFacts, QueueCounts DEF Players
<1>6. Cardinality(1..n) = n
  <2>1. n \in Int /\ 1 \in Int
    BY <1>1
  <2> HIDE DEF n
  <2>2. Cardinality(1..n) = IF 1 > n THEN 0 ELSE n - 1 + 1
    BY <2>1, FS_Interval
  <2> QED BY <1>1, <2>1, <2>2 DEF n
<1> HIDE DEF f, n
<1>7. n <= Len(Order)
  BY <1>4, <1>5, <1>6, FS_Injection
<1> QED BY <1>1, <1>5, <1>7 DEF n

\* A winner has a seat on the court.
LEMMA WinnersSit ==
    ASSUME NEW r, NEW k, NEW p \in CourtWinners(r, k)
    PROVE  \E i \in 1..4 : p = courts[r][k][i]
BY DEF CourtWinners

\* A recount finds the rounds everybody has won.
LEMMA RecountRight ==
    ASSUME BooksOK, Board, AllScorable, SeatsApart, Closed(round) \/ Credited(round) = {}
    PROVE  WinsFromCourts = [p \in Players |-> Cardinality(Won(p))]
<1>1. /\ round \in Rounds /\ Rounds \subseteq Nat /\ IsFiniteSet(Rounds)
      /\ Here \subseteq Players /\ \A r \in Rounds : courts[r] \in Layouts(Here)
  <2>1. IsFiniteSet(Rounds)
    BY FS_Interval DEF Rounds
  <2>2. round \in Rounds /\ Rounds \subseteq Nat
    BY DEF BooksOK, Rounds
  <2>3. Here \subseteq Players
    BY DEF Here
  <2> QED BY <2>1, <2>2, <2>3 DEF Board
<1>2. ASSUME NEW r \in Rounds, NEW k \in DOMAIN courts[r], NEW p \in CourtWinners(r, k)
      PROVE  /\ k \in 1..Len(Order) /\ r <= round
             /\ \A j \in DOMAIN courts[r] : p \in CourtWinners(r, j) => j = k
  <2> DEFINE cs == courts[r]
  <2>1. cs \in Layouts(Here) /\ NoSeatTwice(cs)
    BY <1>1 DEF SeatsApart
  <2>2. PICK i \in 1..4 : p = cs[k][i]
    BY WinnersSit
  <2>3. r <= round
    <3>1. cs[k][i] \in Seated(cs)
      <4> HIDE DEF cs
      <4>1. k \in DOMAIN cs
        BY <1>2 DEF cs
      <4> QED BY <2>1, <4>1, SeatsOf
    <3> QED BY <3>1 DEF AllScorable
  <2>4. k \in 1..Len(Order)
    <3> HIDE DEF cs
    <3>1. DOMAIN cs \subseteq 1..Len(Order)
      BY <1>1, <2>1, FewCourts
    <3> QED BY <1>2, <3>1 DEF cs
  <2>5. ASSUME NEW j \in DOMAIN cs, p \in CourtWinners(r, j) PROVE j = k
    <3>1. PICK h \in 1..4 : p = cs[j][h]
      BY <2>5, WinnersSit
    <3>2. <<j, h>> \in SeatRefs(cs) /\ <<k, i>> \in SeatRefs(cs)
      BY <1>2, <2>5 DEF SeatRefs
    <3>3. cs[<<j, h>>[1]][<<j, h>>[2]] = cs[<<k, i>>[1]][<<k, i>>[2]]
      BY <2>2, <3>1
    <3>4. <<j, h>> = <<k, i>>
      BY <2>1, <3>2, <3>3 DEF NoSeatTwice
    <3> QED BY <3>4
  <2> QED BY <2>3, <2>4, <2>5
<1>3. ASSUME NEW p \in Players PROVE WinsFromCourts[p] = Cardinality(Won(p))
  <2> DEFINE rows == Rounds \X (1..Len(Order))
             A == {c \in rows : c[2] \in DOMAIN courts[c[1]] /\ p \in CourtWinners(c[1], c[2])}
  <2>1. WinsFromCourts[p] = Cardinality(A)
    BY DEF WinsFromCourts
  <2>2. IsFiniteSet(A)
    <3>1. IsFiniteSet(1..Len(Order))
      BY OrderFacts, FS_Interval
    <3>2. IsFiniteSet(rows)
      BY <1>1, <3>1, FS_Product
    <3> HIDE DEF rows
    <3>3. A \subseteq rows
      OBVIOUS
    <3> HIDE DEF A
    <3> QED BY <3>2, <3>3, FS_Subset
  <2>3. \A c \in A : c[1] \in Won(p)
    <3> SUFFICES ASSUME NEW c \in A PROVE c[1] \in Won(p)
      OBVIOUS
    <3> DEFINE r == c[1]
               k == c[2]
    <3>1. r \in Rounds /\ k \in DOMAIN courts[r] /\ p \in CourtWinners(r, k)
      OBVIOUS
    <3> HIDE DEF r, k, A
    <3>2. p \in Credited(r)
      BY <3>1 DEF Credited
    <3>3. r <= round
      BY <1>2, <3>1
    <3>4. Closed(r)
      BY <1>1, <3>1, <3>2, <3>3 DEF Closed
    <3>5. r \in Won(p)
      BY <3>1, <3>2, <3>4 DEF Won
    <3> QED BY <3>5 DEF r
  <2>4. \A r \in Won(p) : \E c \in A : c[1] = r
    <3> SUFFICES ASSUME NEW r \in Won(p) PROVE \E c \in A : c[1] = r
      OBVIOUS
    <3>1. r \in Rounds /\ p \in Credited(r)
      BY DEF Won
    <3>2. PICK k \in DOMAIN courts[r] : p \in CourtWinners(r, k)
      BY <3>1 DEF Credited
    <3>3. k \in 1..Len(Order)
      BY <1>2, <3>1, <3>2
    <3>4. <<r, k>> \in rows /\ <<r, k>>[1] = r /\ <<r, k>>[2] = k
      BY <3>1, <3>3
    <3>5. <<r, k>> \in A
      BY <3>2, <3>4
    <3> QED BY <3>4, <3>5
  <2>5. \A c, d \in A : c[1] = d[1] => c = d
    <3> SUFFICES ASSUME NEW c \in A, NEW d \in A, c[1] = d[1] PROVE c = d
      OBVIOUS
    <3>1. /\ c = <<c[1], c[2]>> /\ d = <<d[1], d[2]>> /\ c[1] \in Rounds
          /\ c[2] \in DOMAIN courts[c[1]] /\ p \in CourtWinners(c[1], c[2])
          /\ d[2] \in DOMAIN courts[c[1]] /\ p \in CourtWinners(c[1], d[2])
      OBVIOUS
    <3>2. d[2] = c[2]
      BY <1>2, <3>1
    <3> QED BY <3>1, <3>2
  <2> HIDE DEF A
  <2> QED BY <2>1, <2>2, <2>3, <2>4, <2>5, RowsCount
<1>4. WinsFromCourts = [p \in Players |-> WinsFromCourts[p]]
  BY DEF WinsFromCourts
<1> QED BY <1>3, <1>4

\* A round is tallied as it closes.
LEMMA CountTally ==
    ASSUME BooksOK, OneByOne, OneByOne', Counting, NEW q \in Slots, Step(q, Idle),
           req[q] # Idle, ~Recount(req[q]), ~Closed(round), Tally(round),
           \A r \in Rounds : Closed(r)' <=> (Closed(r) \/ r = round),
           \A r \in Rounds : r <= round => courts'[r] = courts[r] /\ winner'[r] = winner[r],
           SeatsApart'
    PROVE  Counting'
<1>1. \A s \in Slots \ {q} : req[s] = Idle
  BY Alone
<1>2. \A p \in Players : wins[p] = Cardinality(Won(p))
  BY <1>1, NothingCounted DEF Counting, Counted
<1>3. \A p \in Players : wins'[p] = Cardinality(Won(p)')
  <2> SUFFICES ASSUME NEW p \in Players PROVE wins'[p] = Cardinality(Won(p)')
    OBVIOUS
  <2>1. wins[p] \in Nat /\ wins'[p] = IF p \in Credited(round) THEN wins[p] + 1 ELSE wins[p]
    BY DEF Tally, BooksOK
  <2>2. Cardinality(Won(p)') = Cardinality(Won(p)) + IF p \in Credited(round) THEN 1 ELSE 0
    BY WonGrows
  <2>3. wins[p] = Cardinality(Won(p))
    BY <1>2
  <2>4. CASE p \in Credited(round)
    BY <2>1, <2>2, <2>3, <2>4
  <2>5. CASE p \notin Credited(round)
    BY <2>1, <2>2, <2>3, <2>5
  <2> QED BY <2>4, <2>5
<1> QED BY <1>3, NothingCounted, CountMoves

\* An advance that reads on plans on, or stops.
LEMMA AdvanceSteps ==
    ASSUME BooksOK, NEW q \in Slots, ~Use("fault"),
           \/ \E expected : AdvCall(q, expected)
           \/ AdvSession(q) \/ AdvCourts(q) \/ AdvScores(q) \/ AdvPersisted(q)
           \/ AdvSubs(q) \/ AdvGone(q) \/ AdvActive(q) \/ AdvPlays(q) \/ AdvRecheck(q)
    PROVE  /\ req[q].at \in Planning \cup {"idle", "adv.session"}
           /\ \E m : /\ Step(q, m) /\ m.at \in Planning \cup {"idle", "adv.session", "end.round"}
                     /\ req[q].at # "idle" \/ m.at # "idle"
<1>0. PICK o : o = req[q]
  OBVIOUS
<1>1. "at" \in DOMAIN o /\ Idle.at = "idle"
  BY <1>0 DEF BooksOK, RequestOK, Idle
<1>2. CASE \E expected : AdvCall(q, expected)
  <2>1. o.at = "idle" /\ \E m : Step(q, m) /\ m.at = "adv.session"
    BY <1>0, <1>1, <1>2 DEF AdvCall, Call
  <2> QED BY <1>0, <2>1
<1>3. CASE AdvSession(q) \/ AdvPersisted(q) \/ AdvPlays(q)
  <2>1. o.at \in {"adv.session", "adv.persist", "adv.plays"}
    BY <1>0, <1>3 DEF AdvSession, AdvPersisted, AdvPlays, At
  <2>2. Step(q, Idle) \/ \E m : Step(q, m) /\ m.at \in {"adv.courts", "adv.subs", "end.round", "adv.recheck"}
    <3>1. CASE AdvSession(q) \/ AdvPersisted(q)
      BY <3>1 DEF AdvSession, AdvPersisted, Done
    <3>2. CASE AdvPlays(q)
      <4>1. PICK plan : IF plan.stuck \/ plan.courts = <<>> THEN Done(q)
                        ELSE IF RotationShouldStop(Planned, req[q].round)
                             THEN Step(q, [at |-> "end.round"])
                        ELSE Step(q, [at |-> "adv.recheck", expected |-> req[q].expected,
                                      round |-> req[q].round, courts |-> plan.courts,
                                      bench |-> plan.bench])
        BY <3>2, Zenon DEF AdvPlays
      <4> QED BY <4>1 DEF Done
    <3> QED BY <1>3, <3>1, <3>2
  <2> QED BY <1>0, <1>1, <2>1, <2>2 DEF Planning
<1>4. CASE AdvScores(q)
  <2>1. o.at = "adv.scores" /\ \E m : Step(q, m) /\ m.at = "adv.persist"
    BY <1>0, <1>4 DEF AdvScores, At
  <2> QED BY <1>0, <2>1 DEF Planning
<1>5. ASSUME NEW fields, "at" \in DOMAIN fields, fields.at \in Planning, o.at \in Planning,
             Step(q, Extend(o, fields))
      PROVE  /\ o.at \in Planning
             /\ \E m : Step(q, m) /\ m.at \in Planning
  <2>1. Extend(o, fields).at = fields.at
    BY <1>5 DEF Extend
  <2> QED BY <1>5, <2>1
<1>6. CASE AdvCourts(q)
  <2> DEFINE fields == [at |-> "adv.scores", courts |-> courts[o.round], taps |-> winner[o.round]]
  <2>1. "at" \in DOMAIN fields /\ fields.at \in Planning
    BY DEF Planning
  <2>2. Step(q, Extend(o, fields)) /\ o.at \in Planning
    BY <1>0, <1>6 DEF AdvCourts, At, Planning
  <2> HIDE DEF fields
  <2> QED BY <1>0, <1>5, <2>1, <2>2 DEF Planning
<1>7. CASE AdvSubs(q)
  <2> DEFINE fields == [at |-> "adv.gone", takeover |-> [p \in DOMAIN subs |-> subs[p].by]]
  <2>1. "at" \in DOMAIN fields /\ fields.at \in Planning
    BY DEF Planning
  <2>2. Step(q, Extend(o, fields)) /\ o.at \in Planning
    BY <1>0, <1>7 DEF AdvSubs, At, Planning
  <2> HIDE DEF fields
  <2> QED BY <1>0, <1>5, <2>1, <2>2 DEF Planning
<1>8. CASE AdvGone(q)
  <2> DEFINE fields == [at |-> "adv.active", gone |-> Gone]
  <2>1. "at" \in DOMAIN fields /\ fields.at \in Planning
    BY DEF Planning
  <2>2. Step(q, Extend(o, fields)) /\ o.at \in Planning
    BY <1>0, <1>8 DEF AdvGone, At, Planning
  <2> HIDE DEF fields
  <2> QED BY <1>0, <1>5, <2>1, <2>2 DEF Planning
<1>9. CASE AdvActive(q)
  <2> DEFINE fields == [at |-> "adv.plays", active |-> ActiveRow]
  <2>1. "at" \in DOMAIN fields /\ fields.at \in Planning
    BY DEF Planning
  <2>2. Step(q, Extend(o, fields)) /\ o.at \in Planning
    BY <1>0, <1>9 DEF AdvActive, At, Planning
  <2> HIDE DEF fields
  <2> QED BY <1>0, <1>5, <2>1, <2>2 DEF Planning
<1>10. CASE AdvRecheck(q)
  <2>1. PICK m : m = [o EXCEPT !.at = "adv.write"]
    OBVIOUS
  <2>2. o.at = "adv.recheck" /\ m.at = "adv.write"
    BY <1>0, <1>1, <1>10, <2>1 DEF AdvRecheck, At
  <2>3. Step(q, Idle) \/ Step(q, m)
    BY <1>0, <1>10, <2>1 DEF AdvRecheck, Done
  <2> QED BY <1>0, <1>1, <2>2, <2>3 DEF Planning
<1> QED BY <1>2, <1>3, <1>4, <1>6, <1>7, <1>8, <1>9, <1>10

LEMMA AdvanceCounts ==
    ASSUME BooksOK, Counting, OneByOne, OneByOne', NEW q \in Slots,
           \/ \E expected : AdvCall(q, expected)
           \/ AdvSession(q) \/ AdvCourts(q) \/ AdvScores(q) \/ AdvPersisted(q)
           \/ AdvSubs(q) \/ AdvGone(q) \/ AdvActive(q) \/ AdvPlays(q) \/ AdvRecheck(q)
    PROVE  Counting'
<1>1. UNCHANGED <<round, courts, winner, scores, wins, status>>
  BY DEF AdvCall, AdvSession, AdvCourts, AdvScores, AdvPersisted, AdvSubs, AdvGone, AdvActive,
     AdvPlays, AdvRecheck, session, record, tally
<1>2. /\ req[q].at \in Planning \cup {"idle", "adv.session"}
      /\ \E m : /\ Step(q, m) /\ m.at \in Planning \cup {"idle", "adv.session", "end.round"}
                /\ req[q].at # "idle" \/ m.at # "idle"
  BY NothingFails, AdvanceSteps
<1>3. PICK m : /\ Step(q, m) /\ m.at \in Planning \cup {"idle", "adv.session", "end.round"}
               /\ req[q].at # "idle" \/ m.at # "idle"
  BY <1>2
<1>4. req[q] # Idle \/ m # Idle
  BY <1>3 DEF Idle
<1>5. ~Recount(req[q])
  BY <1>2 DEF Recount, Recounting, Deriving, Planning
<1>6. Counts(m)
  BY <1>3, NotCounting DEF Recounting, Planning
<1> QED BY <1>1, <1>3, <1>4, <1>5, <1>6, CountRead

\* Writing the scorecard's winners counts nobody's wins wrong: the round is
\* open, or has those winners already, or the wins are counted afterwards.
LEMMA PersistCounts ==
    ASSUME BooksOK, Sheets, Recorded, Counting, OneByOne, OneByOne', NEW q \in Slots,
           \/ PersistScores(q) \/ PersistCourts(q) \/ PersistWinner(q) \/ PersistDone(q)
           \/ EndCall(q) \/ EndRound(q) \/ EndWrite(q) \/ ResumeRead(q) \/ ResumeWrite(q)
           \/ Drop(q)
    PROVE  Counting'
<1>0. PICK o : o = req[q]
  OBVIOUS
<1>1. /\ RequestOK(o) /\ Knows(o) /\ Counts(o) /\ "at" \in DOMAIN o /\ o.at \in Labels
      /\ o.at \in Deriving => "then" \in DOMAIN o
      /\ o.at \in Planning => o.round \in Rounds
      /\ o.at \in Deriving => "round" \in DOMAIN o /\ o.round \in Rounds
      /\ o.at \in {"adv.persist", "persist.winners"} =>
             "patches" \in DOMAIN o /\ o.patches \in Seq(Patches)
      /\ Board /\ Decisive /\ SeatsApart
  BY <1>0 DEF BooksOK, Recorded, Counting, RequestOK, Rounds, Sheets, Carries, Has
<1>2. ~Use("fault") /\ Idle.at = "idle"
  BY NothingFails DEF Idle
<1>3. ASSUME NEW m, Step(q, m), o.at # "idle" \/ m.at # "idle", Counts(m),
             UNCHANGED <<round, courts, winner, scores, wins>>,
             (status' = "done") <=> (status = "done"),
             Recount(o) => Recount(m)
      PROVE  Counting'
  <2>1. o # Idle \/ m # Idle
    BY <1>2, <1>3
  <2> QED BY <1>0, <1>3, <2>1, CountRead
<1>4. CASE EndCall(q) \/ ResumeRead(q)
  <2>1. /\ o.at = "idle" /\ UNCHANGED <<round, courts, winner, scores, wins, status>>
        /\ \E m : Step(q, m) /\ m.at \in {"end.round", "resume.write"}
    BY <1>0, <1>2, <1>4 DEF EndCall, ResumeRead, Call, session, record, tally
  <2> QED BY <1>3, <2>1, NotCounting DEF Recount, Recounting, Deriving
<1>5. CASE ResumeWrite(q)
  <2>1. /\ o.at = "resume.write" /\ UNCHANGED <<round, courts, winner, scores, wins>>
        /\ (status' = "done") <=> (status = "done")
        /\ Step(q, Idle)
    BY <1>0, <1>5 DEF ResumeWrite, At, Done, record, tally
  <2> QED BY <1>2, <1>3, <2>1, NothingCounted DEF Recount, Recounting, Deriving
<1>6. CASE EndRound(q)
  <2>1. /\ o.at = "end.round" /\ UNCHANGED <<round, courts, winner, scores, wins, status>>
        /\ \E m : Step(q, m) /\ m.at = "persist.scores"
    BY <1>0, <1>2, <1>6 DEF EndRound, DeriveWinners, At, session, record, tally
  <2> QED BY <1>3, <2>1, NotCounting DEF Recount, Recounting, Deriving
<1>7. CASE PersistScores(q)
  <2> DEFINE fields == [at |-> "persist.courts", scores |-> scores[o.round]]
             m == Extend(o, fields)
  <2>1. /\ o.at = "persist.scores" /\ o.at \in Deriving
        /\ UNCHANGED <<round, courts, winner, scores, wins, status>>
        /\ Step(q, m)
    BY <1>0, <1>7 DEF PersistScores, At, session, record, tally, Deriving
  <2>2. DOMAIN fields = {"at", "scores"} /\ fields.at = "persist.courts"
    OBVIOUS
  <2> HIDE DEF fields
  <2>3. /\ \A x \in DOMAIN fields : m[x] = fields[x]
        /\ \A x \in (DOMAIN o) \ (DOMAIN fields) : m[x] = o[x]
    BY DEF Extend
  <2> HIDE DEF m
  <2>4. m.at = "persist.courts" /\ m.then = o.then
    BY <1>1, <2>1, <2>2, <2>3
  <2>5. Counts(m) /\ (Recount(o) => Recount(m))
    BY <2>1, <2>4, NotCounting DEF Recount, Recounting, Deriving
  <2> QED BY <1>3, <2>1, <2>4, <2>5
<1>8. CASE PersistCourts(q)
  <2>1. /\ o.at = "persist.courts" /\ o.at \in Deriving
        /\ UNCHANGED <<round, courts, winner, scores, wins, status>>
    BY <1>0, <1>8 DEF PersistCourts, At, session, record, tally, Deriving
  <2> DEFINE r == o.round
             side == [k \in DOMAIN courts[r] |-> Verdict(courts[r][k], o.scores)]
  <2>7. PICK m : m = [at |-> "persist.winners", round |-> r, then |-> o.then,
                      patches |-> PatchesFor(side)]
    OBVIOUS
  <2>8. Step(q, m)
    BY <1>0, <1>8, <2>7 DEF PersistCourts
  <2>2. /\ Step(q, m) /\ m.at = "persist.winners" /\ m.round = r
        /\ m.then = o.then /\ m.patches = PatchesFor(side)
    BY <2>7, <2>8
  <2>3. o.scores = scores[r] /\ r \in Rounds
    BY <1>1, <2>1 DEF Knows
  <2>4. PICK n \in Nat : DOMAIN courts[r] = 1..n
    <3> DEFINE V == [1..4 -> Here]
    <3>1. courts[r] \in Seq(V)
      BY <1>1, <2>3 DEF Board, Layouts
    <3> HIDE DEF V
    <3> QED BY <3>1
  <2>5. /\ DOMAIN side = 1..n
        /\ \A k \in 1..n : side[k] = Verdict(courts[r][k], scores[r])
    BY <2>3, <2>4
  <2> HIDE DEF side
  <2>6. \A i \in DOMAIN m.patches :
            m.patches[i].side = Verdict(courts[r][m.patches[i].court], scores[r])
    <3>1. PICK t : t = PatchesFor(side)
      OBVIOUS
    <3>2. \A i \in DOMAIN t : t[i].court \in 1..n /\ t[i].side = side[t[i].court]
      BY <2>5, <3>1, PatchesHold
    <3> QED BY <2>2, <2>5, <3>1, <3>2
  <2>9. Counts(m) /\ (Recount(o) => Recount(m))
    BY <2>1, <2>2, <2>6 DEF Counts, Recount, Recounting, Deriving
  <2> QED BY <1>3, <2>1, <2>2, <2>9
<1>9. CASE PersistDone(q)
  <2>1. /\ o.at = "persist.winners" /\ o.at \in Deriving
        /\ UNCHANGED <<round, courts, winner, scores, wins, status>>
        /\ Step(q, [at |-> o.then])
    BY <1>0, <1>9 DEF PersistDone, At, session, record, tally, Deriving
  <2>2. o.then \in {"end.write", "retally"}
    BY <1>1, <2>1 DEF Knows
  <2>3. PICK m : m = [at |-> o.then]
    OBVIOUS
  <2>4. m.at = o.then
    BY <2>3
  <2>5. Counts(m) /\ (Recount(o) => Recount(m))
    BY <2>1, <2>2, <2>4 DEF Counts, Recount, Recounting, Deriving
  <2> QED BY <1>3, <2>1, <2>3, <2>5
<1>10. CASE PersistWinner(q)
  <2> DEFINE r == o.round
             m == [o EXCEPT !.patches = Tail(@)]
  <2>1. /\ o.at \in {"adv.persist", "persist.winners"} /\ o.patches # <<>> /\ Step(q, m)
        /\ Patch(r, Head(o.patches))
        /\ UNCHANGED <<courts, scores, round, status, wins>>
    BY <1>0, <1>2, <1>10 DEF PersistWinner, session, tally
  <2>2. r \in Rounds /\ o.patches \in Seq(Patches) /\ "round" \in DOMAIN o
        /\ (o.at = "persist.winners" => "then" \in DOMAIN o) /\ Patching(o)
    <3>1. o.at \in Planning => "round" \in DOMAIN o
      BY <1>1 DEF RequestOK
    <3> QED BY <1>1, <2>1, <3>1 DEF Deriving, Planning, Knows
  <2>3. /\ m.at = o.at /\ m.round = r /\ m.patches = Tail(o.patches)
        /\ o.at = "persist.winners" => m.then = o.then
    BY <1>1, <2>1, <2>2
  <2> HIDE DEF m
  <2>4. /\ Head(o.patches) = o.patches[1] /\ 1 \in DOMAIN o.patches
        /\ \A i \in DOMAIN Tail(o.patches) : Tail(o.patches)[i] = o.patches[i + 1]
                                             /\ i + 1 \in DOMAIN o.patches
    BY <2>1, <2>2, TailsEntries
  <2>5. Counts(m)'
    <3>1. CASE o.at = "adv.persist"
      BY <2>3, <3>1, NotCounting DEF Recounting
    <3>2. CASE o.at = "persist.winners"
      <4>1. \A i \in DOMAIN o.patches :
                o.patches[i].side = Verdict(courts[r][o.patches[i].court], scores[r])
        BY <1>1, <3>2 DEF Counts
      <4>2. \A i \in DOMAIN m.patches :
                m.patches[i].side = Verdict(courts[r][m.patches[i].court], scores[r])
        BY <2>3, <2>4, <4>1
      <4> QED BY <2>1, <2>3, <3>2, <4>2 DEF Counts, Recounting
    <3> QED BY <2>1, <3>1, <3>2
  <2>6. SeatsApart'
    BY <1>1, <2>1 DEF SeatsApart, NoSeatTwice, SeatRefs, Rounds
  <2>7. o # Idle
    BY <1>2, <2>1
  <2>8. \A s \in Slots \ {q} : req[s] = Idle
    BY <1>0, <2>1, <2>7, Alone
  <2>9. \A s \in Rounds \ {r} : winner'[s] = winner[s]
    BY <1>1, <2>1 DEF Patch, Board
  <2>10. \A s : Closed(s)' <=> Closed(s)
    BY <2>1 DEF Closed
  <2>11. ASSUME ~Recount(m) PROVE ~Recount(o) /\ \A p \in Players : Won(p)' = Won(p)
    <3>1. ~Recount(o)
      BY <2>1, <2>3, <2>11 DEF Recount, Recounting, Deriving
    <3>2. ~Deciding(o) /\ r = round
      BY <1>1, <2>1, <3>1 DEF Deciding, Recount, Knows, Planning, Deriving
    <3>3. Closed(r) => winner'[r] = winner[r]
      <4> SUFFICES ASSUME Closed(r) PROVE winner'[r] = winner[r]
        OBVIOUS
      <4>1. Decided(r)
        BY <1>0, <1>1, <2>2, <2>8, <3>2, OnlyOneDecides
      <4>2. o.at = "persist.winners"
        BY <1>1, <2>1, <2>2, <3>2 DEF Knows, Planning, Closed, Rounds
      <4> DEFINE x == Head(o.patches)
      <4>3. x.court \in DOMAIN courts[r] /\ x.side = Verdict(courts[r][x.court], scores[r])
        BY <1>1, <2>2, <2>4, <4>2 DEF Counts, Patching, Writes
      <4>0. o.patches[1] \in Patches
        BY <2>1, <2>2, <2>4
      <4>4. x.side \in Sides
        BY <4>0, <2>4 DEF Patches
      <4>5. winner[r][x.court] = x.side
        BY <4>1, <4>3, <4>4 DEF Decided, Agrees
      <4>6. winner'[r] = [winner[r] EXCEPT ![x.court] = x.side]
        BY <1>1, <2>1, <2>2 DEF Patch, Board
      <4>7. winner[r] \in [DOMAIN courts[r] -> Sides \cup {Unreported}]
        BY <1>1, <2>2 DEF Board
      <4> HIDE DEF x
      <4> QED BY <4>5, <4>6, <4>7
    <3>4. \A s \in Rounds : Closed(s) => courts'[s] = courts[s] /\ winner'[s] = winner[s]
      BY <2>1, <2>9, <3>3
    <3>5. \A s \in Rounds : Closed(s)' <=> Closed(s)
      BY <2>10
    <3> QED BY <3>1, <3>4, <3>5, WonStays
  <2> QED BY <1>0, <2>1, <2>5, <2>6, <2>7, <2>11, CountGoesOn
<1>11. CASE EndWrite(q)
  <2>1. o.at = "end.write" /\ Step(q, Idle) /\ UNCHANGED <<round, courts, winner, scores>>
    BY <1>0, <1>11 DEF EndWrite, At, Done, record
  <2>2. ~Recount(o) /\ o # Idle
    BY <1>2, <2>1 DEF Recount, Recounting, Deriving
  <2>3. CASE status \in {"live", "paused"}
    <3>1. Tally(round) /\ status' = "done"
      BY <1>11, <2>3 DEF EndWrite
    <3>2. round \in Nat /\ Rounds \subseteq Nat
      BY DEF BooksOK, Rounds
    <3>3. ~Closed(round)
      BY <2>3, <3>2 DEF Closed
    <3>4. \A r \in Rounds : Closed(r)' <=> (Closed(r) \/ r = round)
      BY <2>1, <2>3, <3>1, <3>2 DEF Closed
    <3>5. SeatsApart'
      BY <1>1, <2>1 DEF SeatsApart, NoSeatTwice, SeatRefs, Rounds
    <3> QED BY <1>0, <2>1, <2>2, <3>1, <3>3, <3>4, <3>5, CountTally
  <2>4. CASE status \notin {"live", "paused"}
    <3>1. UNCHANGED <<status, wins>>
      BY <1>11, <2>4 DEF EndWrite, tally
    <3> QED BY <1>2, <1>3, <2>1, <2>2, <3>1, NothingCounted
  <2> QED BY <2>3, <2>4
<1>12. ~Drop(q)
  BY <1>2 DEF Drop
<1> QED BY <1>4, <1>5, <1>6, <1>7, <1>8, <1>9, <1>10, <1>11, <1>12

\* Closing the round counts it, and seats the next round one by one.
LEMMA AdvWriteCounts ==
    ASSUME BooksOK, Sheets, Recorded, Counting, OneByOne, OneByOne', BoardFits',
           NEW q \in Slots, AdvWrite(q)
    PROVE  Counting'
<1>0. PICK o : o = req[q]
  OBVIOUS
<1>1. /\ o.at = "adv.write" /\ o.at \in Planning /\ RequestOK(o) /\ Knows(o)
      /\ Board /\ Step(q, Idle) /\ Idle.at = "idle" /\ UNCHANGED scores /\ SeatsApart
  BY <1>0 DEF AdvWrite, At, Planning, BooksOK, Recorded, Sheets, Done, Idle, Counting
<1>2. /\ o.round = round /\ round \in 1..(MaxRounds - 1) /\ status # "done"
      /\ o # Idle /\ ~Recount(o)
  BY <1>1 DEF RequestOK, Knows, Recount, Recounting, Deriving
<1>3. CASE UNCHANGED <<session, courts, winner, tally>>
  <2>1. UNCHANGED <<round, courts, winner, scores, wins, status>>
    BY <1>1, <1>3 DEF session, tally
  <2> QED BY <1>0, <1>1, <1>2, <2>1, NothingCounted, CountRead
<1>4. CASE /\ Tally(round) /\ status' = "live" /\ round' = round + 1
           /\ courts' = [courts EXCEPT ![round + 1] = o.courts]
           /\ winner' = [winner EXCEPT ![round + 1] = Fresh(o.courts)]
  <2>1. \A r \in Rounds \ {round + 1} : courts'[r] = courts[r] /\ winner'[r] = winner[r]
    BY <1>1, <1>4 DEF BooksOK, Board
  <2>2. Rounds' = Rounds /\ \A r \in Rounds : r <= round => r # round + 1
    BY <1>2 DEF Rounds
  <2>3. ~Closed(round) /\ \A r \in Rounds : Closed(r)' <=> (Closed(r) \/ r = round)
    BY <1>2, <1>4 DEF Closed, Rounds
  <2>4. SeatsApart'
    <3>1. NoSeatTwice(courts'[round + 1])
      BY <1>4 DEF BoardFits, LayoutAndBenchOK, NoSeatTwice
    <3>2. \A r \in Rounds \ {round + 1} : NoSeatTwice(courts'[r])
      BY <1>1, <2>1 DEF SeatsApart
    <3>3. \A r \in Rounds : NoSeatTwice(courts'[r])
      BY <3>1, <3>2
    <3> QED BY <2>2, <3>3 DEF SeatsApart, NoSeatTwice, SeatRefs
  <2> QED BY <1>0, <1>1, <1>2, <1>4, <2>1, <2>2, <2>3, <2>4, CountTally
<1> QED BY <1>0, <1>2, <1>3, <1>4 DEF AdvWrite, Current

LEMMA HeadAndTail ==
    ASSUME NEW S, NEW t \in Seq(S), t # <<>>
    PROVE  /\ Head(t) \in S /\ Tail(t) \in Seq(S)
           /\ ToSet(t) \subseteq {Head(t)} \cup ToSet(Tail(t))
<1>1. Head(t) \in S /\ Tail(t) \in Seq(S) /\ Head(t) = t[1]
  OBVIOUS
<1>2. ASSUME NEW i \in DOMAIN t, i # 1
      PROVE  i - 1 \in DOMAIN Tail(t) /\ Tail(t)[i - 1] = t[i]
  <2>1. /\ DOMAIN t = 1..Len(t) /\ Len(t) \in Nat /\ Len(Tail(t)) = Len(t) - 1
        /\ DOMAIN Tail(t) = 1..Len(Tail(t))
        /\ \A j \in 1..(Len(t) - 1) : Tail(t)[j] = t[j + 1]
    OBVIOUS
  <2>2. i \in 1..Len(t)
    BY <2>1
  <2>3. i - 1 \in 1..(Len(t) - 1) /\ (i - 1) + 1 = i
    BY <1>2, <2>1, <2>2
  <2> QED BY <2>1, <2>3
<1>3. ASSUME NEW p \in ToSet(t) PROVE p = Head(t) \/ p \in ToSet(Tail(t))
  <2>1. PICK i \in DOMAIN t : p = t[i]
    BY DEF ToSet
  <2>2. CASE i = 1
    BY <1>1, <2>1, <2>2
  <2>3. CASE i # 1
    BY <1>2, <2>1, <2>3 DEF ToSet
  <2> QED BY <2>2, <2>3
<1> QED BY <1>1, <1>3

\* A recount writes those it has found, one after the other.
LEMMA RecountWrites ==
    ASSUME BooksOK, Recorded, Counting, OneByOne, OneByOne', NEW q \in Slots, RetallyWrite(q)
    PROVE  Counting'
<1>0. PICK o : o = req[q]
  OBVIOUS
<1>1. /\ o.at = "retally.write" /\ UNCHANGED <<round, courts, winner, scores, status>>
      /\ "at" \in DOMAIN o /\ wins \in [Players -> Nat] /\ o # Idle /\ Players' = Players
  BY <1>0 DEF RetallyWrite, At, session, record, BooksOK, RequestOK, Idle, Players
<1>2. /\ o.want = [p \in Players |-> Cardinality(Won(p))]
      /\ "todo" \in DOMAIN o /\ o.todo \in Seq(Players)
      /\ \A p \in Players : wins[p] = o.want[p] \/ p \in ToSet(o.todo)
  BY <1>0, <1>1 DEF Counting, Counts, Recounting, Has
<1>3. \A p : Won(p)' = Won(p)
  <2>1. \A r : Closed(r)' <=> Closed(r)
    BY <1>1 DEF Closed
  <2> QED BY <1>1, <2>1, WonStays
<1>4. SeatsApart'
  BY <1>1 DEF Counting, SeatsApart, NoSeatTwice, SeatRefs, Rounds
<1>5. CASE o.todo = <<>>
  <2>1. wins' = wins /\ Step(q, Idle)
    BY <1>0, <1>5 DEF RetallyWrite, Done
  <2>2. \A p \in Players : wins'[p] = Cardinality(Won(p)')
    <3>1. ToSet(<<>>) = {}
      BY DEF ToSet
    <3> QED BY <1>2, <1>3, <1>5, <2>1, <3>1
  <2> QED BY <1>0, <1>1, <1>4, <2>1, <2>2, NothingCounted, CountMoves
<1>6. CASE o.todo # <<>>
  <2> DEFINE h == Head(o.todo)
             m == [o EXCEPT !.todo = Tail(@)]
  <2>1. wins' = [wins EXCEPT ![h] = o.want[h]] /\ Step(q, m)
    BY <1>0, <1>6 DEF RetallyWrite
  <2>2. m.at = "retally.write" /\ m.want = o.want /\ m.todo = Tail(o.todo) /\ "todo" \in DOMAIN m
    BY <1>1, <1>2
  <2> HIDE DEF m
  <2>3. /\ h \in Players /\ Tail(o.todo) \in Seq(Players)
        /\ ToSet(o.todo) \subseteq {h} \cup ToSet(Tail(o.todo))
    BY <1>2, <1>6, HeadAndTail
  <2> HIDE DEF h
  <2>4. \A p \in Players : wins'[p] = m.want[p] \/ p \in ToSet(m.todo)
    BY <1>1, <1>2, <2>1, <2>2, <2>3
  <2>5. m.want = [p \in Players |-> Cardinality(Won(p))]'
    BY <1>1, <1>2, <1>3, <2>2
  <2>6. Counts(m)'
    BY <1>1, <2>2, <2>3, <2>4, <2>5 DEF Counts, Recounting, Has
  <2>7. Recount(m)
    BY <2>2 DEF Recount, Recounting
  <2> QED BY <1>0, <1>1, <1>4, <2>1, <2>6, <2>7, CountMoves
<1> QED BY <1>5, <1>6

\* Taps, scorecards, and the recount after them.
LEMMA RecordingCounts ==
    ASSUME BooksOK, Sheets, Recorded, Counting, OneByOne, OneByOne', CountsApart,
           NEW q \in Slots,
           \/ \E r \in Rounds : \E k \in DOMAIN courts[r] : \E x :
                  ScoreCall(q, r, k, x) \/ CorrectCheck(q, r, k, x)
           \/ \E k, x : ReportCheck(q, k, x)
           \/ ReportWrite(q) \/ ScoreCheck(q) \/ ScoreWrite(q) \/ Rederive(q)
           \/ RetallyCourts(q) \/ RetallyWins(q) \/ RetallyWrite(q) \/ CorrectWrite(q)
    PROVE  Counting'
<1>0. PICK o : o = req[q]
  OBVIOUS
<1>1. /\ Knows(o) /\ Counts(o) /\ "at" \in DOMAIN o /\ Board /\ SeatsApart /\ AllScorable
      /\ wins \in [Players -> Nat]
  BY <1>0 DEF BooksOK, Recorded, Counting, RequestOK, Sheets
<1>2. ~Use("correct") /\ Idle.at = "idle"
  BY NothingFails DEF Idle
<1>3. ASSUME NEW m, Step(q, m), o.at # "idle" \/ m.at # "idle", Counts(m),
             UNCHANGED <<round, courts, winner, scores, wins, status>>,
             Recount(o) => Recount(m)
      PROVE  Counting'
  <2>1. o # Idle \/ m # Idle
    BY <1>2, <1>3
  <2> QED BY <1>0, <1>3, <2>1, CountRead
<1>4. ASSUME NEW m, Step(q, m), m.at \in {"score.check", "report.write", "score.write"},
             o.at \in {"idle", "score.check"},
             UNCHANGED <<round, courts, winner, scores, wins, status>>
      PROVE  Counting'
  <2>1. Counts(m) /\ ~Recount(o)
    BY <1>4, NotCounting DEF Recount, Recounting, Deriving
  <2> QED BY <1>3, <1>4, <2>1
<1>5. ASSUME NEW r, NEW k, NEW x, ScoreCall(q, r, k, x) \/ ReportCheck(q, k, x)
      PROVE  Counting'
  <2>1. /\ \E m : Step(q, m) /\ m.at \in {"score.check", "report.write"}
        /\ o.at = "idle" /\ UNCHANGED <<round, courts, winner, scores, wins, status>>
    BY <1>0, <1>2, <1>5 DEF ScoreCall, ReportCheck, Call, session, record, tally
  <2> QED BY <1>4, <2>1
<1>6. CASE ReportWrite(q)
  <2>1. /\ o.at = "report.write" /\ Step(q, Idle) /\ Patch(o.round, o)
        /\ UNCHANGED <<courts, scores, round, status, wins>>
    BY <1>0, <1>6 DEF ReportWrite, At, Done, session, tally
  <2>2. o.round = round /\ status # "done" /\ ~Recount(o) /\ o # Idle
    BY <1>1, <1>2, <2>1 DEF Knows, Recount, Recounting, Deriving
  <2>3. \A r \in Rounds : Closed(r)' <=> Closed(r)
    BY <2>1 DEF Closed
  <2>4. \A r \in Rounds : Closed(r) => courts'[r] = courts[r] /\ winner'[r] = winner[r]
    BY <1>1, <2>1, <2>2 DEF Closed, Rounds, BooksOK, Patch, Board
  <2>5. SeatsApart'
    BY <1>1, <2>1 DEF SeatsApart, NoSeatTwice, SeatRefs, Rounds
  <2> QED BY <1>0, <2>1, <2>2, <2>3, <2>4, <2>5, WonStays, NothingCounted, CountGoesOn
<1>7. CASE ScoreCheck(q)
  <2>1. o.at = "score.check" /\ UNCHANGED <<round, courts, winner, scores, wins, status>>
    BY <1>0, <1>7 DEF ScoreCheck, At, session, record, tally
  <2>2. PICK m : m = [o EXCEPT !.at = "score.write"]
    OBVIOUS
  <2>3. m.at = "score.write"
    BY <1>1, <2>2
  <2>4. Step(q, m) \/ Step(q, Idle)
    BY <1>0, <1>7, <2>2 DEF ScoreCheck, Done
  <2>5. CASE Step(q, Idle)
    BY <1>3, <2>1, <2>5, NothingCounted DEF Recount, Recounting, Deriving
  <2> QED BY <1>4, <2>1, <2>3, <2>4, <2>5
<1>8. CASE ScoreWrite(q)
  <2>1. o.at = "score.write" /\ UNCHANGED <<round, courts, winner, status, wins>>
    BY <1>0, <1>8 DEF ScoreWrite, At, session, tally
  <2>2. PICK m : m = IF Len(o.entries) > 1
                     THEN [o EXCEPT !.at = "score.check", !.entries = Tail(@)]
                     ELSE [at |-> "rederive", round |-> o.round]
    OBVIOUS
  <2>3. Step(q, m) /\ m.at \in {"score.check", "rederive"}
    <3>1. Step(q, m)
      BY <1>0, <1>8, <2>2 DEF ScoreWrite
    <3>2. m.at \in {"score.check", "rederive"}
      BY <1>1, <2>2
    <3> QED BY <3>1, <3>2
  <2>4. Counts(m)' /\ ~Recount(o) /\ o # Idle
    BY <1>2, <2>1, <2>3, NotCounting DEF Recount, Recounting, Deriving
  <2>5. \A r \in Rounds : Closed(r)' <=> Closed(r)
    BY <2>1 DEF Closed
  <2>6. \A p : Won(p)' = Won(p)
    BY <2>1, <2>5, WonStays
  <2>7. SeatsApart'
    BY <1>1, <2>1 DEF SeatsApart, NoSeatTwice, SeatRefs, Rounds
  <2> QED BY <1>0, <2>1, <2>3, <2>4, <2>6, <2>7, CountGoesOn
<1>9. CASE Rederive(q)
  <2>1. o.at = "rederive" /\ UNCHANGED <<round, courts, winner, scores, wins, status>>
    BY <1>0, <1>9 DEF Rederive, At, session, record, tally
  <2>2. PICK m : m = DeriveWinners(o.round, "retally")
    OBVIOUS
  <2>3. m.at = "persist.scores"
    BY <2>2 DEF DeriveWinners
  <2>4. Step(q, m) \/ Step(q, Idle)
    BY <1>0, <1>9, <2>2 DEF Rederive, Done
  <2>5. Counts(m) /\ ~Recount(o)
    BY <2>1, <2>3, NotCounting DEF Recount, Recounting, Deriving
  <2> QED BY <1>3, <2>1, <2>4, <2>5, NothingCounted
<1>10. CASE RetallyCourts(q)
  <2>1. o.at = "retally" /\ UNCHANGED <<round, courts, winner, scores, wins, status>>
    BY <1>0, <1>10 DEF RetallyCourts, At, session, record, tally
  <2>2. PICK m : m = [at |-> "retally.wins", want |-> WinsFromCourts]
    OBVIOUS
  <2>3. Step(q, m) /\ m.at = "retally.wins" /\ m.want = WinsFromCourts
    BY <1>0, <1>10, <2>2 DEF RetallyCourts
  <2>4. Closed(round) \/ Credited(round) = {}
    BY <1>0, <2>1 DEF CountsApart, At
  <2>5. m.want = [p \in Players |-> Cardinality(Won(p))]
    BY <1>1, <2>3, <2>4, RecountRight
  <2>6. Counts(m) /\ Recount(m)
    BY <2>3, <2>5 DEF Counts, Recount, Recounting
  <2> QED BY <1>3, <2>1, <2>3, <2>6
<1>11. CASE RetallyWins(q)
  <2> DEFINE I == {i \in DOMAIN Order : wins[Order[i]] # o.want[Order[i]]}
             todo == Picked(Order, I)
  <2>1. o.at = "retally.wins" /\ UNCHANGED <<round, courts, winner, scores, wins, status>>
    BY <1>0, <1>11 DEF RetallyWins, At, session, record, tally
  <2>2. PICK m : m = [at |-> "retally.write", want |-> o.want, todo |-> todo]
    OBVIOUS
  <2>3. /\ Step(q, m) /\ m.at = "retally.write" /\ m.want = o.want /\ m.todo = todo
        /\ "todo" \in DOMAIN m
    BY <1>0, <1>11, <2>2 DEF RetallyWins
  <2>4. o.want = [p \in Players |-> Cardinality(Won(p))]
    BY <1>1, <2>1 DEF Counts, Recounting
  <2>5. todo \in Seq(Players) /\ ToSet(todo) = {Order[i] : i \in I}
    <3>1. I \in SUBSET (DOMAIN Order)
      OBVIOUS
    <3> HIDE DEF I
    <3> QED BY <3>1, OrderFacts, PickedHolds
  <2>6. \A p \in Players : wins[p] = o.want[p] \/ p \in {Order[i] : i \in I}
    BY OrderFacts DEF Players, ToSet
  <2> HIDE DEF todo, I
  <2>7. Counts(m) /\ Recount(m)
    BY <2>3, <2>4, <2>5, <2>6 DEF Counts, Recount, Recounting, Has
  <2> QED BY <1>3, <2>1, <2>3, <2>7
<1>12. CASE RetallyWrite(q)
  BY <1>12, RecountWrites
<1>13. ~CorrectWrite(q) /\ \A r, k, x : ~CorrectCheck(q, r, k, x)
  BY <1>0, <1>1, <1>2 DEF CorrectWrite, At, Knows, CorrectCheck, Call
<1> QED BY <1>5, <1>6, <1>7, <1>8, <1>9, <1>10, <1>11, <1>12, <1>13

\* Arrivals, returns and the clock do not count.
LEMMA OthersCount ==
    ASSUME BooksOK, Counting, OneByOne, OneByOne', CountsApart',
           \/ Clock
           \/ \E q \in Slots : Roster(q)
           \/ UNCHANGED vars
    PROVE  Counting'
<1>1. ASSUME NEW q \in Slots, NEW m, Step(q, m),
             m.at \in {"idle", "join", "roster.write", "adv.session", "end.round"},
             req[q].at \in {"idle", "join", "roster.write"},
             req[q].at # "idle" \/ m.at # "idle",
             UNCHANGED <<round, courts, winner, scores, wins, status>>
      PROVE  Counting'
  <2>1. req[q] # Idle \/ m # Idle
    BY <1>1 DEF Idle
  <2>2. Counts(m) /\ ~Recount(req[q])
    BY <1>1, NotCounting DEF Recount, Recounting, Deriving
  <2> QED BY <1>1, <2>1, <2>2, CountRead
<1>2. Idle.at = "idle"
  BY DEF Idle
<1>3. ASSUME UNCHANGED <<round, courts, winner, scores, wins, req>>,
             (status' = "done") <=> (status = "done")
      PROVE  Counting'
  <2>1. \A r : Closed(r)' <=> Closed(r)
    BY <1>3 DEF Closed
  <2>2. \A p : Won(p)' = Won(p)
    BY <1>3, <2>1, WonStays
  <2>3. SeatsApart'
    BY <1>3 DEF Counting, SeatsApart, NoSeatTwice, SeatRefs, Rounds
  <2> QED BY <1>3, <2>2, <2>3, CountStands
<1>4. CASE Clock
  <2>1. CASE Pause \/ TimePasses
    <3>1. /\ UNCHANGED <<round, courts, winner, scores, wins, req>>
          /\ (status' = "done") <=> (status = "done")
      BY <2>1 DEF Pause, TimePasses, record, tally
    <3> QED BY <1>3, <3>1
  <2>2. CASE Sweep \/ EndAbandoned
    <3>1. /\ \E q \in Slots : /\ req[q].at = "idle"
                             /\ \E m : Step(q, m) /\ m.at \in {"adv.session", "end.round"}
          /\ UNCHANGED <<round, courts, winner, scores, wins, status>>
      BY <1>2, <2>2 DEF Sweep, EndAbandoned, Slots, session, record, tally
    <3> QED BY <1>1, <3>1
  <2>3. ~Reopen
    <3>1. "reopen" \in Kinds
      BY DEF Kinds
    <3>2. left["reopen"] \in Nat /\ Budget["reopen"] \in Nat /\ left["reopen"] <= Budget["reopen"]
      BY <3>1 DEF BooksOK
    <3>3. Reopen => left'["reopen"] = left["reopen"] - 1
      BY <3>1 DEF Reopen, Instant, Use, BooksOK
    <3>4. Budget["reopen"] - left'["reopen"] = 0
      BY DEF CountsApart, Reopens
    <3> QED BY <3>2, <3>3, <3>4
  <2> QED BY <1>4, <2>1, <2>2, <2>3 DEF Clock
<1>5. ASSUME NEW q \in Slots, Roster(q) PROVE Counting'
  <2>1. UNCHANGED <<round, courts, winner, scores, wins, status>>
    BY <1>5 DEF Roster, JoinInsert, JoinBench, RosterWrite, OutCheck, BackCheck, session,
       record, tally
  <2>2. CASE JoinInsert(q)
    <3>1. PICK m : m = [req[q] EXCEPT !.ids = Append(@, NextNewcomer)]
      OBVIOUS
    <3>2. PICK n : n = [at |-> "join", ids |-> <<NextNewcomer>>]
      OBVIOUS
    <3>3. \/ Step(q, m) /\ req[q].at = "join"
          \/ Step(q, n) /\ req[q].at = "idle"
      BY <1>2, <2>2, <3>1, <3>2 DEF JoinInsert, At, Call
    <3>4. "at" \in DOMAIN req[q] /\ n.at = "join"
      BY <3>2 DEF BooksOK, RequestOK
    <3>5. m.at = req[q].at
      BY <3>1, <3>4
    <3> QED BY <1>1, <2>1, <3>3, <3>4, <3>5
  <2>3. CASE JoinBench(q) \/ RosterWrite(q)
    <3>1. Step(q, Idle) /\ req[q].at \in {"join", "roster.write"}
      BY <2>3 DEF JoinBench, RosterWrite, At, Done
    <3> QED BY <1>1, <1>2, <2>1, <3>1
  <2>4. ASSUME NEW p, OutCheck(q, p) \/ BackCheck(q, p) PROVE Counting'
    <3>1. req[q].at = "idle" /\ \E m : Step(q, m) /\ m.at = "roster.write"
      BY <1>2, <2>4 DEF OutCheck, BackCheck, Call
    <3> QED BY <1>1, <2>1, <3>1
  <2> QED BY <1>5, <2>2, <2>3, <2>4 DEF Roster
<1>6. CASE UNCHANGED vars
  <2>1. UNCHANGED <<round, courts, winner, scores, wins, req, status>>
    BY <1>6 DEF vars, session, record, tally
  <2> QED BY <1>3, <2>1
<1> QED BY <1>4, <1>5, <1>6

\* A substitution leaves the rounds that are over, and gives the newcomer the
\* seats of one player.
LEMMA SubstituteCounts ==
    ASSUME BooksOK, Sheets, Counting, AllIdle, NEW out \in Players, Substitute(out)
    PROVE  Counting'
<1> DEFINE in == NextNewcomer
           from == EffectiveRound(out)
<1>1. /\ Newcomers # {} /\ Running
      /\ courts' = [r \in Rounds |-> IF r < from THEN courts[r] ELSE SwapAll(courts[r], out, in)]
      /\ UNCHANGED <<status, round, winner, scores, wins, req>>
  BY DEF Substitute, SwapAll, tally
<1>2. in \notin Here
  <2>1. in \in Players /\ roster[in] = "absent"
    BY <1>1, NewcomerIsAway
  <2> QED BY <2>1 DEF Here
<1>3. from \in {round, round + 1} /\ round \in Nat /\ Rounds \subseteq Nat
  BY DEF EffectiveRound, BooksOK, Rounds
<1> HIDE DEF in, from
<1>4. \A r \in Rounds : Closed(r) => courts'[r] = courts[r] /\ winner'[r] = winner[r]
  BY <1>1, <1>3 DEF Closed, Running
<1>5. \A r \in Rounds : Closed(r)' <=> Closed(r)
  BY <1>1 DEF Closed
<1>6. \A p : Won(p)' = Won(p)
  BY <1>4, <1>5, WonStays
<1>7. ASSUME NEW r \in Rounds PROVE NoSeatTwice(courts'[r])
  <2> DEFINE T == Here \cup {in}
             cs == courts[r]
  <2>1. NoSeatTwice(cs)
    BY DEF Counting, SeatsApart
  <2>2. cs \in Layouts(Here)
    BY DEF Sheets, Board
  <2>3. CASE r < from
    BY <1>1, <2>1, <2>3
  <2>4. CASE ~(r < from)
    <3>1. courts'[r] = SwapAll(cs, out, in)
      BY <1>1, <2>4
    <3> HIDE DEF cs
    <3>2. cs \in Layouts(T) /\ in \in T
      <4>1. Here \subseteq T
        OBVIOUS
      <4> HIDE DEF T
      <4> QED BY <2>2, <4>1, MoreSeats DEF T
    <3>3. in \notin Seated(cs)
      BY <1>2, <2>2, Seats
    <3> HIDE DEF T
    <3> QED BY <2>1, <3>1, <3>2, <3>3, SwapsSeats
  <2> QED BY <2>3, <2>4
<1>8. SeatsApart'
  BY <1>7 DEF SeatsApart, NoSeatTwice, SeatRefs, Rounds
<1>9. \A q \in Slots : req[q] = Idle
  BY DEF AllIdle
<1> QED BY <1>1, <1>6, <1>8, <1>9, CountStands

LEMMA CountInit == Init => Counting
<1> SUFFICES ASSUME Init PROVE Counting
  OBVIOUS
<1>1. /\ round = 1 /\ status = "live" /\ wins = [p \in Players |-> 0]
      /\ \A q \in Slots : req[q] = Idle
      /\ \A r \in Rounds : r # 1 => courts[r] = <<>>
  BY DEF Init
<1>2. SeatsApart
  <2>1. NoSeatTwice(courts[1])
    BY <1>1, SeatingInit DEF Seating, BoardFits, LayoutAndBenchOK, NoSeatTwice
  <2>2. NoSeatTwice(<<>>)
    BY DEF NoSeatTwice, SeatRefs
  <2> QED BY <1>1, <2>1, <2>2 DEF SeatsApart
<1>3. ASSUME NEW p \in Players PROVE wins[p] = Cardinality(Won(p))
  <2>1. Won(p) = {}
    BY <1>1 DEF Won, Closed, Rounds
  <2> QED BY <1>1, <2>1, FS_EmptySet
<1> QED BY <1>1, <1>2, <1>3, NothingCounted DEF Counting, Counted

LEMMA CountKept ==
    ASSUME BooksOK, Sheets, Seating', Recorded, Counting, OneByOne, OneByOne',
           CountsApart, CountsApart', [Next]_vars, [BetweenCalls]_vars
    PROVE  Counting'
<1>1. ASSUME NEW q \in Slots, Lifecycle(q) PROVE Counting'
  BY <1>1, AdvanceCounts, PersistCounts, AdvWriteCounts DEF Lifecycle, Seating
<1>2. ASSUME NEW q \in Slots, Recording(q) PROVE Counting'
  BY <1>2, RecordingCounts DEF Recording
<1>3. ASSUME NEW out \in Players, Substitute(out) PROVE Counting'
  <2>1. subs' # subs
    <3>1. out \in DOMAIN subs' /\ out \notin DOMAIN subs
      BY <1>3 DEF Substitute
    <3> QED BY <3>1
  <2>2. AllIdle
    BY <2>1 DEF BetweenCalls, vars, people
  <2> QED BY <1>3, <2>2, SubstituteCounts
<1> QED BY <1>1, <1>2, <1>3, OthersCount DEF Next

\* When calls are made one after the other, and no score of a round that is
\* over is set while a court of the round in play has its winner, everybody's
\* wins are those of the rounds that are over, whichever way each of them was
\* closed, tallied, decided again and recounted (advance_rotation_session,
\* end_rotation_session, retallyRotationWins).
THEOREM WinsMatchBoardHolds ==
    Spec /\ [](OneByOne /\ CountsApart) /\ [][BetweenCalls]_vars => []WinsMatchBoard
<1>1. OneByOne => Orderly
  BY DEF OneByOne, Orderly, At, Idle
<1>2. [BetweenCalls]_vars => [HandsOff]_vars
  BY DEF BetweenCalls, HandsOff, AllIdle, Committed, At, Idle
<1>3. /\ BooksOK /\ Sheets /\ Seating /\ SeatedAsTheRosterSays' /\ Recorded
      /\ OneByOne /\ OneByOne' /\ [Next]_vars /\ [BetweenCalls]_vars
      => Recorded'
  BY RecordKept
<1>4. /\ BooksOK /\ Sheets /\ Seating' /\ Recorded /\ Counting
      /\ OneByOne /\ OneByOne' /\ CountsApart /\ CountsApart'
      /\ [Next]_vars /\ [BetweenCalls]_vars
      => Counting'
  BY CountKept
<1>5. Counting => WinsMatchBoard
  <2> SUFFICES ASSUME Counting, AllIdle, NEW p \in Players
               PROVE  wins[p] = Cardinality(Won(p))
    BY DEF WinsMatchBoard, Won
  <2> QED BY NothingCounted DEF Counting, Counted, AllIdle
<1> QED
  BY <1>1, <1>2, <1>3, <1>4, <1>5, RecordInit, CountInit, SeatingInvariant,
     SeatedAsTheRosterSaysHolds, BooksInvariant, SheetsInvariant, PTL DEF Spec

\* Nothing fails, nobody corrects by hand or reopens, nobody leaves for hours:
\* then the server's own sweeps have nothing to do.
InTime ==
    /\ due.age # "longPast" /\ due.held # "longPast"
    /\ \A q \in Slots : Resuming(q) =>
           req[q].due.age # "longPast" /\ req[q].due.held # "longPast"

Unhurried ==
    /\ \A kind \in {"abandon", "fault", "correct", "reopen"} : left[kind] = 0
    /\ req[Sweeper] = Idle /\ req[Janitor] = Idle
    /\ InTime

LEMMA UntimedInTime ==
    ASSUME InTime, Untimed
    PROVE  InTime'
BY DEF InTime, Untimed, Slots

LEMMA InTimeKept ==
    ASSUME BooksOK, Unhurried, ~AutoAdvance, [Next]_vars
    PROVE  InTime'
<1>0. Slots' = Slots /\ due \in Deadlines /\ DOMAIN req = Slots
  BY DEF Slots, BooksOK
<1>1. ASSUME NEW q \in Slots, AdvWrite(q) \/ EndWrite(q) \/ ResumeWrite(q) PROVE InTime'
  <2>1. \A p \in Slots : Resuming(p)' => Resuming(p) /\ req'[p] = req[p]
    BY <1>1, NotResuming DEF AdvWrite, EndWrite, ResumeWrite, Done, Idle
  <2>2. \/ due' = due \/ due' = Deadline(round + 1) \/ due' = [due EXCEPT !.age = "none"]
        \/ Resuming(q) /\ due' = req[q].due
    BY <1>1 DEF AdvWrite, EndWrite, ResumeWrite, session, Resuming
  <2>3. due'.age # "longPast" /\ due'.held # "longPast"
    <3>1. /\ Deadline(round + 1).age = "running" /\ Deadline(round + 1).held = "running"
          /\ [due EXCEPT !.age = "none"].age = "none"
          /\ [due EXCEPT !.age = "none"].held = due.held
      BY <1>0 DEF Deadline, Deadlines
    <3> QED BY <2>2, <3>1 DEF Unhurried, InTime
  <2> QED BY <1>0, <2>1, <2>3 DEF Unhurried, InTime
<1>2. ASSUME NEW q \in Slots, ResumeRead(q) PROVE InTime'
  <2>1. PICK m : m = [at |-> "resume.write", due |-> [due EXCEPT !.age = due.held]]
    OBVIOUS
  <2>2. UNCHANGED due /\ Step(q, m)
    BY <1>2, <2>1 DEF ResumeRead, session
  <2>3. m.due.age # "longPast" /\ m.due.held # "longPast"
    BY <1>0, <2>1 DEF Unhurried, InTime, Deadlines
  <2>4. \A p \in Slots : req'[p] = IF p = q THEN m ELSE req[p]
    BY <1>0, <2>2 DEF Step
  <2> QED BY <1>0, <2>2, <2>3, <2>4 DEF Unhurried, InTime, Resuming, At
<1>3. ~Use("abandon") /\ ~Use("reopen")
  BY DEF Unhurried, Use
<1>4. CASE Pause \/ TimePasses
  <2>1. req' = req /\ \/ due' = [due EXCEPT !.held = due.age] \/ due' = [due EXCEPT !.age = "past"]
    BY <1>3, <1>4 DEF Pause, TimePasses
  <2>2. due'.age # "longPast" /\ due'.held # "longPast"
    BY <1>0, <2>1 DEF Unhurried, InTime, Deadlines
  <2> QED BY <1>0, <2>1, <2>2 DEF Unhurried, InTime, Resuming, At
<1>5. ~Reopen /\ ~Sweep /\ ~EndAbandoned
  BY <1>3 DEF Reopen, Instant, Sweep, EndAbandoned, Unhurried, InTime
<1>6. ASSUME UNCHANGED <<due, req>> PROVE InTime'
  BY <1>0, <1>6 DEF Unhurried, InTime, Resuming, At
<1>7. ASSUME NEW out, Substitute(out) PROVE InTime'
  BY <1>6, <1>7 DEF Substitute
<1>8. CASE UNCHANGED vars
  BY <1>6, <1>8 DEF vars, session
<1>9. ASSUME NEW q \in Slots, Lifecycle(q) PROVE InTime'
  <2>1. CASE Reads(q)
    BY <2>1, AdvanceUntimed, UntimedInTime DEF Unhurried
  <2>2. CASE \/ PersistScores(q) \/ PersistCourts(q) \/ PersistDone(q)
             \/ EndCall(q) \/ EndRound(q) \/ Drop(q)
    BY <2>2, EndingUntimed, UntimedInTime DEF Unhurried
  <2> QED BY <1>1, <1>2, <1>9, <2>1, <2>2 DEF Lifecycle, Reads
<1>10. ASSUME NEW q \in Slots, Recording(q) \/ Roster(q) PROVE InTime'
  BY <1>10, RecordingUntimed, RosterUntimed, UntimedInTime DEF Unhurried
<1> QED
  BY <1>4, <1>5, <1>7, <1>8, <1>9, <1>10 DEF Next, Clock

LEMMA UnhurriedStays ==
    ASSUME BooksOK, Unhurried, ~AutoAdvance, [Next]_vars
    PROVE  Unhurried'
<1>1. \A kind \in {"abandon", "fault", "correct", "reopen"} : left'[kind] = 0
  <2>1. {"abandon", "fault", "correct", "reopen"} \subseteq Kinds
    BY DEF Kinds
  <2> QED BY <2>1, NothingLeft DEF Unhurried
<1>2. req'[Sweeper] = req[Sweeper] /\ req'[Janitor] = req[Janitor]
  <2>1. ASSUME NEW q \in Slots, Lifecycle(q) \/ Recording(q) \/ Roster(q)
        PROVE  req'[Sweeper] = req[Sweeper] /\ req'[Janitor] = req[Janitor]
    <3>1. q # Sweeper /\ q # Janitor
      BY <2>1, NothingUnderWay DEF Unhurried
    <3>2. \E n : Step(q, n)
      BY <2>1, StepsOfItsOwn
    <3> QED BY <3>1, <3>2 DEF Step
  <2>2. ~Sweep /\ ~EndAbandoned
    BY DEF Sweep, EndAbandoned, Unhurried, InTime
  <2>3. Pause \/ Reopen \/ TimePasses \/ UNCHANGED vars => req' = req
    BY DEF Pause, Reopen, TimePasses, vars
  <2>4. \A out : Substitute(out) => req' = req
    BY DEF Substitute
  <2> QED BY <2>1, <2>2, <2>3, <2>4 DEF Next, Clock
<1> QED BY <1>1, <1>2, InTimeKept DEF Unhurried

\* One device runs the night, the server does not advance it by itself, and
\* nothing fails, is corrected by hand, reopened or left for hours: then the
\* cards decide, whatever is tapped, scored and scored again, whoever is
\* substituted, and whoever ends it (SetRotationScores, AdvanceRotationSession,
\* EndRotationSession, rotation_substitute).
THEOREM OneDeviceScorecardDecides ==
    ASSUME \A p, q \in Requests : p = q, ~AutoAdvance,
           \A kind \in {"abandon", "fault", "correct", "reopen"} : Budget[kind] = 0
    PROVE  Spec => []ScorecardDecides
<1>1. Init => Unhurried
  BY DEF Init, Unhurried, InTime, Resuming, At, Idle, Deadline, Slots, Kinds
<1>2. BooksOK /\ Unhurried /\ [Next]_vars => Unhurried'
  BY UnhurriedStays
<1>3. Unhurried => OneByOne
  BY DEF Unhurried, OneByOne, Slots, Reopens
<1>4. BooksOK /\ Unhurried /\ [Next]_vars => [BetweenCalls]_vars
  <2> SUFFICES ASSUME Unhurried, [Next]_vars, subs' # subs PROVE AllIdle
    BY DEF BetweenCalls
  <2>1. \E s \in Requests : req[s] = Idle
    BY OnlySubstitutes DEF Substitute, Instant
  <2> QED BY <2>1 DEF AllIdle, Slots, Unhurried
<1> QED
  BY <1>1, <1>2, <1>3, <1>4, ScorecardDecidesHolds, BooksInvariant, PTL DEF Spec
=============================================================================
