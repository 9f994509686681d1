------------------------------ MODULE ScoreReports -----------------------------
(***************************************************************************)
(* Players report the scores of a bracket themselves: the winning side     *)
(* reports, the other side confirms or disputes, silence confirms, and the *)
(* organizer scores as before (score_reports.go).  A confirmed report is   *)
(* recorded by the same request as any other result, so this module        *)
(* composes the reports with BracketPlay.                                  *)
(*                                                                         *)
(* An event has a further bound, reports: games that are reported.         *)
(***************************************************************************)
EXTENDS BracketPlay

VARIABLES
    report,    \* score_reports: game -> its only row
    errand,    \* device -> what it does about a report
    closing    \* device -> games whose open report it is about to supersede

reportVars == <<report, errand, closing>>
allVars == <<vars, reportVars>>

\* story, a history: what became of the last confirmation: "open" while the
\* game has no result, "counted", or "lost" when taking it back failed.
Untold == [status |-> "none", won |-> 0, story |-> "open"]
AtHand == [op |-> "none", game |-> GrandFinal, won |-> 0]

InitReports ==
    /\ Init
    /\ report = [g \in Games |-> Untold]
    /\ errand = [d \in Devices |-> AtHand]
    /\ closing = [d \in Devices |-> {}]

AtLeisure(d) == d \in event.devices /\ Idle(d) /\ errand[d] = AtHand
Told == {g \in Games : report[g].status # "none"}

-----------------------------------------------------------------------------
(* ReportScore: the game is read, then the row is inserted.                 *)

ReportRead(d, g, w) ==
    /\ AtLeisure(d)
    /\ status[g] \notin {"absent", "completed"} /\ Ready(g)
    /\ Cardinality(Told) < event.reports
    /\ errand' = [errand EXCEPT ![d] = [op |-> "insert", game |-> g, won |-> w]]
    /\ UNCHANGED <<vars, report, closing>>

\* One report a game, whatever became of it.
ReportInsert(d) ==
    /\ errand[d].op = "insert"
    /\ report' = [report EXCEPT ![errand[d].game] =
                     IF @ = Untold THEN [status |-> "pending", won |-> errand[d].won, story |-> "open"]
                                   ELSE @]
    /\ errand' = [errand EXCEPT ![d] = AtHand]
    /\ UNCHANGED <<vars, closing>>

\* DisputeScore, on the condition that the report is still pending.
\* Slip: disputed whatever has become of it since it was read.
DisputeAny(g) ==
    /\ report[g].status # "none"
    /\ report' = [report EXCEPT ![g].status = "disputed"]
    /\ UNCHANGED <<vars, errand, closing>>
DisputeScore(g) ==
    /\ report[g].status = "pending"
    /\ report' = [report EXCEPT ![g].status = "disputed"]
    /\ UNCHANGED <<vars, errand, closing>>

-----------------------------------------------------------------------------
(* ConfirmScore and AutoConfirmDueScoreReports: finalizeScoreReport claims   *)
(* the report and calls RecordScore.                                         *)

Claim(d, g) ==
    /\ AtLeisure(d)
    /\ report[g].status = "pending"
    /\ IF status[g] = "completed" THEN Spend("rescores") ELSE UNCHANGED left
    /\ report' = [report EXCEPT ![g] = [status |-> "confirmed", won |-> @.won,
                     story |-> IF status[g] = "completed" THEN "counted" ELSE "open"]]
    /\ errand' = [errand EXCEPT ![d] = [op |-> "record", game |-> g, won |-> report[g].won]]
    /\ todo' = [todo EXCEPT ![d] = <<[op |-> "check", game |-> g, won |-> report[g].won]>>]
    /\ UNCHANGED <<event, side, status, winner, over, lock, playedBy, routed, closing>>

\* Slip: a failure leaves the claim.
AfterFailureKept(d) ==
    /\ errand[d].op = "failed"
    /\ errand' = [errand EXCEPT ![d] = AtHand]
    /\ UNCHANGED <<vars, report, closing>>

\* RecordScore failed: a game that has a result keeps its report as it is.
AfterFailure(d) ==
    /\ errand[d].op = "failed"
    /\ \/ UNCHANGED left
          /\ errand' = [errand EXCEPT ![d] = IF status[@.game] = "completed" THEN AtHand
                                             ELSE [@ EXCEPT !.op = "reopen"]]
       \/ Spend("faults") /\ errand' = [errand EXCEPT ![d].op = "reopen"]
    /\ UNCHANGED <<event, side, status, winner, over, lock, todo, playedBy, routed>>
    /\ UNCHANGED <<report, closing>>

Reopen(d) ==
    /\ errand[d].op = "reopen"
    /\ \/ UNCHANGED left /\ report' = [report EXCEPT ![errand[d].game].status = "pending"]
       \/ Spend("faults") /\ report' = [report EXCEPT ![errand[d].game].story = "lost"]
    /\ errand' = [errand EXCEPT ![d] = AtHand]
    /\ UNCHANGED <<event, side, status, winner, over, lock, todo, playedBy, routed, closing>>

-----------------------------------------------------------------------------
(* The scoring requests of BracketPlay, and what they do to the reports.     *)

\* After its write a result supersedes the open report; a forfeit does not.
Wrote(d) == At(d, "write") /\ todo'[d] # <<>>

\* A report goes with its game.
Kept(e) == status'[errand[e].game] # "absent"

Statements(d) ==
    /\ closing[d] = {} /\ errand[d].op \in {"none", "record"}
    /\ Step(d)
    /\ closing' \in {[closing EXCEPT ![d] = IF Wrote(d) THEN {Now(d).game} ELSE {}]}
                      \cup (IF errand[d] = AtHand THEN {closing} ELSE {})
    /\ report' = [g \in Games |->
                     IF status'[g] = "absent" THEN Untold
                     ELSE IF Wrote(d) /\ g = Now(d).game /\ report[g].status = "confirmed"
                     THEN [report[g] EXCEPT !.story = "counted"] ELSE report[g]]
    /\ errand' = [e \in Devices |->
                     IF errand[e] # AtHand /\ ~Kept(e) THEN AtHand
                     ELSE IF errand[e].op = "record" /\ todo'[e] = <<>>
                     THEN IF At(e, "sync") THEN AtHand ELSE [errand[e] EXCEPT !.op = "failed"]
                     ELSE errand[e]]

\* supersedeScoreReport; its errors are ignored.
Supersede(d) ==
    /\ \E g \in closing[d] :
          \/ /\ UNCHANGED left
             /\ report' = [report EXCEPT ![g].status =
                              IF @ \in {"pending", "disputed"} THEN "superseded" ELSE @]
          \/ Spend("faults") /\ UNCHANGED report
    /\ closing' = [closing EXCEPT ![d] = {}]
    /\ UNCHANGED <<event, side, status, winner, over, lock, todo, playedBy, routed, errand>>

Requested ==
    /\ \/ \E d \in Devices, g \in Games :
             errand[d] = AtHand /\ (Start(d, g) \/ \E w \in 1..2 : Score(d, g, w))
       \/ \E g \in Games : UnstartMatch(g) \/ CancelMatch(g) \/ RestoreMatch(g)
    /\ UNCHANGED reportVars

NextReports ==
    \/ Requested
    \/ \E d \in Devices : \/ Statements(d) \/ Supersede(d)
                          \/ ReportInsert(d) \/ AfterFailure(d) \/ Reopen(d)
    \/ \E d \in Devices, g \in Games : Claim(d, g) \/ \E w \in 1..2 : ReportRead(d, g, w)
    \/ \E g \in Games : DisputeScore(g)

ReportsSpec == InitReports /\ [][NextReports]_allVars

-----------------------------------------------------------------------------
(* Properties.                                                               *)

Recording(g) == {d \in Devices : errand[d].op \in {"record", "failed", "reopen"}
                                    /\ errand[d].game = g}

\* The confirmation, the timer, the dispute and the organizer's own score race
\* for a report, and one of them gets it: a report that is being recorded is
\* being recorded once, and is neither disputed nor superseded meanwhile
\* (finalizeScoreReport's claim, DisputeScore's condition).
OneOutcome ==
    \A g \in Games : Recording(g) # {} =>
        Cardinality(Recording(g)) = 1 /\ report[g].status = "confirmed"

\* A confirmed score is not lost: unless it is still being recorded, the game
\* has had a result since, or the report is open again.  Only a failure to
\* open it again, which finalizeScoreReport ignores, may lose it.
ConfirmedScoreCounts ==
    \A g \in Games : report[g].status = "confirmed" /\ Recording(g) = {}
                        => report[g].story # "open"
=============================================================================
