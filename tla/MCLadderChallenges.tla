-------------------------- MODULE MCLadderChallenges ---------------------------
(* TLC instances of LadderChallenges: several weeks in one run, each with    *)
(* its own calls and number of requests at a time.                           *)
EXTENDS LadderChallenges, TLC

CONSTANTS e1, e2, e3, e4, q1, q2

VARIABLE week

None  == [k \in Kinds |-> 0]
Four  == {e1, e2, e3, e4}
Rungs == <<e1, e2, e3, e4>>
Two   == {q1, q2}
One   == {q1}

\* Two sweeps, an answer and a report race over a challenge; one player
\* issues to everybody; the organizer reorders the ladder under a challenge;
\* people come and go.  still: no deadline comes nearer.
Deadlines == [issue |-> 1, answer |-> 1, report |-> 1, void |-> 1, fault |-> 1] @@ None
Caps      == [issue |-> 3, answer |-> 2, fault |-> 1] @@ None
Reordered == [issue |-> 2, answer |-> 1, report |-> 1, reorder |-> 1] @@ None
Comings   == [issue |-> 2, add |-> 1, reorder |-> 2] @@ None
Weeks == {
    [calls |-> Deadlines, requests |-> Two, pairs |-> {<<e3, e2>>}, still |-> FALSE],
    [calls |-> Caps,      requests |-> Two, pairs |-> {<<e4, e1>>, <<e4, e2>>, <<e4, e3>>}, still |-> TRUE],
    [calls |-> Reordered, requests |-> Two, pairs |-> {<<e4, e2>>}, still |-> TRUE],
    [calls |-> Comings,   requests |-> One, pairs |-> {<<e3, e2>>, <<e2, e1>>}, still |-> TRUE]}

MostOf(weeks) ==
    [k \in Kinds |-> CHOOSE n \in {w.calls[k] : w \in weeks} :
                         \A w \in weeks : w.calls[k] <= n]
Most == MostOf(Weeks)

Week(w) == [least |-> [k \in Kinds |-> Budget[k] - w.calls[k]],
            away |-> Requests \ w.requests, pairs |-> w.pairs, still |-> w.still]
Kept ==
    /\ \A k \in Kinds : left[k] >= week.least[k]
    /\ \A q \in week.away : req[q] = Idle
    /\ \A q \in Requests : At(q, "issue") => <<req[q].who, req[q].other>> \in week.pairs
    /\ week.still => \A i \in Ids : challenge[i].respond = "far"
                                      /\ challenge[i].play \in {"none", "far"}

ThisWeek == Init /\ week \in {Week(w) : w \in Weeks}
Goes     == UNCHANGED week /\ Next /\ Kept'
Passing  == /\ \A q \in Requests : /\ WF_<<vars, week>>(Continue(q) /\ UNCHANGED week)
                                   /\ WF_<<vars, week>>(SweepLadderChallenges(q) /\ UNCHANGED week)
            /\ \A i \in Ids : WF_<<vars, week>>(Clock(i) /\ UNCHANGED week)
WeekSpec == ThisWeek /\ [][Goes]_<<vars, week>> /\ Passing

\* Nobody is held in a challenge for ever: one way or another it comes to an
\* end (SweepLadderChallenges; VoidChallenge's "froze BOTH of them").
ChallengesEnd == \A i \in Ids : IsActive(i) /\ ~week.still ~> ~IsActive(i)
=============================================================================
