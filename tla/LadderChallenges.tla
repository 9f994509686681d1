--------------------------- MODULE LadderChallenges ----------------------------
(* A ladder and the challenges on it: issued upwards, accepted, declined,    *)
(* withdrawn, played and reported, voided when the ladder is reordered, and  *)
(* ended by the background sweep (ladder_challenges.go, ladder.go).          *)
(* Handlers run concurrently; each statement on the database is a step.      *)
EXTENDS Integers, Sequences, FiniteSets

CONSTANTS
    Entrants,      \* players with an account who may be on the ladder
    Nobody,        \* no entrant
    Requests,      \* handlers that may be in flight at once
    MaxChallenges, \* rows of ladder_challenges
    Order,         \* the ladder to begin with, best first
    MaxRungs,      \* ladder_challenge_range, 0 for no limit
    Reorder,       \* ladder_reorder_model
    MaxOutgoing,   \* maxActiveOutgoing
    MaxIncoming,   \* maxActiveIncoming
    Budget         \* how often each kind of call, or fault, happens

Kinds == {"issue", "answer", "void", "report", "reorder", "add", "fault"}

ASSUME LadderAssumption ==
    /\ Nobody \notin Entrants
    /\ IsFiniteSet(Requests) /\ Requests # {}
    /\ Order \in Seq(Entrants) /\ \A i, j \in DOMAIN Order : Order[i] = Order[j] => i = j
    /\ MaxRungs \in Nat /\ Reorder \in {"leapfrog", "swap"}
    /\ MaxOutgoing \in Nat \ {0} /\ MaxIncoming \in Nat \ {0}
    /\ Budget \in [Kinds -> Nat]
    /\ MaxChallenges \in Nat /\ Budget["issue"] <= MaxChallenges

VARIABLES
    position,   \* ladder_entrants: the rung of each entrant, 0 when not on it
    challenge,  \* ladder_challenges
    accepted,   \* challenges that were accepted at some time
    claimed,    \* challenges whose result the challenger reported
    reminders,  \* reminders sent about each challenge
    req,        \* requests in flight
    left        \* the budget not used up

vars == <<position, challenge, accepted, claimed, reminders, req, left>>

Ids == 1..MaxChallenges
Statuses == {"none", "pending", "accepted", "cancelled", "declined", "forfeited",
             "completed", "voided", "deleted"}
Active == {"pending", "accepted"}

\* respond_by and play_by are far off, less than a day off, or past; recent:
\* resolved less than a day ago; reminded_respond and reminded_play.
Challenge ==
    [from : Entrants \cup {Nobody}, to : Entrants \cup {Nobody}, status : Statuses,
     respond : {"far", "soon", "past"}, play : {"none", "far", "soon", "past"},
     recent : BOOLEAN, reminded : SUBSET {"respond", "play"}]
NoChallenge ==
    [from |-> Nobody, to |-> Nobody, status |-> "none", respond |-> "far",
     play |-> "none", recent |-> FALSE, reminded |-> {}]

\* What a request is about: one or two entrants, or a challenge and how it
\* ended; todo: challenges it read and has yet to deal with.
Idle == [op |-> "none", pc |-> "idle", who |-> Nobody, other |-> Nobody, id |-> 0,
         party |-> "none", side |-> "none", rung |-> 0, phase |-> 0, todo |-> {}]

Init ==
    /\ position = [e \in Entrants |->
                      IF \E i \in DOMAIN Order : Order[i] = e
                      THEN CHOOSE i \in DOMAIN Order : Order[i] = e ELSE 0]
    /\ challenge = [c \in Ids |-> NoChallenge]
    /\ accepted = {} /\ claimed = {}
    /\ reminders = [c \in Ids |-> [respond |-> 0, play |-> 0]]
    /\ req = [q \in Requests |-> Idle]
    /\ left = Budget

-----------------------------------------------------------------------------
(* Vocabulary.                                                              *)

OnLadder == {e \in Entrants : position[e] > 0}
IsActive(c) == challenge[c].status \in Active
Outgoing(e) == {c \in Ids : IsActive(c) /\ challenge[c].from = e}
OutgoingPending(e) == {c \in Ids : challenge[c].status = "pending" /\ challenge[c].from = e}
Incoming(e) == {c \in Ids : IsActive(c) /\ challenge[c].to = e}
Between(e, f) == {c \in Ids : challenge[c].from = e /\ challenge[c].to = f}

\* Upwards and not too far.
InRange(e, f) ==
    /\ position[f] > 0 /\ position[f] < position[e]
    /\ MaxRungs = 0 \/ position[e] - position[f] <= MaxRungs

Uses(k)  == left[k] > 0 /\ left' = [left EXCEPT ![k] = @ - 1]
At(q, l) == req[q].pc = l
Go(q, m) == req' = [req EXCEPT ![q] = m]
Done(q)  == Go(q, Idle)
Start(q, m) == req[q] = Idle /\ Go(q, m)

\* resolved_at is set to now; play_by stays.
Resolved(c, status) ==
    challenge' = [challenge EXCEPT ![c].status = status, ![c].recent = TRUE]

-----------------------------------------------------------------------------
(* The ladder's stored procedures.                                           *)

\* The winner takes the loser's rung and everyone between moves down one.
Leap(e, f) ==
    position' = [g \in Entrants |->
                    IF g = e THEN position[f]
                    ELSE IF position[f] <= position[g] /\ position[g] < position[e]
                    THEN position[g] + 1 ELSE position[g]]
Swap(e, f) == position' = [position EXCEPT ![e] = position[f], ![f] = position[e]]

\* resolve_ladder_challenge: claims the row if its status is still one of
\* those expected, and moves the challenger up in the same transaction; a win
\* that is out of range by now is voided instead.
Resolve(c, expected, status, side) ==
    LET e == challenge[c].from
        f == challenge[c].to
    IN  IF challenge[c].status \notin expected THEN UNCHANGED <<challenge, position>>
        ELSE IF side # "challenger" THEN Resolved(c, status) /\ UNCHANGED position
        ELSE IF InRange(e, f) THEN Resolved(c, status) /\ Leap(e, f)
        ELSE Resolved(c, "voided") /\ UNCHANGED position

-----------------------------------------------------------------------------
(* Challenges (IssueChallenge, AcceptChallenge, CancelChallenge,             *)
(* VoidChallenge, DeclineChallenge, ReportChallenge).                        *)

\* Only an expiry after acceptance trips the cooldown.
CoolingDown(e, f) ==
    \E c \in Between(e, f) : /\ challenge[c].status = "voided"
                             /\ challenge[c].play # "none" /\ challenge[c].recent

MayIssuePending(e, f) ==
    /\ ~\E c \in Between(e, f) : IsActive(c)
    /\ ~CoolingDown(e, f)
    /\ Cardinality(OutgoingPending(e)) < MaxOutgoing
    /\ Cardinality(Incoming(f)) < MaxIncoming
MayIssue(e, f) ==
    /\ ~\E c \in Between(e, f) : IsActive(c)
    /\ ~CoolingDown(e, f)
    /\ Cardinality(Outgoing(e)) < MaxOutgoing
    /\ Cardinality(Incoming(f)) < MaxIncoming
\* A check that cannot be read passes.
IssueRead(q, e, f) ==
    /\ e \in OnLadder /\ InRange(e, f)
    /\ left["issue"] > 0
    /\ \/ MayIssue(e, f) /\ left' = [left EXCEPT !["issue"] = @ - 1]
       \/ left["fault"] > 0 /\ left' = [left EXCEPT !["issue"] = @ - 1, !["fault"] = @ - 1]
    /\ Start(q, [Idle EXCEPT !.op = "issue", !.pc = "issue", !.who = e, !.other = f])
    /\ UNCHANGED <<position, challenge, accepted, claimed, reminders>>

\* The insert is refused while the pair has an active challenge (a partial
\* unique index), or when one of the two has left.
IssueInsert(q) ==
    /\ At(q, "issue")
    /\ LET e == req[q].who
           f == req[q].other
       IN  IF {e, f} \subseteq OnLadder /\ ~\E c \in Between(e, f) : IsActive(c)
           THEN \E c \in Ids :
                   /\ challenge[c].status = "none" /\ \A d \in 1..c - 1 : challenge[d].status # "none"
                   /\ challenge' = [challenge EXCEPT ![c] = [NoChallenge EXCEPT
                          !.from = e, !.to = f, !.status = "pending"]]
           ELSE UNCHANGED challenge
    /\ Done(q)
    /\ UNCHANGED <<position, accepted, claimed, reminders, left>>

AcceptChallenge(c) ==
    /\ challenge[c].status = "pending" /\ Uses("answer")
    /\ challenge' = [challenge EXCEPT ![c].status = "accepted", ![c].play = "far"]
    /\ accepted' = accepted \cup {c}
    /\ UNCHANGED <<position, claimed, reminders, req>>

CancelChallenge(c) ==
    /\ challenge[c].status = "pending" /\ Uses("answer")
    /\ Resolved(c, "cancelled")
    /\ UNCHANGED <<position, accepted, claimed, reminders, req>>

VoidChallenge(c) ==
    /\ IsActive(c) /\ Uses("void")
    /\ challenge' = [challenge EXCEPT ![c].status = "voided", ![c].recent = TRUE,
                                      ![c].play = "none"]
    /\ UNCHANGED <<position, accepted, claimed, reminders, req>>

DeclineChallenge(c) ==
    /\ challenge[c].status = "pending" /\ Uses("answer")
    /\ Resolve(c, {"pending"}, "declined", "challenger")
    /\ UNCHANGED <<accepted, claimed, reminders, req>>

\* A challenger may only report on what was accepted when it was read.
ReportReadPending(q, c, party, side) ==
    /\ challenge[c].status # "none" /\ Uses("report")
    /\ party = "challenger" => challenge[c].status # "pending"
    /\ Start(q, [Idle EXCEPT !.op = "report", !.pc = "report", !.id = c,
                             !.party = party, !.side = side])
    /\ UNCHANGED <<position, challenge, accepted, claimed, reminders>>
ReportRead(q, c, party, side) ==
    /\ challenge[c].status # "none" /\ Uses("report")
    /\ party = "challenger" => challenge[c].status \notin {"pending", "voided"}
    /\ Start(q, [Idle EXCEPT !.op = "report", !.pc = "report", !.id = c,
                             !.party = party, !.side = side])
    /\ UNCHANGED <<position, challenge, accepted, claimed, reminders>>

Reportable == {"pending", "accepted", "voided"}

ReportResolve(q) ==
    /\ At(q, "report")
    /\ LET c == req[q].id
       IN  \/ /\ UNCHANGED left
              /\ Resolve(c, Reportable, "completed", req[q].side)
              /\ claimed' = IF /\ req[q].party = "challenger"
                               /\ challenge[c].status \in Reportable
                               /\ challenge'[c].status = "completed"
                            THEN claimed \cup {c} ELSE claimed
           \/ Uses("fault") /\ UNCHANGED <<position, challenge, claimed>>
    /\ Done(q)
    /\ UNCHANGED <<accepted, reminders>>

-----------------------------------------------------------------------------
(* The organizer reorders the ladder, and the open challenges of whoever was *)
(* moved are voided one by one (voidActiveChallengesForEntrant).             *)

Voiding(op, e, f) == [Idle EXCEPT !.op = op, !.pc = "void.read", !.who = e, !.other = f]

RecordLadderResult(q, e, f, side) ==
    /\ {e, f} \subseteq OnLadder /\ e # f /\ Uses("reorder")
    /\ IF side = "won" /\ position[f] < position[e]
       THEN IF Reorder = "swap" THEN Swap(e, f) ELSE Leap(e, f)
       ELSE UNCHANGED position
    /\ Start(q, Voiding("record", e, f))
    /\ UNCHANGED <<challenge, accepted, claimed, reminders>>

\* The new rung is clamped to the ladder.
MoveLadderEntrant(q, e, n) ==
    /\ e \in OnLadder /\ n \in 1..Cardinality(OnLadder) /\ Uses("reorder")
    /\ position' = [g \in Entrants |->
                       IF g = e THEN n
                       ELSE IF n <= position[g] /\ position[g] < position[e] THEN position[g] + 1
                       ELSE IF position[e] < position[g] /\ position[g] <= n THEN position[g] - 1
                       ELSE position[g]]
    /\ Start(q, Voiding("move", e, Nobody))
    /\ UNCHANGED <<challenge, accepted, claimed, reminders>>

RemoveLadderEntrant(q, e) ==
    /\ e \in OnLadder /\ Uses("reorder")
    /\ Start(q, Voiding("remove", e, Nobody))
    /\ UNCHANGED <<position, challenge, accepted, claimed, reminders>>

\* After one entrant's challenges: the other's, or the removal itself.
Then(m) ==
    IF m.other # Nobody THEN [m EXCEPT !.pc = "void.read", !.who = m.other, !.other = Nobody]
    ELSE IF m.op = "remove" THEN [m EXCEPT !.pc = "remove"]
    ELSE Idle

VoidRead(q) ==
    /\ At(q, "void.read")
    /\ \/ /\ UNCHANGED left
          /\ LET open == Outgoing(req[q].who) \cup Incoming(req[q].who)
             IN  Go(q, IF open = {} THEN Then(req[q])
                       ELSE [req[q] EXCEPT !.pc = "void.each", !.todo = open])
       \/ Uses("fault") /\ Go(q, Then(req[q]))
    /\ UNCHANGED <<position, challenge, accepted, claimed, reminders>>

VoidEachBlindly(q) ==
    /\ At(q, "void.each")
    /\ \E c \in req[q].todo :
          /\ Resolved(c, "voided")
          /\ LET m == [req[q] EXCEPT !.todo = @ \ {c}]
             IN  Go(q, IF m.todo = {} THEN Then(m) ELSE m)
    /\ UNCHANGED <<position, accepted, claimed, reminders, left>>
VoidEach(q) ==
    /\ At(q, "void.each")
    /\ \E c \in req[q].todo :
          /\ \/ UNCHANGED left /\ IF IsActive(c) THEN Resolved(c, "voided")
                                  ELSE UNCHANGED challenge
             \/ Uses("fault") /\ UNCHANGED challenge
          /\ LET m == [req[q] EXCEPT !.todo = @ \ {c}]
             IN  Go(q, IF m.todo = {} THEN Then(m) ELSE m)
    /\ UNCHANGED <<position, accepted, claimed, reminders>>

\* remove_ladder_entrant: the row goes, its challenges with it, and everyone
\* below moves up.
RemoveDelete(q) ==
    /\ At(q, "remove")
    /\ LET e == req[q].who
       IN  IF position[e] = 0 THEN UNCHANGED <<position, challenge>>
           ELSE /\ position' = [g \in Entrants |->
                                   IF g = e THEN 0
                                   ELSE IF position[g] > position[e] THEN position[g] - 1
                                   ELSE position[g]]
                /\ challenge' = [c \in Ids |->
                                   IF e \in {challenge[c].from, challenge[c].to}
                                   THEN [challenge[c] EXCEPT !.status = "deleted"]
                                   ELSE challenge[c]]
    /\ Done(q)
    /\ UNCHANGED <<accepted, claimed, reminders, left>>

\* AddLadderEntrant: below the lowest rung that was read; a rung that is taken
\* by then, or a player who is on the ladder by then, is refused.
AddRead(q, e) ==
    /\ e \notin OnLadder /\ Uses("add")
    /\ \E f \in Entrants : /\ \A g \in Entrants : position[g] <= position[f]
                           /\ Start(q, [Idle EXCEPT !.op = "add", !.pc = "add", !.who = e,
                                                    !.rung = position[f] + 1])
    /\ UNCHANGED <<position, challenge, accepted, claimed, reminders>>

AddInsert(q) ==
    /\ At(q, "add")
    /\ IF position[req[q].who] = 0 /\ \A g \in Entrants : position[g] # req[q].rung
       THEN position' = [position EXCEPT ![req[q].who] = req[q].rung]
       ELSE UNCHANGED position
    /\ Done(q)
    /\ UNCHANGED <<challenge, accepted, claimed, reminders, left>>

-----------------------------------------------------------------------------
(* The sweep (SweepLadderChallenges): four passes, each of which selects its *)
(* challenges and deals with them one by one.                                *)

SelectedByRespond(phase) ==
    CASE phase = 1 -> {c \in Ids : challenge[c].status = "pending" /\ challenge[c].respond = "past"}
      [] phase = 2 -> {c \in Ids : challenge[c].status = "accepted" /\ challenge[c].respond = "past"}
      [] phase = 3 -> {c \in Ids : /\ challenge[c].status = "pending" /\ challenge[c].respond = "soon"
                                   /\ "respond" \notin challenge[c].reminded}
      [] phase = 4 -> {c \in Ids : /\ challenge[c].status = "accepted" /\ challenge[c].play = "soon"
                                   /\ "play" \notin challenge[c].reminded}
Selected(phase) ==
    CASE phase = 1 -> {c \in Ids : challenge[c].status = "pending" /\ challenge[c].respond = "past"}
      [] phase = 2 -> {c \in Ids : challenge[c].status = "accepted" /\ challenge[c].play = "past"}
      [] phase = 3 -> {c \in Ids : /\ challenge[c].status = "pending" /\ challenge[c].respond = "soon"
                                   /\ "respond" \notin challenge[c].reminded}
      [] phase = 4 -> {c \in Ids : /\ challenge[c].status = "accepted" /\ challenge[c].play = "soon"
                                   /\ "play" \notin challenge[c].reminded}

\* The next pass, or the end of the tick.
NextPhase(m) == IF m.phase = 4 THEN Idle
                ELSE [m EXCEPT !.pc = "sweep.read", !.phase = @ + 1, !.todo = {}]

SweepLadderChallenges(q) ==
    /\ \E phase \in 1..4 : Selected(phase) # {}
    /\ Start(q, [Idle EXCEPT !.op = "sweep", !.pc = "sweep.read", !.phase = 1])
    /\ UNCHANGED <<position, challenge, accepted, claimed, reminders, left>>

SweepRead(q) ==
    /\ At(q, "sweep.read")
    /\ LET some == Selected(req[q].phase)
       IN  \/ /\ UNCHANGED left
              /\ Go(q, IF some = {} THEN NextPhase(req[q])
                       ELSE [req[q] EXCEPT !.pc = "sweep.each", !.todo = some])
           \/ Uses("fault") /\ Go(q, NextPhase(req[q]))
    /\ UNCHANGED <<position, challenge, accepted, claimed, reminders>>

\* No answer in time: the challenger moves up.
Forfeit(c) == /\ Resolve(c, {"pending"}, "forfeited", "challenger")
              /\ UNCHANGED reminders

\* Not played in time: nobody moves.
Expire(c) == /\ IF challenge[c].status = "accepted" THEN Resolved(c, "voided")
                ELSE UNCHANGED challenge
             /\ UNCHANGED <<position, reminders>>

\* The row is claimed before the reminder is sent.
Remind(c, status, kind) ==
    /\ IF challenge[c].status = status /\ kind \notin challenge[c].reminded
       THEN /\ challenge' = [challenge EXCEPT ![c].reminded = @ \cup {kind}]
            /\ reminders' = [reminders EXCEPT ![c][kind] = @ + 1]
       ELSE UNCHANGED <<challenge, reminders>>
    /\ UNCHANGED position

SweepEach(q) ==
    /\ At(q, "sweep.each")
    /\ \E c \in req[q].todo :
          /\ \/ /\ UNCHANGED left
                /\ CASE req[q].phase = 1 -> Forfeit(c)
                     [] req[q].phase = 2 -> Expire(c)
                     [] req[q].phase = 3 -> Remind(c, "pending", "respond")
                     [] req[q].phase = 4 -> Remind(c, "accepted", "play")
             \/ Uses("fault") /\ UNCHANGED <<position, challenge, reminders>>
          /\ LET m == [req[q] EXCEPT !.todo = @ \ {c}]
             IN  Go(q, IF m.todo = {} THEN NextPhase(m) ELSE m)
    /\ UNCHANGED <<accepted, claimed>>

-----------------------------------------------------------------------------
(* Time.                                                                    *)

Later(d) == IF d = "far" THEN "soon" ELSE "past"

RespondByNears(c) ==
    /\ challenge[c].status = "pending" /\ challenge[c].respond # "past"
    /\ challenge' = [challenge EXCEPT ![c].respond = Later(@)]
    /\ UNCHANGED <<position, accepted, claimed, reminders, req, left>>

PlayByNears(c) ==
    /\ challenge[c].status = "accepted" /\ challenge[c].play \in {"far", "soon"}
    /\ challenge' = [challenge EXCEPT ![c].play = Later(@)]
    /\ UNCHANGED <<position, accepted, claimed, reminders, req, left>>

CooldownEnds(c) ==
    /\ challenge[c].status = "voided" /\ challenge[c].recent
    /\ challenge' = [challenge EXCEPT ![c].recent = FALSE]
    /\ UNCHANGED <<position, accepted, claimed, reminders, req, left>>

-----------------------------------------------------------------------------

\* A request that has begun goes on.
Continue(q) ==
    \/ IssueInsert(q) \/ ReportResolve(q)
    \/ VoidRead(q) \/ VoidEach(q) \/ RemoveDelete(q) \/ AddInsert(q)
    \/ SweepRead(q) \/ SweepEach(q)

Calls(q) ==
    \/ \E e, f \in Entrants : \/ IssueRead(q, e, f)
                              \/ \E side \in {"won", "tie"} : RecordLadderResult(q, e, f, side)
    \/ \E e \in Entrants : \/ RemoveLadderEntrant(q, e) \/ AddRead(q, e)
                           \/ \E n \in 1..Cardinality(Entrants) : MoveLadderEntrant(q, e, n)
    \/ \E c \in Ids, party \in {"challenger", "other"}, side \in {"challenger", "challenged", "tie"} :
           ReportRead(q, c, party, side)
    \/ SweepLadderChallenges(q)

Answers(c) == AcceptChallenge(c) \/ CancelChallenge(c) \/ VoidChallenge(c) \/ DeclineChallenge(c)
Clock(c)   == RespondByNears(c) \/ PlayByNears(c) \/ CooldownEnds(c)

Next ==
    \/ \E q \in Requests : Continue(q) \/ Calls(q)
    \/ \E c \in Ids : Answers(c) \/ Clock(c)

Spec == Init /\ [][Next]_vars

\* Handlers that have begun go on, the sweep comes round (the ticker in
\* cmd/api/main.go), and time passes.
Turning == /\ \A q \in Requests : WF_vars(Continue(q)) /\ WF_vars(SweepLadderChallenges(q))
           /\ \A c \in Ids : WF_vars(Clock(c))
FairSpec == Spec /\ Turning

-----------------------------------------------------------------------------
(* Properties.                                                              *)

\* A challenger's own report counts only on a challenge that was accepted at
\* some time, however it was voided meanwhile (ReportChallenge's "a CHALLENGER
\* may not report a result the other player never agreed to").
AgreedBeforeClaimed == claimed \subseteq accepted

\* The caps on open challenges, out and in, are overstepped by no more than
\* one for every other request in flight and for every count that failed:
\* the count and the insert of IssueChallenge are separate statements.
Faults == Budget["fault"] - left["fault"]
CapsHeld ==
    \A e \in Entrants :
        /\ Cardinality(Outgoing(e)) < MaxOutgoing + Cardinality(Requests) + Faults
        /\ Cardinality(Incoming(e)) < MaxIncoming + Cardinality(Requests) + Faults

\* A reminder of a deadline is sent once, also when two instances sweep
\* ("each row is claimed atomically so two ticks can't double-process").
RemindedOnce == \A c \in Ids : reminders[c].respond <= 1 /\ reminders[c].play <= 1

\* A challenge that was decided stays as it was decided until it is deleted;
\* only a voided one may still become a played one (ErrChallengeConflict).
ResolvedOnce ==
    [][\A c \in Ids :
          /\ challenge[c].status \in {"cancelled", "declined", "forfeited", "completed"}
                => challenge'[c].status \in {challenge[c].status, "deleted"}
          /\ challenge[c].status = "voided"
                => challenge'[c].status \in {"voided", "completed", "deleted"}]_vars

=============================================================================
