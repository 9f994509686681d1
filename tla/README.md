# PlanMyPickle backend: a TLA+ model

The backend is one Go program (`cmd/api/main.go`): an HTTP API and some twenty
background tickers over a PostgREST database (`internal/store/supabase.go`).
It keeps no state of its own between requests apart from a few in-process
mutexes and caches.  Every statement sent to the database (select, conditional
update, insert, stored procedure) is atomic; a handler is a *sequence* of such
statements without a transaction around them.  So every handler can be
interleaved with every other between any two statements, a statement may fail,
and the process may stop in the middle.  That is where this code is hard to get
right and hard to test, and what the model is about.

## 1. Inventory

| Part (`internal/…`) | State | Operations | What is hard | What makes it correct | Here |
|---|---|---|---|---|---|
| Rotation engine (`engine/rotation.go`) | none | `SeedCourts`, `SeedPlacedCourts`, `NextRound`, `NextRoundFair` | courts at the edges, byes, equal time | nobody twice, everyone placed, the river's rule | modelled |
| Rotation nights (`service/ladder_rotation.go`, `rotation_sweep.go`, `rotation_corrections.go`) | `rotation_sessions`, `_players`, `_round_courts`, `_round_scores`, `_substitutions` | create, edit, start, advance, report, score, correct, pause, resume, substitute, end, reopen, two sweeps | a dozen devices and two tickers on one session | one tally per closed round, a consistent layout, results and wins that agree | modelled, but for limits by the clock and paper rounds |
| Registration and waitlist (`service/service.go`) | registrations, players, `event_waitlist` | register, link a partner, promote, approve, delete | capacity and duplicate checks under a per-process mutex, half-done promotion | no overselling, nobody twice | modelled for one process |
| Entry fees (`service/payments.go`, `service.go`, `gateway/stripe.go`, `paypal.go`) | `payments`, `payment_status` | mark, intend, capture, webhook | redelivery, reordering, two providers | the books agree with what was paid | modelled |
| Scoring and brackets (`service/service.go`, `engine/double_elim.go`, `bracket.go`) | `matches`, `match_participants` | score, forfeit, advance, re-score, grand final | delete-then-insert advancement, reset cascades | every slot holds the winner of its feeder | modelled |
| Player score reports (`service/score_reports.go`) | `score_reports` | report, confirm, dispute, auto-confirm | ticker against players and organizer | one outcome per report, a confirmed score counts | modelled |
| Ladder challenges (`service/ladder_challenges.go`, `ladder.go`) | `ladder_challenges`, `ladder_entrants` | issue, accept, decline, cancel, report, void, reorder, sweep | deadlines racing answers, reorders under challenges | one resolution per challenge | modelled |
| Classes (`service/coaching.go`) | classes, enrolments, credits, grants | enrol, cancel, remove, promote, offer, expire, pay, refund, delete | webhooks racing the offer sweep, settlements racing each other | money and credits settled once, seats in turn | modelled for one class |
| Compass, consolation, play-offs from pools (`engine/compass.go`, `consolation.go`) | `matches` | seed, route | routes of the same kind | as for brackets | no |
| DUPR submissions (`service/service.go`, `gateway/dupr.go`) | `dupr_submissions` | queue, flush, retry, reverse | lost answers, identifiers that may not be reused, reversals | no result counts twice, corrections arrive, nothing stays that was unmade | modelled, DUPR external |
| 1:1 bookings (`service/coaching.go`) | `coaching_schedule` | book, respond, cancel, move | check then insert | no two sessions overlap | no |
| Subscriptions (`subscription_reconcile.go`) | plan columns | webhook, hourly reconcile | two writers | a paying account keeps its plan | no |
| MLP teams, perpetual leagues (`mlp.go`, `perpetual.go`) | ties, weekly sessions | roll-up, decider, build, redraw | concurrent roll-ups | one decider, one schedule per day | no |
| Daily jobs (`joke_push.go`, `weekly_digest.go`) | `daily_jobs` | claim, send, release | crash after the claim | at most one run a day | no |
| Clubs, leagues, social, posters, SEO, mail, HTTP routing | rows | edits and views | little protocol | – | no |

The parts meet in three ways.  A ticker and the handlers write the same rows
(the sweeps of rotation nights, classes, challenges and reports).  A provider's
webhook settles what a handler began (entry fees, class seats).  One handler
calls another: a confirmed report is recorded by `RecordScore`, a promotion
from the waitlist and a partner are registered by `RegisterPlayer`, Start hands
its courts to the rounds.  Where two parts meet, the model composes them.

`PROJECT.json` lists every part with its status and every hazard at its line.

## 2. The modules

```
RotationEngine            engine/rotation.go: courts, seeding, movement, fairness
  └ RotationAdvance       the computation of AdvanceRotationSession on a snapshot
      ├ RotationEngineProofs
      ├ RotationRiver     undisturbed rounds with comings and goings between them
      │    └ RotationRiverProofs  (on RotationEngineProofs)
      ├ RotationSetup     roster edits and Start, before round 1
      │    └ MCRotationRiver      a night set up and then played (both composed)
      └ RotationSession   live handlers and sweeps, one action per statement
          ├ RotationRecord   taps, scorecards, recounts, corrections
          ├ RotationRoster   arrivals, sit-outs, returns, substitutions
          └ RotationLive     Next, fairness, invariants and properties
               │               └ INSTANCE RotationNight (abstract specification)
               ├ RotationLiveProofs
               └ MCRotationLive, MCRotationEvenings

Draw                      engine/bracket.go, double_elim.go: games and their feeds
  └ BracketPlay           scoring, advancement, corrections under the score lock
      └ ScoreReports      the players' own reports, recorded by BracketPlay
          ├ ScoreReportsProofs   of both
          └ MCScoreReports

ClassSeats                one class: seats, waitlist, offers, credits, payments
  ├ ClassSeatsProofs
  └ MCClassSeats

LadderChallenges          a ladder, its challenges and their sweep
  ├ LadderChallengesProofs
  └ MCLadderChallenges

Registration              one event: sign-ups, partners, waitlist, approvals
  └ EntryFees             marks, intents, captures and webhooks
      ├ RegistrationProofs   of both
      └ MCRegistration

DuprSubmissions           results on their way to DUPR, and back
  ├ DuprSubmissionsProofs
  └ MCDuprSubmissions
```

### Rotation nights

**RotationEngine, RotationAdvance** are pure operators.  A court is a function
`1..4 -> player` (1, 2 are team A), a layout a sequence of courts, court 1
first; the bench is a sequence.  `PlanNextRound` follows
`AdvanceRotationSession` from line 2253 to 2412 in its order: substitutions
are applied to the snapshot, the queue is reconciled with the active players,
departures are settled, courts grow, the closing round is counted, the engine
moves everybody; `stuck` is the engine's refusal (`layoutAndBenchOK`).
`Persisted`, `Tied`, `MovesUp` are the verdict of a scorecard: what is written
back, whether the round is held for a sudden-death point, who moves up.  Points
are 0, 1 or "not entered": the code only compares two team totals.

**RotationSetup** is the night before the buzzer: placement, sit-outs, the
two-statement `RemoveRotationPlayer` and `ShuffleRotationStartCourts`, and
`StartRotationSession`'s read and write.

**RotationRiver** closes rounds with that computation and nothing interleaved,
with an arbitrary winner per court.  It checks the algorithm.
**MCRotationRiver** puts the two together: some nights are under way from the
start, one is set up by RotationSetup and then played by RotationRiver with
the courts, the bench and the roster that Start left behind.

**RotationSession, RotationRecord, RotationRoster** interleave.  `req` maps a
slot to the request running in it: `at` names its next statement, the other
fields are what it has read so far.  Every action is one statement together
with the Go code up to the next one.  Slots in `Requests` run calls of devices;
`Sweeper` and `Janitor` run the two background sweeps.  Calls made of a single
statement (Pause, Reopen, the substitution procedure) are single actions.

| Code | Model |
|---|---|
| `AdvanceRotationSession` | `AdvCall`, `AdvSession`, `AdvCourts`, `AdvScores`, `PersistWinner`\*, `AdvPersisted`, `AdvSubs`, `AdvGone`, `AdvActive`, `AdvPlays`, `AdvRecheck`, `AdvWrite` |
| `EndRotationSession` | `EndCall`, `EndRound`, `PersistScores`, `PersistCourts`, `PersistWinner`\*, `PersistDone`, `EndWrite` |
| `PauseRotationSession`, `ResumeRotationSession`, `ReopenRotationSession` | `Pause`; `ResumeRead`, `ResumeWrite`; `Reopen` |
| `SweepOverdueRotationRounds`, `EndAbandonedRotationSessions` | `Sweep`, `EndAbandoned`, then the steps above in their own slots |
| `ReportRotationCourt` | `ReportCheck`, `ReportWrite` |
| `SetRotationScore(s)`, `rederivePastRound` | `ScoreCall`, `ScoreCheck`, `ScoreWrite`, `Rederive`, the `Persist…` steps, `RetallyCourts`, `RetallyWins`, `RetallyWrite` |
| `SetRotationCourtWinner` | `CorrectCheck`, `CorrectWrite`, then the recount |
| `AddRotationPlayer`, `ImportLadderEntrantsToSession`, `joinBench` | `JoinInsert`, `JoinBench` |
| `SetRotationPlayerActive` | `OutCheck` or `BackCheck`, `RosterWrite` |
| `SubstituteRotationPlayer` (`rotation_substitute`) | `Substitute` |
| any failing statement; the process stopping | `Drop`, and the second disjuncts of `PersistWinner`, `AdvActive`, `EndRound`; in `AdvPlays` the counts `NobodyPlayed` |

Time is `due`: how far past its deadline the current round is (running, past,
past for hours), which round the deadline was computed for, and how far past
it was when the session was paused.

**External parts.**  The bodies of `advance_rotation_session`,
`end_rotation_session`, `start_rotation_session` and `rotation_join_bench` are
not in the repository.  They are modelled from how the code uses them and what
it says of their answers: an advance writes only if the round it was called
with is current and the session live (the trigger in
`migrations/add_advance_pause_guard.sql` refuses paused sessions); an end does
nothing to a night that is over; both credit a game to everybody seated and a
win to recorded winners of the closing round, in one transaction;
`rotation_join_bench` appends under a row lock; a start happens once and
rejects a seat that names a deleted player.  `rotation_substitute` and the
trigger are in `migrations/` and modelled from their text.

**RotationNight** is what the room is promised: a phase, a round, a set of
people playing and everybody's games; rounds close one by one and credit
exactly the people then on court; nothing moves while paused; an over night is
frozen until reopened on the same round; in between, seats only pass to
substitutes.  `RotationLive!IsANight` states that the interleaved handlers
implement it, with `phase` read off `status` and `playing` off the current
round's courts.

### Brackets and reports

**Draw** computes which games a draw has, who opens in them and where winners
and losers go.  Double elimination is followed as in the code, by tokens ("the
loser of g", "the winner of g") that flow up the losers rounds and skip games
in which they are alone.

**BracketPlay** scores a draw.  `todo[d]` is the sequence of statements the
request of device `d` still has to execute; a statement may put others in
front of the rest, which is how the recursion of `resetCompletedDownstream` is
followed.  `side` is `match_participants` (an entrant stands for its players,
written and removed together), `lock` the event's mutex.

| Code | Model |
|---|---|
| `RecordSeries`, `applySeries`, `ForfeitMatch` | `Score`, `Check` (`bothSidesPresent`), `Lock`, `Write`, then `Routing` |
| `advanceTeam` | `Clear`, `Fill`, `Unwind` |
| `resetCompletedDownstream` | `Reset`, `Wipe`, again `Reset` |
| `resolveGrandFinal`, `copyGrandFinalTeams` | `Decide`, then `Strip`, `Drop` or `Make`, `Compare`, `Strip`, `Copy` |
| `syncEventStatus` | `Sync`, `FailSync` |
| `StartMatch`; `UnstartMatch`, `CancelMatch`, `RestoreMatch` | `Start`, `StartWrite`; one action each |
| a failing statement under the lock | `Fail` |

`match_participants` and results are written only under the lock, so a read
under the lock is merged with the write that follows it.

**ScoreReports** extends it with the row of `score_reports` of each game.
`errand[d]` is what the device's request does about a report beside the
scoring; `closing[d]` is the game whose open report it is about to supersede.

| Code | Model |
|---|---|
| `ReportScore` | `ReportRead`, `ReportInsert` (one row a game, by its unique index) |
| `ConfirmScore`, `AutoConfirmDueScoreReports`, `finalizeScoreReport` | `Claim`, the statements of `RecordScore` in `Statements`, `AfterFailure`, `Reopen` |
| `DisputeScore` | `DisputeScore` |
| `supersedeScoreReport` | `Supersede`, after the write of a score, not of a forfeit |

The timer may confirm at any moment, which covers every time it may fire.

### Classes

**ClassSeats** is one class.  `row[p]` is the enrolment row of a player,
`intent[i]` a Stripe payment, `req[q]` a handler in flight, with its next
statement `pc` and the rows it has `seen`.

| Code | Model |
|---|---|
| `Enroll` | `EnrollRead`, `EnrollCount`, `EnrollWait` or `EnrollSpend`, `EnrollWrite` |
| `CancelClassEnrollment`, `CoachRemoveEnrollment` | `CancelRead` or `RemoveRead`, the settlement, `CancelWrite`, the promotion |
| `settleEnrollmentRefund` | `Settle`, then `Claim`, `Restore`, `Revert`, or `Refund`, `Mark` |
| `promoteNextWaitlisted` | `PromoteCount`, `PromotePick`, `PromoteWrite` |
| `CoachPromoteEnrollment`, `CoachMarkEnrollmentPaid`, `UpdateClass` | `ManualCount`, `ManualWrite`; `MarkPaidInCash`; `EditClass` |
| `DeleteClass` | `DeleteRead`, for each seat the settlement and `DeleteFree`, `DeleteDrop` |
| `PayForEnrollment`, the webhook, `markEnrollmentPaid` | `Pay`, `Capture`, `HearRead`, `PaidWrite` |
| `SweepFailedRefunds`, `SweepExpiredOffers` | `SweepRefunds`, `SweepNext`, the settlement; `SweepOffers`, `ExpireOffer`, the promotion |
| `grantPackCredits` | `PackRead`, `PackClaim`, `PackBalance`, `PackWrite`, `PackApplied` |
| a failing statement; the process stopping | the disjuncts with `Uses("fault")`; `Stop` |

Stripe is external: it captures a payment once, refunds it once and reports it
at least once, at any time.

### Ladders

**LadderChallenges** is a ladder (`position`) with its challenges.  Deadlines
are far, soon or past, which is what the sweep's four passes tell apart.

| Code | Model |
|---|---|
| `IssueChallenge` | `IssueRead`, `IssueInsert` |
| `AcceptChallenge`, `CancelChallenge`, `VoidChallenge`, `DeclineChallenge` | one conditional statement, one action each |
| `ReportChallenge` | `ReportRead`, `ReportResolve` |
| `RecordLadderResult`, `MoveLadderEntrant`, `RemoveLadderEntrant`, `voidActiveChallengesForEntrant` | the reorder, then `VoidRead`, `VoidEach` for each entrant; for a removal `RemoveDelete` after them |
| `AddLadderEntrant` | `AddRead`, `AddInsert` |
| `SweepLadderChallenges` | `SweepLadderChallenges`, `SweepRead`, `SweepEach` for each of the four passes |

The procedures `resolve_ladder_challenge`, `remove_ladder_entrant` and the two
reorders are external (`Resolve`, `Leap`, `Swap`); their comments in the code
say what they do in their transaction.

### Registration and entry fees

**Registration** is one event in one process.  `request[r]` is the stack of
calls of a request, because `RegisterPlayer` calls `linkPartner`, which calls
`RegisterPlayer`; `lock` is `registerLocks[event]`, a `sync.Mutex`.

| Code | Model |
|---|---|
| `RegisterPlayer` | `Register` or `Add`, `Acquire`, `CheckContact`, `CheckCap`, `FindRow`, `Insert` |
| `linkPartner` | `FindPartner` (which may call `RegisterPlayer`), `Pair`, `PairBack` |
| `PromoteWaitlist` | `Promote`, the steps of `RegisterPlayer`, `Unlist` |
| `JoinWaitlist`, `RemoveWaitlist`, `DeleteRegistration` | one action each |
| `ApproveRegistration` | `ApproveRead`, `ApproveWrite`, `ApproveMate` |
| a failing statement; the process restarting | `Fail`; `Restart` |

A person is a name with a phone; `Accounts` are those who may sign in.
`FindRow` follows the search for the player's row: whoever signs in has the row
of their account, anybody else that of the account with their phone, or that of
a registrant with it, and a look-up of these that fails counts as no match
(its second disjunct).  What a request may skip are two things: the cap, unless
the client says it is for oneself (`capped`), and approval, when the server knows
the caller as an organizer (`trusted`); a failed read of the event's setting
skips approval too.  An entry remembers, as history, how it came about and
whether the phone was given and is in the row (`known`).

**EntryFees** adds the money: `books` is the table `payments`, `paid` the
registrations marked paid, `deliveries` the webhooks a provider still has to
repeat.  `CollectPayment` and the PayPal order start a checkout,
`CollectPaymentManually` is the organizer's mark, `Complete`,
`CapturePayPalOrder` and `Deliver` are captures and webhooks, and all of them
run `recordPayment`: `Look`, `Book`, `WriteStatus`.

### DUPR submissions

**DuprSubmissions** is a sanctioned event: each game's result, its row in
`dupr_submissions`, the queue of reversals, and what is on DUPR.  `req[q]` is a
caller and the statement it is at; `lock` is `lockDuprEvent`, `desk`
`lockScoreEvent`; `waves` are the rows an import has left to its continuation.

| Code | Model |
|---|---|
| `applySeries`, `resetCompletedDownstream` | `Score`, `Undo` (that there is a result, and which) |
| `queueDuprSubmission` | `QueueRead`, `QueueWrite` |
| `SubmitPendingToDupr`, its background continuation | `Import` (with the backfill), `Continue` |
| `flushDuprSubmissions` | `FlushLock`, `FlushSelect`, for each row `FlushRead` or `FlushDefer`, `Create` or `Correct` or `FlushFails`, `FlushMark` or `FlushRetry`; `FlushEnd` |
| `RemoveEventFromDupr`, `RemoveMatchFromDupr` | `Remove`, `RemoveLock`, `RemoveSelect`, `RemoveCall`, `RemoveRow`, `RemoveEnd` |
| `ForfeitMatch`; deleted games; `wipeAllMatches` | `Award`, `Drop`, `WipeAll`, then `reverseDuprForMatches`: `ReverseLock`, `ReverseSelect`, `ReverseQueue`, `ReverseRows`, and `DeleteGames`, `InlineDelete` |
| `ReconcileDuprSubmissions`, `DrainDuprPendingDeletes` | `Drain`, `DrainCall`, `DrainWrite`, `Reconcile`, the steps of a flush; `Due` |
| a failing statement; the process stopping | the disjuncts with `Spend("fault")`, `SelectFails`; `Restart` |

DUPR is external: it takes an identifier once and for all, deletes a match on
its code and the identifier of its creation, and its answers may be lost after
or before it has done what it was asked.  `crossed` and `missed` are history:
games scored while a flush had them in hand, and games on DUPR that a reversal
cannot see.

## 3. The runs

All are exhaustive.  Bounds are constants: `MaxRounds` (rounds reached),
`MaxEdits`, `MaxChallenges`, and budgets, the number of calls of each kind,
faults and stops among them.  When a budget is used up nothing more happens, so
deadlock is not checked.

Most runs look at several *occasions* at once (evenings, tournaments,
afternoons, weeks, events): the initial state picks one, with its own budget,
number of requests at a time and people.  So each race gets the calls it needs,
and none is paid for everywhere.

| Run | Question | Occasions, and why they are enough |
|---|---|---|
| `RiverNights` | Does Start honour the placements, and closing rounds keep everybody placed, once, move them by the rule, and keep court time even? | 9 players set up in every order of two edits on two courts (placements past the last court, more than four on one), then played; 8 players on 2 courts, 4 rounds and two comings or goings (one departure crosses the multiple of four, one arrival makes a bench); 13 and 15 players on 3 courts under both rules: three courts are needed to tell the rules apart, three waiting make the equal-time pass swap |
| `LiveRacing` | What do advances, sweeps, pauses and ends do to each other, roster changes to them, and failures to the record? | two devices and the advance sweep, 3 advances, an End, a Pause and a Resume; two devices with two pauses and two resumes, so that a resume is overtaken by another, an advance and a pause; the hourly sweep beside an advance and a pause; 2 requests with a sit-out and a return; one call of each kind that touches results with a failed statement or a stop and a Reopen |
| `LiveRecord` | Do seats, games, scores, wins and cards agree? | one request at a time, 5 to 7 players: every roster operation around two advances; 2 substitutions and 2 scores (any cell, current or past round), a planned end or End |
| `LiveNobody` | Does a night go on, and end, when all devices are gone? | 3 rounds, a pause, a score that may tie, a fault, hours of absence |
| `Brackets` | Do results travel and unwind through every draw, and do the players' reports end up in them? | medal bracket with two devices (a correction, a start or cancellation, or a failure) and with two corrections and a failure; 5 entrants in single elimination (byes, third-place game), two corrections; double elimination of 3 with two devices, of 4 with a correction, of 5 and 6 (byes that collapse losers games); a reported game in a knockout of 3 with two devices and a correction or a failure, and in double elimination |
| `ClassAfternoons` | Are credits, payments and seats settled, whoever races? | one seat; payments against a cancellation, a failing refund, a lapsing offer and both sweeps; credits against two cancellations and a stop; a waitlist of three that moves twice; a deletion with two failures; the coach's desk with a pack |
| `LadderWeeks` | Is every challenge decided once, by those entitled to, and does it end? | 4 entrants, 2 requests: two sweeps, an answer, a void and a report over one challenge; one player issuing to everybody; reorders under two challenges; people coming and going |
| `SignUps` | Do the cap, the duplicate check and the books hold? | 3 people, one with an account, 2 requests: races for the last place of one and of two; the waitlist, of one division and of two, with additions, removals and a failure, of a look-up too, or a restart; partners in two divisions, with approval; the fee of one player with three payments begun and a failure |
| `DuprImports` | Does no result count twice, does each correction arrive, and is what failed dealt with? | one game with two corrections, an undoing and a removal against two imports; with two lost answers; with two failed statements and a restart; a forfeit and a wipe while DUPR is down; a deleted game; a reversal that cannot be queued; two games imported in chunks of one, one with a player linked later and one played before the event was sanctioned |
| `LiveJoinBricks`, `BracketDecider`, `SignUpWithPartner` | violations, see section 5 | the smallest occasion that shows them |

What they check:

* `RotationRiver`: `NobodyTwice`, `RoomForEverybody`, `RiverRule`,
  `BenchedOnlyForTheRested`, `EqualCourtTime`; `RotationSetup`:
  `PlacementHonoured`, `EveryoneOpens`.
* `RotationLive`: `TalliedPerClose` (every closed round counted once, and once
  more per reopening), `StandsStill`, `NeverBricked`, the refinement
  `IsANight`; in evenings with substitutions `SeatedAsTheRosterSays`,
  `GamesMatchBoard`, `ScoresHaveSeats`, `WinsMatchBoard`, `ScorecardDecides`;
  `OverdueRoundsMoveOn`, `AbandonedNightsEnd`.
* `BracketPlay`: `ResultsCarried`, `PlayedByThoseInIt`, `ResultsStand`,
  `EventOver`, `TwoLossesAndOut`.  These speak of moments when no request is
  between its write and its end (`AtRest`); what a failed request leaves behind
  is only covered by `ResultsCarried`: entering the result again repairs the
  next games.  `ScoreReports`: `OneOutcome`, `ConfirmedScoreCounts`.
* `ClassSeats`: `CreditsNeverMinted`, `ChargedNotStranded`, `SeatsInTurn`,
  `RefundsArrive`.
* `LadderChallenges`: `AgreedBeforeClaimed`, `ResolvedOnce`,
  `CapsHeld`, `ChallengesEnd`.
* `Registration`: `CapHeld`, `OneEntryEach`; `EntryFees`: `FeesSettled`.
* `DuprSubmissions`: `OnDuprOnce`, `CorrectionsArrive`, `BacklogsDrain`.

`NoRoundSkipped`, `RemindedOnce`, `OneAtATime` and the type invariants other than that of the
rotation night have no run: they are proved (section 4).  `DeadlineIsOfThisRound`
has none either: with two pauses and two devices, the evening `Overtaken` of
`LiveRacing`, the code does not keep it, and the theorem says when it does
(sections 4 and 5).

Some of them hold only with one request at a time (`LiveRecord`, and
`SeatsInTurn` in its orderly afternoons): the code does not keep them under
every race, and section 5 says where.  `GamesMatchBoard` is proved for every
race (section 4); it is checked where substitutions meet rounds with a score,
which is where it could go wrong.
`ChargedNotStranded` is checked where nobody books or pays twice, and section 4
says what else it needs.
`CorrectionsArrive` and the second half of `BacklogsDrain` except, by the
history variables, two interleavings of section 5.  `SignUps` looks at partners where they are in the event
already or the lock is left by a failure; `SignUpWithPartner` at the others.

`RiverRule` and `BenchedOnlyForTheRested` count among those waiting whoever came
back and is not in the queue yet (`Unseated`): four people who leave and return
between two buzzers make two losers step off, who may then be partners again.
`EqualCourtTime` is about at most four waiting, since a round exchanges at most
four places, two by the movement and two by the equal-time pass; with ten waiting
for two courts the spread reaches three.  In `LiveRacing` the two devices are
interchangeable, so TLC identifies states that differ only in which is which
(`Alike`); its properties are invariants and step properties that name neither.

**Mutants.**  Each property has a plausible slip of the code that breaks it:
definitions commented "Slip", or named after the check they drop, stand before
the definition they replace.

**Fairness.**  Nothing is assumed of devices or people.

* `LiveNobody` (`Tickers` of `RotationLive`): `main.go` runs the advance sweep
  every 30 seconds (line 194) and the abandoned-session sweep every hour (line
  214) for as long as the process lives, so both `Sweep` and `EndAbandoned` are
  weakly fair; a sweep is a loop over finitely many statements, each of which
  succeeds, fails or times out in the HTTP client, so the two sweep slots are
  idle again and again.  Both properties survive a failed sweep: the next tick
  tries again.  `OverdueRoundsMoveOn` excepts a tied court, which the code holds
  on purpose.
* `ClassAfternoons` and `LadderWeeks`: a handler that has begun goes on, for the
  same reason, and the sweep of `main.go`'s ticker comes round
  (`SweepRefunds`, `SweepLadderChallenges`).  For `ChallengesEnd` deadlines come
  nearer: time passes.
* `DuprImports`: handlers go on (`Flush`, `Handle`), the reconciler's ticker
  comes round every two minutes (`main.go:160`, `Tick`) and the times of the
  next attempts come (`Due`).  Imports, continuations and links are not fair.
  The cap on attempts of a queued reversal is above the number of times DUPR
  fails in the run; past it the code gives up and logs an alarm.
* `SignUpWithPartner`: a request that can go on does, every handler being a
  goroutine of its own.  The counterexample is a request that never can.

## 4. What is proved

### Rotation nights

**The engine and the undisturbed night.**  `RotationEngineProofs` is about the
operators of `RotationEngine` and `RotationAdvance`, for any number of courts
and players; `RotationRiverProofs` about `RotationRiver`, for every order of
arrival, set of evenings and bound.

| Theorem | Says |
|---|---|
| `MovementSeatsEverybodyOnce` | whoever had a place before `NextRound` has exactly one after it, under either rule and any results |
| `FairRoundSeatsEverybodyOnce` | the same of `NextRoundFair`, the equal-time pass included |
| `LegalLayoutsMove` | on a legal board `NextRoundFair` never returns the courts it was given, so the check for a stuck engine (`sameLayout`) cannot fire |
| `MovementFollowsTheRule` | who plays on goes up, down or nowhere by the rule, equal-time pass included |
| `EverybodyHasANewPartner` | with an empty queue no pair of partners stays together |
| `BenchedOnlyForWhoPlayedLess` | the equal-time pass benches somebody only for somebody who played strictly less |
| `DeparturesLeaveTheRest` | `SettleDepartures` keeps one place for each who stays, none for who left |
| `RoundOneSeatsEverybodyOnce` | `SeedCourts` gives every player one place, on no more courts than the venue has |
| `PlanSeatsWhoeverIsHere` | `PlanNextRound` on any snapshot of a night seats or queues the active players, each once, and nobody else, keeps no court shut while four wait, and is not `stuck` |
| `AnyPlanIsLegal` | whatever an advance read, however stale and however its reads disagree: a plan that is not `stuck` gives each of its people one place, and has nobody in it who was not in what was read, or had gone |
| `RiverInvariant` | `Spec => []RiverInv` |
| `NobodyTwiceHolds` | `Spec => []NobodyTwice` |
| `RoomForEverybodyHolds` | `Spec => RoomForEverybody` |
| `RiverRuleHolds` | `Spec => RiverRule` |
| `BenchedOnlyForTheRestedHolds` | `Spec => BenchedOnlyForTheRested` |
| `NeverRefusedHolds` | `Spec => []NeverRefused`: in every state, and for any results, the advance is not refused |

*Assumptions*: `RiverAssumption` (distinct players, none of them the blank
seat; evenings of at least four starters).  The theorems about operators state
theirs: a layout and a bench in which nobody has two places, and for
`PlanSeatsWhoeverIsHere` a `Snapshot`, which the invariant shows every closing
round to be given.

*Argument.*  A layout over a set of players is a function from seats; that
nobody has two places says it is injective, apart from the queue.  Each pass of
the engine is shown to keep those two facts and the set of people
(`KeepsEverybody`).  The movement is a bijection between the seats of the
winners and losers of neighboring courts and their new seats; the equal-time
pass and the departures are swaps and removals, one at a time.  The folds over
courts and leavers are recursive functions on the natural numbers.  Their values
are reached by induction, which is carried out inside the provers' logic:
a least number at which a claim fails exists as the naturals are well-founded
(`LeastNat`), and the step refutes it (`Climb`, `StepByStep`).

`NobodyTwice` alone is not inductive, because of substitutions.  One that comes
after the replaced player has scored leaves that player seated until the buzzer,
with the newcomer waiting for that very seat; who came in may be replaced
before that, too, and when the round closes `ApplyTakeover` sends each of them
along the chain of substitutions.  `RiverInv` adds what keeps two of them from
ending in one place: of `Placed` (one place each, within the venue's courts) and
`Known` (who was replaced has left, by somebody who came; who never came is
nowhere) the last conjunct, `Lines`: there is a function that names the end of
each line of substitutions, and no two people on the board, no two of those
nobody came in for, have the same; whoever is absent is alone in theirs.
`LineGrows` extends it by a substitution; `LineApart` turns it into what
`ApplyTakeover` needs.

Where people go is read off the map of seats: `SeatedFrom` says from which seat
or place in the queue each seat is filled, `RuleOfPlaces` that this map obeys the
rule, `MatesPart` that it takes no two partners to one pair.  The board being
injective, whoever sits in a seat came from there (`SitsWhereMoved`), unless the
equal-time pass put somebody of the queue there: `Trades` says that is all it
can do, and for whom.  `PlanOfTheUndisturbed` carries this through the whole
advance.  While nobody seated has left, following the substitutions changes no
seat, no departure has to be settled (`NobodyToSettle`), and new courts come
below the others (`Grown`); the queue the engine is given is that of `Unseated`.

`NeverRefused` holds because at least four are active (`Playable`: the last four
cannot leave) and a board for four people has a court (`CourtForFour`).  It is
about the undisturbed night: between the statements of a racing advance the
board may become illegal, and then the refusal is what the code is meant to do
(`LiveJoinBricks`).

**The live session.**  `RotationLiveProofs` is checked by TLAPS for every
roster, number of courts, loser rule, set of request slots, number of rounds and budget.

| Theorem | Says |
|---|---|
| `BooksInvariant` | `Spec => []BooksOK`: clock, roster, counters and the memory of every request are well formed |
| `TypeOKHolds` | `Spec => []TypeOK`, the sheets included |
| `NightImplemented` | `Spec => IsANight`: the interleaved handlers implement `RotationNight` |
| `TalliedPerCloseHolds` | `Spec => []TalliedPerClose` |
| `NoRoundSkippedHolds` | `Spec => NoRoundSkipped` |
| `StandsStillHolds` | `Spec => StandsStill` |
| `GamesMatchBoardHolds` | `Spec => []GamesMatchBoard` |
| `DeadlineIsOfThisRoundHolds` | `NoOverlappingPauses`, hence `Spec => []DeadlineIsOfThisRound` |
| `NeverBrickedHolds` | `Spec /\ []Orderly /\ [][HandsOff]_vars => []NeverBricked` |
| `SeatedAsTheRosterSaysHolds` | the same for `SeatedAsTheRosterSays` |
| `FullRoomsNeverBrick` | both of `Spec`, while nobody new comes and nobody is substituted |
| `OneDeviceNeverBricks` | both of `Spec`, for one device, no automatic advance and no reopening |
| `ScoresHaveSeatsHolds` | `Spec /\ [][BetweenCalls]_vars => []ScoresHaveSeats` |
| `ScorecardDecidesHolds` | `Spec /\ []OneByOne /\ [][BetweenCalls]_vars => []ScorecardDecides` |
| `OneDeviceScorecardDecides` | the same of `Spec`, for one device, no automatic advance, and no failures, corrections by hand, reopenings or hours of absence |
| `WinsMatchBoardHolds` | `Spec /\ [](OneByOne /\ CountsApart) /\ [][BetweenCalls]_vars => []WinsMatchBoard` |

*Assumptions*: `SessionAssumption` only (at least four starters, distinct
players, two sweep slots apart from the devices'); for the deadline also
`NoOverlappingPauses`: one pause a night, or one device that pauses and
resumes.  With two of each it fails (the evening `Overtaken`, section 5).  Those about seats speak of
behaviors in which arrivals and substitutions keep clear of the advances, as
each of them fails otherwise (section 5):

* `Orderly`: no newcomer is between their roster row and the queue while an
  advance is about to write (that is the race of `LiveJoinBricks`), and a night
  with a substitution is not reopened;
* `HandsOff`: no substitution commits between an advance's read of who is gone
  and its write, nor while the return of the player it replaces is in flight.

That these say neither too much nor nothing is shown by `FullRoomsNeverBrick`
and `OneDeviceNeverBricks`, whose hypotheses are about constants only and cover
`LiveRacing` and `LiveRecord`: in a room without newcomers and substitutions any number of devices
and sweeps may race; and one device may do everything, failed statements and
the sweep that ends the night included.

The theorems about the record are about substitutions that do not fall into a
call, and the last two about calls that do not overlap at all, since results and
wins are otherwise lost in the ways section 5 lists:

* `OneByOne`: one request at a time, no statement fails, no winner is set by hand
  (`SetRotationCourtWinner` may well contradict a card), and a night with a
  substitution is not reopened;
* `BetweenCalls`: nobody is substituted in the middle of a call;
* `CountsApart`, for the wins: no night is reopened, and none are counted again
  while a court of the round in play has its winner already.  A recount would
  take that court for one that is over (section 5).

`OneDeviceScorecardDecides` derives the first two from constants.  TLC finds all
three true in every state of `LiveRecord`, so the theorems cover that run, and
evenings with taps besides.

*Argument.*  `BooksOK` is inductive.  Besides types it says what each waiting
request remembers: an advance in flight carries a round below the bound, the
one its caller believed in if it named one; a recount carries wins, a resume a
deadline.  Without that, nothing would be known of the values written by
`AdvWrite`, `ResumeWrite` and `RetallyWrite`.  The lemma `Moves` then sorts
all actions into six effects: `Still` (nothing the theorems speak of changes),
`Rotates`, `Ends`, `Turns` (pause or resume), `Restarts`, `HandsOver`.
`AdvanceReads`, `EndingReads`, `RecordingQuiet` and `RosterQuiet` show that
reading steps are `Still`, one step per action.  Each theorem is a case
analysis over the six effects, `GamesMatchBoard` with a lemma on the
cardinality of the closed rounds a player is seated in.  The deadline has its
own invariant `DueOK`: whatever buzzers, sweeps and ends come between the two
statements of a resume, the row it read is that of the pause it will lift, if
that still lasts.  A new round, the end, a pause, a resume and a reopening touch
the clock; of all other steps lemmas show that they are `Untimed`.

The sheets need `Sheets`, what each request carries from one statement to the
next: courts and queues of people who have come (`Here`), a verdict for every
court, patches that name courts of their round.  An advance writes what it
planned from reads of different moments, so its step is `AnyPlanIsLegal`, which
assumes of the reads no more than their kinds (`AnyReads`).  `NightImplemented`
then follows from the six effects: each is an action of `RotationNight` or a
stutter, `SubstituteHandsOver` giving the one case that is neither quick nor
obvious, a replaced player who is still seated.

`NeverBricked` speaks of an advance about to plan from what it has read in four
statements, so its invariant `Seating` relates each copy in a request's hands to
the tables, one moment after the other (`InStep`).  The board in play gives
everybody one place (`BoardFits`); no two of those on a sheet are of one line of
substitutes, in the sense of `RiverInv` (`OneOfEachLine`); who was replaced has left,
and their seat with them (`ReplacedHaveLeft`); who is on the way to the queue is
nowhere yet (`Arriving`).  An advance before its read of the substitutions holds
courts that fit its queue and are still of different lines by the *present*
table: a substitution that swaps a seat in the tables and not in the copy is
harmless so far, since the line goes on to the newcomer, who was absent and alone
in a line of their own.  From then on the table it holds must be the one
its courts fit, and the gone it has read must cover that table; this is where
`HandsOff` is needed.  `PlansMove` shows that the engine does not
hand such a layout back, `AnyPlanIsLegal` that what is written fits again.

`ScoresHaveSeats` needs to know besides that nobody sits in a round to come, and
that whoever is about to get a score still has the seat (`ScoredOK`).  A
substitution moves the seat of the round in play only if it has no score, and
there is none in the rounds after it; every other step leaves the seats of the
rounds reached alone, and only one statement writes a score.

`ScorecardDecides` speaks of a round that is over; its invariant `Recorded` follows
the winners from the cards to the courts.  A request that has derived winners
holds, for every court that lacks its winner, the patch that will write it, and no
other (`Patching`); from then on the round is `Decided` (`Knows`), and stays so
until it is closed, as nothing runs beside the advance or the end.  A round that
is over is decided or being decided again (`Deciding`): a scorecard is written
cell by cell, so between its first cell and the end of the re-derivation card and
winner may differ.  The danger is that `ScoreCheck` refuses a cell in between, as
the call then ends with half a card written and no re-derivation.  `AllScorable`
excludes it: whoever is seated in a round may be scored in it, whatever was handed
over since; this rests on `SeatedAsTheRosterSays`, and it is why a substitution
must not fall into a call.

The wins are a cardinality (`Won`, the rounds a player has won), which three
things change: a tally adds one round to it (`WonGrows`), a re-derivation may
change a round that is over, and the recount writes what it found, player by
player.  `Counted` says that the numbers are right or a recount is due at the
end of the running call; `Counts` that a recount wants the right numbers and
still has to write everyone whose number differs, and that a derivation on the
way to a tally writes only what the card says already.  `RecountRight` shows
that the recount, which counts courts, finds as many as there are rounds: nobody
sits on two courts of a round (`SeatsApart`), so courts and rounds won are in
bijection (`RowsCount`).  TLC checked `Recorded` and `Counting` on evenings with
taps, scores of past rounds, an end and a substitution before they were proved;
leaving `CountsApart` out, it showed the double count of section 5.

### Brackets

The first part of `ScoreReportsProofs` is checked for every draw, set of devices and bound.

| Theorem | Says |
|---|---|
| `TypeOKHolds` | `Spec => []TypeOK` |
| `OneAtATimeHolds` | `Spec => []OneAtATime`: a result past its lock excludes every other |
| `EventOverHolds` | `Spec => []EventOver` |
| `CarriedInvariant` | `Spec /\ LeadsOneWay => [](IInv /\ Carried)` |
| `ResultsCarriedHolds` | `Spec /\ LeadsOneWay => []ResultsCarried` |
| `PlayedByThoseInItHolds` | `Spec /\ LeadsOneWay => []PlayedByThoseInIt` |
| `ResultsStandHolds` | `Spec /\ LeadsOneWay => ResultsStand` |

*Assumptions*: `TournamentsAssumption`: feeds lead to slots of games of
the draw, byes are among its games, some game is to be played, and there is a
deciding game exactly when there is a grand final.  The draws of the runs meet
it (TLC evaluates it); that the generators always do is not proved, as they are
recursive.  The last four theorems are about events whose draw leads one way
(`OneWay` of `Draw`): games lead to later ones, no slot is fed twice, a slot
that waits for a result is empty until then, and nobody can come to both slots
of one game.  `MCScoreReports` has TLC show that of the draws of the runs and of
all single-elimination draws and plain brackets of up to nine, with and without
a third-place game, and of the medal bracket.  Double elimination is not among
them: the loser of a winners game may meet its winner again in the grand final,
and the deciding game is fed by copying.

*Argument.*  What TLC's invariants leave open is what a request still has to
execute, of any length.  `IInv` says it: the holder of the lock has its write
alone, or a `Chain`, statements that route followed by the one that reconciles
the event; anybody else has at most one statement before its lock.  `ChainOn`
shows that a statement that puts others in front of the rest leaves a chain,
which is what carries the cascade of resets, whatever its depth; each action
then has a lemma.  `Reconciled` adds that the event's status is right or a
chain, which ends by setting it, is under way; failures are what
`Undisturbed` excludes.  `EventOver` follows, as no chain is at rest.

For what the slots hold, `Carried` reads the chain (`Rest`) as a debt.
`RoutingSound` says what may be in it: one side of the result being routed after
the other; above them, what the side just put into a slot has overtaken, where
the wipe of a slot is followed by the reset of the game it is in; and always
later games than the one that is routed, so that a cascade cannot reach its own
source.  `Sent` is about results that were routed to the end; `Unsent` says that
a game without a result has sent nothing or its wipe is in the chain; `Standing`
that a result is of the sides in its game, or its reset is in the chain, or the
side it lacks is about to be put back (`Refilling`, between the two statements
of `advanceTeam`).  `Overtaken` is what `ResultsStand` needs: a reset that is
due finds a result of other sides, or an empty slot.  When nothing is being
written the chain is empty, and `ResultsCarried` and `PlayedByThoseInIt` are
what is left.  Each statement has a lemma (`ClearCarries`, `FillCarries`,
`ResetCarries`, ...); all others are `Quiet`.  That a side is never put into both
slots of a game (where `Put` would take it out of the other) needs `InHalves`: who
can be in a slot comes from its half of the draw.

TLC checked `Carrying`, with the ranks and halves of each draw, as an invariant
of the one-way events of `Brackets` before it was proved.  The proof attempt
corrected a property: `ResultsStand` first said that a result is undone only
when its *sides* have changed.  With three devices and four rounds a result may
have been written for a game one of whose sides a correction had just removed
(section 5), and that one is undone although nothing changed since it was
written; hence `\/ ~Ready(g)`.

`ScoreReportsProofs` is about the composition with the players' reports.

| Theorem | Says |
|---|---|
| `ReportsInvariant` | `ReportsSpec => [](IInv /\ ReportsInv)` |
| `ReportsKeepTypes`, `ReportsKeepOrder`, `ReportsKeepEventOver` | `ReportsSpec => []TypeOK`, `[]OneAtATime`, `[]EventOver` |
| `OneOutcomeHolds` | `ReportsSpec => []OneOutcome` |
| `ConfirmedScoreCountsHolds` | `ReportsSpec => []ConfirmedScoreCounts` |
| `ReportsCarryResults`, `ReportsKeepPlayers`, `ReportsLetStand` | `ReportsSpec /\ LeadsOneWay =>` `[]ResultsCarried`, `[]PlayedByThoseInIt`, `ResultsStand` |

*Argument.*  `ScoringStep`: every step of the composition is one of
`BracketPlay`, leaves its state alone or spends a failure, so its invariants
carry over.  `ReportsInv` adds that a report or an errand is about a game that
exists (rows go with their game), that who records a report has claimed it and
nobody else has (`Claimed`), and that a confirmed report whose game has no
result yet is in the hands of a request that records it or opens it again
(`Awaited`).

### Classes

`ClassSeatsProofs` is checked for every class, set of players, payments and
requests and every budget.

| Theorem | Says |
|---|---|
| `TypeOKHolds` | `Spec => []TypeOK` |
| `CreditsNeverMintedHolds` | `Spec => []CreditsNeverMinted`, while no packs are bought |
| `ChargedNotStrandedHolds` | `Spec /\ []Undisturbed => []ChargedNotStranded` |
| `SeatsInTurnHolds` | `Spec /\ []Orderly => []SeatsTaken` |

*Assumptions*: `ClassAssumption`, and

* for the second, `Budget["pack"] = 0`: `grantPackCredits` reads a balance and
  writes it back, and the difference can be minted by a second delivery
  (section 5);
* for the third, `Undisturbed`: nobody books over a row that is there, opens two
  checkouts, or is marked as paid in cash after starting one; and no payment is
  booked between a promotion's pick and its write, or while the class is being
  deleted.  Any number of requests still race each other, and any statement may
  fail.  Without any one of the five conditions TLC finds a customer stranded
  (section 5); every state of the afternoons of `ClassAfternoons` in which nobody
  books or pays twice satisfies them all;
* for the last, a finite set of players, a capacity (`Seats > 0`), and `Orderly`:
  one request at a time, nobody books the seat they are offered, and nothing
  fails, is stopped, paid, removed, edited or deleted; the orderly afternoon of
  `ClassAfternoons` satisfies it.

*Argument.*  `TypeOK` also says (`Sound`) what a handler knows where it stands:
one that settles a seat has a player and the row it read.
`CreditsNeverMinted` counts a player's credits in three places, the balance, a
live credit on the seat, and the requests that hold one in hand; it is
inductive given the types.  The lemmas sort the steps into `Calm` (no balance
changes, no seat gains a live credit and nobody takes one in hand), `Takes` and
`Gives`: one request takes a credit off the balance or the seat, or puts it
back, and `InHandOneMore` and `InHandOneLess` give the difference in the
cardinality.  The step that carries the argument is `ClaimOK`: the claim is
conditional, so a live credit on a seat goes into exactly one hand.

`ChargedNotStranded` speaks of payments and rows, but what breaks it is what a
handler read some statements ago.  The inductive invariant `Ledger` therefore has
two parts.  `Books` ties each payment to its player's row: the row is unpaid until
the payment is captured, and paid by that payment alone (`Follows`).  `Fair` says
what each handler's reading is still worth: a payment it read belongs to the
player it read it from (`Owned`); one about to mark a refund is about to mark one
that Stripe has made (`Stands`), so that `Mark` may write over the row whatever
happened since; and a deletion has every charge still before it or gives up
(`Clears`), so that `DeleteDrop` finds none left.  `FairStays` shows that other
handlers' steps do not disturb a reading, because a payment's player and a refund
are final (`Later`) and no charge is booked under a deletion; `LedgerGoes` puts
the two together, and each group of statements has one lemma.  The conditional
write of `ExpireOffer` is what keeps a seat that was paid in time from expiring.

`SeatsInTurn` is not inductive either: between the write that frees a seat and the
promotion's write the class has a free seat and people waiting.  `InTurn` allows
one such seat, and only while a request is at a statement of the promotion; `Found`
keeps what a request has counted or read (`~Full`, a row still waiting), which
nothing changes while no other request runs.  TLC checked both
invariants on instances larger than the runs before they were proved.

### Ladders

`LadderChallengesProofs` is checked for every ladder, range, caps, number of
requests in flight and budget.

| Theorem | Says |
|---|---|
| `TypeOKHolds` | `Spec => []TypeOK` |
| `AgreedBeforeClaimedHolds` | `Spec => []AgreedBeforeClaimed` |
| `ResolvedOnceHolds` | `Spec => ResolvedOnce` |
| `RemindedOnceHolds` | `Spec => []RemindedOnce` |
| `CapsHeldHolds` | `Spec => []CapsHeld` |

*Assumptions*: `LadderAssumption` only.

*Argument.*  `StepOK` shows of every action that it keeps the types, and which
`Changes` it makes: each challenge stays or `Advances` to a status that may
follow, or one row gets one reminder; all but issues and reports are `Quiet`.
`ResolvedOnce` follows at once.  `AgreedBeforeClaimed` needs `Agreed`: what a
challenger's report in flight is about was accepted at some time or is decided
already, so a void in between does not matter.  `RemindedOnce` needs `Sent`: a
reminder was sent only if its flag is up.  `CapsHeld` needs
`CapsWithInserts`: open challenges *and* inserts in flight together stay within
the caps, the other requests and the failed counts.

### Registration and fees

`RegistrationProofs` is checked for every
event, set of people, phones and requests, every cap and every budget, of the
two modules composed.

| Theorem | Says |
|---|---|
| `CapHeldHolds` | `FeesSpec => []CapHeld` |
| `FeesSettledHolds` | `FeesSpec => []FeesSettled` |
| `OneEntryEachHolds` | `OwnPhones`, hence `FeesSpec => []OneEntryEach` |

*Assumptions*: `RegistrationAssumption`; for `OneEntryEachHolds` also
`OwnPhones`, that no two people share a phone, as the runs have it.  The code
files whoever signs up with the phone of a registrant under that registrant's
row, and then a partner may be entered under a name that is not theirs
(section 5).

*Argument.*  `Inv` has a half per module.  `RegistrationInv` gives every request
its shape, one call, or a partner's registration inside the sign-up that brings
them; whoever is past the lock holds it; and a registration's number was given
out once.  `CapOK` then says that the entries let in on the count stay within
the cap, and below it while a counted sign-up is still to insert (`Pending`):
only the holder of the lock is one of those, so there is at most one.  An inner
registration waits for a lock that is taken, so the hang of `SignUpWithPartner`
does not disturb the cap.  `FeesInv` says that what is paid is in the books, that
a call about to write the status has booked its payment unless its registration
is gone, and that a captured
payment is settled, its registration gone, or its webhook still to be
acknowledged; `FeesSettled` is a part of it.  The steps of each module are lemmas
that leave the other's half alone (`MoneyMoves`, `Untouched`).

`OneEntryEach` needs what the holder of the lock has found out, and that it stays
true until the insertion (`Knows`): from `CheckContact` on, nobody known by this
name and phone is in the division (`NotYet`); from `FindRow` on, the row found
is the only one with this phone that is in the event, unless the person is
`Twofold`: has an account, or a look-up may have failed.  The entries then keep
`RowOnce`, `KnownOnce` and, for who is not `Twofold`, `OneRow`.  `OneRow` is
what makes `linkPartner` safe, which checks rows and not names.  Only the holder
of the lock adds entries or touches rows (`EntryAdded`, `RowsGrow`); everything
that runs beside it only rewrites or removes entries (`Quiet`), deletions and
approvals of other requests included, and an entry that goes away makes nobody
known.

### DUPR submissions

`DuprSubmissionsProofs` is checked for every set of games and requests, every
chunk size, limit on attempts and budget of calls and failures.

| Theorem | Says |
|---|---|
| `DuprTyped` | `Spec => []TypeOK` |
| `OnDuprOnceHolds` | `Spec => []OnDuprOnce` |
| `CorrectionsArriveHolds` | `Spec => []CorrectionsArrive` |

*Assumptions*: `DuprAssumption` only.

*Argument.*  DUPR refuses an identifier it has seen, deleted or not.  So a result
is doubled only by a row that moves to another generation while the entry of an
earlier one is live.  `Safe` says that this cannot be under way: of each row
(`RowsSound`) and of each copy of a row in a caller's hands (`CallerSound`), the
generations before it were all used and are dead, and its code is the entry of
that very generation.  The second half is needed because the handlers select
rows first and call DUPR afterwards with what they read: the copies of whoever
holds the lock are in step with the rows (`InStep`), unless the game went away
in between.  That holds as every statement that moves a row to another
generation is made under `lockDuprEvent`; `queueDuprSubmission`, which is not,
changes the status of a row, never its generation.  Lost answers, failed
statements and restarts leave a used identifier behind, and the next attempt
meets a conflict, not a second entry.

`CorrectionsArrive` is about a row at rest; its invariant `Arrives` is about every
row, while no statement has failed and nothing has restarted.  A row marked as
submitted has a code, and the entry of that code says what the result says
(`Fine`), or somebody is on the way to write the row or take it away
(`Excused`).  That somebody need not be named: a score is followed by its place
in the queue, an award by its reversal, a removal by its row, and each step lemma
shows that who attends to a game goes on attending to it until the row says so.
The exception is the request that found no row when it looked: if an import has
made one meanwhile, its insert is refused, so it does not count.

What a flush holds is older than the tables, so `Knows` says how old it may be:
the score it read is still the game's, and after the call the entry says it,
unless the game was scored meanwhile (`crossed`), undone, forfeited or deleted
(`Given`).  Undoing and forfeiting take no `lockDuprEvent`; the first is excused by
what `CorrectionsArrive` says itself, the second by the reversal that follows.
The other danger is a deletion that was queued long ago and is made when the
game has a result again: DUPR is asked by code, and the code may be that of a new
row.  It is not (`RowsDoomed`): the codes in the queue, in memory and in the
ticker's hands (`Doomed`) are no row's and in no flush's hands, except for the rows
of a reversal about to empty them, which holds the lock between its two statements.
This is why a failed statement has to be excused: when the rows are not emptied, the
next correction goes to an entry that the ticker deletes.  `Moves` states what
a step has to respect, `OthersKnow` and `MovesArrive` that this is enough, and
there is one step lemma for each group of statements.  TLC checked `Arrives` on the
events of `DuprImports` and on one with calls of every kind before it was proved.

### Only model-checked

In the rotation night: how even court time stays over a whole night
(`EqualCourtTime`: each round depends on the counts of all earlier ones), round 1
with placements
(`PlacementHonoured`, `EveryoneOpens`); what double elimination's
slots hold (`ResultsCarried`, `PlayedByThoseInIt`, `ResultsStand`) and
`TwoLossesAndOut`.
All liveness is out of TLAPS's reach.

## 5. Where code and comments disagree

Kept as runs:

* `LiveJoinBricks`: a newcomer seated by an advance that races
  `AddRotationPlayer` is then appended to the bench by `joinBench`; every
  later advance is refused, though `ladder_rotation.go:1092` says it "can never
  permanently strand a player".
* `BracketDecider`: the deciding game of a grand final hangs on no feed link, so
  the cascade of a correction stops at game 1.  When game 1 is played again by
  other sides and the lower one wins again, the deciding game gets the new
  sides and keeps its old result, and the event is over, though
  `service.go:9555` says re-scoring game 1 "reconciles the reset game".
* `SignUpWithPartner`: `linkPartner` registers a partner who is not in the event
  yet by calling `RegisterPlayer`, which waits for the lock its own caller
  holds (`service.go:4764`, `:5021`).  The request hangs, and every later
  sign-up of the event with it, though `service.go:5378` says it "never blocks
  the registrant's own successful sign-up".

Also reachable in the models, or seen while writing them, and described here
instead of in a run each.

*Rotation nights*

* A reopened night counts its last round twice (End, Reopen, End), though
  `rotation_corrections.go:155` promises it is as after a long pause.
* `EndRotationSession` (2552) ends the night without winners when its first
  read fails; the comment under it says "Refuse to end on a failed read"
  (second disjunct of `EndRound`).
* `SetRotationScore` (682): a score written while its round is being closed is
  stored and never counted, as the handler still sees the round as current.
* `ReportRotationCourt` (1844): a tap checked before the round closes is
  written after it was tallied; "a stale report … is rejected" (1808).
* `retallyRotationWins` overlapping an advance loses the advance's wins.
* `retallyRotationWins` (`rotation_corrections.go:62`) counts every court with a
  winner, those of the round in play too.  A winner is tapped, then a score of
  an earlier round is corrected, then the buzzer: the recount has credited the
  tapped court, and the tally credits it again.  No two calls overlap.  The
  comment at line 29 says the rule is kept identical "so a retally can never
  disagree with a night that was never corrected".  `LiveRecord` has no taps
  (`CountsApart`, section 4).
* `ResumeRotationSession` (1017): the patch is conditional on the status alone.
  A second device resumes, the round advances, the night is paused again: the
  first resume then starts it with an older round's deadline.  The comment
  (1015) says the condition is there as otherwise "a deadline computed from a
  stale paused_at would be written over a round that had already moved on".
  The evening `Overtaken` of `LiveRacing` reaches it.
* `SetRotationScore`: a score is checked and written in two statements.  When
  the player is substituted in between, a round without a score until then
  keeps one of somebody who no longer has a seat in it; hence `BetweenCalls` in
  `ScoresHaveSeatsHolds`, and one request at a time in `LiveRecord`.
* `SetRotationPlayerActive` (1247): two sit-outs at once leave three players.
* `RemoveRotationPlayer` (1205): a removal checked before Start and executed
  after it blanks a seat (`RemoveCheck`, `StartWrite`, `RemoveDelete`).
* An advance that has read the substitutions overwrites one committed before it
  writes, and seats the player who left, though
  `add_rotation_substitute_rpc.sql:64` says an advance "can no longer
  interleave with it".  `LiveRecord` shows that with one request at a time
  this does not happen.
* A substitution after an advance has read who is gone and before it writes can
  brick the night: the plan seats the newcomer, who is active by then, *and* the
  player they replaced; the next advance sends both to one place, and every
  later one is refused until the night is ended.  Earlier in the advance a
  substitution does no harm (`HandsOff`, section 4).
* A return that was checked before the same player was substituted out
  (`SetRotationPlayerActive`) brings them back beside their substitute; so does a
  return after End, when `BackCheck` does not ask, and Reopen.
* `engine/rotation.go:8` ("everyone re-pairs with a new partner") does not hold
  for courts completed from the bench, nor is the bench FIFO (`:19`): it is
  ordered by games played.

*Brackets and reports*

* `bothSidesPresent` (`service.go:9332`) is asked before the lock is taken: with
  a correction upstream in between, a game is completed with one side empty,
  which "no client … can create".  The same race writes a score under the
  sides that have just replaced those it was entered for.
* `StartMatch` (12805) has the same gap, and a game already in progress stays so
  when the cascade empties one of its sides.
* If the cascade of `advanceTeam` (13890) fails after the new side is in the
  slot, entering the result again does not resume it: the side is no longer new.
* `Knockout(3)`: `addThirdPlaceGame` (8709) links a semifinal that was a bye, so
  the third-place game never has two sides and the event is never over;
  canceled games keep an event open too (`syncEventStatus` counts everything
  that is not completed, 9683), though "nothing is left to play".
* An organizer's score written between the claim of a report and its recording
  is overwritten by the confirmed report, though `score_reports.go:15` says the
  organizer's "always wins".  A forfeit does not supersede an open report.
* A stop between the claim and `RecordScore` leaves a report confirmed without
  a result; the row blocks every later report of that game, also after the
  result was undone.

*Classes*

* A canceled seat whose refund failed is left for the sweep, canceled and paid.
  Booking the class again writes `paid = false` over it (`coaching.go:7194`);
  nothing refunds that payment any more, though `coaching.go:7003` says an
  outage does not "permanently strand a paying customer's money".
* A second delivery of a pack purchase that comes between the first one's write
  of the balance and its last write (`applied_at`), or after that one failed
  unnoticed, grants the pack again (`grantPackCredits`, `coaching.go:6147`).
* `Enroll`, a promotion and the coach's promotion count the seats and write
  later (6939): two of them at once overbook the class.
* Two promotions may pick the same row; the second turns a seat that was paid
  in between into an unpaid offer.
* A checkout begun before a cancellation is completed after the seat was booked
  again with a credit: the credit on the seat is lost.  A payment for a class
  that was deleted is acknowledged and kept, also one booked between the
  deletion's read of the seats and its last statement.
* A seat that is marked as paid in cash forgets the payment that is on it
  (`CoachMarkEnrollmentPaid`, `coaching.go:7328`): its cancellation refunds
  nothing.  Of two checkouts of one player the second is captured and
  acknowledged, and never refunded (`coaching.go:7472`).
* The removal of an offered seat does not roll it on (`CancelWrite`), and a
  player who books a class they were offered loses the offer to the waitlist.
* When the answer of the restoring call is lost, a credit is restored twice; a
  stop between claim and restore loses it.

*Ladders*

* `voidActiveChallengesForEntrant` voids without clearing `play_by`, so a
  challenge the organizer's reorder voided blocks the pair for a day, though
  `ladder_challenges.go:209` means the cooldown for challenges that were ducked.
* A challenger whose report read an accepted challenge reverses an organizer's
  void (`ResolvedOnce` allows voided to completed for that reason).
* Caps, duplicate check and cooldown pass when their reads fail, and the range
  is unlimited then.
* `AddLadderEntrant` racing a removal leaves a gap in the ladder.

*Registration and fees*

* The lock is a mutex of one process; with two instances of the service the cap
  and the duplicate check race.  A failed count waives the cap.
* Two people who share a phone: on the public form without an account the
  second is refused or filed under the row of the first, though the comment at
  `service.go:4487` says they would "be wrongly blocked" without the name.
* Somebody with two player rows can be entered twice in a division by
  `linkPartner`.  A second row takes an account, on top of a row as a guest, or a
  look-up by phone that failed (5290, where a failure counts as no match), which
  is why `OneEntryEach` excepts these partners.  Somebody without a phone can be
  entered twice anyway, also by a promotion whose deletion of the waitlist row
  failed (4377).
* `ApproveRegistration` approves the partner's rows in all divisions, and asks
  for no cap.
* A capture of something already marked as paid is not recorded.  A capture for
  a registration that was deleted is in no book: Stripe's webhook is acknowledged,
  and so is any whose registration is deleted while the payment is being booked
  (the insertion's 409 is taken for a repeated webhook, though it is the foreign
  key's, 10012); PayPal's is refused because the charge cannot be worked out
  (addons.go:288), and repeated as long as PayPal tries.  `FeesSettled` is about
  registrations that are there.
* A request that does not claim to be for oneself (`self` is the client's word)
  is not held to the cap (5107).  A failed read of `require_approval` approves
  the entry (4401).
* `linkPartner` pairs with two updates (4793): when one fails, or the look-up in
  the division does (4740), only one of the two has the other as partner.

*DUPR*

* An import whose read of the existing rows fails queues every completed game
  again (13336), those submitted and orphaned too; DUPR refuses the identifiers
  it has seen, so nothing counts twice.
* `queueDuprSubmission` is not under `lockDuprEvent`, though `service.go:13366`
  says the lock "serializes ALL DUPR-submission mutations": a correction written
  while an import has its game in hand is overwritten by "submitted" and never
  sent (`crossed`).
* Reversals select rows that are `submitted`.  A game that was corrected after
  its import is `pending`, with its code: a forfeit, a wipe or a removal of the
  whole event passes it by, and the first two delete its row, though
  `dupr_reverse.go:15` has them reverse results "instead of orphaning them live
  on players' ratings forever" (`missed`).
* `reverseDuprForMatches` gives the lock back before its caller deletes the
  games; an import in between submits a result nothing will reverse (`missed`).
* A reversal deletes the row, so the next generation is 0 again: after a forfeit
  that is played after all, DUPR refuses the identifier and the row is
  "orphaned", with nothing on DUPR, though `service.go:13587` says the result
  "stays correctly on DUPR".
* `markSubmission` clears the code when a game that is on DUPR has no result, or
  a player without an account, at the time of an import; it can be neither
  corrected nor removed afterwards.

## 6. Not modelled

In the rotation night: the `stop_at` clock limit and changes of the limits
(`SetRotationSessionLimits`; `planned_rounds` is a constant), automatic import
and RSVP prefill at Start, scorecard rounds without courts, ratings and names,
pushes, code paths for databases whose migrations have not run, read-only
boards.  Before Start, `SetActive` and `SetStartCourt` make the check of the
status and the update one step, and `RiverNights` makes no call of the setup
after Start: what a removal does whose delete comes after Start is in
`RotationSetup`, and in section 5, but in no run.  A round needs at least four active players to start; nights with fewer
are refused by Start.

In bracket scoring: pool results that seed or build a playoff
(`maybeSeedPlayoff`, `maybeAutoBuildPlayoff`), compass and consolation draws,
DUPR, auto-start of the next game, ties of team events, manual edits of
participants, and failures of the two reads before the lock (a failed
`bothSidesPresent` lets the result through, 9332, a failed read of the event
lets `applySeries` proceed without the lock, 9337).

In classes: the fallback of a credit's restoring and spending when the stored
procedure fails, a read and a write that may lose a change in between
(`coaching.go:6240`, `:6262`; the procedures are single statements in `Restore`
and `EnrollSpend`); reminders, the student roster, the cancellation cutoff, a second
class that shares the credits, prices that change.  On ladders: settings that
change under open challenges, the mirror of a ladder into an event's
registrations, test entrants.  For DUPR: the deletion of a range of sessions,
byes and DreamBreakers, ratings, sign-on; one row per game is assumed.  In
registration: everything that refuses before
a statement has written (invite code, cutoff, DUPR, rating band), identity by
e-mail, moving and merging registrations, imports, a second process.  In fees:
amounts, add-ons, Connect accounts, event passes.

Parts other than these are listed with reasons in `PROJECT.json`: some await
their module (the next section), most are single-statement edits and views, in
which no two steps can be put in the wrong order.

## 7. Plan

1. Auto-start of the next game, play-offs built from pools, compass and
   consolation draws, on `BracketPlay` and `Draw`.
2. `Bookings`: the 1:1 calendar, sharing credits with `ClassSeats`.
3. `DailyJobs`, `Ties`, poster credits: small claim protocols.

Proofs to add: for brackets, what double elimination carries, which needs the
deciding game's copy in `Carried` and something weaker than halves.
