------------------------------ MODULE ClassSeats ------------------------------
(* The seats of one coaching class and the money behind them: enrolment,    *)
(* waitlist, offers, cancellations, refunds, class credits, checkouts, and   *)
(* the background sweeps (coaching.go).  Handlers run concurrently without a *)
(* lock; every statement on the database or on Stripe is a step.             *)
EXTENDS Integers, Sequences, FiniteSets

CONSTANTS
    Players,    \* accounts that may book the class
    Nobody,     \* no account, no payment
    Requests,   \* handlers that may be in flight at once
    Intents,    \* Stripe payments that may be started
    Seats,      \* the class's capacity, 0 for unlimited
    Priced,     \* the class costs something
    Granted,    \* class credits each player starts with
    PackSize,   \* credits in a class pack
    Budget      \* how often each kind of call, or fault, happens

Kinds == {"enroll", "cancel", "remove", "promote", "cash", "pay", "hear",
          "lapse", "near", "edit", "delete", "pack", "fault", "stop"}

ASSUME ClassAssumption ==
    /\ Nobody \notin Players \cup Intents
    /\ Intents \cap {"none", "credit", "manual"} = {}
    /\ IsFiniteSet(Requests)
    /\ Seats \in Nat /\ Granted \in Nat /\ PackSize \in Nat /\ Priced \in BOOLEAN
    /\ Budget \in [Kinds -> Nat]

VARIABLES
    row,      \* coaching_enrollments: the row of each player
    made,     \* players in the order their rows were inserted (created_at)
    credits,  \* coaching_credits
    grant,    \* coaching_credit_grants: the pack each player bought
    intent,   \* Stripe payments; booked: the webhook has seen the seat
    class,    \* coaching_classes
    req,      \* requests in flight
    left      \* the budget not used up

vars == <<row, made, credits, grant, intent, class, req, left>>

Statuses == {"absent", "enrolled", "waitlisted", "offered", "expired", "canceled"}

\* payment_ref is ref, prefixed with "refunded:" when back; late: an offer's
\* deadline has passed.
Row == [status : Statuses, paid : BOOLEAN,
        ref : {"none", "credit", "manual"} \cup Intents, back : BOOLEAN, late : BOOLEAN]
NoRow == [status |-> "absent", paid |-> FALSE, ref |-> "none", back |-> FALSE, late |-> FALSE]

\* A request remembers the rows it read (for a sweep, those still to be dealt
\* with), whether it spent a credit, how its last settlement went and, for a
\* pack, the balance it read.
Nothing == [p \in Players |-> NoRow]
Idle == [op |-> "none", pc |-> "idle", who |-> Nobody, seen |-> Nothing, pi |-> Nobody,
         spent |-> FALSE, got |-> "nothing", failed |-> FALSE, balance |-> 0]

Init ==
    /\ row = [p \in Players |-> NoRow]
    /\ made = <<>>
    /\ credits = [p \in Players |-> Granted]
    /\ grant = [p \in Players |-> "none"]
    /\ intent = [i \in Intents |-> [of |-> Nobody, status |-> "none", booked |-> FALSE]]
    /\ class = [open |-> TRUE, seats |-> Seats, soon |-> FALSE]
    /\ req = [q \in Requests |-> Idle]
    /\ left = Budget

-----------------------------------------------------------------------------
(* Vocabulary.                                                              *)

\* Offered seats are held during their claim window (classEnrolledCount).
HoldingEnrolled == {p \in Players : row[p].status = "enrolled"}
Holding == {p \in Players : row[p].status \in {"enrolled", "offered"}}
Full == class.seats > 0 /\ Cardinality(Holding) >= class.seats

\* A refund is still owed on a row like this once its seat is given up.
Live(r) == r.ref \in {"credit"} \cup Intents /\ ~r.back

Uses(k)  == left[k] > 0 /\ left' = [left EXCEPT ![k] = @ - 1]
At(q, l) == req[q].pc = l
Go(q, m) == req' = [req EXCEPT ![q] = m]
To(q, l) == Go(q, [req[q] EXCEPT !.pc = l])
Done(q)  == Go(q, Idle)
Start(q, op, l, p, seen) ==
    req[q] = Idle /\ Go(q, [Idle EXCEPT !.op = op, !.pc = l, !.who = p, !.seen = seen])

\* What a read of these players' rows returns, and whose rows it returned.
Only(S) == [p \in Players |-> IF p \in S THEN row[p] ELSE NoRow]
Rows(m) == {p \in Players : m.seen[p].status # "absent"}

\* An update by id: nothing happens to a row that is gone.
Patch(p, r) == row' = [row EXCEPT ![p] = IF @.status = "absent" THEN @ ELSE r]

-----------------------------------------------------------------------------
(* Settling the money of a seat (settleEnrollmentRefund).                    *)

\* Where the handler goes once the settlement is over.
After(m) ==
    CASE m.op = "settle" -> [m EXCEPT !.pc = "swp.next", !.seen[m.who] = NoRow]
      [] m.op = "delete" -> [m EXCEPT !.pc = "del.free"]
      [] OTHER           -> [m EXCEPT !.pc = "can.write"]

\* The branch the row that was read calls for.
Settle(m) ==
    LET r == m.seen[m.who]
    IN  IF r.ref = "credit" /\ ~r.back THEN [m EXCEPT !.pc = "set.claim"]
        ELSE IF r.paid /\ r.ref \in Intents /\ ~r.back THEN [m EXCEPT !.pc = "set.refund"]
        ELSE After([m EXCEPT !.got = "nothing"])

Settled(q, got) ==
    Go(q, After([req[q] EXCEPT !.got    = got,
                               !.failed = IF got = "failed" THEN TRUE ELSE @]))

\* Only one settlement can turn a live credit into a refunded one.
ClaimBlindly(q) ==
    /\ At(q, "set.claim")
    /\ UNCHANGED <<made, credits, grant, intent, class, left>>
    /\ Patch(req[q].who, [row[req[q].who] EXCEPT !.ref = "credit", !.back = TRUE])
    /\ To(q, "set.restore")
Claim(q) ==
    /\ At(q, "set.claim")
    /\ UNCHANGED <<made, credits, grant, intent, class>>
    /\ LET p == req[q].who
       IN  \/ /\ UNCHANGED left
              /\ IF row[p].ref = "credit" /\ ~row[p].back
                 THEN /\ row' = [row EXCEPT ![p].back = TRUE]
                      /\ To(q, "set.restore")
                 ELSE Settled(q, "nothing") /\ UNCHANGED row
           \/ Uses("fault") /\ Settled(q, "failed") /\ UNCHANGED row

\* restoreCredit; when it fails the claim is taken back.
Restore(q) ==
    /\ At(q, "set.restore")
    /\ UNCHANGED <<row, made, grant, intent, class>>
    /\ \/ /\ UNCHANGED left
          /\ credits' = [credits EXCEPT ![req[q].who] = @ + 1]
          /\ Settled(q, "returned")
       \/ Uses("fault") /\ To(q, "set.revert") /\ UNCHANGED credits

Revert(q) ==
    /\ At(q, "set.revert")
    /\ UNCHANGED <<made, credits, grant, intent, class>>
    /\ LET p == req[q].who
       IN  \/ /\ UNCHANGED left
              /\ row' = [row EXCEPT ![p].back = IF row[p].ref = "credit" THEN FALSE ELSE @]
           \/ Uses("fault") /\ UNCHANGED row
    /\ Settled(q, "failed")

\* Stripe refunds a payment once; asking again is no error.
Refund(q) ==
    /\ At(q, "set.refund")
    /\ UNCHANGED <<row, made, credits, grant, class>>
    /\ \/ /\ UNCHANGED left
          /\ intent' = [intent EXCEPT ![req[q].seen[req[q].who].ref].status = "refunded"]
          /\ To(q, "set.mark")
       \/ Uses("fault") /\ Settled(q, "failed") /\ UNCHANGED intent

Mark(q) ==
    /\ At(q, "set.mark")
    /\ UNCHANGED <<made, credits, grant, intent, class>>
    /\ LET p == req[q].who
       IN  \/ /\ UNCHANGED left
              /\ Patch(p, [row[p] EXCEPT !.ref = req[q].seen[p].ref, !.back = TRUE])
           \/ Uses("fault") /\ UNCHANGED row
    /\ Settled(q, "returned")

-----------------------------------------------------------------------------
(* A freed seat goes to whoever has waited longest (promoteNextWaitlisted).  *)

\* The handler that freed it goes on with its next row, or is done.
Promoted(q) == IF req[q].op = "expire" THEN To(q, "exp.next") ELSE Done(q)

Waiting == {p \in Players : row[p].status = "waitlisted"}

PromoteCount(q) ==
    /\ At(q, "pro.count")
    /\ UNCHANGED <<row, made, credits, grant, intent, class>>
    /\ \/ UNCHANGED left /\ IF class.open /\ ~Full THEN To(q, "pro.pick") ELSE Promoted(q)
       \/ Uses("fault") /\ class.open /\ To(q, "pro.pick")

PromotePick(q) ==
    /\ At(q, "pro.pick")
    /\ UNCHANGED <<row, made, credits, grant, intent, class>>
    /\ \/ UNCHANGED left /\ Waiting = {} /\ Promoted(q)
       \/ /\ UNCHANGED left
          /\ \E i \in DOMAIN made :
                /\ made[i] \in Waiting /\ \A j \in 1..i - 1 : made[j] \notin Waiting
                /\ Go(q, [req[q] EXCEPT !.who = made[i], !.pc = "pro.write"])
       \/ Uses("fault") /\ Promoted(q)

\* With a price and time for a claim window the seat is offered.
PromoteWrite(q) ==
    /\ At(q, "pro.write")
    /\ UNCHANGED <<made, credits, grant, intent, class>>
    /\ LET p == req[q].who
       IN  \/ /\ UNCHANGED left
              /\ Patch(p, IF Priced /\ ~class.soon
                          THEN [row[p] EXCEPT !.status = "offered", !.paid = FALSE, !.late = FALSE]
                          ELSE [row[p] EXCEPT !.status = "enrolled"])
           \/ Uses("fault") /\ UNCHANGED row
    /\ Promoted(q)

-----------------------------------------------------------------------------
(* Booking a seat (Enroll).                                                  *)

EnrollRead(q, p) ==
    /\ class.open /\ row[p].status \notin {"enrolled", "waitlisted"}
    /\ Uses("enroll")
    /\ Start(q, "enroll", "enr.count", p, Only({p}))
    /\ UNCHANGED <<row, made, credits, grant, intent, class>>

\* A count that fails reads as an empty class.
EnrollCount(q) ==
    /\ At(q, "enr.count")
    /\ UNCHANGED <<row, made, credits, grant, intent, class>>
    /\ \/ UNCHANGED left /\ To(q, IF Full THEN "enr.wait" ELSE "enr.spend")
       \/ Uses("fault") /\ To(q, "enr.spend")

\* spend_coach_credit, unless the player asks to pay (skipCredit).
EnrollSpend(q) ==
    /\ At(q, "enr.spend")
    /\ UNCHANGED <<row, made, grant, intent, class, left>>
    /\ LET p == req[q].who
       IN  \/ /\ Priced /\ credits[p] > 0
              /\ credits' = [credits EXCEPT ![p] = @ - 1]
              /\ Go(q, [req[q] EXCEPT !.pc = "enr.write", !.spent = TRUE])
           \/ To(q, "enr.write") /\ UNCHANGED credits

\* Insert, refused when the row exists by now or the class is gone; or update
\* of the row that was read.
Upsert(q, p, r) ==
    IF req[q].seen[p].status # "absent" THEN Patch(p, r) /\ UNCHANGED made
    ELSE IF class.open /\ row[p].status = "absent"
    THEN row' = [row EXCEPT ![p] = r] /\ made' = Append(made, p)
    ELSE UNCHANGED <<row, made>>

EnrollWait(q) ==
    /\ At(q, "enr.wait")
    /\ UNCHANGED <<credits, grant, intent, class>>
    /\ LET p == req[q].who
       IN  \/ /\ UNCHANGED left
              /\ Upsert(q, p, [row[p] EXCEPT !.status = "waitlisted", !.paid = FALSE])
           \/ Uses("fault") /\ UNCHANGED <<row, made>>
    /\ Done(q)

EnrollWrite(q) ==
    /\ At(q, "enr.write")
    /\ UNCHANGED <<credits, grant, intent, class>>
    /\ LET p == req[q].who
           s == req[q].spent
       IN  \/ /\ UNCHANGED left
              /\ Upsert(q, p, [row[p] EXCEPT !.status = "enrolled", !.paid = ~Priced \/ s,
                                             !.ref  = IF s THEN "credit" ELSE @,
                                             !.back = IF s THEN FALSE ELSE @])
           \/ Uses("fault") /\ UNCHANGED <<row, made>>
    /\ Done(q)

-----------------------------------------------------------------------------
(* Giving a seat up: CancelClassEnrollment, CoachRemoveEnrollment.           *)

CancelRead(q, p) ==
    /\ row[p].status \in {"enrolled", "offered", "waitlisted"}
    /\ Uses("cancel") /\ req[q] = Idle
    /\ LET m == [Idle EXCEPT !.op = "cancel", !.who = p, !.seen = Only({p})]
       IN  Go(q, IF row[p].status = "waitlisted" THEN After(m) ELSE Settle(m))
    /\ UNCHANGED <<row, made, credits, grant, intent, class>>

RemoveRead(q, p) ==
    /\ row[p].status # "absent"
    /\ Uses("remove") /\ req[q] = Idle
    /\ LET m == [Idle EXCEPT !.op = "remove", !.who = p, !.seen = Only({p})]
       IN  Go(q, IF row[p].status \in {"enrolled", "offered"} THEN Settle(m) ELSE After(m))
    /\ UNCHANGED <<row, made, credits, grant, intent, class>>

\* A removal rolls the seat on only when it was an enrolled one.
CancelWrite(q) ==
    /\ At(q, "can.write")
    /\ UNCHANGED <<made, credits, grant, intent, class>>
    /\ LET p == req[q].who
       IN  \/ /\ UNCHANGED left
              /\ Patch(p, [row[p] EXCEPT !.status = "canceled"])
              /\ IF req[q].op = "cancel" \/ req[q].seen[p].status = "enrolled"
                 THEN To(q, "pro.count") ELSE Done(q)
           \/ Uses("fault") /\ Done(q) /\ UNCHANGED row

-----------------------------------------------------------------------------
(* The coach's other controls.                                               *)

\* CoachPromoteEnrollment: any row of the class, counted and then written.
ManualCount(q, p) ==
    /\ row[p].status # "absent" /\ ~Full
    /\ Uses("promote") /\ Start(q, "promote", "man.write", p, Only({p}))
    /\ UNCHANGED <<row, made, credits, grant, intent, class>>

ManualWrite(q) ==
    /\ At(q, "man.write")
    /\ Patch(req[q].who, [row[req[q].who] EXCEPT !.status = "enrolled"])
    /\ Done(q)
    /\ UNCHANGED <<made, credits, grant, intent, class, left>>

\* CoachMarkEnrollmentPaid: paid in cash.
MarkPaidInCash(p) ==
    /\ row[p].status # "absent" /\ Uses("cash")
    /\ Patch(p, [row[p] EXCEPT !.status = "enrolled", !.paid = TRUE,
                               !.ref = "manual", !.back = FALSE, !.late = FALSE])
    /\ UNCHANGED <<made, credits, grant, intent, class, req>>

\* UpdateClass changes the capacity and promotes nobody.
EditClass(n) ==
    /\ class.open /\ Uses("edit")
    /\ class' = [class EXCEPT !.seats = n]
    /\ UNCHANGED <<row, made, credits, grant, intent, req>>

\* DeleteClass settles every seat with money on it, one after the other, and
\* gives up when one of them could not be settled.
DeleteRead(q) ==
    /\ class.open /\ Uses("delete")
    /\ Start(q, "delete", "del.next", Nobody,
             Only({p \in Players : row[p].status \in {"enrolled", "offered", "canceled"}
                                     /\ Live(row[p])}))
    /\ UNCHANGED <<row, made, credits, grant, intent, class>>

DeleteNext(q) ==
    /\ At(q, "del.next")
    /\ UNCHANGED <<row, made, credits, grant, intent, class, left>>
    /\ LET m == req[q]
       IN  IF Rows(m) = {} THEN IF m.failed THEN Done(q) ELSE To(q, "del.drop")
           ELSE \E p \in Rows(m) : Go(q, Settle([m EXCEPT !.who = p]))

DeleteFree(q) ==
    /\ At(q, "del.free")
    /\ UNCHANGED <<made, credits, grant, intent, class>>
    /\ LET p == req[q].who
           m == [req[q] EXCEPT !.pc = "del.next", !.seen[p] = NoRow]
       IN  /\ \/ /\ UNCHANGED left
                 /\ IF req[q].got = "returned" /\ req[q].seen[p].status # "canceled"
                    THEN Patch(p, [row[p] EXCEPT !.status = "canceled"])
                    ELSE UNCHANGED row
              \/ Uses("fault") /\ UNCHANGED row
           /\ Go(q, m)

DeleteDrop(q) ==
    /\ At(q, "del.drop")
    /\ UNCHANGED <<credits, grant, intent, left>>
    /\ class' = [class EXCEPT !.open = FALSE]
    /\ row' = [p \in Players |-> NoRow] /\ made' = <<>>
    /\ Done(q)

-----------------------------------------------------------------------------
(* Checkouts and the webhook (PayForEnrollment, markEnrollmentPaid).         *)

Pay(p, i) ==
    /\ intent[i].status = "none" /\ Priced /\ ~row[p].paid
    /\ \/ row[p].status = "enrolled"
       \/ row[p].status = "offered" /\ ~row[p].late
    /\ Uses("pay")
    /\ intent' = [intent EXCEPT ![i] = [@ EXCEPT !.of = p, !.status = "open"]]
    /\ UNCHANGED <<row, made, credits, grant, class, req>>

\* The customer completes the checkout, whenever that is.
Capture(i) ==
    /\ intent[i].status = "open"
    /\ intent' = [intent EXCEPT ![i].status = "captured"]
    /\ UNCHANGED <<row, made, credits, grant, class, req, left>>

\* What the webhook does with the row it read.
HearRow(q, i, p) ==
    IF row[p].status = "absent" \/ row[p].paid
    THEN /\ intent' = [intent EXCEPT ![i].booked = @ \/ row[p].paid]
         /\ UNCHANGED req
    ELSE /\ Go(q, [Idle EXCEPT !.op = "hear", !.pc = "paid.write", !.who = p, !.pi = i])
         /\ UNCHANGED intent

\* Stripe delivers checkout.session.completed at least once.  A failed read of
\* the enrollment is taken for a missing one: acknowledged, nothing done.
HearRead(q, i) ==
    /\ intent[i].status \in {"captured", "refunded"} /\ intent[i].of \in Players
    /\ req[q] = Idle
    /\ UNCHANGED <<row, made, credits, grant, class>>
    /\ \/ Uses("fault") /\ UNCHANGED <<intent, req>>
       \/ Uses("hear") /\ HearRow(q, i, intent[i].of)

PaidWrite(q) ==
    /\ At(q, "paid.write")
    /\ UNCHANGED <<made, credits, grant, class>>
    /\ LET p == req[q].who
       IN  \/ /\ UNCHANGED left
              /\ Patch(p, [row[p] EXCEPT !.status = "enrolled", !.paid = TRUE,
                                         !.ref = req[q].pi, !.back = FALSE, !.late = FALSE])
              /\ intent' = [intent EXCEPT ![req[q].pi].booked = row[p].status # "absent"]
           \/ Uses("fault") /\ UNCHANGED <<row, intent>>
    /\ Done(q)

-----------------------------------------------------------------------------
(* The sweeps (cmd/api/main.go's ticker).                                    *)

\* SweepFailedRefunds: canceled, paid and not settled.
OwedCredit == {p \in Players : row[p].status = "canceled" /\ row[p].paid
                                  /\ row[p].ref = "credit" /\ ~row[p].back}
Owed == {p \in Players : row[p].status = "canceled" /\ row[p].paid /\ Live(row[p])}

SweepRefunds(q) ==
    /\ class.open /\ Owed # {}
    /\ Start(q, "settle", "swp.next", Nobody, Only(Owed))
    /\ UNCHANGED <<row, made, credits, grant, intent, class, left>>

SweepNext(q) ==
    /\ At(q, "swp.next")
    /\ UNCHANGED <<row, made, credits, grant, intent, class, left>>
    /\ IF Rows(req[q]) = {} \/ ~class.open THEN Done(q)
       ELSE \E p \in Rows(req[q]) : Go(q, Settle([req[q] EXCEPT !.who = p]))

\* SweepExpiredOffers: each row is expired only if it is still an unpaid
\* offer, and its seat rolls on.
SweepOffers(q) ==
    LET late == {p \in Players : row[p].status = "offered" /\ ~row[p].paid /\ row[p].late}
    IN  /\ late # {}
        /\ Start(q, "expire", "exp.next", Nobody, Only(late))
        /\ UNCHANGED <<row, made, credits, grant, intent, class, left>>

ExpireOfferBlindly(q) ==
    /\ At(q, "exp.next")
    /\ UNCHANGED <<made, credits, grant, intent, class, left>>
    /\ IF Rows(req[q]) = {} THEN Done(q) /\ UNCHANGED row
       ELSE \E p \in Rows(req[q]) :
              /\ Patch(p, [row[p] EXCEPT !.status = "expired"])
              /\ Go(q, [req[q] EXCEPT !.pc = "pro.count", !.seen[p] = NoRow])
ExpireOffer(q) ==
    /\ At(q, "exp.next")
    /\ UNCHANGED <<made, credits, grant, intent, class>>
    /\ IF Rows(req[q]) = {} THEN Done(q) /\ UNCHANGED <<row, left>>
       ELSE \E p \in Rows(req[q]) :
              LET m == [req[q] EXCEPT !.seen[p] = NoRow]
              IN  \/ /\ UNCHANGED left
                     /\ IF row[p].status = "offered" /\ ~row[p].paid
                        THEN /\ row' = [row EXCEPT ![p].status = "expired"]
                             /\ Go(q, [m EXCEPT !.pc = "pro.count"])
                        ELSE Go(q, m) /\ UNCHANGED row
                  \/ Uses("fault") /\ Go(q, m) /\ UNCHANGED row

-----------------------------------------------------------------------------
(* Class packs (grantPackCredits): a claim row per purchase, a balance that  *)
(* is read and written back, and the claim marked applied.                   *)

PackRead(q, p) ==
    /\ grant[p] # "applied" /\ Uses("pack")
    /\ Start(q, "pack", IF grant[p] = "none" THEN "pack.claim" ELSE "pack.read", p, Nothing)
    /\ UNCHANGED <<row, made, credits, grant, intent, class>>

PackClaim(q) ==
    /\ At(q, "pack.claim")
    /\ IF grant[req[q].who] = "applied" THEN Done(q) ELSE To(q, "pack.read")
    /\ grant' = [grant EXCEPT ![req[q].who] = IF @ = "none" THEN "claimed" ELSE @]
    /\ UNCHANGED <<row, made, credits, intent, class, left>>

PackBalance(q) ==
    /\ At(q, "pack.read")
    /\ Go(q, [req[q] EXCEPT !.pc = "pack.write", !.balance = credits[req[q].who]])
    /\ UNCHANGED <<row, made, credits, grant, intent, class, left>>

PackWrite(q) ==
    /\ At(q, "pack.write")
    /\ UNCHANGED <<row, made, grant, intent, class>>
    /\ \/ /\ UNCHANGED left
          /\ credits' = [credits EXCEPT ![req[q].who] = req[q].balance + PackSize]
          /\ To(q, "pack.done")
       \/ Uses("fault") /\ Done(q) /\ UNCHANGED credits

PackApplied(q) ==
    /\ At(q, "pack.done")
    /\ UNCHANGED <<row, made, credits, intent, class>>
    /\ \/ UNCHANGED left /\ grant' = [grant EXCEPT ![req[q].who] = "applied"]
       \/ Uses("fault") /\ UNCHANGED grant
    /\ Done(q)

-----------------------------------------------------------------------------
(* Time and the process.                                                     *)

OfferLapses(p) ==
    /\ row[p].status = "offered" /\ ~row[p].late /\ Uses("lapse")
    /\ row' = [row EXCEPT ![p].late = TRUE]
    /\ UNCHANGED <<made, credits, grant, intent, class, req>>

ClassNears ==
    /\ ~class.soon /\ Uses("near")
    /\ class' = [class EXCEPT !.soon = TRUE]
    /\ UNCHANGED <<row, made, credits, grant, intent, req>>

Stop ==
    /\ \E q \in Requests : req[q] # Idle
    /\ Uses("stop")
    /\ req' = [q \in Requests |-> Idle]
    /\ UNCHANGED <<row, made, credits, grant, intent, class>>

-----------------------------------------------------------------------------

\* A request that has begun goes on.
Continue(q) ==
    \/ Claim(q) \/ Restore(q) \/ Revert(q) \/ Refund(q) \/ Mark(q)
    \/ PromoteCount(q) \/ PromotePick(q) \/ PromoteWrite(q)
    \/ EnrollCount(q) \/ EnrollSpend(q) \/ EnrollWait(q) \/ EnrollWrite(q)
    \/ CancelWrite(q) \/ ManualWrite(q) \/ PaidWrite(q)
    \/ DeleteNext(q) \/ DeleteFree(q) \/ DeleteDrop(q)
    \/ SweepNext(q) \/ ExpireOffer(q)
    \/ PackClaim(q) \/ PackBalance(q) \/ PackWrite(q) \/ PackApplied(q)

Calls(q) ==
    \/ \E p \in Players : EnrollRead(q, p) \/ CancelRead(q, p) \/ RemoveRead(q, p)
                            \/ ManualCount(q, p) \/ PackRead(q, p)
    \/ \E i \in Intents : HearRead(q, i)
    \/ DeleteRead(q)

Sweeps(q) == SweepRefunds(q) \/ SweepOffers(q)

World ==
    \/ \E p \in Players : MarkPaidInCash(p) \/ OfferLapses(p) \/ \E i \in Intents : Pay(p, i)
    \/ \E i \in Intents : Capture(i)
    \/ \E n \in 0..Seats + 1 : EditClass(n)
    \/ ClassNears \/ Stop

Next == World \/ \E q \in Requests : Continue(q) \/ Calls(q) \/ Sweeps(q)

Spec == Init /\ [][Next]_vars

-----------------------------------------------------------------------------
(* Properties.                                                              *)

\* Requests that hold a credit of p in hand: spent and not yet on the row, or
\* taken off the row and not yet given back.
Carries(m, p) == /\ m.who = p
                 /\ \/ m.pc = "enr.write" /\ m.spent
                    \/ m.pc \in {"set.restore", "set.revert"}
InHand(p) == {q \in Requests : Carries(req[q], p)}
OnSeat(p) == IF row[p].ref = "credit" /\ ~row[p].back THEN 1 ELSE 0
Bought(p) == IF grant[p] = "none" THEN 0 ELSE PackSize

\* Nobody ever has more class credits, counting those on a seat and those in
\* a handler's hands, than were given or sold to them: a credit is returned
\* at most once however cancellations, removals, a deletion and the sweep
\* race for it (settleEnrollmentRefund's compare-and-set).
CreditsNeverMinted ==
    \A p \in Players :
        credits[p] + OnSeat(p) + Cardinality(InHand(p)) <= Granted + Bought(p)

\* Money that was captured and that the seat's webhook has seen is never
\* stranded: it stands on the row of who paid, which is enrolled, or canceled
\* and due for a refund, or it has been refunded.  A class that is gone owes
\* nobody (markEnrollmentPaid's "we never leave a charged customer stranded",
\* SweepExpiredOffers' compare-and-set, DeleteClass).
ChargedNotStranded ==
    \A i \in Intents :
        intent[i].status = "captured" /\ intent[i].booked =>
            LET r == row[intent[i].of]
            IN  r.ref = i /\ ~r.back /\ r.paid /\ r.status \in {"enrolled", "canceled"}

\* The class is not overbooked, offered seats counting as taken, and when
\* nothing is in flight nobody waits for a seat that is free
\* (classEnrolledCount, promoteNextWaitlisted).
SeatsTaken ==
    /\ Cardinality(Holding) <= class.seats
    /\ (\A q \in Requests : req[q] = Idle) => Full \/ Waiting = {}

\* A seat that was paid and given up has its money back in the end, also when
\* the first refund fails (SweepFailedRefunds).
RefundsArrive ==
    \A p \in Players :
        (row[p].status = "canceled" /\ row[p].paid /\ Live(row[p]))
            ~> ~(row[p].status = "canceled" /\ row[p].paid /\ Live(row[p]))
=============================================================================
