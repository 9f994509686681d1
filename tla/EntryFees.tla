------------------------------- MODULE EntryFees -------------------------------
(***************************************************************************)
(* The entry fees of the registrations: the organizer's mark, the player's *)
(* intent to pay, and what Stripe and PayPal captured, which they report   *)
(* at least once (CollectPayment, CollectPaymentManually,                  *)
(* CollectPaidFromStripe, collectPaidFromPayPal and recordPayment).  The   *)
(* amount and the add-ons are left out.                                    *)
(***************************************************************************)
EXTENDS Registration

VARIABLES
    books,       \* payments: rows, paid or pending
    paid,        \* registrations whose payment_status is paid
    checkouts,   \* sessions and orders the payer may complete
    captured,    \* money taken: registrations
    deliveries   \* webhooks not acknowledged yet

fees == <<books, paid, checkouts, captured, deliveries>>

InitFees ==
    /\ Init
    /\ books = {}
    /\ paid = {}
    /\ checkouts = {}
    /\ captured = {}
    /\ deliveries = {}

Providers == {"stripe", "paypal"}
Exists(n) == \E e \in entries : e.no = n

\* Deleting a registration deletes its payments.
Registering ==
    /\ Next
    /\ books' = {b \in books : \E e \in entries' : e.no = b.no}
    /\ UNCHANGED <<paid, checkouts, captured, deliveries>>

Record(n, provider, settles, hook) ==
    [at |-> "look", no |-> n, provider |-> provider, settles |-> settles, hook |-> hook]

Begin(r, call) ==
    /\ ~Busy(r)
    /\ request' = [request EXCEPT ![r] = <<call>>]
    /\ UNCHANGED <<event, players, entries, waitlist, serial, lock>>

\* CollectPayment and the order of a PayPal checkout: nothing is settled yet.
CollectPayment(r, n, provider) ==
    /\ Exists(n)
    /\ Begin(r, Record(n, provider, FALSE, FALSE))
    /\ checkouts' = checkouts \cup {<<n, provider>>}
    /\ Spend("fees")
    /\ UNCHANGED <<books, paid, captured, deliveries>>

CollectPaymentManually(r, n) ==
    /\ Exists(n)
    /\ Begin(r, Record(n, "manual", TRUE, FALSE))
    /\ Spend("fees")
    /\ UNCHANGED fees

\* The payer completes the checkout, with the provider; a PayPal order is
\* captured by the app as well when the payer comes back.
Complete(c) ==
    /\ checkouts' = checkouts \ {c}
    /\ captured' = captured \cup {c[1]}
    /\ deliveries' = deliveries \cup {c}
    /\ UNCHANGED <<base, books, paid>>

CapturePayPalOrder(r, n) ==
    /\ <<n, "paypal">> \in checkouts
    /\ Begin(r, Record(n, "paypal", TRUE, FALSE))
    /\ checkouts' = checkouts \ {<<n, "paypal">>}
    /\ captured' = captured \cup {n}
    /\ deliveries' = deliveries \cup {<<n, "paypal">>}
    /\ UNCHANGED <<left, books, paid>>

\* Of a registration that is gone, Stripe's webhook is acknowledged; PayPal's
\* is refused, and repeated.
Deliver(r, c) ==
    /\ \/ /\ Exists(c[1])
          /\ Begin(r, Record(c[1], c[2], TRUE, TRUE))
          /\ UNCHANGED deliveries
       \/ /\ ~Exists(c[1])
          /\ c[2] = "stripe"
          /\ ~Busy(r)
          /\ deliveries' = deliveries \ {c}
          /\ UNCHANGED <<event, players, entries, waitlist, serial, lock, request>>
    /\ UNCHANGED <<left, books, paid, checkouts, captured>>

\* paymentAlreadyRecorded.
Look(r) ==
    LET c == Call(r)
    IN  /\ At(r, "look")
        /\ GoTo(r, IF \E b \in books : /\ b.no = c.no /\ b.settles = c.settles
                                       /\ c.settles \/ b.provider = c.provider
                   THEN "status" ELSE "book")
        /\ UNCHANGED <<event, players, entries, waitlist, serial, lock, left, fees>>

\* One paid row a registration, by a unique index: a rejected one is there; or
\* its registration is gone, which is not told apart.
Book(r) ==
    LET c == Call(r)
        there == c.settles /\ \E b \in books : b.no = c.no /\ b.settles
    IN  /\ At(r, "book")
        /\ IF ~Exists(c.no) /\ ~c.settles THEN Return(r) /\ UNCHANGED books
           ELSE /\ GoTo(r, "status") /\ UNCHANGED lock
                /\ books' = IF there \/ ~Exists(c.no) THEN books
                            ELSE books \cup {[no |-> c.no, provider |-> c.provider,
                                              settles |-> c.settles]}
        /\ UNCHANGED <<event, players, entries, waitlist, serial, left>>
        /\ UNCHANGED <<paid, checkouts, captured, deliveries>>

\* Slip: the status is that of the last write.
StatusLast(c) == IF c.settles THEN paid \cup {c.no} ELSE paid \ {c.no}

\* A pending write leaves a paid registration paid.
Status(c) == IF c.settles /\ Exists(c.no) THEN paid \cup {c.no} ELSE paid

WriteStatus(r) ==
    LET c == Call(r)
    IN  /\ At(r, "status")
        /\ paid' = Status(c)
        /\ deliveries' = IF c.hook THEN deliveries \ {<<c.no, c.provider>>} ELSE deliveries
        /\ Return(r)
        /\ UNCHANGED <<event, players, entries, waitlist, serial, left>>
        /\ UNCHANGED <<books, checkouts, captured>>

NextFees ==
    \/ Registering
    \/ \E r \in Requests, e \in entries :
          \/ CollectPaymentManually(r, e.no)
          \/ \E p \in Providers : CollectPayment(r, e.no, p)
          \/ CapturePayPalOrder(r, e.no)
    \/ \E c \in checkouts : Complete(c)
    \/ \E r \in Requests, c \in deliveries : Deliver(r, c)
    \/ \E r \in Requests : Look(r) \/ Book(r) \/ WriteStatus(r)

FeesSpec == InitFees /\ [][NextFees]_<<base, fees>>

\* A request that can go on does: every handler is a goroutine of its own.
Serve(r) ==
    \/ Step(r) /\ UNCHANGED fees
    \/ Look(r) \/ Book(r) \/ WriteStatus(r)

FairSpec ==
    /\ InitFees
    /\ [][NextFees]_<<base, fees>>
    /\ \A r \in Requests : WF_<<base, fees>>(Serve(r))

-----------------------------------------------------------------------------
\* However marks, intents, captures and repeated webhooks cross, and whatever
\* fails: a registration that is paid has its payment in the books, and money
\* taken for one that still exists is settled, unless the webhook is still to
\* be repeated (recordPayment, service.go:9978).
FeesSettled ==
    \A e \in entries :
        /\ e.no \in paid => \E b \in books : b.no = e.no /\ b.settles
        /\ e.no \in captured /\ (\A p \in Providers : <<e.no, p>> \notin deliveries)
               => e.no \in paid

\* What service.go says of linkPartner: it never blocks the registrant's own
\* sign-up.  Every request comes to its end.
SignUpsReturn == \A r \in Requests : [](Busy(r) => <>~Busy(r))
=============================================================================
