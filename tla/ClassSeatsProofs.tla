--------------------------- MODULE ClassSeatsProofs ---------------------------
(* Proofs about ClassSeats: rows, balances and requests keep their types,     *)
(* class credits are never minted, charged customers are not stranded, and    *)
(* seats are taken in turn, for every class, set of players, payments and     *)
(* requests in flight, and every budget.                                      *)
EXTENDS ClassSeats, FiniteSetTheorems, TLAPS

USE ClassAssumption

-----------------------------------------------------------------------------
(* Types.                                                                   *)

Packing == {"pack.claim", "pack.read", "pack.write", "pack.done"}

\* Statements that concern no row in particular.
Anyone == {"idle", "pro.count", "pro.pick", "del.next", "del.drop", "swp.next", "exp.next"}

Request ==
    [op : {"none", "enroll", "cancel", "remove", "promote", "hear", "settle", "expire",
           "delete", "pack"},
     pc : {"set.claim", "set.restore", "set.revert", "set.refund", "set.mark", "pro.write",
           "enr.count", "enr.spend", "enr.wait", "enr.write", "can.write", "man.write",
           "paid.write", "del.free"} \cup Anyone \cup Packing,
     who : Players \cup {Nobody}, seen : [Players -> Row],
     pi : Intents \cup {Nobody}, spent : BOOLEAN, got : {"nothing", "returned", "failed"},
     failed : BOOLEAN, balance : Nat]

\* A request at a statement about one row knows whose it is, and a credit that
\* was spent is in hand until the seat is written.
Sound(m) ==
    /\ m.pc \notin Anyone => m.who \in Players
    /\ m.pc = "paid.write" => m.pi \in Intents
    /\ m.spent = TRUE => m.pc = "enr.write"

ReqOK == req \in [Requests -> Request] /\ \A q \in Requests : Sound(req[q])

Intent == [of : Players \cup {Nobody}, booked : BOOLEAN,
           status : {"none", "open", "captured", "refunded"}]

MoneyOK ==
    /\ grant \in [Players -> {"none", "claimed", "applied"}]
    /\ intent \in [Intents -> Intent]

TypeOK ==
    /\ row \in [Players -> Row] /\ made \in Seq(Players)
    /\ credits \in [Players -> Nat]
    /\ MoneyOK
    /\ class \in [open : BOOLEAN, seats : Nat, soon : BOOLEAN]
    /\ ReqOK
    /\ left \in [Kinds -> Nat]

LEMMA IdleOK == /\ Idle \in Request /\ Sound(Idle) /\ Idle.pc = "idle" /\ Idle.spent = FALSE
                /\ Idle.seen = Nothing /\ Nothing \in [Players -> Row] /\ NoRow \in Row
  BY DEF Idle, Nothing, NoRow, Request, Row, Statuses, Sound, Anyone

LEMMA OnlyOK ==
  ASSUME TypeOK, NEW S
  PROVE  Only(S) \in [Players -> Row]
  BY IdleOK DEF TypeOK, Only

LEMMA UsesOK ==
  ASSUME TypeOK, UNCHANGED left \/ \E k \in Kinds : Uses(k)
  PROVE  left' \in [Kinds -> Nat] /\ left'["pack"] <= left["pack"]
<1>1. left \in [Kinds -> Nat] /\ "pack" \in Kinds
  BY DEF TypeOK, Kinds
<1>2. CASE UNCHANGED left
  BY <1>1, <1>2
<1>3. ASSUME NEW k \in Kinds, Uses(k)
      PROVE  left' \in [Kinds -> Nat] /\ left'["pack"] <= left["pack"]
  <2>1. left[k] \in Nat /\ left[k] > 0 /\ left' = [left EXCEPT ![k] = left[k] - 1]
    BY <1>1, <1>3 DEF Uses
  <2> QED
    BY <1>1, <2>1
<1> QED
  BY <1>2, <1>3

-----------------------------------------------------------------------------
(* What a step does to the credits.                                          *)

\* A request that holds no credit.
Empty(m) == m.pc \notin {"set.restore", "set.revert"} /\ m.spent = FALSE

\* No request comes to a statement about a pack.
Away == /\ \A q \in Requests : req'[q].pc \in Packing => req[q].pc \in Packing
        /\ left'["pack"] <= left["pack"]

\* Nobody has more credits than before, in any of the three places.
Calm == /\ UNCHANGED credits
        /\ \A p \in Players : OnSeat(p)' <= OnSeat(p) /\ InHand(p)' \subseteq InHand(p)

\* One request takes a credit of p in hand, off a seat or off the balance.
Takes(q, p) ==
    /\ \A o \in Players \ {p} : /\ credits'[o] = credits[o] /\ OnSeat(o)' <= OnSeat(o)
                                /\ InHand(o)' \subseteq InHand(o)
    /\ InHand(p)' \subseteq InHand(p) \cup {q}
    /\ \/ credits'[p] = credits[p] /\ OnSeat(p)' = 0 /\ OnSeat(p) = 1
       \/ credits'[p] = credits[p] - 1 /\ OnSeat(p)' <= OnSeat(p)

\* One request puts the credit of p it holds on the balance or on the seat.
Gives(q, p) ==
    /\ \A o \in Players \ {p} : /\ credits'[o] = credits[o] /\ OnSeat(o)' <= OnSeat(o)
                                /\ InHand(o)' \subseteq InHand(o)
    /\ q \in InHand(p) /\ InHand(p)' \subseteq InHand(p) \ {q}
    /\ \/ credits'[p] = credits[p] + 1 /\ OnSeat(p)' <= OnSeat(p)
       \/ credits'[p] = credits[p]

Balanced == Away /\ (Calm \/ \E q \in Requests, p \in Players : Takes(q, p) \/ Gives(q, p))

LEMMA OnSeatOK == \A p : OnSeat(p) \in {0, 1} /\ OnSeat(p)' \in {0, 1}
  BY DEF OnSeat

\* A request that goes on with nothing in hand.
LEMMA GoOK ==
  ASSUME TypeOK, NEW q \in Requests, NEW m \in Request, Sound(m), Go(q, m)
  PROVE  /\ ReqOK'
         /\ m.pc \notin Packing => \A o \in Requests : req'[o].pc \in Packing => req[o].pc \in Packing
         /\ \A p : InHand(p)' \subseteq InHand(p) \cup {q}
         /\ Empty(m) => \A p : InHand(p)' \subseteq InHand(p) \ {q}
         /\ \A p : m.who # p => InHand(p)' \subseteq InHand(p)
<1>1. req' = [req EXCEPT ![q] = m] /\ req \in [Requests -> Request]
  BY DEF Go, TypeOK, ReqOK
<1>2. ReqOK'
  BY <1>1 DEF TypeOK, ReqOK
<1>3. m.pc \notin Packing => \A o \in Requests : req'[o].pc \in Packing => req[o].pc \in Packing
  BY <1>1
<1>4. \A p : InHand(p)' \subseteq InHand(p) \cup {q}
  BY <1>1 DEF InHand, Carries
<1>5. Empty(m) => \A p : InHand(p)' \subseteq InHand(p) \ {q}
  BY <1>1 DEF InHand, Carries, Empty
<1>6. \A p : m.who # p => InHand(p)' \subseteq InHand(p)
  BY <1>1 DEF InHand, Carries
<1> QED
  BY <1>2, <1>3, <1>4, <1>5, <1>6

LEMMA SoundReq ==
  ASSUME TypeOK, NEW q \in Requests
  PROVE  /\ req[q] \in Request /\ Sound(req[q])
         /\ req[q].pc \notin Anyone => req[q].who \in Players
         /\ req[q].pc # "enr.write" => req[q].spent = FALSE
  BY DEF TypeOK, ReqOK, Sound, Request

-----------------------------------------------------------------------------
(* A step that holds no credit, in parts: what becomes of the rows, what of  *)
(* the requests.                                                             *)

RowsCalm == row' \in [Players -> Row] /\ \A p \in Players : OnSeat(p)' <= OnSeat(p)
ReqsCalm == ReqOK' /\ (\A q \in Requests : req'[q].pc \in Packing => req[q].pc \in Packing)
            /\ \A p \in Players : InHand(p)' \subseteq InHand(p)
RestCalm == /\ made' \in Seq(Players) /\ UNCHANGED credits /\ MoneyOK'
            /\ class' \in [open : BOOLEAN, seats : Nat, soon : BOOLEAN]
            /\ UNCHANGED left \/ \E k \in Kinds : Uses(k)

LEMMA CalmOK ==
  ASSUME TypeOK, RowsCalm, ReqsCalm, RestCalm
  PROVE  TypeOK' /\ Balanced
<1>1. left' \in [Kinds -> Nat] /\ left'["pack"] <= left["pack"]
  BY UsesOK DEF RestCalm
<1> QED
  BY <1>1 DEF RowsCalm, ReqsCalm, RestCalm, TypeOK, Balanced, Away, Calm

LEMMA RowsSame ==
  ASSUME TypeOK, UNCHANGED row
  PROVE  RowsCalm
  BY DEF TypeOK, RowsCalm, OnSeat

LEMMA RestSame ==
  ASSUME TypeOK, UNCHANGED <<made, credits, grant, intent, class>>,
         UNCHANGED left \/ \E k \in Kinds : Uses(k)
  PROVE  RestCalm
  BY DEF TypeOK, RestCalm, MoneyOK

LEMMA ReqsSame ==
  ASSUME TypeOK, UNCHANGED req
  PROVE  ReqsCalm
  BY DEF TypeOK, ReqsCalm, ReqOK, InHand

LEMMA ReqsGo ==
  ASSUME TypeOK, NEW q \in Requests, NEW m \in Request, Sound(m), Go(q, m),
         Empty(m), m.pc \notin Packing
  PROVE  ReqsCalm
  BY GoOK DEF ReqsCalm

LEMMA ReqsDone ==
  ASSUME TypeOK, NEW q \in Requests, Done(q)
  PROVE  ReqsCalm
  BY IdleOK, ReqsGo DEF Done, Empty, Packing

\* Going on to another statement about the same player.
Ways == {"set.claim", "set.refund", "set.mark", "pro.count", "pro.pick", "pro.write",
         "enr.count", "enr.spend", "enr.wait", "enr.write", "can.write", "man.write",
         "del.next", "del.free", "del.drop", "swp.next", "exp.next"}

LEMMA MoveOK ==
  ASSUME NEW m \in Request, m.spent = FALSE, NEW l \in Ways, m.who \in Players \/ l \in Anyone
  PROVE  /\ [m EXCEPT !.pc = l] \in Request /\ Sound([m EXCEPT !.pc = l])
         /\ Empty([m EXCEPT !.pc = l]) /\ [m EXCEPT !.pc = l].pc \notin Packing
  BY DEF Request, Ways, Anyone, Sound, Packing, Empty

LEMMA ReqsTo ==
  ASSUME TypeOK, NEW q \in Requests, NEW l \in Ways, To(q, l), req[q].pc # "enr.write",
         req[q].who \in Players \/ l \in Anyone
  PROVE  ReqsCalm
<1>1. req[q] \in Request /\ req[q].spent = FALSE
  BY SoundReq
<1> QED
  BY <1>1, MoveOK, ReqsGo DEF To

\* One row is written, without a credit on it that was not there.
LEMMA RowsWritten ==
  ASSUME TypeOK, NEW p \in Players, NEW r \in Row,
         Patch(p, r) \/ row' = [row EXCEPT ![p] = r],
         r.ref = "credit" /\ r.back = FALSE => row[p].ref = "credit" /\ row[p].back = FALSE
  PROVE  RowsCalm
<1>1. row \in [Players -> Row] /\ \A o \in Players : row[o].back \in BOOLEAN
  BY DEF TypeOK, Row
<1>2. row' = [row EXCEPT ![p] = r] \/ row' = row
  BY <1>1 DEF Patch
<1>3. row' \in [Players -> Row]
  BY <1>1, <1>2
<1>4. ASSUME NEW o \in Players PROVE OnSeat(o)' <= OnSeat(o)
  <2>1. CASE row'[o] = row[o]
    BY <2>1, OnSeatOK DEF OnSeat
  <2>2. CASE o = p /\ row'[o] = r
    BY <1>1, <2>2 DEF OnSeat, Row
  <2> QED
    BY <1>1, <1>2, <2>1, <2>2
<1> QED
  BY <1>3, <1>4 DEF RowsCalm

\* What may be written on a row.
LEMMA EditsOK ==
  ASSUME NEW r \in Row, NEW s \in Statuses, NEW b \in BOOLEAN,
         NEW f \in {"none", "credit", "manual"} \cup Intents
  PROVE  /\ [r EXCEPT !.status = s] \in Row
         /\ [r EXCEPT !.back = b] \in Row
         /\ [r EXCEPT !.late = b] \in Row
         /\ [r EXCEPT !.ref = f, !.back = b] \in Row
         /\ [r EXCEPT !.status = s, !.paid = b] \in Row
         /\ [r EXCEPT !.status = s, !.paid = b, !.late = FALSE] \in Row
         /\ [r EXCEPT !.status = s, !.paid = TRUE, !.ref = f, !.back = FALSE, !.late = FALSE] \in Row
         /\ [r EXCEPT !.status = s, !.paid = b, !.ref = f, !.back = FALSE] \in Row
         /\ [r EXCEPT !.status = s, !.paid = b, !.ref = r.ref, !.back = r.back] \in Row
<1>1. /\ [r EXCEPT !.status = s] \in Row
      /\ [r EXCEPT !.back = b] \in Row
      /\ [r EXCEPT !.late = b] \in Row
  BY DEF Row
<1>2. /\ [r EXCEPT !.ref = f, !.back = b] \in Row
      /\ [r EXCEPT !.status = s, !.paid = b] \in Row
      /\ [r EXCEPT !.status = s, !.paid = b, !.late = FALSE] \in Row
  BY DEF Row
<1>3. [r EXCEPT !.status = s, !.paid = TRUE, !.ref = f, !.back = FALSE, !.late = FALSE] \in Row
  BY DEF Row
<1>4. [r EXCEPT !.status = s, !.paid = b, !.ref = f, !.back = FALSE] \in Row
  BY DEF Row
<1>5. [r EXCEPT !.status = s, !.paid = b, !.ref = r.ref, !.back = r.back] \in Row
  BY DEF Row
<1> QED
  BY <1>1, <1>2, <1>3, <1>4, <1>5

LEMMA IntentEdits ==
  ASSUME NEW r \in Intent, NEW p \in Players, NEW s \in {"none", "open", "captured", "refunded"},
         NEW b \in BOOLEAN
  PROVE  /\ [r EXCEPT !.status = s] \in Intent /\ [r EXCEPT !.booked = b] \in Intent
         /\ [r EXCEPT !.of = p, !.status = s] \in Intent
  BY DEF Intent

LEMMA IntentsOK ==
  ASSUME TypeOK, NEW i \in Intents, NEW r \in Intent, intent' = [intent EXCEPT ![i] = r],
         UNCHANGED grant
  PROVE  MoneyOK'
  BY DEF TypeOK, MoneyOK

\* A write that changes neither the reference nor whether it came back.
LEMMA RowsEdited ==
  ASSUME TypeOK, NEW p \in Players, NEW r \in Row, r.ref = row[p].ref, r.back = row[p].back,
         Patch(p, r) \/ row' = [row EXCEPT ![p] = r]
  PROVE  RowsCalm
  BY RowsWritten

LEMMA RowOK == TypeOK => \A p \in Players : row[p] \in Row
  BY DEF TypeOK

-----------------------------------------------------------------------------
(* Settling the money of a seat.                                             *)

\* Once a settlement is over the handler is at one of three statements.
LEMMA AfterOK ==
  ASSUME NEW m \in Request, m.who \in Players, m.spent = FALSE
  PROVE  /\ After(m) \in Request /\ Sound(After(m)) /\ Empty(After(m))
         /\ After(m).pc \notin Packing
<1>1. [m EXCEPT !.pc = "swp.next", !.seen[m.who] = NoRow] \in Request
  BY IdleOK DEF Request, Anyone
<1> QED
  BY <1>1 DEF After, Request, Sound, Empty, Packing, Anyone

LEMMA SettleOK ==
  ASSUME NEW m \in Request, m.who \in Players, m.spent = FALSE
  PROVE  /\ Settle(m) \in Request /\ Sound(Settle(m)) /\ Empty(Settle(m))
         /\ Settle(m).pc \notin Packing
<1>1. /\ [m EXCEPT !.got = "nothing"] \in Request /\ [m EXCEPT !.got = "nothing"].who = m.who
      /\ [m EXCEPT !.got = "nothing"].spent = FALSE
  BY DEF Request
<1>2. /\ After([m EXCEPT !.got = "nothing"]) \in Request
      /\ Sound(After([m EXCEPT !.got = "nothing"]))
      /\ Empty(After([m EXCEPT !.got = "nothing"]))
      /\ After([m EXCEPT !.got = "nothing"]).pc \notin Packing
  BY <1>1, AfterOK
<1>3. \A l \in {"set.claim", "set.refund"} :
         /\ [m EXCEPT !.pc = l] \in Request /\ Sound([m EXCEPT !.pc = l])
         /\ Empty([m EXCEPT !.pc = l]) /\ [m EXCEPT !.pc = l].pc \notin Packing
  BY MoveOK DEF Ways
<1> HIDE DEF After
<1> QED
  BY <1>2, <1>3 DEF Settle

\* A settlement ends with nothing in the handler's hands.
LEMMA SettledOK ==
  ASSUME TypeOK, NEW q \in Requests, req[q].who \in Players, req[q].pc # "enr.write",
         NEW got \in {"nothing", "returned", "failed"}, Settled(q, got)
  PROVE  /\ ReqsCalm /\ \A p \in Players : InHand(p)' \subseteq InHand(p) \ {q}
<1> DEFINE n == [req[q] EXCEPT !.got = got, !.failed = IF got = "failed" THEN TRUE ELSE @]
<1>1. n \in Request /\ n.who \in Players /\ n.spent = FALSE
  <2>1. req[q] \in Request /\ req[q].spent = FALSE
    BY SoundReq
  <2>2. CASE got = "failed"
    <3>1. n = [req[q] EXCEPT !.got = got, !.failed = TRUE]
      BY <2>2
    <3> QED
      BY <2>1, <3>1 DEF Request
  <2>3. CASE got # "failed"
    <3>1. n = [req[q] EXCEPT !.got = got, !.failed = req[q].failed]
      BY <2>3
    <3> QED
      BY <2>1, <3>1 DEF Request
  <2> QED
    BY <2>2, <2>3
<1>2. Go(q, After(n))
  BY DEF Settled
<1> HIDE DEF n
<1>3. /\ After(n) \in Request /\ Sound(After(n)) /\ Empty(After(n)) /\ After(n).pc \notin Packing
  BY <1>1, AfterOK
<1> QED
  BY <1>2, <1>3, GoOK, ReqsGo

LEMMA SettlingReq ==
  ASSUME TypeOK, NEW q \in Requests,
         req[q].pc \in {"set.claim", "set.restore", "set.revert", "set.refund", "set.mark"}
  PROVE  /\ req[q].who \in Players /\ req[q].pc # "enr.write" /\ row[req[q].who] \in Row
         /\ req[q] \in Request /\ req[q].spent = FALSE /\ req[q].seen[req[q].who] \in Row
<1>1. req[q].who \in Players /\ req[q].pc # "enr.write" /\ req[q] \in Request /\ req[q].spent = FALSE
  BY SoundReq DEF Anyone
<1>2. row[req[q].who] \in Row /\ req[q].seen[req[q].who] \in Row
  BY <1>1, RowOK DEF Request
<1> QED
  BY <1>1, <1>2

\* Going on with a credit in hand.
LEMMA HoldOK ==
  ASSUME TypeOK, NEW q \in Requests, NEW l \in {"set.restore", "set.revert"}, To(q, l),
         NEW p \in Players, p = req[q].who, req[q].pc # "enr.write"
  PROVE  /\ ReqOK' /\ \A o \in Requests : req'[o].pc \in Packing => req[o].pc \in Packing
         /\ InHand(p)' \subseteq InHand(p) \cup {q}
         /\ \A o : o # p => InHand(o)' \subseteq InHand(o)
<1> DEFINE m == [req[q] EXCEPT !.pc = l]
<1>1. req[q] \in Request /\ req[q].spent = FALSE
  BY SoundReq
<1>2. m \in Request /\ Sound(m) /\ m.pc \notin Packing /\ m.who = req[q].who
  BY <1>1 DEF Request, Sound, Anyone, Packing
<1>3. Go(q, m)
  BY DEF To
<1> HIDE DEF m
<1>4. /\ ReqOK' /\ \A o \in Requests : req'[o].pc \in Packing => req[o].pc \in Packing
      /\ \A o : InHand(o)' \subseteq InHand(o) \cup {q}
      /\ \A o : m.who # o => InHand(o)' \subseteq InHand(o)
  BY <1>2, <1>3, GoOK
<1> QED
  BY <1>2, <1>4

\* A step in which a credit changes hands.
LEMMA HeldOK ==
  ASSUME TypeOK, row' \in [Players -> Row], credits' \in [Players -> Nat],
         made' \in Seq(Players), MoneyOK',
         class' \in [open : BOOLEAN, seats : Nat, soon : BOOLEAN],
         UNCHANGED left \/ \E k \in Kinds : Uses(k),
         ReqOK', \A o \in Requests : req'[o].pc \in Packing => req[o].pc \in Packing,
         NEW q \in Requests, NEW p \in Players, Takes(q, p) \/ Gives(q, p)
  PROVE  TypeOK' /\ Balanced
<1>1. left' \in [Kinds -> Nat] /\ left'["pack"] <= left["pack"]
  BY UsesOK
<1> QED
  BY <1>1 DEF TypeOK, Balanced, Away

LEMMA ClaimOK ==
  ASSUME TypeOK, NEW q \in Requests, Claim(q)
  PROVE  TypeOK' /\ Balanced
<1>p. PICK p \in Players : p = req[q].who
  BY SettlingReq DEF Claim, At
<1>0. /\ p = req[q].who /\ req[q].pc # "enr.write" /\ row[p] \in Row
      /\ [row[p] EXCEPT !.back = TRUE] \in Row
  BY <1>p, SettlingReq, EditsOK DEF Claim, At, Statuses
<1>1. UNCHANGED <<made, credits, grant, intent, class>>
  BY DEF Claim
<1>2. CASE \E got \in {"nothing", "failed"} : Settled(q, got) /\ UNCHANGED row
                                              /\ (UNCHANGED left \/ Uses("fault"))
  <2>1. ReqsCalm /\ RowsCalm
    BY <1>0, <1>2, SettledOK, RowsSame
  <2>2. RestCalm
    BY <1>1, <1>2, RestSame DEF Kinds
  <2> QED
    BY <2>1, <2>2, CalmOK
<1>3. CASE /\ row[p].ref = "credit" /\ ~row[p].back /\ UNCHANGED left
           /\ row' = [row EXCEPT ![p] = [row[p] EXCEPT !.back = TRUE]] /\ To(q, "set.restore")
  <2>1. RowsCalm
    BY <1>0, <1>3, RowsWritten DEF Row
  <2>2. /\ ReqOK' /\ \A o \in Requests : req'[o].pc \in Packing => req[o].pc \in Packing
        /\ InHand(p)' \subseteq InHand(p) \cup {q}
        /\ \A o : o # p => InHand(o)' \subseteq InHand(o)
    BY <1>0, <1>3, HoldOK
  <2>3. RestCalm
    BY <1>1, <1>3, RestSame
  <2>4. OnSeat(p) = 1
    BY <1>3 DEF OnSeat
  <2>5. OnSeat(p)' = 0
    <3>1. row \in [Players -> Row]
      BY DEF TypeOK
    <3>2. row'[p] = [row[p] EXCEPT !.back = TRUE]
      BY <1>0, <1>3, <3>1
    <3>3. row'[p].back = TRUE
      BY <1>0, <3>2 DEF Row
    <3> QED
      BY <3>3 DEF OnSeat
  <2>6. Takes(q, p)
    BY <1>0, <1>1, <2>1, <2>2, <2>4, <2>5 DEF Takes, RowsCalm
  <2> QED
    BY <1>0, <1>1, <2>1, <2>2, <2>3, <2>6, HeldOK DEF RowsCalm, RestCalm, TypeOK
<1> QED
  BY <1>0, <1>2, <1>3 DEF Claim

LEMMA RestoreOK ==
  ASSUME TypeOK, NEW q \in Requests, Restore(q)
  PROVE  TypeOK' /\ Balanced
<1>p. PICK p \in Players : p = req[q].who
  BY SettlingReq DEF Restore, At
<1>0. /\ p = req[q].who /\ req[q].pc # "enr.write" /\ q \in InHand(p) /\ RowsCalm
      /\ credits \in [Players -> Nat]
  BY <1>p, SettlingReq, RowsSame DEF Restore, At, InHand, Carries, TypeOK
<1>1. UNCHANGED <<made, grant, intent, class, row>>
  BY DEF Restore
<1>2. CASE Uses("fault") /\ To(q, "set.revert") /\ UNCHANGED credits
  <2>1. /\ ReqOK' /\ \A o \in Requests : req'[o].pc \in Packing => req[o].pc \in Packing
        /\ InHand(p)' \subseteq InHand(p) \cup {q}
        /\ \A o : o # p => InHand(o)' \subseteq InHand(o)
    BY <1>0, <1>2, HoldOK
  <2>2. ReqsCalm
    BY <1>0, <2>1 DEF ReqsCalm
  <2> QED
    BY <1>0, <1>1, <1>2, <2>2, RestSame, CalmOK DEF Kinds
<1>3. CASE /\ UNCHANGED left /\ credits' = [credits EXCEPT ![p] = @ + 1]
           /\ Settled(q, "returned")
  <2>1. /\ ReqsCalm /\ \A o \in Players : InHand(o)' \subseteq InHand(o) \ {q}
    BY <1>0, <1>3, SettledOK
  <2>2. /\ credits' \in [Players -> Nat] /\ credits'[p] = credits[p] + 1
        /\ \A o \in Players \ {p} : credits'[o] = credits[o]
    BY <1>0, <1>3
  <2>3. Gives(q, p)
    BY <1>0, <2>1, <2>2 DEF Gives, RowsCalm
  <2>4. made' \in Seq(Players) /\ MoneyOK' /\ class' \in [open : BOOLEAN, seats : Nat, soon : BOOLEAN]
    BY <1>1 DEF TypeOK, MoneyOK
  <2> QED
    BY <1>0, <1>3, <2>1, <2>2, <2>3, <2>4, HeldOK DEF ReqsCalm, RowsCalm
<1> QED
  BY <1>0, <1>2, <1>3 DEF Restore

LEMMA RevertOK ==
  ASSUME TypeOK, NEW q \in Requests, Revert(q)
  PROVE  TypeOK' /\ Balanced
<1>p. PICK p \in Players : p = req[q].who
  BY SettlingReq DEF Revert, At
<1>0. /\ p = req[q].who /\ req[q].pc # "enr.write" /\ q \in InHand(p) /\ row[p] \in Row
      /\ row[p].back \in BOOLEAN /\ row \in [Players -> Row]
  BY <1>p, SettlingReq DEF Revert, At, InHand, Carries, TypeOK, Row
<1>1. UNCHANGED <<made, credits, grant, intent, class>> /\ (UNCHANGED left \/ Uses("fault"))
  BY DEF Revert
<1>2. RestCalm
  BY <1>1, RestSame DEF Kinds
<1>3. /\ ReqsCalm /\ \A o \in Players : InHand(o)' \subseteq InHand(o) \ {q}
  BY <1>0, SettledOK DEF Revert
<1>4. PICK b \in BOOLEAN : row' = [row EXCEPT ![p] = [row[p] EXCEPT !.back = b]]
  <2>1. CASE UNCHANGED row
    <3>1. row' = [row EXCEPT ![p] = [row[p] EXCEPT !.back = row[p].back]]
      BY <1>0, <2>1 DEF Row
    <3> QED
      BY <1>0, <3>1
  <2>2. CASE row' = [row EXCEPT ![p].back = IF row[p].ref = "credit" THEN FALSE ELSE @]
    <3>1. \/ row' = [row EXCEPT ![p] = [row[p] EXCEPT !.back = FALSE]]
          \/ row' = [row EXCEPT ![p] = [row[p] EXCEPT !.back = row[p].back]]
      BY <2>2
    <3> QED
      BY <1>0, <3>1
  <2> QED
    BY <1>0, <2>1, <2>2 DEF Revert
<1>5. row' \in [Players -> Row] /\ \A o \in Players \ {p} : row'[o] = row[o]
  BY <1>0, <1>4, EditsOK DEF Statuses
<1>6. \A o \in Players \ {p} : OnSeat(o)' <= OnSeat(o)
  <2>1. \A o \in Players \ {p} : OnSeat(o)' = OnSeat(o)
    BY <1>5 DEF OnSeat
  <2> QED
    BY <2>1, OnSeatOK
<1>7. Gives(q, p)
  BY <1>0, <1>1, <1>3, <1>6 DEF Gives
<1> QED
  BY <1>0, <1>1, <1>2, <1>3, <1>5, <1>7, HeldOK DEF ReqsCalm, RestCalm, TypeOK

LEMMA RefundOK ==
  ASSUME TypeOK, NEW q \in Requests, Refund(q)
  PROVE  TypeOK' /\ Balanced
<1>0. req[q].who \in Players /\ req[q].pc # "enr.write" /\ RowsCalm
  BY SettlingReq, RowsSame DEF Refund, At
<1>1. ReqsCalm
  <2>1. "set.mark" \in Ways
    BY DEF Ways
  <2> QED
    BY <1>0, <2>1, ReqsTo, SettledOK DEF Refund
<1>2. RestCalm
  <2>1. MoneyOK'
    <3>1. CASE UNCHANGED intent
      BY <3>1 DEF Refund, TypeOK, MoneyOK
    <3>2. ASSUME NEW i, intent' = [intent EXCEPT ![i].status = "refunded"]
          PROVE  MoneyOK'
      <4>0. MoneyOK /\ UNCHANGED grant
        BY DEF TypeOK, Refund
      <4>1. CASE i \in Intents
        <5>1. intent[i] \in Intent
          BY <4>0, <4>1 DEF MoneyOK
        <5>2. [intent[i] EXCEPT !.status = "refunded"] \in Intent
          BY <5>1 DEF Intent
        <5>3. intent' = [intent EXCEPT ![i] = [intent[i] EXCEPT !.status = "refunded"]]
          BY <3>2
        <5> QED
          BY <4>0, <4>1, <5>2, <5>3, IntentsOK
      <4>2. CASE i \notin Intents
        <5>1. intent' = intent
          BY <3>2, <4>0, <4>2 DEF MoneyOK
        <5> QED
          BY <4>0, <5>1 DEF MoneyOK
      <4> QED
        BY <4>1, <4>2
    <3> QED
      BY <3>1, <3>2 DEF Refund
  <2> QED
    BY <2>1 DEF Refund, RestCalm, TypeOK, Kinds
<1> QED
  BY <1>0, <1>1, <1>2, CalmOK

LEMMA MarkOK ==
  ASSUME TypeOK, NEW q \in Requests, Mark(q)
  PROVE  TypeOK' /\ Balanced
<1> DEFINE p == req[q].who
           f == req[q].seen[p].ref
           r == [row[p] EXCEPT !.ref = f, !.back = TRUE]
<1>0. /\ p \in Players /\ req[q].pc # "enr.write" /\ row[p] \in Row
      /\ f \in {"none", "credit", "manual"} \cup Intents
  BY SettlingReq DEF Mark, At, Row
<1>1. r \in Row /\ r.back = TRUE
  <2> HIDE DEF f
  <2> QED
    BY <1>0 DEF Row
<1>2. Patch(p, r) \/ UNCHANGED row
  BY DEF Mark
<1> HIDE DEF r
<1>3. RowsCalm
  BY <1>0, <1>1, <1>2, RowsWritten, RowsSame
<1>4. ReqsCalm
  BY <1>0, SettledOK DEF Mark
<1>5. RestCalm
  BY RestSame DEF Mark, Kinds
<1> QED
  BY <1>3, <1>4, <1>5, CalmOK

-----------------------------------------------------------------------------
(* Seats.                                                                   *)

LEMMA PromoteOK ==
  ASSUME TypeOK, NEW q \in Requests, PromoteCount(q) \/ PromotePick(q) \/ PromoteWrite(q)
  PROVE  TypeOK' /\ Balanced
<1>0. req[q].pc # "enr.write" /\ req[q] \in Request /\ req[q].spent = FALSE
      /\ (req[q].pc = "pro.write" => req[q].who \in Players)
  BY SoundReq DEF PromoteCount, PromotePick, PromoteWrite, At, Anyone
<1>1. RestCalm
  BY RestSame DEF PromoteCount, PromotePick, PromoteWrite, Kinds
<1>2. Promoted(q) => ReqsCalm
  BY <1>0, ReqsTo, ReqsDone DEF Promoted, Ways, Anyone
<1>3. CASE PromoteCount(q)
  BY <1>0, <1>1, <1>2, <1>3, ReqsTo, RowsSame, CalmOK DEF PromoteCount, Ways, Anyone
<1>4. CASE PromotePick(q)
  <2>1. ReqsCalm
    <3>1. ASSUME NEW h \in Players, Go(q, [req[q] EXCEPT !.who = h, !.pc = "pro.write"])
          PROVE  ReqsCalm
      <4> DEFINE m == [req[q] EXCEPT !.who = h, !.pc = "pro.write"]
      <4>1. m \in Request /\ m.who = h /\ m.pc = "pro.write" /\ m.spent = FALSE
        BY <1>0 DEF Request
      <4>2. Sound(m) /\ Empty(m) /\ m.pc \notin Packing
        <5> HIDE DEF m
        <5> QED
          BY <4>1 DEF Sound, Empty, Packing, Anyone
      <4>3. Go(q, m)
        BY <3>1
      <4> HIDE DEF m
      <4> QED
        BY <4>1, <4>2, <4>3, ReqsGo
    <3>2. \A i \in DOMAIN made : made[i] \in Waiting => made[i] \in Players
      BY DEF Waiting
    <3> QED
      BY <1>2, <1>4, <3>1, <3>2 DEF PromotePick
  <2> QED
    BY <1>1, <1>4, <2>1, RowsSame, CalmOK DEF PromotePick
<1>5. CASE PromoteWrite(q)
  <2> DEFINE p == req[q].who
             r == IF Priced /\ ~class.soon
                  THEN [row[p] EXCEPT !.status = "offered", !.paid = FALSE, !.late = FALSE]
                  ELSE [row[p] EXCEPT !.status = "enrolled"]
  <2>1. p \in Players /\ row[p] \in Row
    BY <1>0, <1>5, RowOK DEF PromoteWrite, At
  <2>2. r \in Row /\ r.ref = row[p].ref /\ r.back = row[p].back
    <3>1. [row[p] EXCEPT !.status = "offered", !.paid = FALSE, !.late = FALSE] \in Row
      BY <2>1, EditsOK DEF Statuses
    <3>2. [row[p] EXCEPT !.status = "enrolled"] \in Row
      BY <2>1, EditsOK DEF Statuses
    <3>3. CASE Priced /\ ~class.soon
      BY <2>1, <3>1, <3>3 DEF Row
    <3>4. CASE ~(Priced /\ ~class.soon)
      BY <2>1, <3>2, <3>4 DEF Row
    <3> QED
      BY <3>3, <3>4
  <2>3. Patch(p, r) \/ UNCHANGED row
    BY <1>5 DEF PromoteWrite
  <2> HIDE DEF r
  <2>4. RowsCalm
    BY <2>1, <2>2, <2>3, RowsEdited, RowsSame
  <2> QED
    BY <1>1, <1>2, <1>5, <2>4, CalmOK DEF PromoteWrite
<1> QED
  BY <1>3, <1>4, <1>5

\* A request that begins.
LEMMA ReqsStart ==
  ASSUME TypeOK, NEW q \in Requests, NEW p \in Players \cup {Nobody}, NEW S, NEW l,
         NEW op \in {"enroll", "promote", "delete", "settle", "expire"},
         (l \in {"enr.count", "man.write"} /\ p \in Players) \/ l \in {"del.next", "swp.next", "exp.next"},
         Start(q, op, l, p, Only(S))
  PROVE  ReqsCalm
<1>1. PICK seen \in [Players -> Row] : seen = Only(S)
  BY OnlyOK
<1> DEFINE m == [Idle EXCEPT !.op = op, !.pc = l, !.who = p, !.seen = seen]
<1>2. l \in {"enr.count", "man.write"} \cup Anyone
  BY DEF Anyone
<1>3. m.pc = l /\ m.who = p /\ m.spent = FALSE
  BY IdleOK DEF Request
<1>4. m \in Request
  BY <1>2, IdleOK DEF Request
<1>5. Go(q, m)
  BY <1>1 DEF Start
<1> HIDE DEF m
<1>6. Sound(m) /\ Empty(m) /\ m.pc \notin Packing
  BY <1>3 DEF Sound, Empty, Packing, Anyone
<1> QED
  BY <1>5, <1>6, <1>4, ReqsGo

LEMMA AppendOK ==
  ASSUME NEW S, NEW t \in Seq(S), NEW x \in S
  PROVE  Append(t, x) \in Seq(S)
  OBVIOUS

\* An insert or an update that puts no credit on the row.
LEMMA UpsertOK ==
  ASSUME TypeOK, NEW q \in Requests, NEW p \in Players, NEW r \in Row, Upsert(q, p, r)
  PROVE  /\ made' \in Seq(Players) /\ row' \in [Players -> Row]
         /\ \A o \in Players \ {p} : OnSeat(o)' <= OnSeat(o)
         /\ (r.ref = row[p].ref /\ r.back = row[p].back) => RowsCalm
<1>0. made \in Seq(Players) /\ row \in [Players -> Row]
  BY DEF TypeOK
<1>1. \/ Patch(p, r) /\ UNCHANGED made
      \/ row' = [row EXCEPT ![p] = r] /\ made' = Append(made, p)
      \/ UNCHANGED <<row, made>>
  BY DEF Upsert
<1>2. made' \in Seq(Players)
  <2>1. made' = made \/ made' = Append(made, p)
    BY <1>1
  <2> QED
    BY <1>0, <2>1, AppendOK
<1>3. row' = [row EXCEPT ![p] = r] \/ row' = row
  BY <1>0, <1>1 DEF Patch
<1>4. row' \in [Players -> Row] /\ \A o \in Players \ {p} : row'[o] = row[o]
  BY <1>0, <1>3
<1>5. \A o \in Players \ {p} : OnSeat(o)' <= OnSeat(o)
  <2>1. \A o \in Players \ {p} : OnSeat(o)' = OnSeat(o)
    BY <1>4 DEF OnSeat
  <2> QED
    BY <2>1, OnSeatOK
<1>6. (r.ref = row[p].ref /\ r.back = row[p].back) => RowsCalm
  BY <1>3, RowsEdited, RowsSame
<1> QED
  BY <1>2, <1>4, <1>5, <1>6

LEMMA EnrollingOK ==
  ASSUME TypeOK, NEW q \in Requests,
         EnrollCount(q) \/ EnrollWait(q) \/ \E p \in Players : EnrollRead(q, p)
  PROVE  TypeOK' /\ Balanced
<1>1. CASE EnrollCount(q)
  <2>1. req[q].who \in Players /\ req[q].pc # "enr.write"
    BY <1>1, SoundReq DEF EnrollCount, At, Anyone
  <2>2. ReqsCalm
    BY <1>1, <2>1, ReqsTo DEF EnrollCount, Ways
  <2>3. RestCalm
    BY <1>1, RestSame DEF EnrollCount, Kinds
  <2> QED
    BY <1>1, <2>2, <2>3, RowsSame, CalmOK DEF EnrollCount
<1>2. CASE EnrollWait(q)
  <2> DEFINE p == req[q].who
             r == [row[p] EXCEPT !.status = "waitlisted", !.paid = FALSE]
  <2>1. p \in Players /\ row[p] \in Row
    BY <1>2, SoundReq, RowOK DEF EnrollWait, At, Anyone
  <2>2. r \in Row /\ r.ref = row[p].ref /\ r.back = row[p].back
    BY <2>1 DEF Row, Statuses
  <2>3. Upsert(q, p, r) \/ UNCHANGED <<row, made>>
    BY <1>2 DEF EnrollWait
  <2> HIDE DEF r
  <2>4. RowsCalm /\ made' \in Seq(Players)
    <3>1. CASE Upsert(q, p, r)
      BY <2>1, <2>2, <3>1, UpsertOK
    <3>2. CASE UNCHANGED <<row, made>>
      BY <3>2, RowsSame DEF TypeOK
    <3> QED
      BY <2>3, <3>1, <3>2
  <2>5. RestCalm
    BY <1>2, <2>4 DEF EnrollWait, RestCalm, TypeOK, MoneyOK, Kinds
  <2> QED
    BY <1>2, <2>4, <2>5, ReqsDone, CalmOK DEF EnrollWait
<1>3. ASSUME NEW p \in Players, EnrollRead(q, p) PROVE TypeOK' /\ Balanced
  <2>1. ReqsCalm
    BY <1>3, ReqsStart DEF EnrollRead
  <2>2. RestCalm /\ RowsCalm
    BY <1>3, RestSame, RowsSame DEF EnrollRead, Kinds
  <2> QED
    BY <2>1, <2>2, CalmOK
<1> QED
  BY <1>1, <1>2, <1>3

LEMMA EnrollSpendOK ==
  ASSUME TypeOK, NEW q \in Requests, EnrollSpend(q)
  PROVE  TypeOK' /\ Balanced
<1>p. PICK p \in Players : p = req[q].who
  BY SoundReq DEF EnrollSpend, At, Anyone
<1>0. req[q].pc # "enr.write" /\ req[q] \in Request /\ credits \in [Players -> Nat]
  BY SoundReq DEF EnrollSpend, At, TypeOK
<1>1. UNCHANGED <<row, made, grant, intent, class, left>> /\ RowsCalm
  BY RowsSame DEF EnrollSpend
<1>2. CASE To(q, "enr.write") /\ UNCHANGED credits
  <2>1. ReqsCalm
    BY <1>p, <1>0, <1>2, ReqsTo DEF Ways
  <2> QED
    BY <1>1, <1>2, <2>1, RestSame, CalmOK
<1>3. CASE /\ Priced /\ credits[p] > 0 /\ credits' = [credits EXCEPT ![p] = @ - 1]
           /\ Go(q, [req[q] EXCEPT !.pc = "enr.write", !.spent = TRUE])
  <2> DEFINE m == [req[q] EXCEPT !.pc = "enr.write", !.spent = TRUE]
  <2>1. m \in Request /\ m.pc = "enr.write" /\ m.who = p
    BY <1>p, <1>0 DEF Request
  <2>2. Go(q, m)
    BY <1>3
  <2> HIDE DEF m
  <2>3. Sound(m) /\ m.pc \notin Packing
    BY <2>1 DEF Sound, Packing, Anyone
  <2>4. /\ ReqOK' /\ \A o \in Requests : req'[o].pc \in Packing => req[o].pc \in Packing
        /\ InHand(p)' \subseteq InHand(p) \cup {q}
        /\ \A o : o # p => InHand(o)' \subseteq InHand(o)
    BY <2>1, <2>2, <2>3, GoOK
  <2>5. /\ credits' \in [Players -> Nat] /\ credits'[p] = credits[p] - 1
        /\ \A o \in Players \ {p} : credits'[o] = credits[o]
    <3>1. credits[p] \in Nat /\ credits[p] - 1 \in Nat
      BY <1>0, <1>3
    <3> QED
      BY <1>0, <1>3, <3>1
  <2>6. Takes(q, p)
    BY <1>1, <2>4, <2>5 DEF Takes, RowsCalm
  <2>7. made' \in Seq(Players) /\ MoneyOK' /\ class' \in [open : BOOLEAN, seats : Nat, soon : BOOLEAN]
    BY <1>1 DEF TypeOK, MoneyOK
  <2> QED
    BY <1>1, <2>4, <2>5, <2>6, <2>7, HeldOK DEF RowsCalm
<1> QED
  BY <1>p, <1>2, <1>3 DEF EnrollSpend

LEMMA EnrollWriteOK ==
  ASSUME TypeOK, NEW q \in Requests, EnrollWrite(q)
  PROVE  TypeOK' /\ Balanced
<1>p. PICK p \in Players : p = req[q].who
  BY SoundReq DEF EnrollWrite, At, Anyone
<1>0. req[q] \in Request /\ row[p] \in Row /\ req[q].spent \in BOOLEAN /\ req[q].pc = "enr.write"
  BY <1>p, SoundReq, RowOK DEF EnrollWrite, At, Request
<1>1. UNCHANGED <<credits, grant, intent, class>> /\ (UNCHANGED left \/ Uses("fault")) /\ Done(q)
  BY DEF EnrollWrite
<1>2. /\ ReqsCalm /\ \A o : InHand(o)' \subseteq InHand(o) \ {q}
  BY <1>1, IdleOK, GoOK, ReqsDone DEF Done, Empty
<1>3. CASE UNCHANGED <<row, made>>
  BY <1>1, <1>2, <1>3, RestSame, RowsSame, CalmOK DEF Kinds
<1>4. ASSUME NEW s \in BOOLEAN, s = req[q].spent, NEW b \in BOOLEAN,
             Upsert(q, p, [row[p] EXCEPT !.status = "enrolled", !.paid = b,
                                         !.ref  = IF s THEN "credit" ELSE @,
                                         !.back = IF s THEN FALSE ELSE @])
      PROVE  TypeOK' /\ Balanced
  <2>1. CASE s = TRUE
    <3> DEFINE r == [row[p] EXCEPT !.status = "enrolled", !.paid = b, !.ref = "credit", !.back = FALSE]
    <3>1. r \in Row
      BY <1>0, EditsOK DEF Statuses
    <3>2. Upsert(q, p, r)
      BY <1>4, <2>1
    <3> HIDE DEF r
    <3>3. /\ made' \in Seq(Players) /\ row' \in [Players -> Row]
          /\ \A o \in Players \ {p} : OnSeat(o)' <= OnSeat(o)
      BY <3>1, <3>2, UpsertOK
    <3>4. q \in InHand(p)
      BY <1>p, <1>0, <1>4, <2>1 DEF InHand, Carries
    <3>5. Gives(q, p)
      BY <1>1, <1>2, <3>3, <3>4 DEF Gives
    <3>6. /\ MoneyOK' /\ class' \in [open : BOOLEAN, seats : Nat, soon : BOOLEAN]
          /\ credits' \in [Players -> Nat]
      BY <1>1 DEF TypeOK, MoneyOK
    <3> QED
      BY <1>1, <1>2, <3>3, <3>5, <3>6, HeldOK DEF ReqsCalm, Kinds
  <2>2. CASE s = FALSE
    <3> DEFINE r == [row[p] EXCEPT !.status = "enrolled", !.paid = b,
                                   !.ref = row[p].ref, !.back = row[p].back]
    <3>1. r \in Row /\ r.ref = row[p].ref /\ r.back = row[p].back
      BY <1>0 DEF Row, Statuses
    <3>2. Upsert(q, p, r)
      BY <1>4, <2>2
    <3> HIDE DEF r
    <3>3. made' \in Seq(Players) /\ RowsCalm
      BY <3>1, <3>2, UpsertOK
    <3>4. RestCalm
      BY <1>1, <3>3 DEF RestCalm, TypeOK, MoneyOK, Kinds
    <3> QED
      BY <1>2, <3>3, <3>4, CalmOK
  <2> QED
    BY <1>4, <2>1, <2>2
<1>5. (~Priced \/ req[q].spent) \in BOOLEAN
  BY <1>0
<1>6. \/ UNCHANGED <<row, made>>
      \/ \E s, b \in BOOLEAN : /\ s = req[q].spent
                               /\ Upsert(q, p, [row[p] EXCEPT !.status = "enrolled", !.paid = b,
                                         !.ref  = IF s THEN "credit" ELSE @,
                                         !.back = IF s THEN FALSE ELSE @])
  BY <1>p, <1>0, <1>5 DEF EnrollWrite
<1> QED
  BY <1>3, <1>4, <1>6

LEMMA LeavingOK ==
  ASSUME TypeOK, NEW q \in Requests,
         CancelWrite(q) \/ \E p \in Players : CancelRead(q, p) \/ RemoveRead(q, p)
  PROVE  TypeOK' /\ Balanced
<1>1. CASE CancelWrite(q)
  <2> DEFINE p == req[q].who
             r == [row[p] EXCEPT !.status = "canceled"]
  <2>1. p \in Players /\ row[p] \in Row /\ req[q].pc # "enr.write"
    BY <1>1, SoundReq, RowOK DEF CancelWrite, At, Anyone
  <2>2. r \in Row /\ r.ref = row[p].ref /\ r.back = row[p].back
    BY <2>1 DEF Row, Statuses
  <2>3. Patch(p, r) \/ UNCHANGED row
    BY <1>1 DEF CancelWrite
  <2> HIDE DEF r
  <2>4. RowsCalm
    BY <2>1, <2>2, <2>3, RowsEdited, RowsSame
  <2>5. ReqsCalm
    BY <1>1, <2>1, ReqsTo, ReqsDone DEF CancelWrite, Ways
  <2> QED
    BY <1>1, <2>4, <2>5, RestSame, CalmOK DEF CancelWrite, Kinds
<1>2. ASSUME NEW p \in Players, CancelRead(q, p) \/ RemoveRead(q, p)
      PROVE  TypeOK' /\ Balanced
  <2>1. \E op \in {"cancel", "remove"} :
           LET m == [Idle EXCEPT !.op = op, !.who = p, !.seen = Only({p})]
           IN  Go(q, After(m)) \/ Go(q, Settle(m))
    BY <1>2 DEF CancelRead, RemoveRead
  <2>2. ASSUME NEW op \in {"cancel", "remove"}, NEW m,
               m = [Idle EXCEPT !.op = op, !.who = p, !.seen = Only({p})],
               Go(q, After(m)) \/ Go(q, Settle(m))
        PROVE  ReqsCalm
    <3>1. Only({p}) \in [Players -> Row]
      BY OnlyOK
    <3>2. m \in Request /\ m.who \in Players /\ m.spent = FALSE
      <4> HIDE DEF Only
      <4> QED
        BY <2>2, <3>1, IdleOK DEF Request
    <3> QED
      BY <2>2, <3>2, AfterOK, SettleOK, ReqsGo
  <2>3. RowsCalm /\ RestCalm
    BY <1>2, RowsSame, RestSame DEF CancelRead, RemoveRead, Kinds
  <2> QED
    BY <2>1, <2>2, <2>3, CalmOK
<1> QED
  BY <1>1, <1>2

LEMMA DeskOK ==
  ASSUME TypeOK, NEW q \in Requests, ManualWrite(q) \/ \E p \in Players : ManualCount(q, p)
  PROVE  TypeOK' /\ Balanced
<1>1. CASE ManualWrite(q)
  <2> DEFINE p == req[q].who
             r == [row[p] EXCEPT !.status = "enrolled"]
  <2>1. p \in Players /\ row[p] \in Row
    BY <1>1, SoundReq, RowOK DEF ManualWrite, At, Anyone
  <2>2. r \in Row /\ r.ref = row[p].ref /\ r.back = row[p].back
    BY <2>1 DEF Row, Statuses
  <2>3. Patch(p, r)
    BY <1>1 DEF ManualWrite
  <2> HIDE DEF r
  <2>4. RowsCalm
    BY <2>1, <2>2, <2>3, RowsEdited
  <2> QED
    BY <1>1, <2>4, ReqsDone, RestSame, CalmOK DEF ManualWrite
<1>2. ASSUME NEW p \in Players, ManualCount(q, p) PROVE TypeOK' /\ Balanced
  BY <1>2, ReqsStart, RowsSame, RestSame, CalmOK DEF ManualCount, Kinds
<1> QED
  BY <1>1, <1>2

LEMMA CashOK ==
  ASSUME TypeOK, NEW p \in Players, MarkPaidInCash(p)
  PROVE  TypeOK' /\ Balanced
<1> DEFINE r == [row[p] EXCEPT !.status = "enrolled", !.paid = TRUE,
                               !.ref = "manual", !.back = FALSE, !.late = FALSE]
<1>1. r \in Row /\ r.ref = "manual"
  BY RowOK DEF Row, Statuses
<1>2. Patch(p, r)
  BY DEF MarkPaidInCash
<1> HIDE DEF r
<1>3. RowsCalm
  BY <1>1, <1>2, RowsWritten
<1> QED
  BY <1>3, ReqsSame, RestSame, CalmOK DEF MarkPaidInCash, Kinds

LEMMA DeletingOK ==
  ASSUME TypeOK, NEW q \in Requests,
         DeleteRead(q) \/ DeleteNext(q) \/ DeleteFree(q) \/ DeleteDrop(q)
  PROVE  TypeOK' /\ Balanced
<1>0. req[q] \in Request /\ (req[q].pc # "enr.write" => req[q].spent = FALSE)
  BY SoundReq
<1>1. CASE DeleteRead(q)
  BY <1>1, ReqsStart, RowsSame, RestSame, CalmOK DEF DeleteRead, Kinds
<1>2. CASE DeleteNext(q)
  <2>1. ASSUME NEW p \in Players, Go(q, Settle([req[q] EXCEPT !.who = p]))
        PROVE  ReqsCalm
    <3> DEFINE m == [req[q] EXCEPT !.who = p]
    <3>1. m \in Request /\ m.who \in Players /\ m.spent = FALSE
      BY <1>0, <1>2 DEF Request, DeleteNext, At
    <3> HIDE DEF m
    <3>2. Settle(m) \in Request /\ Sound(Settle(m)) /\ Empty(Settle(m)) /\ Settle(m).pc \notin Packing
      BY <3>1, SettleOK
    <3> QED
      BY <2>1, <3>2, ReqsGo DEF m
  <2>2. ReqsCalm
    <3>1. \/ Done(q) \/ To(q, "del.drop")
          \/ \E p \in Players : Go(q, Settle([req[q] EXCEPT !.who = p]))
      BY <1>2 DEF DeleteNext, Rows
    <3>2. To(q, "del.drop") => ReqsCalm
      BY <1>2, ReqsTo DEF DeleteNext, At, Ways, Anyone
    <3> QED
      BY <2>1, <3>1, <3>2, ReqsDone
  <2> QED
    BY <1>2, <2>2, RowsSame, RestSame, CalmOK DEF DeleteNext
<1>3. CASE DeleteFree(q)
  <2> DEFINE p == req[q].who
             r == [row[p] EXCEPT !.status = "canceled"]
             m == [req[q] EXCEPT !.pc = "del.next", !.seen[p] = NoRow]
  <2>1. p \in Players /\ row[p] \in Row /\ req[q].spent = FALSE
    BY <1>3, SoundReq, RowOK DEF DeleteFree, At, Anyone
  <2>2. r \in Row /\ r.ref = row[p].ref /\ r.back = row[p].back
    BY <2>1 DEF Row, Statuses
  <2>3. Patch(p, r) \/ UNCHANGED row
    BY <1>3 DEF DeleteFree
  <2>4. RowsCalm
    <3> HIDE DEF r
    <3> QED
      BY <2>1, <2>2, <2>3, RowsEdited, RowsSame
  <2>5. m \in Request /\ m.pc = "del.next" /\ m.spent = FALSE
    BY <1>0, <2>1, IdleOK DEF Request, Anyone
  <2>6. Go(q, m)
    BY <1>3 DEF DeleteFree
  <2> HIDE DEF m
  <2>7. Sound(m) /\ Empty(m) /\ m.pc \notin Packing
    BY <2>5 DEF Sound, Empty, Packing, Anyone
  <2>8. ReqsCalm
    BY <2>5, <2>6, <2>7, ReqsGo
  <2> QED
    BY <1>3, <2>4, <2>8, RestSame, CalmOK DEF DeleteFree, Kinds
<1>4. CASE DeleteDrop(q)
  <2>1. row' = [p \in Players |-> NoRow] /\ made' = <<>> /\ NoRow.ref = "none"
    BY <1>4 DEF DeleteDrop, NoRow
  <2>2. \A p \in Players : OnSeat(p)' = 0
    BY <2>1 DEF OnSeat
  <2>3. RowsCalm
    BY <2>1, <2>2, IdleOK, OnSeatOK DEF RowsCalm
  <2>4. class' \in [open : BOOLEAN, seats : Nat, soon : BOOLEAN]
    BY <1>4 DEF DeleteDrop, TypeOK
  <2>5. RestCalm
    BY <1>4, <2>1, <2>4 DEF DeleteDrop, RestCalm, TypeOK, MoneyOK
  <2> QED
    BY <1>4, <2>3, <2>5, ReqsDone, CalmOK DEF DeleteDrop
<1> QED
  BY <1>1, <1>2, <1>3, <1>4

-----------------------------------------------------------------------------
(* Checkouts, the webhook and the sweeps.                                    *)

LEMMA PayingOK ==
  ASSUME TypeOK, NEW i \in Intents, Capture(i) \/ \E p \in Players : Pay(p, i)
  PROVE  TypeOK' /\ Balanced
<1>0. intent[i] \in Intent
  BY DEF TypeOK, MoneyOK
<1>1. PICK r \in Intent : intent' = [intent EXCEPT ![i] = r]
  <2>1. CASE Capture(i)
    <3>1. intent' = [intent EXCEPT ![i] = [intent[i] EXCEPT !.status = "captured"]]
      BY <2>1 DEF Capture
    <3>2. [intent[i] EXCEPT !.status = "captured"] \in Intent
      BY <1>0 DEF Intent
    <3> QED
      BY <3>1, <3>2
  <2>2. ASSUME NEW p \in Players, Pay(p, i)
        PROVE  \E r \in Intent : intent' = [intent EXCEPT ![i] = r]
    <3>1. intent' = [intent EXCEPT ![i] = [intent[i] EXCEPT !.of = p, !.status = "open"]]
      BY <2>2 DEF Pay
    <3>2. [intent[i] EXCEPT !.of = p, !.status = "open"] \in Intent
      BY <1>0 DEF Intent
    <3> QED
      BY <3>1, <3>2
  <2> QED
    BY <2>1, <2>2
<1>2. UNCHANGED <<row, made, credits, grant, class, req>> /\ (UNCHANGED left \/ Uses("pay"))
  BY DEF Capture, Pay
<1>3. RestCalm
  BY <1>1, <1>2, IntentsOK DEF RestCalm, TypeOK, Kinds
<1> QED
  BY <1>2, <1>3, RowsSame, ReqsSame, CalmOK

LEMMA HearOK ==
  ASSUME TypeOK, NEW q \in Requests, NEW i \in Intents, HearRead(q, i)
  PROVE  TypeOK' /\ Balanced
<1> DEFINE p == intent[i].of
<1>0. intent[i] \in Intent /\ p \in Players /\ row[p] \in Row
  BY RowOK DEF TypeOK, MoneyOK, HearRead
<1>1. /\ UNCHANGED <<row, made, credits, grant, class>>
      /\ Uses("hear") \/ Uses("fault")
  BY DEF HearRead
<1>2. MoneyOK' /\ ReqsCalm
  <2>1. ASSUME NEW b \in BOOLEAN, intent' = [intent EXCEPT ![i].booked = b]
        PROVE  MoneyOK'
    <3>1. [intent[i] EXCEPT !.booked = b] \in Intent
      BY <1>0 DEF Intent
    <3>2. intent' = [intent EXCEPT ![i] = [intent[i] EXCEPT !.booked = b]]
      BY <2>1
    <3> QED
      BY <1>1, <3>1, <3>2, IntentsOK
  <2>2. ASSUME intent' = [intent EXCEPT ![i].booked = @ \/ row[p].paid]
        PROVE  \E b \in BOOLEAN : intent' = [intent EXCEPT ![i].booked = b]
    <3>1. (intent[i].booked \/ row[p].paid) \in BOOLEAN
      OBVIOUS
    <3>2. intent' = [intent EXCEPT ![i].booked = (intent[i].booked \/ row[p].paid)]
      BY <2>2
    <3> QED
      BY <3>1, <3>2
  <2>3. CASE UNCHANGED req /\ intent' = [intent EXCEPT ![i].booked = @ \/ row[p].paid]
    BY <2>1, <2>2, <2>3, ReqsSame
  <2>4. CASE /\ UNCHANGED intent
             /\ Go(q, [Idle EXCEPT !.op = "hear", !.pc = "paid.write", !.who = p, !.pi = i])
    <3> DEFINE m == [Idle EXCEPT !.op = "hear", !.pc = "paid.write", !.who = p, !.pi = i]
    <3>1. m \in Request /\ m.pc = "paid.write" /\ m.who = p /\ m.pi = i /\ m.spent = FALSE
      <4> HIDE DEF p
      <4> QED
        BY <1>0, IdleOK DEF Request
    <3>2. Go(q, m)
      BY <2>4
    <3> HIDE DEF m
    <3>3. Sound(m) /\ Empty(m) /\ m.pc \notin Packing
      BY <1>0, <3>1 DEF Sound, Empty, Packing
    <3>4. MoneyOK'
      BY <1>1, <2>4 DEF TypeOK, MoneyOK
    <3> QED
      BY <3>1, <3>2, <3>3, <3>4, ReqsGo
  <2>5. CASE UNCHANGED <<intent, req>>
    BY <1>1, <2>5, ReqsSame DEF TypeOK, MoneyOK
  <2> QED
    BY <2>3, <2>4, <2>5 DEF HearRead, HearRow
<1>3. RestCalm
  BY <1>1, <1>2 DEF RestCalm, TypeOK, Kinds
<1> QED
  BY <1>1, <1>2, <1>3, RowsSame, CalmOK

LEMMA PaidOK ==
  ASSUME TypeOK, NEW q \in Requests, PaidWrite(q)
  PROVE  TypeOK' /\ Balanced
<1>p. PICK p \in Players : p = req[q].who
  BY SoundReq DEF PaidWrite, At, Anyone
<1>i. PICK i \in Intents : i = req[q].pi
  BY SoundReq DEF PaidWrite, At, Sound
<1>0. row[p] \in Row /\ intent[i] \in Intent /\ i \notin {"none", "credit", "manual"}
  BY RowOK DEF TypeOK, MoneyOK
<1>1. UNCHANGED <<made, credits, grant, class>> /\ Done(q)
  BY DEF PaidWrite
<1>2. CASE /\ UNCHANGED left
           /\ Patch(p, [row[p] EXCEPT !.status = "enrolled", !.paid = TRUE,
                                      !.ref = i, !.back = FALSE, !.late = FALSE])
           /\ intent' = [intent EXCEPT ![i].booked = row[p].status # "absent"]
  <2> DEFINE r == [row[p] EXCEPT !.status = "enrolled", !.paid = TRUE,
                                 !.ref = i, !.back = FALSE, !.late = FALSE]
             b == row[p].status # "absent"
             n == [intent[i] EXCEPT !.booked = b]
  <2>1. r \in Row /\ r.ref = i
    BY <1>0 DEF Row, Statuses
  <2>2. Patch(p, r)
    BY <1>2
  <2>3. RowsCalm
    <3> HIDE DEF r
    <3> QED
      BY <1>0, <2>1, <2>2, RowsWritten
  <2>4. n \in Intent
    BY <1>0 DEF Intent
  <2>5. intent' = [intent EXCEPT ![i] = n]
    BY <1>2
  <2>6. MoneyOK'
    <3> HIDE DEF n
    <3> QED
      BY <1>1, <2>4, <2>5, IntentsOK
  <2>7. RestCalm
    BY <1>1, <1>2, <2>6 DEF RestCalm, TypeOK
  <2> QED
    BY <1>1, <2>3, <2>7, ReqsDone, CalmOK
<1>3. CASE Uses("fault") /\ UNCHANGED <<row, intent>>
  BY <1>1, <1>3, RowsSame, RestSame, ReqsDone, CalmOK DEF Kinds
<1> QED
  BY <1>p, <1>i, <1>2, <1>3 DEF PaidWrite

\* A sweep drops a row from those it has still to deal with.
LEMMA DropOK ==
  ASSUME TypeOK, NEW q \in Requests, NEW p \in Players, req[q].pc = "exp.next",
         NEW m, m = [req[q] EXCEPT !.seen[p] = NoRow],
         Go(q, m) \/ Go(q, [m EXCEPT !.pc = "pro.count"])
  PROVE  ReqsCalm
<1>1. m \in Request /\ m.pc = "exp.next" /\ m.spent = FALSE
  BY SoundReq, IdleOK DEF Request
<1>2. Sound(m) /\ Empty(m) /\ m.pc \notin Packing
  BY <1>1 DEF Sound, Empty, Packing, Anyone
<1>3. /\ [m EXCEPT !.pc = "pro.count"] \in Request /\ Sound([m EXCEPT !.pc = "pro.count"])
      /\ Empty([m EXCEPT !.pc = "pro.count"]) /\ [m EXCEPT !.pc = "pro.count"].pc \notin Packing
  BY <1>1, MoveOK DEF Ways, Anyone
<1> QED
  BY <1>1, <1>2, <1>3, ReqsGo

LEMMA SweepsOK ==
  ASSUME TypeOK, NEW q \in Requests,
         SweepRefunds(q) \/ SweepNext(q) \/ SweepOffers(q) \/ ExpireOffer(q)
  PROVE  TypeOK' /\ Balanced
<1>0. req[q] \in Request /\ (req[q].pc # "enr.write" => req[q].spent = FALSE)
  BY SoundReq
<1>1. CASE SweepRefunds(q)
  BY <1>1, ReqsStart, RowsSame, RestSame, CalmOK DEF SweepRefunds
<1>2. CASE SweepOffers(q)
  BY <1>2, ReqsStart, RowsSame, RestSame, CalmOK DEF SweepOffers
<1>3. CASE SweepNext(q)
  <2>1. ASSUME NEW p \in Players, Go(q, Settle([req[q] EXCEPT !.who = p]))
        PROVE  ReqsCalm
    <3> DEFINE m == [req[q] EXCEPT !.who = p]
    <3>1. m \in Request /\ m.who \in Players /\ m.spent = FALSE
      BY <1>0, <1>3 DEF Request, SweepNext, At
    <3> HIDE DEF m
    <3>2. Settle(m) \in Request /\ Sound(Settle(m)) /\ Empty(Settle(m)) /\ Settle(m).pc \notin Packing
      BY <3>1, SettleOK
    <3> QED
      BY <2>1, <3>2, ReqsGo DEF m
  <2>2. Done(q) \/ \E p \in Players : Go(q, Settle([req[q] EXCEPT !.who = p]))
    BY <1>3 DEF SweepNext, Rows
  <2> QED
    BY <1>3, <2>1, <2>2, ReqsDone, RowsSame, RestSame, CalmOK DEF SweepNext
<1>4. CASE ExpireOffer(q)
  <2>1. UNCHANGED <<made, credits, grant, intent, class>> /\ (UNCHANGED left \/ Uses("fault"))
    BY <1>4 DEF ExpireOffer
  <2>2. RestCalm
    BY <2>1, RestSame DEF Kinds
  <2>3. CASE Done(q) /\ UNCHANGED row
    BY <2>2, <2>3, ReqsDone, RowsSame, CalmOK
  <2>4. ASSUME NEW p \in Players, NEW m, m = [req[q] EXCEPT !.seen[p] = NoRow],
               \/ Go(q, m) /\ UNCHANGED row
               \/ /\ Go(q, [m EXCEPT !.pc = "pro.count"])
                  /\ row' = [row EXCEPT ![p].status = "expired"]
        PROVE  TypeOK' /\ Balanced
    <3> DEFINE r == [row[p] EXCEPT !.status = "expired"]
    <3>1. r \in Row /\ r.ref = row[p].ref /\ r.back = row[p].back
      BY RowOK DEF Row, Statuses
    <3>2. row' = [row EXCEPT ![p] = r] \/ UNCHANGED row
      BY <2>4
    <3> HIDE DEF r
    <3>3. RowsCalm
      BY <3>1, <3>2, RowsEdited, RowsSame
    <3>4. ReqsCalm
      BY <1>4, <2>4, DropOK DEF ExpireOffer, At
    <3> QED
      BY <2>2, <3>3, <3>4, CalmOK
  <2>5. \/ Done(q) /\ UNCHANGED row
        \/ \E p \in Players : LET m == [req[q] EXCEPT !.seen[p] = NoRow]
              IN \/ Go(q, m) /\ UNCHANGED row
                 \/ /\ Go(q, [m EXCEPT !.pc = "pro.count"])
                    /\ row' = [row EXCEPT ![p].status = "expired"]
    BY <1>4 DEF ExpireOffer, Rows
  <2> QED
    BY <2>3, <2>4, <2>5
<1> QED
  BY <1>1, <1>2, <1>3, <1>4

LEMMA ClassOK ==
  ASSUME TypeOK, ClassNears \/ \E n \in 0..Seats + 1 : EditClass(n)
  PROVE  TypeOK' /\ Balanced
<1>0. class \in [open : BOOLEAN, seats : Nat, soon : BOOLEAN]
  BY DEF TypeOK
<1>1. class' \in [open : BOOLEAN, seats : Nat, soon : BOOLEAN]
  <2>1. CASE ClassNears
    BY <1>0, <2>1 DEF ClassNears
  <2>2. ASSUME NEW n \in 0..Seats + 1, EditClass(n)
        PROVE  class' \in [open : BOOLEAN, seats : Nat, soon : BOOLEAN]
    <3>1. n \in Nat /\ class' = [class EXCEPT !.seats = n]
      BY <2>2 DEF EditClass
    <3> QED
      BY <1>0, <3>1
  <2> QED
    BY <2>1, <2>2
<1>2. RestCalm
  BY <1>1 DEF RestCalm, TypeOK, MoneyOK, ClassNears, EditClass, Kinds
<1> QED
  BY <1>2, RowsSame, ReqsSame, CalmOK DEF ClassNears, EditClass

LEMMA LapsesOK ==
  ASSUME TypeOK, NEW p \in Players, OfferLapses(p)
  PROVE  TypeOK' /\ Balanced
<1> DEFINE r == [row[p] EXCEPT !.late = TRUE]
<1>1. r \in Row /\ r.ref = row[p].ref /\ r.back = row[p].back
  BY RowOK DEF Row
<1>2. row' = [row EXCEPT ![p] = r]
  BY DEF OfferLapses
<1> HIDE DEF r
<1>3. RowsCalm
  BY <1>1, <1>2, RowsEdited
<1> QED
  BY <1>3, ReqsSame, RestSame, CalmOK DEF OfferLapses, Kinds

LEMMA StopOK ==
  ASSUME TypeOK, Stop
  PROVE  TypeOK' /\ Balanced
<1>1. req' = [q \in Requests |-> Idle]
  BY DEF Stop
<1>2. ReqsCalm
  BY <1>1, IdleOK DEF ReqsCalm, ReqOK, Packing, InHand, Carries
<1> QED
  BY <1>2, RowsSame, RestSame, CalmOK DEF Stop, Kinds

-----------------------------------------------------------------------------
(* Class packs keep the types; the theorem on credits is about classes whose  *)
(* players buy none.                                                         *)

LEMMA PacksOK ==
  ASSUME TypeOK, NEW q \in Requests,
         \/ \E p \in Players : PackRead(q, p)
         \/ PackClaim(q) \/ PackBalance(q) \/ PackWrite(q) \/ PackApplied(q)
  PROVE  TypeOK'
<1>0. req[q] \in Request /\ (req[q].pc # "enr.write" => req[q].spent = FALSE)
  BY SoundReq
<1>1. left' \in [Kinds -> Nat]
  <2>1. UNCHANGED left \/ \E k \in Kinds : Uses(k)
    BY DEF PackRead, PackClaim, PackBalance, PackWrite, PackApplied, Kinds
  <2> QED
    BY <2>1, UsesOK
<1>2. UNCHANGED <<row, made, intent, class>>
  BY DEF PackRead, PackClaim, PackBalance, PackWrite, PackApplied
<1>3. ASSUME ReqOK', credits' \in [Players -> Nat],
             grant' \in [Players -> {"none", "claimed", "applied"}]
      PROVE  TypeOK'
  BY <1>1, <1>2, <1>3 DEF TypeOK, MoneyOK
<1>4. /\ UNCHANGED credits => credits' \in [Players -> Nat]
      /\ UNCHANGED grant => grant' \in [Players -> {"none", "claimed", "applied"}]
  BY DEF TypeOK, MoneyOK
<1>5. ASSUME NEW m \in Request, Sound(m), Go(q, m) PROVE ReqOK'
  BY <1>5, GoOK
<1>6. Done(q) => ReqOK'
  BY <1>5, IdleOK DEF Done
<1>7. ASSUME NEW l \in Packing, To(q, l), req[q].pc \in Packing PROVE ReqOK'
  <2>1. /\ [req[q] EXCEPT !.pc = l] \in Request /\ Sound([req[q] EXCEPT !.pc = l])
    BY <1>0, <1>7, SoundReq DEF Request, Sound, Packing, Anyone
  <2> QED
    BY <1>5, <1>7, <2>1 DEF To
<1>8. ASSUME NEW p \in Players, PackRead(q, p) PROVE TypeOK'
  <2> DEFINE m == [Idle EXCEPT !.op = "pack", !.who = p, !.seen = Nothing,
                               !.pc = IF grant[p] = "none" THEN "pack.claim" ELSE "pack.read"]
  <2>1. m \in Request /\ m.pc \in Packing /\ m.who = p /\ m.spent = FALSE
    BY IdleOK DEF Request, Packing
  <2>2. Go(q, m)
    BY <1>8 DEF PackRead, Start
  <2> HIDE DEF m
  <2>3. Sound(m)
    BY <2>1 DEF Sound, Packing
  <2> QED
    BY <1>3, <1>4, <1>5, <1>8, <2>1, <2>2, <2>3 DEF PackRead
<1>9. CASE PackClaim(q)
  <2>1. ReqOK'
    BY <1>6, <1>7, <1>9 DEF PackClaim, At, Packing
  <2>2. grant' \in [Players -> {"none", "claimed", "applied"}]
    BY <1>9 DEF PackClaim, TypeOK, MoneyOK
  <2> QED
    BY <1>3, <1>4, <1>9, <2>1, <2>2 DEF PackClaim
<1>10. CASE PackBalance(q)
  <2> DEFINE m == [req[q] EXCEPT !.pc = "pack.write", !.balance = credits[req[q].who]]
  <2>1. req[q].who \in Players /\ credits[req[q].who] \in Nat
    BY <1>10, SoundReq DEF PackBalance, At, Anyone, TypeOK
  <2>2. m \in Request /\ m.pc = "pack.write" /\ m.who \in Players /\ m.spent = FALSE
    BY <1>0, <1>10, <2>1 DEF Request, PackBalance, At, Packing
  <2>3. Go(q, m)
    BY <1>10 DEF PackBalance
  <2> HIDE DEF m
  <2>4. Sound(m)
    BY <2>2 DEF Sound
  <2> QED
    BY <1>3, <1>4, <1>5, <1>10, <2>2, <2>3, <2>4 DEF PackBalance
<1>11. CASE PackWrite(q)
  <2>1. ReqOK'
    BY <1>6, <1>7, <1>11 DEF PackWrite, At, Packing
  <2>2. credits' \in [Players -> Nat]
    <3>1. req[q].balance + PackSize \in Nat
      BY <1>0 DEF Request
    <3>2. \/ credits' = [credits EXCEPT ![req[q].who] = req[q].balance + PackSize]
          \/ UNCHANGED credits
      BY <1>11 DEF PackWrite
    <3> QED
      BY <3>1, <3>2 DEF TypeOK
  <2> QED
    BY <1>3, <1>4, <1>11, <2>1, <2>2 DEF PackWrite
<1>12. CASE PackApplied(q)
  <2>1. grant' \in [Players -> {"none", "claimed", "applied"}]
    BY <1>12 DEF PackApplied, TypeOK, MoneyOK
  <2> QED
    BY <1>3, <1>4, <1>6, <1>12, <2>1 DEF PackApplied
<1> QED
  BY <1>8, <1>9, <1>10, <1>11, <1>12

-----------------------------------------------------------------------------
(* The theorems.                                                             *)

Packs == \E q \in Requests : \/ \E p \in Players : PackRead(q, p)
                             \/ PackClaim(q) \/ PackBalance(q) \/ PackWrite(q) \/ PackApplied(q)

\* One step of the class, of any kind.
LEMMA StepOK ==
  ASSUME TypeOK, [Next]_vars
  PROVE  TypeOK' /\ (Balanced \/ Packs)
<1>1. CASE UNCHANGED vars
  BY <1>1, RowsSame, ReqsSame, RestSame, CalmOK DEF vars
<1>2. CASE World
  BY <1>2, CashOK, LapsesOK, PayingOK, ClassOK, StopOK DEF World
<1>3. ASSUME NEW q \in Requests, Continue(q) PROVE TypeOK' /\ (Balanced \/ Packs)
  <2>1. CASE Claim(q) \/ Restore(q) \/ Revert(q) \/ Refund(q) \/ Mark(q)
    BY <2>1, ClaimOK, RestoreOK, RevertOK, RefundOK, MarkOK
  <2>2. CASE PromoteCount(q) \/ PromotePick(q) \/ PromoteWrite(q)
    BY <2>2, PromoteOK
  <2>3. CASE EnrollCount(q) \/ EnrollSpend(q) \/ EnrollWait(q) \/ EnrollWrite(q)
    BY <2>3, EnrollingOK, EnrollSpendOK, EnrollWriteOK
  <2>4. CASE CancelWrite(q) \/ ManualWrite(q) \/ PaidWrite(q)
    BY <2>4, LeavingOK, DeskOK, PaidOK
  <2>5. CASE DeleteNext(q) \/ DeleteFree(q) \/ DeleteDrop(q)
    BY <2>5, DeletingOK
  <2>6. CASE SweepNext(q) \/ ExpireOffer(q)
    BY <2>6, SweepsOK
  <2>7. CASE PackClaim(q) \/ PackBalance(q) \/ PackWrite(q) \/ PackApplied(q)
    BY <2>7, PacksOK DEF Packs
  <2> QED
    BY <1>3, <2>1, <2>2, <2>3, <2>4, <2>5, <2>6, <2>7 DEF Continue
<1>4. ASSUME NEW q \in Requests, Calls(q) PROVE TypeOK' /\ (Balanced \/ Packs)
  <2>1. ASSUME NEW p \in Players,
               \/ EnrollRead(q, p) \/ CancelRead(q, p) \/ RemoveRead(q, p)
               \/ ManualCount(q, p) \/ PackRead(q, p)
        PROVE  TypeOK' /\ (Balanced \/ Packs)
    BY <2>1, EnrollingOK, LeavingOK, DeskOK, PacksOK DEF Packs
  <2> QED
    BY <1>4, <2>1, HearOK, DeletingOK DEF Calls
<1>5. ASSUME NEW q \in Requests, Sweeps(q) PROVE TypeOK' /\ (Balanced \/ Packs)
  BY <1>5, SweepsOK DEF Sweeps
<1> QED
  BY <1>1, <1>2, <1>3, <1>4, <1>5 DEF Next

LEMMA InitOK == Init => TypeOK
<1> SUFFICES ASSUME Init PROVE TypeOK
  OBVIOUS
<1>1. row \in [Players -> Row] /\ made \in Seq(Players) /\ credits \in [Players -> Nat]
  BY IdleOK DEF Init
<1>2. MoneyOK
  BY DEF Init, MoneyOK, Intent
<1>3. ReqOK
  BY IdleOK DEF Init, ReqOK
<1> QED
  BY <1>1, <1>2, <1>3 DEF Init, TypeOK

\* Rows, balances, payments and requests keep their types, whichever of the
\* handlers and sweeps of coaching.go run and wherever they fail or stop.
THEOREM TypeOKHolds == Spec => []TypeOK
<1>1. TypeOK /\ [Next]_vars => TypeOK'
  BY StepOK
<1> QED
  BY <1>1, InitOK, PTL DEF Spec

\* No pack is being bought.
NoPacks == left["pack"] = 0 /\ \A q \in Requests : req[q].pc \notin Packing

\* Credits of p, wherever they are.
Within(p) == credits[p] + OnSeat(p) + Cardinality(InHand(p)) <= Granted
Bounded == \A p \in Players : Within(p)

LEMMA InHandFinite == \A p : IsFiniteSet(InHand(p)) /\ IsFiniteSet(InHand(p)')
  BY FS_Subset DEF InHand

LEMMA InHandFewer ==
  ASSUME NEW p, InHand(p)' \subseteq InHand(p)
  PROVE  /\ Cardinality(InHand(p)) \in Nat /\ Cardinality(InHand(p)') \in Nat
         /\ Cardinality(InHand(p)') <= Cardinality(InHand(p))
  BY InHandFinite, FS_Subset, FS_CardinalityType

LEMMA InHandOneMore ==
  ASSUME NEW p, NEW q, InHand(p)' \subseteq InHand(p) \cup {q}
  PROVE  /\ Cardinality(InHand(p)) \in Nat /\ Cardinality(InHand(p)') \in Nat
         /\ Cardinality(InHand(p)') <= Cardinality(InHand(p)) + 1
<1>1. IsFiniteSet(InHand(p)) /\ IsFiniteSet(InHand(p)')
  BY InHandFinite
<1>2. /\ IsFiniteSet(InHand(p) \cup {q})
      /\ \/ Cardinality(InHand(p) \cup {q}) = Cardinality(InHand(p))
         \/ Cardinality(InHand(p) \cup {q}) = Cardinality(InHand(p)) + 1
  BY <1>1, FS_AddElement
<1>3. Cardinality(InHand(p)') <= Cardinality(InHand(p) \cup {q})
  BY <1>2, FS_Subset
<1>4. /\ Cardinality(InHand(p)) \in Nat /\ Cardinality(InHand(p)') \in Nat
      /\ Cardinality(InHand(p) \cup {q}) \in Nat
  BY <1>1, <1>2, FS_CardinalityType
<1> QED
  BY <1>2, <1>3, <1>4

LEMMA InHandOneLess ==
  ASSUME NEW p, NEW q, q \in InHand(p), InHand(p)' \subseteq InHand(p) \ {q}
  PROVE  /\ Cardinality(InHand(p)) \in Nat /\ Cardinality(InHand(p)') \in Nat
         /\ Cardinality(InHand(p)') <= Cardinality(InHand(p)) - 1
<1>1. IsFiniteSet(InHand(p)) /\ IsFiniteSet(InHand(p)')
  BY InHandFinite
<1>2. /\ IsFiniteSet(InHand(p) \ {q})
      /\ Cardinality(InHand(p) \ {q}) = Cardinality(InHand(p)) - 1
  BY <1>1, FS_RemoveElement
<1>3. Cardinality(InHand(p)') <= Cardinality(InHand(p) \ {q})
  BY <1>2, FS_Subset
<1>4. Cardinality(InHand(p)) \in Nat /\ Cardinality(InHand(p)') \in Nat
  BY <1>1, FS_CardinalityType
<1> QED
  BY <1>2, <1>3, <1>4

\* A step that keeps the balance keeps everybody within what was granted.
LEMMA BoundedStep ==
  ASSUME TypeOK, TypeOK', Bounded, Balanced
  PROVE  Bounded'
<1>0. \A p \in Players : credits[p] \in Nat /\ credits'[p] \in Nat
  BY DEF TypeOK
<1>1. ASSUME NEW p \in Players, credits'[p] = credits[p], OnSeat(p)' <= OnSeat(p),
             InHand(p)' \subseteq InHand(p)
      PROVE  Within(p)'
  <2>1. /\ Cardinality(InHand(p)) \in Nat /\ Cardinality(InHand(p)') \in Nat
        /\ Cardinality(InHand(p)') <= Cardinality(InHand(p))
    BY <1>1, InHandFewer
  <2>2. OnSeat(p) \in Nat /\ OnSeat(p)' \in Nat /\ credits[p] \in Nat
        /\ credits[p] + OnSeat(p) + Cardinality(InHand(p)) <= Granted
    BY <1>0, OnSeatOK DEF Bounded, Within
  <2>3. credits'[p] + OnSeat(p)' + Cardinality(InHand(p)') <= Granted
    BY <1>1, <2>1, <2>2
  <2> QED
    BY <2>3 DEF Within
<1>2. CASE Calm
  BY <1>1, <1>2 DEF Calm, Bounded
<1>3. ASSUME NEW q \in Requests, NEW p \in Players, Takes(q, p) PROVE Bounded'
  <2>1. /\ Cardinality(InHand(p)) \in Nat /\ Cardinality(InHand(p)') \in Nat
        /\ Cardinality(InHand(p)') <= Cardinality(InHand(p)) + 1
    BY <1>3, InHandOneMore DEF Takes
  <2>2. OnSeat(p) \in Nat /\ OnSeat(p)' \in Nat /\ credits[p] \in Nat /\ credits'[p] \in Nat
        /\ credits[p] + OnSeat(p) + Cardinality(InHand(p)) <= Granted
    BY <1>0, OnSeatOK DEF Bounded, Within
  <2>3. \/ credits'[p] = credits[p] /\ OnSeat(p)' = 0 /\ OnSeat(p) = 1
        \/ credits'[p] = credits[p] - 1 /\ OnSeat(p)' <= OnSeat(p)
    BY <1>3 DEF Takes
  <2>4. credits'[p] + OnSeat(p)' + Cardinality(InHand(p)') <= Granted
    BY <2>1, <2>2, <2>3
  <2> QED
    BY <1>1, <1>3, <2>4 DEF Takes, Bounded, Within
<1>4. ASSUME NEW q \in Requests, NEW p \in Players, Gives(q, p) PROVE Bounded'
  <2>1. /\ Cardinality(InHand(p)) \in Nat /\ Cardinality(InHand(p)') \in Nat
        /\ Cardinality(InHand(p)') <= Cardinality(InHand(p)) - 1
    BY <1>4, InHandOneLess DEF Gives
  <2>2. OnSeat(p) \in {0, 1} /\ OnSeat(p)' \in {0, 1} /\ credits[p] \in Nat /\ credits'[p] \in Nat
        /\ credits[p] + OnSeat(p) + Cardinality(InHand(p)) <= Granted
    BY <1>0, OnSeatOK DEF Bounded, Within
  <2>3. \/ credits'[p] = credits[p] + 1 /\ OnSeat(p)' <= OnSeat(p)
        \/ credits'[p] = credits[p]
    BY <1>4 DEF Gives
  <2>4. credits'[p] + OnSeat(p)' + Cardinality(InHand(p)') <= Granted
    BY <2>1, <2>2, <2>3
  <2> QED
    BY <1>1, <1>4, <2>4 DEF Gives, Bounded, Within
<1> QED
  BY <1>2, <1>3, <1>4 DEF Balanced

LEMMA NoPacksStep ==
  ASSUME TypeOK, NoPacks, TypeOK', Balanced \/ Packs
  PROVE  NoPacks' /\ Balanced
<1>1. ASSUME NEW q \in Requests,
             \/ \E p \in Players : PackRead(q, p)
             \/ PackClaim(q) \/ PackBalance(q) \/ PackWrite(q) \/ PackApplied(q)
      PROVE  FALSE
  <2>2. ~\E p \in Players : PackRead(q, p)
    BY DEF NoPacks, PackRead, Uses
  <2>3. req[q].pc \in Packing
    BY <1>1, <2>2 DEF PackClaim, PackBalance, PackWrite, PackApplied, At, Packing
  <2> QED
    BY <2>3 DEF NoPacks
<1>2. Balanced
  BY <1>1 DEF Packs
<1>3. left["pack"] = 0 /\ left'["pack"] \in Nat /\ left'["pack"] <= left["pack"]
  BY <1>2 DEF NoPacks, Balanced, Away, TypeOK, Kinds
<1>4. \A q \in Requests : req'[q].pc \notin Packing
  BY <1>2 DEF NoPacks, Balanced, Away
<1>5. left'["pack"] = 0
  BY <1>3
<1> QED
  BY <1>2, <1>4, <1>5 DEF NoPacks

\* However bookings, cancellations, removals, refunds, the deletion of the
\* class and the sweeps interleave, fail or stop, nobody ends up with more
\* class credits than were given to them (settleEnrollmentRefund's claim,
\* restoreCredit and its reversal).  Class packs have a race of their own, so
\* the theorem is about classes whose players buy none.
THEOREM CreditsNeverMintedHolds ==
  ASSUME Budget["pack"] = 0
  PROVE  Spec => []CreditsNeverMinted
<1> DEFINE IInv == TypeOK /\ NoPacks /\ Bounded
<1>1. Init => IInv
  <2> SUFFICES ASSUME Init PROVE NoPacks /\ Bounded
    BY InitOK
  <2>1. NoPacks
    BY IdleOK DEF Init, NoPacks, Packing
  <2>2. \A p \in Players : InHand(p) = {}
    BY IdleOK DEF Init, InHand, Carries
  <2>3. \A p \in Players : credits[p] = Granted /\ OnSeat(p) = 0
    BY DEF Init, OnSeat, NoRow
  <2>4. ASSUME NEW p \in Players PROVE Within(p)
    <3>1. Cardinality(InHand(p)) = 0
      BY <2>2, FS_EmptySet
    <3> QED
      BY <2>3, <3>1 DEF Within
  <2> QED
    BY <2>1, <2>4 DEF Bounded
<1>2. IInv /\ [Next]_vars => IInv'
  <2> SUFFICES ASSUME TypeOK, NoPacks, Bounded, [Next]_vars
               PROVE  TypeOK' /\ NoPacks' /\ Bounded'
    OBVIOUS
  <2>1. TypeOK' /\ (Balanced \/ Packs)
    BY StepOK
  <2>2. NoPacks' /\ Balanced
    BY <2>1, NoPacksStep
  <2> QED
    BY <2>1, <2>2, BoundedStep
<1>3. IInv => CreditsNeverMinted
  <2> SUFFICES ASSUME TypeOK, Bounded, NEW p \in Players
               PROVE  credits[p] + OnSeat(p) + Cardinality(InHand(p)) <= Granted + Bought(p)
    BY DEF CreditsNeverMinted
  <2>1. /\ Cardinality(InHand(p)) \in Nat /\ OnSeat(p) \in Nat /\ credits[p] \in Nat
        /\ credits[p] + OnSeat(p) + Cardinality(InHand(p)) <= Granted
    <3>1. Cardinality(InHand(p)) \in Nat
      BY InHandFinite, FS_CardinalityType
    <3>2. OnSeat(p) \in Nat /\ credits[p] \in Nat
      BY OnSeatOK DEF TypeOK
    <3> QED
      BY <3>1, <3>2 DEF Bounded, Within
  <2>2. Bought(p) \in Nat
    BY DEF Bought
  <2> QED
    BY <2>1, <2>2
<1> QED
  BY <1>1, <1>2, <1>3, PTL DEF Spec

-----------------------------------------------------------------------------
(* Charged customers are not stranded.                                       *)

Enrolling == {"enr.count", "enr.spend", "enr.wait", "enr.write"}

\* Nobody books over a row that is there, opens two checkouts, or pays in cash
\* what was also charged; and no payment is booked between a promotion's pick
\* and its write, or while the class is being deleted.
Undisturbed ==
    /\ \A q \in Requests : req[q].pc \in Enrolling => req[q].seen[req[q].who].status = "absent"
    /\ \A i, j \in Intents : intent[i].of = intent[j].of /\ intent[i].of \in Players => i = j
    /\ \A i \in Intents : intent[i].of \in Players => row[intent[i].of].ref # "manual"
    /\ \A q \in Requests : req[q].pc = "pro.write" => ~row[req[q].who].paid
    /\ \A q, o \in Requests : ~(req[q].op = "delete" /\ req[o].pc = "paid.write")

\* A payment and the row it is for: the row is there for as long as the class,
\* is unpaid until the payment is captured, and paid by it alone.
Follows(i, r) ==
    /\ r.status = "absent" => ~class.open
    /\ intent[i].status = "open" => ~r.paid /\ ~intent[i].booked
    /\ intent[i].status = "captured" =>
           /\ intent[i].booked => r.paid
           /\ r.paid => r.ref = i /\ ~r.back /\ r.status \in {"enrolled", "canceled"}

Books ==
    /\ \A i \in Intents :
          IF intent[i].status = "none" THEN intent[i].of = Nobody /\ ~intent[i].booked
          ELSE intent[i].of \in Players /\ Follows(i, row[intent[i].of])
    /\ \A p \in Players : row[p].ref \in Intents => intent[row[p].ref].of = p

\* Payments that are on their rows and have not been refunded.
Charged == {i \in Intents : intent[i].status = "captured" /\ row[intent[i].of].paid}

\* What a request has read of the payments is theirs still.
Owned(m, pays) == \A p \in Players : m.seen[p].ref \in Intents => pays[m.seen[p].ref].of = p

\* What a request knows at the statement it has come to.
Stands(m, pays) ==
    /\ m.pc \in {"set.refund", "set.mark"} => m.seen[m.who].ref \in Intents
    /\ m.pc = "set.mark" => pays[m.seen[m.who].ref].status = "refunded"
    /\ m.pc \in {"set.claim", "set.restore", "set.revert"} => m.seen[m.who].ref = "credit"
    /\ m.pc = "paid.write" => /\ pays[m.pi].of = m.who
                              /\ pays[m.pi].status \in {"captured", "refunded"}
    /\ m.pc = "exp.next" => m.op = "expire"
    /\ m.pc \in {"del.next", "del.free", "del.drop"} => m.op = "delete"
    /\ m.pc = "del.drop" => Rows(m) = {} /\ ~m.failed

\* The row of p still shows a deletion that i is to be refunded.
Shows(m, p, i) == LET s == m.seen[p]
                  IN  s.status # "absent" /\ s.paid /\ s.ref = i /\ ~s.back

\* A deletion has every charge before it, or gives up.
Clears(m, charged) ==
    m.op = "delete" /\ ~m.failed =>
        \A i \in charged : \E p \in Players : /\ Shows(m, p, i)
                                              /\ m.pc = "del.free" => m.who # p

Fair(m, pays, charged) == Owned(m, pays) /\ Stands(m, pays) /\ Clears(m, charged)

Ledger == Books /\ \A q \in Requests : Fair(req[q], intent, Charged)

\* Who a payment is for is settled when it is started, and a refund is final.
Later(pays, pays2) ==
    \A i \in Intents :
        /\ pays[i].of \in Players => pays2[i].of = pays[i].of
        /\ pays[i].status = "refunded" => pays2[i].status = "refunded"
        /\ pays[i].status = "captured" => pays2[i].status \in {"captured", "refunded"}

LEMMA FairStays ==
  ASSUME NEW m \in Request, m.pc = "paid.write" => m.pi \in Intents /\ m.who \in Players,
         NEW pays, NEW pays2, NEW charged, NEW charged2,
         Fair(m, pays, charged), Later(pays, pays2),
         charged2 \subseteq charged \/ m.op # "delete"
  PROVE  Fair(m, pays2, charged2)
<1>1. Owned(m, pays2)
  BY DEF Fair, Owned, Later
<1>2. Stands(m, pays2)
  BY DEF Fair, Stands, Later
<1>3. Clears(m, charged2)
  BY DEF Fair, Clears
<1> QED
  BY <1>1, <1>2, <1>3 DEF Fair

LEMMA FairIdle == \A pays, charged : Fair(Idle, pays, charged)
<1>1. Idle.op = "none" /\ Idle.pc = "idle" /\ \A p \in Players : Idle.seen[p].ref = "none"
  BY DEF Idle, Nothing, NoRow
<1> QED
  BY <1>1 DEF Fair, Owned, Stands, Clears

\* Statements at which a request knows nothing in particular.
Plain == {"idle", "pro.count", "pro.pick", "pro.write", "swp.next", "can.write", "man.write"}
         \cup Enrolling \cup Packing

LEMMA FairPlain ==
  ASSUME NEW m, NEW n, NEW pays, NEW charged, Fair(m, pays, charged),
         n.op = m.op, n.seen = m.seen, n.failed = m.failed, n.pc \in Plain,
         m.pc # "del.free" \/ m.op # "delete"
  PROVE  Fair(n, pays, charged)
<1>1. Owned(n, pays)
  BY DEF Fair, Owned
<1>2. Stands(n, pays)
  BY DEF Stands, Plain, Enrolling, Packing
<1>3. Clears(n, charged)
  BY DEF Fair, Clears, Shows, Plain, Enrolling, Packing
<1> QED
  BY <1>1, <1>2, <1>3 DEF Fair

\* A settlement that is over leaves a deletion no charge on that row.
LEMMA FairAfter ==
  ASSUME NEW m \in Request, m.who \in Players, NEW pays, NEW charged,
         Owned(m, pays), Clears(m, charged),
         m.op = "delete" /\ ~m.failed => \A i \in charged : ~Shows(m, m.who, i)
  PROVE  Fair(After(m), pays, charged)
<1>1. CASE m.op = "settle"
  <2> DEFINE n == [m EXCEPT !.pc = "swp.next", !.seen[m.who] = NoRow]
  <2>1. /\ n.op = "settle" /\ n.pc = "swp.next"
        /\ \A p \in Players : n.seen[p] = m.seen[p] \/ n.seen[p] = NoRow
    BY <1>1 DEF Request
  <2>2. n = After(m)
    BY <1>1 DEF After
  <2> HIDE DEF n
  <2>3. Owned(n, pays)
    BY <2>1 DEF Owned, NoRow
  <2>4. Stands(n, pays) /\ Clears(n, charged)
    BY <2>1 DEF Stands, Clears
  <2> QED
    BY <2>2, <2>3, <2>4 DEF Fair
<1>2. CASE m.op = "delete"
  <2> DEFINE n == [m EXCEPT !.pc = "del.free"]
  <2>1. n.op = "delete" /\ n.pc = "del.free" /\ n.seen = m.seen /\ n.failed = m.failed /\ n.who = m.who
    BY <1>2 DEF Request
  <2>2. n = After(m)
    BY <1>2 DEF After
  <2> HIDE DEF n
  <2>3. Owned(n, pays)
    BY <2>1 DEF Owned
  <2>4. Stands(n, pays)
    BY <2>1 DEF Stands
  <2>5. Clears(n, charged)
    BY <1>2, <2>1 DEF Clears, Shows
  <2> QED
    BY <2>2, <2>3, <2>4, <2>5 DEF Fair
<1>3. CASE m.op \notin {"settle", "delete"}
  <2> DEFINE n == [m EXCEPT !.pc = "can.write"]
  <2>1. n.op # "delete" /\ n.pc = "can.write" /\ n.seen = m.seen
    BY <1>3 DEF Request
  <2>2. n = After(m)
    BY <1>3 DEF After
  <2> HIDE DEF n
  <2>3. Owned(n, pays)
    BY <2>1 DEF Owned
  <2>4. Stands(n, pays) /\ Clears(n, charged)
    BY <2>1 DEF Stands, Clears
  <2> QED
    BY <2>2, <2>3, <2>4 DEF Fair
<1> QED
  BY <1>1, <1>2, <1>3

LEMMA FairSettle ==
  ASSUME NEW m \in Request, m.who \in Players, NEW pays, NEW charged \in SUBSET Intents,
         Owned(m, pays), m.pc # "del.free", Clears(m, charged)
  PROVE  Fair(Settle(m), pays, charged)
<1> DEFINE r == m.seen[m.who]
<1>1. ASSUME NEW l \in {"set.claim", "set.refund"}, r.ref = "credit" \/ l # "set.claim",
             r.ref \in Intents \/ l # "set.refund", Settle(m) = [m EXCEPT !.pc = l]
      PROVE  Fair(Settle(m), pays, charged)
  <2> DEFINE n == [m EXCEPT !.pc = l]
  <2>1. n.op = m.op /\ n.pc = l /\ n.seen = m.seen /\ n.failed = m.failed /\ n.who = m.who
    BY DEF Request
  <2> HIDE DEF n
  <2>2. Owned(n, pays)
    BY <2>1 DEF Owned
  <2>3. Stands(n, pays)
    BY <1>1, <2>1 DEF Stands
  <2>4. Clears(n, charged)
    BY <1>1, <2>1 DEF Clears, Shows
  <2> QED
    BY <1>1, <2>2, <2>3, <2>4 DEF Fair, n
<1>2. CASE r.ref = "credit" /\ ~r.back
  BY <1>1, <1>2 DEF Settle
<1>3. CASE ~(r.ref = "credit" /\ ~r.back) /\ r.paid /\ r.ref \in Intents /\ ~r.back
  BY <1>1, <1>3 DEF Settle
<1>4. CASE ~(r.ref = "credit" /\ ~r.back) /\ ~(r.paid /\ r.ref \in Intents /\ ~r.back)
  <2> DEFINE n == [m EXCEPT !.got = "nothing"]
  <2>1. /\ n \in Request /\ n.op = m.op /\ n.pc = m.pc /\ n.seen = m.seen /\ n.failed = m.failed
        /\ n.who = m.who
    BY DEF Request
  <2>2. Settle(m) = After(n)
    BY <1>4 DEF Settle
  <2> HIDE DEF n
  <2>3. Owned(n, pays)
    BY <2>1 DEF Owned
  <2>4. Clears(n, charged)
    BY <2>1 DEF Clears, Shows
  <2>5. \A i \in charged : ~Shows(n, n.who, i)
    BY <1>4, <2>1 DEF Shows
  <2> QED
    BY <2>1, <2>2, <2>3, <2>4, <2>5, FairAfter
<1> QED
  BY <1>2, <1>3, <1>4

-----------------------------------------------------------------------------
(* What a step leaves of the books.                                          *)

\* No payment is added to the rows, and what requests know stays true.
Steady == Books' /\ Charged' \subseteq Charged /\ Later(intent, intent')

LEMMA MoneyTypes ==
  ASSUME TypeOK
  PROVE  /\ \A i \in Intents : /\ intent[i] \in Intent
                               /\ i \notin {"none", "credit", "manual"} /\ i # Nobody
         /\ Nobody \notin Players /\ \A p \in Players : row[p] \in Row
  BY DEF TypeOK, MoneyOK

LEMMA SteadySame ==
  ASSUME TypeOK, Books, UNCHANGED <<row, intent>>, class'.open = class.open
  PROVE  Steady
<1>1. Books'
  BY DEF Books, Follows
<1>2. Charged' = Charged
  BY DEF Charged
<1>3. Later(intent, intent')
  BY MoneyTypes DEF Later
<1> QED
  BY <1>1, <1>2, <1>3 DEF Steady

\* One row is written: whoever has a payment has a row still, which is paid
\* only if it was, and shows the charge if it did.
LEMMA SteadyRow ==
  ASSUME TypeOK, Books, NEW p \in Players, NEW r \in Row, row' = [row EXCEPT ![p] = r],
         UNCHANGED intent, class'.open = class.open,
         r.ref \in Intents => intent[r.ref].of = p,
         \A i \in Intents : intent[i].of = p =>
             /\ r.status = "absent" => row[p].status = "absent"
             /\ r.paid => row[p].paid
             /\ i \in Charged => /\ r.paid /\ r.ref = i /\ ~r.back
                                 /\ r.status \in {"enrolled", "canceled"}
  PROVE  Steady
<1>1. row \in [Players -> Row] /\ \A o \in Players : row'[o] = IF o = p THEN r ELSE row[o]
  BY DEF TypeOK
<1>2. ASSUME NEW i \in Intents, intent[i].status # "none"
      PROVE  intent[i].of \in Players /\ Follows(i, row[intent[i].of])'
  <2>1. intent[i].of \in Players /\ Follows(i, row[intent[i].of])
    BY <1>2 DEF Books
  <2>2. CASE intent[i].of = p
    <3>1. /\ row'[p] = r /\ (r.paid => row[p].paid)
          /\ r.status = "absent" => row[p].status = "absent"
      BY <1>1, <2>2
    <3>2. intent[i].status = "captured" /\ row[p].paid =>
             r.paid /\ r.ref = i /\ ~r.back /\ r.status \in {"enrolled", "canceled"}
      BY <2>2 DEF Charged
    <3> QED
      BY <2>1, <2>2, <3>1, <3>2 DEF Follows
  <2>3. CASE intent[i].of # p
    <3>1. row'[intent[i].of] = row[intent[i].of]
      BY <1>1, <2>1, <2>3
    <3> QED
      BY <2>1, <3>1 DEF Follows
  <2> QED
    BY <2>2, <2>3
<1>3. \A o \in Players : row'[o].ref \in Intents => intent[row'[o].ref].of = o
  BY <1>1 DEF Books
<1>4. Books'
  BY <1>2, <1>3 DEF Books
<1>5. Charged' \subseteq Charged
  <2> SUFFICES ASSUME NEW i \in Intents, intent[i].status = "captured", row'[intent[i].of].paid
               PROVE  row[intent[i].of].paid
    BY DEF Charged
  <2>1. intent[i].of \in Players
    BY DEF Books
  <2> QED
    BY <1>1, <2>1
<1>6. Later(intent, intent')
  BY MoneyTypes DEF Later
<1> QED
  BY <1>4, <1>5, <1>6 DEF Steady

\* The same for an update by id, which finds its row or writes nothing.
LEMMA SteadyPatch ==
  ASSUME TypeOK, Books, NEW p \in Players, NEW r \in Row, Patch(p, r),
         UNCHANGED intent, class'.open = class.open,
         r.ref \in Intents => intent[r.ref].of = p,
         \A i \in Intents : intent[i].of = p =>
             /\ r.status = "absent" => row[p].status = "absent"
             /\ r.paid => row[p].paid
             /\ i \in Charged => /\ r.paid /\ r.ref = i /\ ~r.back
                                 /\ r.status \in {"enrolled", "canceled"}
  PROVE  Steady
<1>1. row \in [Players -> Row]
  BY DEF TypeOK
<1>2. CASE row[p].status = "absent"
  <2>1. row' = row
    BY <1>1, <1>2 DEF Patch
  <2> QED
    BY <2>1, SteadySame
<1>3. CASE row[p].status # "absent"
  <2>1. row' = [row EXCEPT ![p] = r]
    BY <1>1, <1>3 DEF Patch
  <2> QED
    BY <2>1, SteadyRow
<1> QED
  BY <1>2, <1>3

\* What the books say of a charge.
LEMMA ChargedOK ==
  ASSUME TypeOK, Books, NEW i \in Charged
  PROVE  /\ i \in Intents /\ intent[i].of \in Players /\ intent[i].status = "captured"
         /\ row[intent[i].of].paid /\ row[intent[i].of].ref = i /\ ~row[intent[i].of].back
         /\ row[intent[i].of].status \in {"enrolled", "canceled"}
<1>1. i \in Intents /\ intent[i].status = "captured" /\ row[intent[i].of].paid
  BY DEF Charged
<1>2. intent[i].of \in Players /\ Follows(i, row[intent[i].of])
  BY <1>1 DEF Books
<1> QED
  BY <1>1, <1>2 DEF Follows

\* A row is edited without touching the reference, the charge or the payment.
LEMMA SteadyEdit ==
  ASSUME TypeOK, Books, NEW p \in Players, NEW r \in Row,
         Patch(p, r) \/ row' = [row EXCEPT ![p] = r],
         UNCHANGED intent, class'.open = class.open,
         r.ref = row[p].ref, r.back = row[p].back, r.paid = row[p].paid,
         r.status \in {"enrolled", "canceled"} \/ r.status = row[p].status
  PROVE  Steady
<1>1. r.ref \in Intents => intent[r.ref].of = p
  BY DEF Books
<1>2. \A i \in Charged : intent[i].of = p =>
          /\ r.paid /\ r.ref = i /\ ~r.back /\ r.status \in {"enrolled", "canceled"}
  BY ChargedOK
<1> QED
  BY <1>1, <1>2, SteadyRow, SteadyPatch

\* A row with no charge on it is edited, and not paid.
LEMMA SteadyUnpaid ==
  ASSUME TypeOK, Books, NEW p \in Players, NEW r \in Row,
         Patch(p, r) \/ row' = [row EXCEPT ![p] = r],
         UNCHANGED intent, class'.open = class.open,
         r.ref = row[p].ref, ~row[p].paid, ~r.paid,
         r.status = "absent" => row[p].status = "absent"
  PROVE  Steady
<1>1. r.ref \in Intents => intent[r.ref].of = p
  BY DEF Books
<1>2. \A i \in Charged : intent[i].of # p
  BY ChargedOK
<1> QED
  BY <1>1, <1>2, SteadyRow, SteadyPatch

-----------------------------------------------------------------------------
(* What a step leaves of the ledger.                                         *)

LEMMA ReadsOK ==
  ASSUME TypeOK, NEW q \in Requests
  PROVE  /\ req[q] \in Request
         /\ req[q].pc = "paid.write" => req[q].pi \in Intents /\ req[q].who \in Players
  BY DEF TypeOK, ReqOK, Sound, Anyone

LEMMA LedgerStays ==
  ASSUME TypeOK, Ledger, Steady, UNCHANGED req
  PROVE  Ledger'
<1>1. \A q \in Requests : Fair(req[q], intent', Charged')
  BY ReadsOK, FairStays DEF Ledger, Steady
<1> QED
  BY <1>1 DEF Ledger, Steady

LEMMA LedgerGoes ==
  ASSUME TypeOK, Ledger, Steady, NEW q \in Requests, NEW m, Go(q, m),
         Fair(m, intent', Charged')
  PROVE  Ledger'
<1>1. \A o \in Requests : req'[o] = IF o = q THEN m ELSE req[o]
  BY DEF Go, TypeOK, ReqOK
<1>2. \A o \in Requests : Fair(req[o], intent', Charged')
  BY ReadsOK, FairStays DEF Ledger, Steady
<1> QED
  BY <1>1, <1>2 DEF Ledger, Steady

\* The request goes on where nothing needs to be known.
LEMMA LedgerPlain ==
  ASSUME TypeOK, Ledger, Steady, NEW q \in Requests, NEW m, Go(q, m),
         m = Idle \/ /\ m.op = req[q].op /\ m.seen = req[q].seen /\ m.failed = req[q].failed
                     /\ m.pc \in Plain /\ req[q].pc # "del.free"
  PROVE  Ledger'
<1>1. Fair(req[q], intent', Charged')
  BY ReadsOK, FairStays DEF Ledger, Steady
<1>2. Fair(m, intent', Charged')
  BY <1>1, FairIdle, FairPlain
<1> QED
  BY <1>2, LedgerGoes

LEMMA LedgerDone ==
  ASSUME TypeOK, Ledger, Steady, NEW q \in Requests, Done(q)
  PROVE  Ledger'
  BY LedgerPlain DEF Done

LEMMA LedgerTo ==
  ASSUME TypeOK, Ledger, Steady, NEW q \in Requests, NEW l \in Plain, To(q, l),
         req[q].pc # "del.free"
  PROVE  Ledger'
<1> DEFINE m == [req[q] EXCEPT !.pc = l]
<1>1. m.op = req[q].op /\ m.seen = req[q].seen /\ m.failed = req[q].failed /\ m.pc = l
  BY ReadsOK DEF Request
<1>2. Go(q, m)
  BY DEF To
<1> HIDE DEF m
<1> QED
  BY <1>1, <1>2, LedgerPlain

\* What is read of these players' rows.
LEMMA OnlyOwned ==
  ASSUME TypeOK, Books, NEW S, NEW m, m.seen = Only(S)
  PROVE  Owned(m, intent)
<1>1. \A p \in Players : m.seen[p] = row[p] \/ m.seen[p] = NoRow
  BY DEF Only
<1> QED
  BY <1>1, MoneyTypes DEF Books, Owned, NoRow

\* A request begins.
LEMMA LedgerStart ==
  ASSUME TypeOK, Ledger, Steady, UNCHANGED intent, NEW q \in Requests, NEW op, op # "delete",
         NEW l \in Plain \cup {"exp.next"}, l = "exp.next" => op = "expire",
         NEW p, NEW S, NEW seen, Start(q, op, l, p, seen), seen = Only(S) \/ seen = Nothing
  PROVE  Ledger'
<1> DEFINE m == [Idle EXCEPT !.op = op, !.pc = l, !.who = p, !.seen = seen]
<1>1. m.op = op /\ m.seen = seen /\ m.pc = l
  BY DEF Idle
<1>2. Go(q, m)
  BY DEF Start
<1> HIDE DEF m
<1>3. Owned(m, intent')
  <2>1. CASE seen = Only(S)
    BY <1>1, <2>1, OnlyOwned DEF Ledger
  <2>2. CASE seen = Nothing
    BY <1>1, <2>2, MoneyTypes DEF Nothing, NoRow, Owned
  <2> QED
    BY <2>1, <2>2
<1>4. Stands(m, intent') /\ Clears(m, Charged')
  BY <1>1 DEF Stands, Clears, Plain, Enrolling, Packing
<1> QED
  BY <1>2, <1>3, <1>4, LedgerGoes DEF Fair

-----------------------------------------------------------------------------
(* Every statement keeps the ledger: settlements.                            *)

LEMMA Locked ==
  ASSUME TypeOK, Ledger, NEW q \in Requests
  PROVE  /\ Books /\ Fair(req[q], intent, Charged) /\ req[q] \in Request
         /\ Owned(req[q], intent) /\ Stands(req[q], intent) /\ Clears(req[q], Charged)
         /\ Charged \subseteq Intents
  BY ReadsOK DEF Ledger, Fair, Charged

\* A settlement is over.
LEMMA LedgerSettled ==
  ASSUME TypeOK, Ledger, Steady, NEW q \in Requests, req[q].who \in Players,
         NEW got \in {"nothing", "returned", "failed"}, Settled(q, got), req[q].pc # "del.free",
         got = "failed" \/ req[q].seen[req[q].who].ref \notin Charged'
  PROVE  Ledger'
<1> DEFINE n == [req[q] EXCEPT !.got = got, !.failed = IF got = "failed" THEN TRUE ELSE @]
<1>1. /\ n \in Request /\ n.op = req[q].op /\ n.pc = req[q].pc /\ n.seen = req[q].seen
      /\ n.who = req[q].who /\ n.failed = (got = "failed" \/ req[q].failed)
  <2>1. req[q] \in Request
    BY ReadsOK
  <2>2. CASE got = "failed"
    <3>1. n = [req[q] EXCEPT !.got = got, !.failed = TRUE]
      BY <2>2
    <3> QED
      BY <2>1, <2>2, <3>1 DEF Request
  <2>3. CASE got # "failed"
    <3>1. n = [req[q] EXCEPT !.got = got, !.failed = req[q].failed]
      BY <2>3
    <3> QED
      BY <2>1, <2>3, <3>1 DEF Request
  <2> QED
    BY <2>2, <2>3
<1>2. Go(q, After(n))
  BY DEF Settled
<1> HIDE DEF n
<1>3. Fair(req[q], intent', Charged')
  BY ReadsOK, FairStays DEF Ledger, Steady
<1>4. Owned(n, intent') /\ Clears(n, Charged')
  BY <1>1, <1>3 DEF Fair, Owned, Clears, Shows
<1>5. n.op = "delete" /\ ~n.failed => \A i \in Charged' : ~Shows(n, n.who, i)
  BY <1>1 DEF Shows
<1>6. Fair(After(n), intent', Charged')
  BY <1>1, <1>4, <1>5, FairAfter
<1> QED
  BY <1>2, <1>6, LedgerGoes

LEMMA ClaimLedger ==
  ASSUME TypeOK, Ledger, NEW q \in Requests, Claim(q)
  PROVE  Ledger'
<1>p. PICK p \in Players : p = req[q].who
  BY SettlingReq DEF Claim, At
<1>1. /\ At(q, "set.claim") /\ UNCHANGED <<made, credits, grant, intent, class>>
      /\ req[q].seen[p].ref = "credit" /\ row[p] \in Row
  BY <1>p, Locked, MoneyTypes DEF Claim, At, Stands
<1>2. CASE /\ row[p].ref = "credit" /\ ~row[p].back /\ row' = [row EXCEPT ![p].back = TRUE]
           /\ To(q, "set.restore")
  <2> DEFINE r == [row[p] EXCEPT !.back = TRUE]
  <2>1. /\ r \in Row /\ r.ref = row[p].ref /\ r.paid = row[p].paid /\ r.status = row[p].status
    BY <1>1 DEF Row
  <2>2. row' = [row EXCEPT ![p] = r]
    BY <1>2
  <2> HIDE DEF r
  <2>4. \A i \in Charged : intent[i].of # p
    BY <1>2, Locked, ChargedOK, MoneyTypes
  <2>5. Steady
    BY <1>1, <1>2, <2>1, <2>2, <2>4, Locked, MoneyTypes, SteadyRow
  <2> DEFINE m == [req[q] EXCEPT !.pc = "set.restore"]
  <2>6. /\ Go(q, m) /\ m.pc = "set.restore" /\ m.op = req[q].op /\ m.seen = req[q].seen
        /\ m.who = req[q].who /\ m.failed = req[q].failed
    BY <1>2, Locked DEF To, Request
  <2> HIDE DEF m
  <2>7. Fair(req[q], intent', Charged')
    BY <2>5, ReadsOK, FairStays DEF Ledger, Steady
  <2>8. Fair(m, intent', Charged')
    BY <1>p, <1>1, <2>6, <2>7 DEF Fair, Owned, Stands, Clears, Shows
  <2> QED
    BY <2>5, <2>6, <2>8, LedgerGoes
<1>3. CASE \E got \in {"nothing", "failed"} : Settled(q, got) /\ UNCHANGED row
  <2>1. Steady
    BY <1>1, <1>3, Locked, SteadySame
  <2>2. Charged' \subseteq Intents /\ "credit" \notin Intents
    BY MoneyTypes DEF Charged
  <2> QED
    BY <1>p, <1>1, <1>3, <2>1, <2>2, LedgerSettled DEF At
<1> QED
  BY <1>p, <1>2, <1>3 DEF Claim

LEMMA RestoreLedger ==
  ASSUME TypeOK, Ledger, NEW q \in Requests, Restore(q)
  PROVE  Ledger'
<1>p. PICK p \in Players : p = req[q].who
  BY SettlingReq DEF Restore, At
<1>1. /\ At(q, "set.restore") /\ UNCHANGED <<row, intent, class>>
      /\ req[q].seen[p].ref = "credit"
  BY <1>p, Locked DEF Restore, At, Stands
<1>2. Steady
  BY <1>1, Locked, SteadySame
<1>3. CASE Settled(q, "returned")
  <2>1. Charged' \subseteq Intents /\ "credit" \notin Intents
    BY MoneyTypes DEF Charged
  <2> QED
    BY <1>p, <1>1, <1>2, <1>3, <2>1, LedgerSettled DEF At
<1>4. CASE To(q, "set.revert")
  <2> DEFINE m == [req[q] EXCEPT !.pc = "set.revert"]
  <2>1. /\ Go(q, m) /\ m.pc = "set.revert" /\ m.op = req[q].op /\ m.seen = req[q].seen
        /\ m.who = req[q].who /\ m.failed = req[q].failed
    BY <1>4, Locked DEF To, Request
  <2> HIDE DEF m
  <2>2. Fair(req[q], intent', Charged')
    BY <1>2, ReadsOK, FairStays DEF Ledger, Steady
  <2>3. Fair(m, intent', Charged')
    BY <1>p, <1>1, <2>1, <2>2 DEF Fair, Owned, Stands, Clears, Shows
  <2> QED
    BY <1>2, <2>1, <2>3, LedgerGoes
<1> QED
  BY <1>3, <1>4 DEF Restore

LEMMA RevertLedger ==
  ASSUME TypeOK, Ledger, NEW q \in Requests, Revert(q)
  PROVE  Ledger'
<1>p. PICK p \in Players : p = req[q].who
  BY SettlingReq DEF Revert, At
<1>1. /\ At(q, "set.revert") /\ UNCHANGED <<intent, class>> /\ Settled(q, "failed")
      /\ row[p] \in Row
  BY <1>p, MoneyTypes DEF Revert
<1>2. CASE UNCHANGED row
  BY <1>1, <1>2, Locked, SteadySame, <1>p, LedgerSettled DEF At
<1>3. CASE row' = [row EXCEPT ![p].back = IF row[p].ref = "credit" THEN FALSE ELSE @]
  <2> DEFINE r == [row[p] EXCEPT !.back = IF row[p].ref = "credit" THEN FALSE ELSE @]
  <2>1. /\ r \in Row /\ r.ref = row[p].ref /\ r.paid = row[p].paid /\ r.status = row[p].status
        /\ r.back = row[p].back \/ row[p].ref = "credit"
    <3>1. CASE row[p].ref = "credit"
      <4>1. r = [row[p] EXCEPT !.back = FALSE]
        BY <3>1
      <4> QED
        BY <1>1, <3>1, <4>1 DEF Row
    <3>2. CASE row[p].ref # "credit"
      <4>1. r = [row[p] EXCEPT !.back = row[p].back]
        BY <3>2
      <4> QED
        BY <1>1, <3>2, <4>1 DEF Row
    <3> QED
      BY <3>1, <3>2
  <2>2. row' = [row EXCEPT ![p] = r]
    BY <1>3
  <2> HIDE DEF r
  <2>3. r.ref \in Intents => intent[r.ref].of = p
    BY <2>1, Locked DEF Books
  <2>4. \A i \in Charged : intent[i].of = p =>
            r.paid /\ r.ref = i /\ ~r.back /\ r.status \in {"enrolled", "canceled"}
    BY <2>1, Locked, ChargedOK, MoneyTypes
  <2>5. /\ Books /\ UNCHANGED intent /\ class'.open = class.open
        /\ r.status = "absent" => row[p].status = "absent"
        /\ r.paid => row[p].paid
    BY <1>1, <2>1, Locked
  <2>6. Steady
    BY <2>1, <2>2, <2>3, <2>4, <2>5, SteadyRow
  <2> QED
    BY <1>p, <1>1, <2>6, LedgerSettled DEF At
<1> QED
  BY <1>p, <1>2, <1>3 DEF Revert

LEMMA RefundLedger ==
  ASSUME TypeOK, Ledger, NEW q \in Requests, Refund(q)
  PROVE  Ledger'
<1>p. PICK p \in Players : p = req[q].who
  BY SettlingReq DEF Refund, At
<1> DEFINE j == req[q].seen[p].ref
<1>1. /\ At(q, "set.refund") /\ UNCHANGED <<row, class>> /\ j \in Intents
  BY <1>p, Locked DEF Refund, At, Stands
<1>2. CASE Settled(q, "failed") /\ UNCHANGED intent
  BY <1>p, <1>1, <1>2, Locked, SteadySame, LedgerSettled DEF At
<1>3. CASE intent' = [intent EXCEPT ![j].status = "refunded"] /\ To(q, "set.mark")
  <2>1. intent \in [Intents -> Intent]
    BY DEF TypeOK, MoneyOK
  <2>2. /\ intent'[j].status = "refunded" /\ intent'[j].of = intent[j].of
        /\ intent'[j].booked = intent[j].booked
        /\ \A i \in Intents \ {j} : intent'[i] = intent[i]
    BY <1>1, <1>3, <2>1 DEF Intent
  <2>3. intent[j].of = p
    BY <1>1, <1>p, Locked DEF Owned
  <2> HIDE DEF j
  <2>4. Books'
    BY <1>1, <2>2, <2>3, Locked DEF Books, Follows
  <2>5. Charged' \subseteq Charged /\ Later(intent, intent')
    BY <1>1, <2>2 DEF Charged, Later
  <2>6. Steady
    BY <2>4, <2>5 DEF Steady
  <2> DEFINE m == [req[q] EXCEPT !.pc = "set.mark"]
  <2>7. /\ Go(q, m) /\ m.pc = "set.mark" /\ m.op = req[q].op /\ m.seen = req[q].seen
        /\ m.who = req[q].who /\ m.failed = req[q].failed
    BY <1>3, Locked DEF To, Request
  <2> HIDE DEF m
  <2>8. Fair(req[q], intent', Charged')
    BY <2>6, ReadsOK, FairStays DEF Ledger, Steady
  <2>9. m.seen[m.who].ref = j
    BY <1>p, <2>7 DEF j
  <2>10. Fair(m, intent', Charged')
    BY <1>1, <2>2, <2>7, <2>8, <2>9 DEF Fair, Owned, Stands, Clears, Shows
  <2> QED
    BY <2>6, <2>7, <2>10, LedgerGoes
<1> QED
  BY <1>p, <1>2, <1>3 DEF Refund

LEMMA MarkLedger ==
  ASSUME TypeOK, Ledger, Undisturbed, NEW q \in Requests, Mark(q)
  PROVE  Ledger'
<1>p. PICK p \in Players : p = req[q].who
  BY SettlingReq DEF Mark, At
<1> DEFINE j == req[q].seen[p].ref
<1>1. /\ At(q, "set.mark") /\ UNCHANGED <<intent, class>> /\ Settled(q, "returned")
      /\ j \in Intents /\ intent[j].status = "refunded" /\ intent[j].of = p /\ row[p] \in Row
  BY <1>p, Locked, MoneyTypes DEF Mark, At, Stands, Owned
<1>2. \A i \in Charged : i # j /\ intent[i].of # p
  BY <1>1, Locked, ChargedOK DEF Undisturbed
<1>3. Steady => Ledger'
  <2>1. j \notin Charged'
    BY <1>1 DEF Charged
  <2> QED
    BY <1>p, <1>1, <2>1, LedgerSettled DEF At
<1>4. CASE UNCHANGED row
  BY <1>1, <1>3, <1>4, Locked, SteadySame
<1>5. CASE Patch(p, [row[p] EXCEPT !.ref = j, !.back = TRUE])
  <2> DEFINE r == [row[p] EXCEPT !.ref = j, !.back = TRUE]
  <2>1. /\ r \in Row /\ r.ref = j /\ r.paid = row[p].paid /\ r.status = row[p].status
        /\ Patch(p, r)
    BY <1>1, <1>5 DEF Row
  <2> HIDE DEF r, j
  <2>3. /\ Books /\ UNCHANGED intent /\ class'.open = class.open
        /\ r.ref \in Intents => intent[r.ref].of = p
    BY <1>1, <2>1, Locked
  <2>2. Steady
    BY <1>2, <2>1, <2>3, SteadyPatch
  <2> QED
    BY <1>3, <2>2
<1> QED
  BY <1>p, <1>4, <1>5 DEF Mark

-----------------------------------------------------------------------------
(* Promotions and bookings.                                                  *)

LEMMA PromoteLedger ==
  ASSUME TypeOK, Ledger, Undisturbed, NEW q \in Requests,
         PromoteCount(q) \/ PromotePick(q) \/ PromoteWrite(q)
  PROVE  Ledger'
<1>1. /\ req[q].pc \in {"pro.count", "pro.pick", "pro.write"} /\ UNCHANGED <<intent, class>>
      /\ req[q] \in Request /\ Books
  BY Locked DEF PromoteCount, PromotePick, PromoteWrite, At
<1>2. Steady /\ Promoted(q) => Ledger'
  <2>1. CASE req[q].op = "expire"
    <3> DEFINE m == [req[q] EXCEPT !.pc = "exp.next"]
    <3>1. m.op = "expire" /\ m.pc = "exp.next" /\ m.seen = req[q].seen
      BY <1>1, <2>1 DEF Request
    <3>2. Promoted(q) => Go(q, m)
      BY <2>1 DEF Promoted, To
    <3> HIDE DEF m
    <3>3. Steady => Fair(req[q], intent', Charged')
      BY ReadsOK, FairStays DEF Ledger, Steady
    <3>4. Steady => Fair(m, intent', Charged')
      BY <3>1, <3>3 DEF Fair, Owned, Stands, Clears
    <3> QED
      BY <3>2, <3>4, LedgerGoes
  <2>2. CASE req[q].op # "expire"
    BY <2>2, LedgerDone DEF Promoted
  <2> QED
    BY <2>1, <2>2
<1>3. CASE UNCHANGED row /\ (Promoted(q) \/ To(q, "pro.pick"))
  <2>1. Steady
    BY <1>1, <1>3, SteadySame
  <2> QED
    BY <1>1, <1>2, <1>3, <2>1, LedgerTo DEF Plain
<1>4. ASSUME NEW p, Go(q, [req[q] EXCEPT !.who = p, !.pc = "pro.write"]), UNCHANGED row
      PROVE  Ledger'
  <2> DEFINE m == [req[q] EXCEPT !.who = p, !.pc = "pro.write"]
  <2>1. m.op = req[q].op /\ m.pc = "pro.write" /\ m.seen = req[q].seen /\ m.failed = req[q].failed
    BY <1>1 DEF Request
  <2> HIDE DEF m
  <2>2. Steady
    BY <1>1, <1>4, SteadySame
  <2> QED
    BY <1>1, <1>4, <2>1, <2>2, LedgerPlain DEF m, Plain
<1>5. CASE PromoteWrite(q)
  <2>p. PICK p \in Players : p = req[q].who
    BY <1>5, SoundReq DEF PromoteWrite, At, Anyone
  <2>1. row[p] \in Row /\ ~row[p].paid /\ Promoted(q)
    BY <1>5, <2>p, MoneyTypes DEF PromoteWrite, At, Undisturbed
  <2>2. CASE UNCHANGED row
    BY <1>1, <1>2, <2>1, <2>2, SteadySame
  <2>3. ASSUME NEW r, Patch(p, r), r \in Row, r.ref = row[p].ref, ~r.paid, r.status # "absent"
        PROVE  Ledger'
    <3>1. Steady
      BY <1>1, <2>1, <2>3, SteadyUnpaid
    <3> QED
      BY <1>2, <2>1, <3>1
  <2>4. CASE Patch(p, [row[p] EXCEPT !.status = "offered", !.paid = FALSE, !.late = FALSE])
    <3> DEFINE r == [row[p] EXCEPT !.status = "offered", !.paid = FALSE, !.late = FALSE]
    <3>1. r \in Row /\ r.ref = row[p].ref /\ ~r.paid /\ r.status # "absent"
      BY <2>1 DEF Row, Statuses
    <3> HIDE DEF r
    <3> QED
      BY <2>3, <2>4, <3>1 DEF r
  <2>5. CASE Patch(p, [row[p] EXCEPT !.status = "enrolled"])
    <3> DEFINE r == [row[p] EXCEPT !.status = "enrolled"]
    <3>1. r \in Row /\ r.ref = row[p].ref /\ ~r.paid /\ r.status # "absent"
      BY <2>1 DEF Row, Statuses
    <3> HIDE DEF r
    <3> QED
      BY <2>3, <2>5, <3>1 DEF r
  <2> QED
    BY <1>5, <2>p, <2>2, <2>4, <2>5 DEF PromoteWrite
<1>6. CASE PromoteCount(q)
  BY <1>3, <1>6 DEF PromoteCount
<1>7. CASE PromotePick(q)
  BY <1>3, <1>4, <1>7 DEF PromotePick
<1> QED
  BY <1>5, <1>6, <1>7

\* A row is inserted for a player who has none, in a class that is there: no
\* payment can be for it.
LEMMA UpsertSteady ==
  ASSUME TypeOK, Ledger, NEW q \in Requests, NEW p \in Players, NEW r \in Row,
         req[q].seen[p].status = "absent", Upsert(q, p, r), UNCHANGED <<intent, class>>,
         r.ref \notin Intents \/ r.ref = row[p].ref
  PROVE  Steady
<1>1. Books
  BY Locked
<1>2. CASE UNCHANGED row
  BY <1>1, <1>2, SteadySame
<1>3. CASE class.open /\ row[p].status = "absent" /\ row' = [row EXCEPT ![p] = r]
  <2>1. \A i \in Intents : intent[i].of # p
    BY <1>1, <1>3, MoneyTypes DEF Books, Follows
  <2>2. r.ref \in Intents => intent[r.ref].of = p
    BY <1>1 DEF Books
  <2> QED
    BY <1>1, <1>3, <2>1, <2>2, SteadyRow
<1> QED
  BY <1>2, <1>3 DEF Upsert

LEMMA EnrollLedger ==
  ASSUME TypeOK, Ledger, Undisturbed, NEW q \in Requests,
         EnrollCount(q) \/ EnrollSpend(q) \/ EnrollWait(q) \/ EnrollWrite(q)
  PROVE  Ledger'
<1>p. PICK p \in Players : p = req[q].who
  BY SoundReq DEF EnrollCount, EnrollSpend, EnrollWait, EnrollWrite, At, Anyone
<1>1. /\ req[q].pc \in Enrolling /\ UNCHANGED <<intent, class>> /\ Books
      /\ req[q] \in Request /\ row[p] \in Row
  BY Locked, MoneyTypes DEF EnrollCount, EnrollSpend, EnrollWait, EnrollWrite, At, Enrolling
<1>2. req[q].seen[p].status = "absent"
  BY <1>1, <1>p DEF Undisturbed
<1>3. CASE EnrollCount(q)
  <2>1. Steady
    BY <1>1, <1>3, SteadySame DEF EnrollCount
  <2>2. To(q, "enr.wait") \/ To(q, "enr.spend")
    BY <1>3 DEF EnrollCount
  <2> QED
    BY <1>1, <2>1, <2>2, LedgerTo DEF Plain, Enrolling
<1>4. CASE EnrollSpend(q)
  <2>1. Steady
    BY <1>1, <1>4, SteadySame DEF EnrollSpend
  <2>2. CASE To(q, "enr.write")
    BY <1>1, <2>1, <2>2, LedgerTo DEF Plain, Enrolling
  <2>3. CASE Go(q, [req[q] EXCEPT !.pc = "enr.write", !.spent = TRUE])
    <3> DEFINE m == [req[q] EXCEPT !.pc = "enr.write", !.spent = TRUE]
    <3>1. m.op = req[q].op /\ m.pc = "enr.write" /\ m.seen = req[q].seen /\ m.failed = req[q].failed
      BY <1>1 DEF Request
    <3> HIDE DEF m
    <3> QED
      BY <1>1, <2>1, <2>3, <3>1, LedgerPlain DEF m, Plain, Enrolling
  <2> QED
    BY <1>4, <2>2, <2>3 DEF EnrollSpend
<1>5. CASE EnrollWait(q)
  <2> DEFINE r == [row[p] EXCEPT !.status = "waitlisted", !.paid = FALSE]
  <2>1. r \in Row /\ r.ref = row[p].ref
    BY <1>1 DEF Row, Statuses
  <2>2. UNCHANGED row \/ Upsert(q, p, r)
    BY <1>p, <1>5 DEF EnrollWait
  <2> HIDE DEF r
  <2>3. Steady
    BY <1>1, <1>2, <2>1, <2>2, SteadySame, UpsertSteady
  <2> QED
    BY <1>5, <2>3, LedgerDone DEF EnrollWait
<1>6. CASE EnrollWrite(q)
  <2> DEFINE s == req[q].spent
             r == [row[p] EXCEPT !.status = "enrolled", !.paid = ~Priced \/ s,
                                 !.ref  = IF s THEN "credit" ELSE @,
                                 !.back = IF s THEN FALSE ELSE @]
  <2>1. r \in Row /\ (r.ref = row[p].ref \/ r.ref = "credit")
    <3>1. s \in BOOLEAN /\ (~Priced \/ s) \in BOOLEAN
      BY <1>1 DEF Request
    <3>2. CASE s
      <4>1. r = [row[p] EXCEPT !.status = "enrolled", !.paid = TRUE, !.ref = "credit", !.back = FALSE]
        BY <3>2
      <4> QED
        BY <1>1, <4>1 DEF Row, Statuses
    <3>3. CASE ~s
      <4>1. r = [row[p] EXCEPT !.status = "enrolled", !.paid = ~Priced, !.ref = row[p].ref,
                               !.back = row[p].back]
        BY <3>3
      <4> QED
        BY <1>1, <4>1 DEF Row, Statuses
    <3> QED
      BY <3>2, <3>3
  <2>2. UNCHANGED row \/ Upsert(q, p, r)
    BY <1>p, <1>6 DEF EnrollWrite
  <2> HIDE DEF r
  <2>3. Steady
    BY <1>1, <1>2, <2>1, <2>2, MoneyTypes, SteadySame, UpsertSteady
  <2> QED
    BY <1>6, <2>3, LedgerDone DEF EnrollWrite
<1> QED
  BY <1>3, <1>4, <1>5, <1>6

-----------------------------------------------------------------------------
(* Seats given up, the coach's desk, and the end of the class.               *)

LEMMA LeaveLedger ==
  ASSUME TypeOK, Ledger, NEW q \in Requests,
         \/ \E p \in Players : CancelRead(q, p) \/ RemoveRead(q, p)
         \/ CancelWrite(q)
  PROVE  Ledger'
<1>b. Books
  BY Locked
<1>1. ASSUME NEW p \in Players, NEW op \in {"cancel", "remove"}, UNCHANGED <<row, intent, class>>,
             NEW m, m = [Idle EXCEPT !.op = op, !.who = p, !.seen = Only({p})],
             Go(q, Settle(m)) \/ Go(q, After(m))
      PROVE  Ledger'
  <2>1. Steady
    BY <1>b, <1>1, SteadySame
  <2>2. m \in Request /\ m.who = p /\ m.op = op /\ m.pc = "idle" /\ m.seen = Only({p})
    BY <1>1, IdleOK, OnlyOK DEF Idle, Request, Anyone
  <2>3. Owned(m, intent') /\ Clears(m, Charged') /\ Charged' \in SUBSET Intents
    BY <1>b, <1>1, <2>2, OnlyOwned DEF Clears, Charged
  <2>4. Fair(Settle(m), intent', Charged')
    BY <2>2, <2>3, FairSettle
  <2>5. Fair(After(m), intent', Charged')
    BY <2>2, <2>3, FairAfter
  <2> HIDE DEF Settle, After
  <2> QED
    BY <1>1, <2>1, <2>4, <2>5, LedgerGoes
<1>2. CASE \E p \in Players : CancelRead(q, p)
  BY <1>1, <1>2 DEF CancelRead
<1>3. CASE \E p \in Players : RemoveRead(q, p)
  BY <1>1, <1>3 DEF RemoveRead
<1>4. CASE CancelWrite(q)
  <2>p. PICK p \in Players : p = req[q].who
    BY <1>4, SoundReq DEF CancelWrite, At, Anyone
  <2>1. row[p] \in Row /\ UNCHANGED <<intent, class>> /\ At(q, "can.write")
    BY <1>4, MoneyTypes DEF CancelWrite
  <2>2. CASE UNCHANGED row
    BY <1>b, <2>1, <2>2, SteadySame, <1>4, LedgerDone, LedgerTo DEF CancelWrite, At, Plain
  <2>3. CASE Patch(p, [row[p] EXCEPT !.status = "canceled"])
    <3> DEFINE r == [row[p] EXCEPT !.status = "canceled"]
    <3>1. /\ r \in Row /\ r.ref = row[p].ref /\ r.back = row[p].back /\ r.paid = row[p].paid
          /\ r.status = "canceled" /\ Patch(p, r)
      BY <2>1, <2>3 DEF Row, Statuses
    <3> HIDE DEF r
    <3>2. Steady
      BY <1>b, <2>1, <3>1, SteadyEdit
    <3> QED
      BY <3>2, <2>1, <1>4, LedgerDone, LedgerTo DEF CancelWrite, At, Plain
  <2> QED
    BY <1>4, <2>p, <2>2, <2>3 DEF CancelWrite
<1> QED
  BY <1>2, <1>3, <1>4

LEMMA DeskLedger ==
  ASSUME TypeOK, Ledger, NEW q \in Requests,
         ManualWrite(q) \/ \E p \in Players : ManualCount(q, p) \/ EnrollRead(q, p)
  PROVE  Ledger'
<1>b. Books
  BY Locked
<1>1. CASE ManualWrite(q)
  <2>p. PICK p \in Players : p = req[q].who
    BY <1>1, SoundReq DEF ManualWrite, At, Anyone
  <2> DEFINE r == [row[p] EXCEPT !.status = "enrolled"]
  <2>1. /\ UNCHANGED <<intent, class>> /\ Done(q)
        /\ r \in Row /\ r.ref = row[p].ref /\ r.back = row[p].back /\ r.paid = row[p].paid
        /\ r.status = "enrolled" /\ Patch(p, r)
    BY <1>1, <2>p, MoneyTypes DEF ManualWrite, Row, Statuses
  <2> HIDE DEF r
  <2>2. Steady
    BY <1>b, <2>1, SteadyEdit
  <2> QED
    BY <2>1, <2>2, LedgerDone
<1>2. ASSUME NEW p \in Players, ManualCount(q, p) PROVE Ledger'
  <2>1. UNCHANGED <<row, intent, class>> /\ Start(q, "promote", "man.write", p, Only({p}))
    BY <1>2 DEF ManualCount
  <2> QED
    BY <1>b, <2>1, SteadySame, LedgerStart DEF Plain
<1>3. ASSUME NEW p \in Players, EnrollRead(q, p) PROVE Ledger'
  <2>1. UNCHANGED <<row, intent, class>> /\ Start(q, "enroll", "enr.count", p, Only({p}))
    BY <1>3 DEF EnrollRead
  <2> QED
    BY <1>b, <2>1, SteadySame, LedgerStart DEF Plain, Enrolling
<1> QED
  BY <1>1, <1>2, <1>3

LEMMA CashLedger ==
  ASSUME TypeOK, Ledger, Undisturbed', NEW p \in Players, MarkPaidInCash(p)
  PROVE  Ledger'
<1> DEFINE r == [row[p] EXCEPT !.status = "enrolled", !.paid = TRUE,
                               !.ref = "manual", !.back = FALSE, !.late = FALSE]
<1>1. /\ UNCHANGED <<intent, class, req>> /\ row[p].status # "absent" /\ Patch(p, r)
      /\ r \in Row /\ r.ref = "manual" /\ r.status = "enrolled"
  BY MoneyTypes DEF MarkPaidInCash, Row, Statuses
<1> HIDE DEF r
<1>2. row' = [row EXCEPT ![p] = r] /\ row'[p] = r
  BY <1>1 DEF Patch, TypeOK
<1>3. \A i \in Intents : intent[i].of # p
  BY <1>1, <1>2 DEF Undisturbed
<1>4. Books /\ "manual" \notin Intents /\ class'.open = class.open
  BY <1>1 DEF Ledger
<1>5. Steady
  BY <1>1, <1>2, <1>3, <1>4, SteadyRow
<1> QED
  BY <1>1, <1>5, LedgerStays

LEMMA DeleteLedger ==
  ASSUME TypeOK, Ledger, NEW q \in Requests,
         DeleteRead(q) \/ DeleteNext(q) \/ DeleteFree(q)
  PROVE  Ledger'
<1>b. Books /\ UNCHANGED <<intent, class>> /\ req[q] \in Request
  BY Locked DEF DeleteRead, DeleteNext, DeleteFree
<1>1. CASE DeleteRead(q)
  <2> DEFINE S == {p \in Players : row[p].status \in {"enrolled", "offered", "canceled"}
                                     /\ Live(row[p])}
             m == [Idle EXCEPT !.op = "delete", !.pc = "del.next", !.who = Nobody, !.seen = Only(S)]
  <2>1. Go(q, m) /\ UNCHANGED row
    BY <1>1 DEF DeleteRead, Start
  <2>2. m.op = "delete" /\ m.pc = "del.next" /\ m.seen = Only(S)
    BY DEF Idle
  <2>3. Steady
    BY <1>b, <2>1, SteadySame
  <2>4. Owned(m, intent) /\ Stands(m, intent)
    BY <1>b, <2>2, OnlyOwned DEF Stands
  <2>5. ASSUME NEW i \in Charged PROVE Shows(m, intent[i].of, i) /\ intent[i].of \in Players
    <3>1. /\ i \in Intents /\ intent[i].of \in Players
          /\ row[intent[i].of].paid /\ row[intent[i].of].ref = i /\ ~row[intent[i].of].back
          /\ row[intent[i].of].status \in {"enrolled", "canceled"}
      BY <1>b, <2>5, ChargedOK
    <3>2. m.seen[intent[i].of] = row[intent[i].of]
      BY <2>2, <3>1 DEF Only, Live
    <3> QED
      BY <3>1, <3>2 DEF Shows
  <2> HIDE DEF m
  <2>6. Clears(m, Charged)
    BY <2>2, <2>5 DEF Clears
  <2>7. Fair(m, intent', Charged')
    BY <1>b, <2>1, <2>4, <2>6 DEF Fair, Charged
  <2> QED
    BY <2>1, <2>3, <2>7, LedgerGoes
<1>2. CASE DeleteNext(q)
  <2>1. Steady /\ req[q].pc = "del.next"
    BY <1>b, <1>2, SteadySame DEF DeleteNext, At
  <2>2. Fair(req[q], intent', Charged') /\ Charged' \in SUBSET Intents
    BY <2>1, ReadsOK, FairStays DEF Ledger, Steady, Charged
  <2>3. CASE Done(q)
    BY <2>1, <2>3, LedgerDone
  <2>4. CASE Rows(req[q]) = {} /\ ~req[q].failed /\ To(q, "del.drop")
    <3> DEFINE m == [req[q] EXCEPT !.pc = "del.drop"]
    <3>1. /\ Go(q, m) /\ m.pc = "del.drop" /\ m.op = req[q].op /\ m.seen = req[q].seen
          /\ m.failed = req[q].failed
      BY <1>b, <2>4 DEF To, Request
    <3> HIDE DEF m
    <3>2. Fair(m, intent', Charged')
      BY <2>1, <2>2, <2>4, <3>1 DEF Fair, Owned, Stands, Clears, Shows, Rows
    <3> QED
      BY <2>1, <3>1, <3>2, LedgerGoes
  <2>5. ASSUME NEW p \in Players, Go(q, Settle([req[q] EXCEPT !.who = p])) PROVE Ledger'
    <3> DEFINE m == [req[q] EXCEPT !.who = p]
    <3>1. /\ m \in Request /\ m.who = p /\ m.pc = "del.next" /\ m.op = req[q].op
          /\ m.seen = req[q].seen /\ m.failed = req[q].failed
      BY <1>b, <2>1 DEF Request
    <3>2. Go(q, Settle(m))
      BY <2>5
    <3> HIDE DEF m
    <3>3. Owned(m, intent') /\ Clears(m, Charged')
      BY <2>1, <2>2, <3>1 DEF Fair, Owned, Clears, Shows
    <3>4. Fair(Settle(m), intent', Charged')
      BY <2>2, <3>1, <3>3, FairSettle
    <3> HIDE DEF Settle
    <3> QED
      BY <2>1, <3>2, <3>4, LedgerGoes
  <2> QED
    BY <1>2, <2>3, <2>4, <2>5 DEF DeleteNext, Rows
<1>3. CASE DeleteFree(q)
  <2>p. PICK p \in Players : p = req[q].who
    BY <1>3, SoundReq DEF DeleteFree, At, Anyone
  <2> DEFINE m == [req[q] EXCEPT !.pc = "del.next", !.seen[p] = NoRow]
  <2>1. /\ Go(q, m) /\ req[q].pc = "del.free" /\ row[p] \in Row
    BY <1>3, <2>p, MoneyTypes DEF DeleteFree, At
  <2>2. Steady
    <3>1. CASE UNCHANGED row
      BY <1>b, <3>1, SteadySame
    <3>2. CASE Patch(p, [row[p] EXCEPT !.status = "canceled"])
      <4> DEFINE r == [row[p] EXCEPT !.status = "canceled"]
      <4>1. /\ r \in Row /\ r.ref = row[p].ref /\ r.back = row[p].back /\ r.paid = row[p].paid
            /\ r.status = "canceled" /\ Patch(p, r)
        BY <2>1, <3>2 DEF Row, Statuses
      <4> HIDE DEF r
      <4> QED
        BY <1>b, <4>1, SteadyEdit
    <3> QED
      BY <1>3, <2>p, <3>1, <3>2 DEF DeleteFree
  <2>3. Fair(req[q], intent', Charged') /\ req[q].op = "delete" /\ req[q].who = p
    BY <2>p, <2>1, <2>2, ReadsOK, Locked, FairStays DEF Ledger, Steady, Stands
  <2>4. /\ m.op = "delete" /\ m.pc = "del.next" /\ m.failed = req[q].failed
        /\ \A o \in Players : m.seen[o] = IF o = p THEN NoRow ELSE req[q].seen[o]
    BY <1>b, <2>3 DEF Request
  <2> HIDE DEF m
  <2>5. Owned(m, intent')
    BY <2>3, <2>4, MoneyTypes DEF Fair, Owned, NoRow
  <2>6. Stands(m, intent')
    BY <2>4 DEF Stands
  <2>7. Clears(m, Charged')
    BY <2>1, <2>3, <2>4 DEF Fair, Clears, Shows
  <2> QED
    BY <2>1, <2>2, <2>5, <2>6, <2>7, LedgerGoes DEF Fair
<1> QED
  BY <1>1, <1>2, <1>3

\* By the time the class goes, every charge on a row of it has been refunded.
LEMMA DropLedger ==
  ASSUME TypeOK, Ledger, NEW q \in Requests, DeleteDrop(q)
  PROVE  Ledger'
<1>1. /\ req[q].pc = "del.drop" /\ Done(q) /\ UNCHANGED intent
      /\ class' = [class EXCEPT !.open = FALSE] /\ row' = [p \in Players |-> NoRow]
  BY DEF DeleteDrop, At
<1>2. Charged = {}
  <2>1. req[q].op = "delete" /\ ~req[q].failed /\ Rows(req[q]) = {}
    BY <1>1, Locked DEF Stands
  <2>2. \A p \in Players : \A i : ~Shows(req[q], p, i)
    BY <2>1 DEF Shows, Rows
  <2> QED
    BY <2>1, <2>2, Locked DEF Clears
<1>3. /\ ~class'.open
      /\ \A p \in Players : /\ row'[p].status = "absent" /\ ~row'[p].paid
                            /\ row'[p].ref = "none"
  BY <1>1 DEF TypeOK, NoRow
<1>4. ASSUME NEW i \in Intents, intent[i].status # "none"
      PROVE  intent[i].of \in Players /\ Follows(i, row[intent[i].of])'
  <2>1. intent[i].of \in Players /\ Follows(i, row[intent[i].of])
    BY <1>4 DEF Ledger, Books
  <2>2. intent[i].status = "captured" => ~intent[i].booked
    BY <1>2, <2>1 DEF Follows, Charged
  <2>3. intent[i].status = "open" => ~intent[i].booked
    BY <2>1 DEF Follows
  <2> QED
    BY <1>1, <1>3, <2>1, <2>2, <2>3 DEF Follows
<1>5. Books'
  BY <1>1, <1>3, <1>4, MoneyTypes DEF Ledger, Books
<1>6. Charged' = {} /\ Later(intent, intent')
  <2>1. \A i \in Intents : intent[i].status = "captured" => ~row'[intent[i].of].paid
    BY <1>3, <1>4
  <2> QED
    BY <1>1, <2>1, MoneyTypes DEF Charged, Later
<1> QED
  BY <1>1, <1>5, <1>6, LedgerDone DEF Steady

-----------------------------------------------------------------------------
(* Checkouts and the webhook.                                                *)

LEMMA PayLedger ==
  ASSUME TypeOK, Ledger, NEW p \in Players, NEW i \in Intents, Pay(p, i)
  PROVE  Ledger'
<1>1. /\ intent[i].status = "none" /\ ~row[p].paid /\ row[p].status # "absent"
      /\ intent' = [intent EXCEPT ![i] = [intent[i] EXCEPT !.of = p, !.status = "open"]]
      /\ UNCHANGED <<row, class, req>>
  BY DEF Pay
<1>2. /\ intent \in [Intents -> Intent] /\ intent[i] \in Intent /\ Books
      /\ intent[i].of = Nobody /\ ~intent[i].booked /\ Nobody \notin Players
  BY <1>1 DEF TypeOK, MoneyOK, Ledger, Books
<1>3. /\ intent'[i].of = p /\ intent'[i].status = "open" /\ ~intent'[i].booked
      /\ \A j \in Intents \ {i} : intent'[j] = intent[j]
  BY <1>1, <1>2 DEF Intent
<1>4. ASSUME NEW j \in Intents PROVE IF intent'[j].status = "none"
                                     THEN intent'[j].of = Nobody /\ ~intent'[j].booked
                                     ELSE intent'[j].of \in Players /\ Follows(j, row[intent[j].of])'
  <2>1. CASE j = i
    BY <1>1, <1>3, <2>1 DEF Follows
  <2>2. CASE j # i
    BY <1>1, <1>2, <1>3, <2>2 DEF Books, Follows
  <2> QED
    BY <2>1, <2>2
<1>5. \A o \in Players : row[o].ref \in Intents => intent'[row[o].ref].of = o
  BY <1>2, <1>3 DEF Books
<1>6. Books'
  BY <1>1, <1>4, <1>5 DEF Books
<1>7. Charged' \subseteq Charged
  BY <1>1, <1>3 DEF Charged
<1>8. Later(intent, intent')
  BY <1>1, <1>2, <1>3 DEF Later
<1>9. Steady
  BY <1>6, <1>7, <1>8 DEF Steady
<1> QED
  BY <1>1, <1>9, LedgerStays

LEMMA CaptureLedger ==
  ASSUME TypeOK, Ledger, NEW i \in Intents, Capture(i)
  PROVE  Ledger'
<1>1. /\ intent[i].status = "open" /\ intent' = [intent EXCEPT ![i].status = "captured"]
      /\ UNCHANGED <<row, class, req>>
  BY DEF Capture
<1>2. /\ intent \in [Intents -> Intent] /\ Books
      /\ intent[i].of \in Players /\ ~intent[i].booked /\ ~row[intent[i].of].paid
  BY <1>1 DEF TypeOK, MoneyOK, Ledger, Books, Follows
<1>3. /\ intent'[i].of = intent[i].of /\ intent'[i].status = "captured" /\ ~intent'[i].booked
      /\ \A j \in Intents \ {i} : intent'[j] = intent[j]
  BY <1>1, <1>2 DEF Intent
<1>4. Books'
  BY <1>1, <1>2, <1>3 DEF Books, Follows
<1>5. Charged' \subseteq Charged /\ Later(intent, intent')
  BY <1>1, <1>2, <1>3 DEF Charged, Later
<1>6. Steady
  BY <1>4, <1>5 DEF Steady
<1> QED
  BY <1>1, <1>6, LedgerStays

LEMMA HearLedger ==
  ASSUME TypeOK, Ledger, NEW q \in Requests, NEW i \in Intents, HearRead(q, i)
  PROVE  Ledger'
<1> DEFINE p == intent[i].of
<1>1. /\ intent[i].status \in {"captured", "refunded"} /\ p \in Players
      /\ UNCHANGED <<row, class>> /\ Books
  BY Locked DEF HearRead
<1>2. CASE intent' = [intent EXCEPT ![i].booked = @ \/ row[p].paid] /\ UNCHANGED req
  <2>1. intent \in [Intents -> Intent]
    BY DEF TypeOK, MoneyOK
  <2>2. /\ intent'[i].of = p /\ intent'[i].status = intent[i].status
        /\ intent'[i].booked = (intent[i].booked \/ row[p].paid)
        /\ \A j \in Intents \ {i} : intent'[j] = intent[j]
    BY <1>2, <2>1 DEF Intent
  <2>3. Books'
    BY <1>1, <2>2 DEF Books, Follows
  <2>4. Charged' \subseteq Charged /\ Later(intent, intent')
    BY <1>1, <2>2 DEF Charged, Later
  <2>5. Steady
    BY <2>3, <2>4 DEF Steady
  <2> QED
    BY <1>2, <2>5, LedgerStays
<1>3. CASE /\ UNCHANGED intent
           /\ Go(q, [Idle EXCEPT !.op = "hear", !.pc = "paid.write", !.who = p, !.pi = i])
  <2> DEFINE m == [Idle EXCEPT !.op = "hear", !.pc = "paid.write", !.who = p, !.pi = i]
  <2>1. m.op = "hear" /\ m.pc = "paid.write" /\ m.who = p /\ m.pi = i /\ m.seen = Idle.seen
    BY DEF Idle
  <2>2. Go(q, m)
    BY <1>3
  <2> HIDE DEF m
  <2>3. Owned(m, intent') /\ Stands(m, intent') /\ Clears(m, Charged')
    BY <1>1, <1>3, <2>1, FairIdle DEF Fair, Owned, Stands, Clears
  <2> QED
    BY <1>1, <1>3, <2>2, <2>3, SteadySame, LedgerGoes DEF Fair
<1>4. CASE UNCHANGED <<intent, req>>
  BY <1>1, <1>4, SteadySame, LedgerStays
<1> QED
  BY <1>2, <1>3, <1>4 DEF HearRead, HearRow

\* The webhook writes the payment on its own player's row.
LEMMA PaidLedger ==
  ASSUME TypeOK, Ledger, Undisturbed, NEW q \in Requests, PaidWrite(q)
  PROVE  Ledger'
<1>p. PICK p \in Players : p = req[q].who
  BY SoundReq DEF PaidWrite, At, Anyone
<1>i. PICK i \in Intents : i = req[q].pi
  BY ReadsOK DEF PaidWrite, At
<1>1. /\ UNCHANGED class /\ Done(q) /\ req[q].pc = "paid.write" /\ Books
      /\ intent[i].of = p /\ intent[i].status \in {"captured", "refunded"}
  BY <1>p, <1>i, ReadsOK, Locked DEF PaidWrite, At, Stands
<1> DEFINE r == [row[p] EXCEPT !.status = "enrolled", !.paid = TRUE,
                               !.ref = i, !.back = FALSE, !.late = FALSE]
<1>2. CASE UNCHANGED <<row, intent>>
  BY <1>1, <1>2, SteadySame, LedgerDone
<1>3. CASE Patch(p, r) /\ intent' = [intent EXCEPT ![i].booked = row[p].status # "absent"]
  <2>1. row \in [Players -> Row] /\ intent \in [Intents -> Intent]
    BY DEF TypeOK, MoneyOK
  <2>2. /\ r.status = "enrolled" /\ r.paid /\ r.ref = i /\ ~r.back
    BY <1>1, <2>1 DEF Row
  <2>3. /\ row'[p] = IF row[p].status = "absent" THEN row[p] ELSE r
        /\ \A o \in Players \ {p} : row'[o] = row[o]
    BY <1>3, <2>1 DEF Patch
  <2>4. /\ intent'[i].of = p /\ intent'[i].status = intent[i].status
        /\ intent'[i].booked = (row[p].status # "absent")
        /\ \A j \in Intents \ {i} : intent'[j] = intent[j]
    BY <1>1, <1>3, <2>1 DEF Intent
  <2> HIDE DEF r
  <2>5. \A j \in Intents \ {i} : intent[j].of # p
    BY <1>1 DEF Undisturbed
  <2>6. Follows(i, row[intent[i].of])'
    <3>1. Follows(i, row[p])
      BY <1>1 DEF Books
    <3> QED
      BY <1>1, <2>2, <2>3, <2>4, <3>1 DEF Follows
  <2>7. ASSUME NEW j \in Intents \ {i}, intent[j].status # "none"
        PROVE  intent[j].of \in Players /\ Follows(j, row[intent[j].of])'
    <3>1. intent[j].of \in Players \ {p} /\ Follows(j, row[intent[j].of])
      BY <1>1, <2>5, <2>7 DEF Books
    <3>2. intent'[j] = intent[j] /\ row'[intent[j].of] = row[intent[j].of]
      BY <2>3, <2>4, <2>7, <3>1
    <3> QED
      BY <1>1, <3>1, <3>2 DEF Follows
  <2>8. \A o \in Players : row'[o].ref \in Intents => intent'[row'[o].ref].of = o
    <3>1. \A j \in Intents : intent'[j].of = intent[j].of
      BY <1>1, <2>4
    <3> QED
      BY <1>1, <2>2, <2>3, <3>1 DEF Books
  <2>9. Books'
    BY <1>1, <2>4, <2>6, <2>7, <2>8 DEF Books
  <2>10. Later(intent, intent')
    BY <1>1, <2>4, MoneyTypes DEF Later
  <2>11. ASSUME NEW o \in Requests PROVE Fair(req'[o], intent', Charged')
    <3>1. CASE o = q
      <4>1. req'[o] = Idle
        BY <1>1, <3>1 DEF Done, Go, TypeOK, ReqOK
      <4> QED
        BY <4>1, FairIdle
    <3>2. CASE o # q
      <4>1. req'[o] = req[o] /\ req[o].op # "delete"
        BY <1>1, <3>2 DEF Done, Go, TypeOK, ReqOK, Undisturbed
      <4> QED
        BY <2>10, <4>1, ReadsOK, FairStays DEF Ledger
    <3> QED
      BY <3>1, <3>2
  <2> QED
    BY <2>9, <2>11 DEF Ledger
<1> QED
  BY <1>p, <1>i, <1>2, <1>3 DEF PaidWrite

-----------------------------------------------------------------------------
(* The sweeps, class packs and the rest.                                     *)

LEMMA SweepLedger ==
  ASSUME TypeOK, Ledger, NEW q \in Requests,
         SweepRefunds(q) \/ SweepOffers(q) \/ SweepNext(q)
  PROVE  Ledger'
<1>1. Steady /\ UNCHANGED intent
  BY SteadySame DEF Ledger, SweepRefunds, SweepOffers, SweepNext
<1>2. CASE SweepRefunds(q)
  <2>1. Start(q, "settle", "swp.next", Nobody, Only(Owed))
    BY <1>2 DEF SweepRefunds
  <2> QED
    BY <1>1, <2>1, LedgerStart DEF Plain
<1>3. CASE SweepOffers(q)
  <2>1. \E S : Start(q, "expire", "exp.next", Nobody, Only(S))
    BY <1>3 DEF SweepOffers
  <2> QED
    BY <1>1, <2>1, LedgerStart
<1>4. CASE SweepNext(q)
  <2>1. req[q].pc = "swp.next" /\ req[q] \in Request
    BY <1>4, Locked DEF SweepNext, At
  <2>2. Fair(req[q], intent', Charged') /\ Charged' \in SUBSET Intents
    BY <1>1, ReadsOK, FairStays DEF Ledger, Steady, Charged
  <2>3. ASSUME NEW p \in Players, Go(q, Settle([req[q] EXCEPT !.who = p])) PROVE Ledger'
    <3> DEFINE m == [req[q] EXCEPT !.who = p]
    <3>1. /\ m \in Request /\ m.who = p /\ m.pc = "swp.next" /\ m.op = req[q].op
          /\ m.seen = req[q].seen /\ m.failed = req[q].failed
      BY <2>1 DEF Request
    <3>2. Go(q, Settle(m))
      BY <2>3
    <3> HIDE DEF m
    <3>3. Owned(m, intent') /\ Clears(m, Charged')
      BY <2>1, <2>2, <3>1 DEF Fair, Owned, Clears, Shows
    <3>4. Fair(Settle(m), intent', Charged')
      BY <2>2, <3>1, <3>3, FairSettle
    <3> HIDE DEF Settle
    <3> QED
      BY <1>1, <3>2, <3>4, LedgerGoes
  <2> QED
    BY <1>1, <1>4, <2>3, LedgerDone DEF SweepNext, Rows
<1> QED
  BY <1>2, <1>3, <1>4

\* An offer that is still unpaid lapses; a paid one is let alone.
LEMMA ExpireLedger ==
  ASSUME TypeOK, Ledger, NEW q \in Requests, ExpireOffer(q)
  PROVE  Ledger'
<1>1. /\ req[q].pc = "exp.next" /\ req[q].op = "expire" /\ req[q] \in Request
      /\ UNCHANGED <<intent, class>> /\ Books
  BY Locked DEF ExpireOffer, At, Stands
<1>2. CASE Done(q) /\ UNCHANGED row
  BY <1>1, <1>2, SteadySame, LedgerDone
<1>3. ASSUME NEW p \in Players, NEW n, n = [req[q] EXCEPT !.seen[p] = NoRow]
      PROVE  \A l \in {"exp.next", "pro.count"} : Fair([n EXCEPT !.pc = l], intent, Charged)
  <2> SUFFICES ASSUME NEW l \in {"exp.next", "pro.count"}
               PROVE  Fair([n EXCEPT !.pc = l], intent, Charged)
    OBVIOUS
  <2> DEFINE m == [n EXCEPT !.pc = l]
  <2>1. /\ m.op = "expire" /\ m.pc = l
        /\ \A o \in Players : m.seen[o] = IF o = p THEN NoRow ELSE req[q].seen[o]
    BY <1>1, <1>3 DEF Request
  <2> HIDE DEF m
  <2>2. Owned(m, intent)
    BY <2>1, Locked, MoneyTypes DEF Owned, NoRow
  <2>3. Stands(m, intent) /\ Clears(m, Charged)
    BY <2>1 DEF Stands, Clears
  <2> QED
    BY <2>2, <2>3 DEF Fair, m
<1>4. ASSUME NEW p \in Players, NEW n, n = [req[q] EXCEPT !.seen[p] = NoRow],
             Steady, Go(q, n) \/ Go(q, [n EXCEPT !.pc = "pro.count"])
      PROVE  Ledger'
  <2>1. n = [n EXCEPT !.pc = "exp.next"]
    BY <1>1, <1>4 DEF Request
  <2>2. \A l \in {"exp.next", "pro.count"} : Fair([n EXCEPT !.pc = l], intent, Charged)
    BY <1>3, <1>4
  <2>3. Fair(n, intent, Charged) /\ Fair([n EXCEPT !.pc = "pro.count"], intent, Charged)
    BY <2>1, <2>2
  <2>4. Fair(n, intent', Charged') /\ Fair([n EXCEPT !.pc = "pro.count"], intent', Charged')
    BY <1>1, <1>4, <2>3 DEF Fair, Clears, Steady
  <2> QED
    BY <1>4, <2>4, LedgerGoes
<1>5. ASSUME NEW p \in Players, row' = [row EXCEPT ![p].status = "expired"], ~row[p].paid
      PROVE  Steady
  <2> DEFINE r == [row[p] EXCEPT !.status = "expired"]
  <2>1. /\ r \in Row /\ r.ref = row[p].ref /\ ~r.paid /\ r.status # "absent"
        /\ row' = [row EXCEPT ![p] = r]
    BY <1>5, MoneyTypes DEF Row, Statuses
  <2> HIDE DEF r
  <2> QED
    BY <1>1, <1>5, <2>1, SteadyUnpaid
<1>6. UNCHANGED row => Steady
  BY <1>1, SteadySame
<1> QED
  BY <1>2, <1>4, <1>5, <1>6 DEF ExpireOffer, Rows

LEMMA PackLedger ==
  ASSUME TypeOK, Ledger, NEW q \in Requests,
         \/ \E p \in Players : PackRead(q, p)
         \/ PackClaim(q) \/ PackBalance(q) \/ PackWrite(q) \/ PackApplied(q)
  PROVE  Ledger'
<1>1. Steady /\ UNCHANGED intent /\ req[q] \in Request
  BY SteadySame, Locked DEF PackRead, PackClaim, PackBalance, PackWrite, PackApplied
<1>2. ASSUME NEW p \in Players, PackRead(q, p) PROVE Ledger'
  <2>1. \E l \in {"pack.claim", "pack.read"} : Start(q, "pack", l, p, Nothing)
    BY <1>2 DEF PackRead
  <2> QED
    BY <1>1, <2>1, LedgerStart DEF Plain, Packing
<1>3. CASE PackBalance(q)
  <2> DEFINE m == [req[q] EXCEPT !.pc = "pack.write", !.balance = credits[req[q].who]]
  <2>1. /\ Go(q, m) /\ m.op = req[q].op /\ m.pc = "pack.write" /\ m.seen = req[q].seen
        /\ m.failed = req[q].failed /\ req[q].pc = "pack.read"
    BY <1>1, <1>3 DEF PackBalance, At, Request
  <2> HIDE DEF m
  <2> QED
    BY <1>1, <2>1, LedgerPlain DEF Plain, Packing
<1>4. CASE PackClaim(q) \/ PackWrite(q) \/ PackApplied(q)
  <2>1. /\ req[q].pc # "del.free"
        /\ Done(q) \/ To(q, "pack.read") \/ To(q, "pack.done")
    BY <1>4 DEF PackClaim, PackWrite, PackApplied, At
  <2> QED
    BY <1>1, <2>1, LedgerDone, LedgerTo DEF Plain, Packing
<1> QED
  BY <1>2, <1>3, <1>4

LEMMA WorldLedger ==
  ASSUME TypeOK, Ledger, Undisturbed', World
  PROVE  Ledger'
<1>1. ASSUME NEW p \in Players, OfferLapses(p) PROVE Ledger'
  <2> DEFINE r == [row[p] EXCEPT !.late = TRUE]
  <2>1. /\ r \in Row /\ r.ref = row[p].ref /\ r.back = row[p].back /\ r.paid = row[p].paid
        /\ r.status = row[p].status /\ row' = [row EXCEPT ![p] = r]
        /\ UNCHANGED <<intent, class, req>> /\ Books
    BY <1>1, MoneyTypes DEF OfferLapses, Row, Ledger
  <2> HIDE DEF r
  <2>2. Steady
    BY <2>1, SteadyEdit
  <2> QED
    BY <2>1, <2>2, LedgerStays
<1>2. ASSUME ClassNears \/ \E n \in 0..Seats + 1 : EditClass(n) PROVE Ledger'
  <2>1. UNCHANGED <<row, intent, req>> /\ class'.open = class.open
    BY <1>2 DEF ClassNears, EditClass, TypeOK
  <2> QED
    BY <2>1, SteadySame, LedgerStays DEF Ledger
<1>3. CASE Stop
  <2>1. UNCHANGED <<row, intent, class>> /\ \A q \in Requests : req'[q] = Idle
    BY <1>3 DEF Stop
  <2>2. Steady
    BY <2>1, SteadySame DEF Ledger
  <2> QED
    BY <2>1, <2>2, FairIdle DEF Ledger, Steady
<1> QED
  BY <1>1, <1>2, <1>3, CashLedger, PayLedger, CaptureLedger DEF World

LEMMA LedgerStep ==
  ASSUME TypeOK, Ledger, Undisturbed, Undisturbed', [Next]_vars
  PROVE  Ledger'
<1>1. ASSUME NEW q \in Requests, Continue(q) PROVE Ledger'
  BY <1>1, ClaimLedger, RestoreLedger, RevertLedger, RefundLedger, MarkLedger, PromoteLedger,
     EnrollLedger, LeaveLedger, DeskLedger, PaidLedger, DeleteLedger, DropLedger, SweepLedger,
     ExpireLedger, PackLedger DEF Continue
<1>2. ASSUME NEW q \in Requests, Calls(q) PROVE Ledger'
  BY <1>2, DeskLedger, LeaveLedger, PackLedger, HearLedger, DeleteLedger DEF Calls
<1>3. ASSUME NEW q \in Requests, Sweeps(q) PROVE Ledger'
  BY <1>3, SweepLedger DEF Sweeps
<1>4. CASE UNCHANGED vars
  <2>1. UNCHANGED <<row, intent, class, req>>
    BY <1>4 DEF vars
  <2> QED
    BY <2>1, SteadySame, LedgerStays DEF Ledger
<1> QED
  BY <1>1, <1>2, <1>3, <1>4, WorldLedger DEF Next

\* Money that was captured and that its webhook has seen stands on the row of
\* who paid, on a seat or due for a refund, or has been refunded, however
\* cancellations, failing refunds, lapsing offers, promotions and the sweeps
\* interleave (settleEnrollmentRefund, SweepExpiredOffers' compare-and-set,
\* markEnrollmentPaid, DeleteClass).  It takes that nobody pays for a seat
\* twice or books over a row, and that no payment is booked between a
\* promotion's pick and its write or while the class is being deleted.
THEOREM ChargedNotStrandedHolds == Spec /\ []Undisturbed => []ChargedNotStranded
<1>1. Init => Ledger
  <2> SUFFICES ASSUME Init PROVE Ledger
    OBVIOUS
  <2>1. Books /\ Charged = {}
    BY MoneyTypes, InitOK DEF Init, Books, Charged, NoRow
  <2> QED
    BY <2>1, FairIdle DEF Init, Ledger
<1>2. TypeOK /\ Ledger /\ Undisturbed /\ Undisturbed' /\ [Next]_vars => Ledger'
  BY LedgerStep
<1>3. Ledger => ChargedNotStranded
  BY DEF Ledger, Books, Follows, ChargedNotStranded
<1> QED
  BY <1>1, <1>2, <1>3, TypeOKHolds, PTL DEF Spec

-----------------------------------------------------------------------------
(* Seats are taken in turn.                                                  *)

\* One request at a time, nobody books again the seat they are offered, and
\* nothing fails, stops, or is paid, removed, edited or deleted.
Orderly ==
    /\ \A q, o \in Requests : q = o \/ req[q] = Idle \/ req[o] = Idle
    /\ \A q \in Requests : req[q].pc \in Enrolling => req[q].seen[req[q].who].status # "offered"
    /\ \A k \in Kinds \ {"enroll", "cancel", "promote", "hear", "lapse", "near", "pack"} :
          left[k] = Budget[k]

\* Statements of a promotion, and those no orderly request comes to.
Moving == {"pro.count", "pro.pick", "pro.write"}
Barred == {"paid.write", "set.revert", "del.next", "del.free", "del.drop"}

\* The class is full, but for a seat that is rolling on, or nobody waits.
InTurn ==
    /\ class.open /\ class.seats = Seats
    /\ Cardinality(Holding) <= Seats
    /\ Waiting = {} \/ Cardinality(Holding) >= Seats - 1
    /\ (\A q \in Requests : req[q].pc \notin Moving) => Full \/ Waiting = {}

\* What a request has found of the seats holds still when it writes.
Found(m, full, rows) ==
    /\ m.pc \notin Barred
    /\ m.pc \in {"pro.pick", "pro.write", "enr.spend", "enr.write", "man.write"} => ~full
    /\ m.pc = "pro.write" => rows[m.who].status = "waitlisted"
    /\ m.pc = "enr.wait" => full
    /\ m.pc \in Enrolling => rows[m.who].status \notin {"enrolled", "offered", "waitlisted"}
    /\ m.pc \in {"set.claim", "set.restore", "set.refund", "set.mark"} => m.op \in {"cancel", "settle"}
    /\ m.pc = "can.write" => m.op = "cancel"
    /\ m.pc = "swp.next" => m.op = "settle"
    /\ m.pc = "exp.next" => m.op = "expire"

Queue == /\ InTurn
         /\ \A i \in Intents : intent[i].of = Nobody
         /\ \A q \in Requests : Found(req[q], Full, row)

\* None of the calls that are left out is made.
LEMMA NotUsed ==
  ASSUME TypeOK, Orderly, Orderly',
         NEW k \in {"remove", "cash", "pay", "edit", "delete", "fault", "stop"}
  PROVE  ~Uses(k)
<1>1. k \in Kinds \ {"enroll", "cancel", "promote", "hear", "lapse", "near", "pack"}
  BY DEF Kinds
<1>2. left[k] = Budget[k] /\ left'[k] = Budget[k] /\ left[k] \in Nat /\ left \in [Kinds -> Nat]
  BY <1>1 DEF Orderly, TypeOK
<1>3. Uses(k) => left'[k] = left[k] - 1
  BY <1>1, <1>2 DEF Uses
<1> QED
  BY <1>2, <1>3

LEMMA FoundIdle == \A full, rows : Found(Idle, full, rows)
  BY IdleOK DEF Found, Barred, Enrolling

\* While one request is served the others are idle.
LEMMA Alone ==
  ASSUME TypeOK, Orderly, Orderly', NEW q \in Requests, NEW m, Go(q, m),
         req[q].pc # "idle" \/ m.pc # "idle"
  PROVE  /\ req'[q] = m
         /\ \A o \in Requests \ {q} : req[o] = Idle /\ req'[o] = Idle
<1>1. req'[q] = m /\ \A o \in Requests \ {q} : req'[o] = req[o]
  BY DEF Go, TypeOK, ReqOK
<1>2. CASE req[q].pc # "idle"
  BY <1>1, <1>2, IdleOK DEF Orderly
<1>3. CASE m.pc # "idle"
  BY <1>1, <1>3, IdleOK DEF Orderly
<1> QED
  BY <1>1, <1>2, <1>3

-----------------------------------------------------------------------------
(* Counting seats.                                                           *)

LEMMA CountOK ==
  ASSUME TypeOK, IsFiniteSet(Players)
  PROVE  /\ IsFiniteSet(Holding) /\ IsFiniteSet(Holding')
         /\ Cardinality(Holding) \in Nat /\ Cardinality(Holding') \in Nat
  BY FS_Subset, FS_CardinalityType DEF Holding

\* What a written row does to the seats and to the waitlist.
LEMMA WrittenOK ==
  ASSUME TypeOK, NEW p \in Players, NEW r, row' = [row EXCEPT ![p] = r]
  PROVE  /\ Holding' = IF r.status \in {"enrolled", "offered"} THEN Holding \cup {p}
                       ELSE Holding \ {p}
         /\ Waiting' = IF r.status = "waitlisted" THEN Waiting \cup {p} ELSE Waiting \ {p}
<1>1. row'[p] = r /\ \A o \in Players \ {p} : row'[o] = row[o]
  BY DEF TypeOK
<1> QED
  BY <1>1 DEF Holding, Waiting

LEMMA StatusSame ==
  ASSUME \A p \in Players : row'[p].status = row[p].status
  PROVE  Holding' = Holding /\ Waiting' = Waiting
  BY DEF Holding, Waiting

LEMMA OneSeat ==
  ASSUME TypeOK, IsFiniteSet(Players), NEW p
  PROVE  /\ Holding' = Holding \cup {p} /\ p \notin Holding =>
                Cardinality(Holding') = Cardinality(Holding) + 1
         /\ Holding' = Holding \ {p} =>
                /\ Cardinality(Holding') <= Cardinality(Holding)
                /\ Cardinality(Holding') >= Cardinality(Holding) - 1
<1>1. ASSUME Holding' = Holding \cup {p}, p \notin Holding
      PROVE  Cardinality(Holding') = Cardinality(Holding) + 1
  BY <1>1, CountOK, FS_AddElement
<1>2. ASSUME Holding' = Holding \ {p}
      PROVE  /\ Cardinality(Holding') <= Cardinality(Holding)
             /\ Cardinality(Holding') >= Cardinality(Holding) - 1
  <2>1. CASE p \in Holding
    <3>1. Cardinality(Holding') = Cardinality(Holding) - 1
      BY <1>2, <2>1, CountOK, FS_RemoveElement
    <3> QED
      BY <3>1, CountOK
  <2>2. CASE p \notin Holding
    <3>1. Holding' = Holding
      BY <1>2, <2>2
    <3> QED
      BY <3>1, CountOK
  <2> QED
    BY <2>1, <2>2
<1> QED
  BY <1>1, <1>2

-----------------------------------------------------------------------------
(* What a step leaves of the queue.                                          *)

\* One request goes on; the seats may have changed.
LEMMA QueueGoes ==
  ASSUME TypeOK, Orderly, Orderly', Queue, NEW q \in Requests, NEW m, Go(q, m),
         req[q].pc # "idle" \/ m.pc # "idle",
         class'.open = class.open, class'.seats = class.seats,
         \A i \in Intents : intent'[i].of = intent[i].of,
         Cardinality(Holding') <= Seats,
         Waiting' = {} \/ Cardinality(Holding') >= Seats - 1,
         m.pc \notin Moving => Full' \/ Waiting' = {},
         Found(m, Full', row')
  PROVE  Queue'
<1>1. req'[q] = m /\ \A o \in Requests \ {q} : req'[o] = Idle
  BY Alone
<1>2. \A o \in Requests : Found(req'[o], Full', row')
  BY <1>1, FoundIdle
<1>3. InTurn'
  BY <1>1 DEF Queue, InTurn
<1> QED
  BY <1>2, <1>3 DEF Queue

\* One request goes on and no seat changes hands.
LEMMA QueueSame ==
  ASSUME TypeOK, Orderly, Orderly', Queue, NEW q \in Requests, NEW m, Go(q, m),
         req[q].pc # "idle" \/ m.pc # "idle",
         class'.open = class.open, class'.seats = class.seats,
         \A i \in Intents : intent'[i].of = intent[i].of,
         \A p \in Players : row'[p].status = row[p].status,
         req[q].pc \notin Moving \/ m.pc \in Moving \/ Full,
         Found(m, Full, row), m.pc \in Enrolling \cup {"pro.write"} => m.who \in Players
  PROVE  Queue'
<1>1. Holding' = Holding /\ Waiting' = Waiting
  BY StatusSame
<1>2. Full' = Full
  BY <1>1 DEF Full
<1>3. m.pc \notin Moving => Full \/ Waiting = {}
  <2>1. req[q].pc \notin Moving => \A o \in Requests : req[o].pc \notin Moving
    BY Alone, IdleOK DEF Moving
  <2> QED
    BY <2>1 DEF Queue, InTurn
<1>4. Found(m, Full', row')
  BY <1>2 DEF Found
<1>5. /\ Cardinality(Holding') <= Seats
      /\ Waiting' = {} \/ Cardinality(Holding') >= Seats - 1
      /\ m.pc \notin Moving => Full' \/ Waiting' = {}
  BY <1>1, <1>2, <1>3 DEF Queue, InTurn
<1> QED
  BY <1>4, <1>5, QueueGoes

LEMMA QueueStays ==
  ASSUME TypeOK, Queue, UNCHANGED req, class'.open = class.open, class'.seats = class.seats,
         \A i \in Intents : intent'[i].of = intent[i].of,
         \A p \in Players : row'[p].status = row[p].status
  PROVE  Queue'
<1>1. Holding' = Holding /\ Waiting' = Waiting
  BY StatusSame
<1>2. Full' = Full
  BY <1>1 DEF Full
<1>3. InTurn'
  BY <1>1, <1>2 DEF Queue, InTurn
<1>4. ASSUME NEW q \in Requests PROVE Found(req[q], Full', row')
  <2>1. Found(req[q], Full, row)
    BY DEF Queue
  <2>2. req[q].pc \in Enrolling \cup {"pro.write"} => req[q].who \in Players
    BY SoundReq DEF Enrolling, Anyone
  <2> QED
    BY <1>2, <2>1, <2>2 DEF Found
<1> QED
  BY <1>3, <1>4 DEF Queue

-----------------------------------------------------------------------------
(* Every statement keeps the queue.                                          *)

LEMMA Queued ==
  ASSUME TypeOK, Queue, NEW q \in Requests
  PROVE  /\ req[q] \in Request /\ Found(req[q], Full, row)
         /\ req[q].pc \notin Anyone => req[q].who \in Players
         /\ \A p \in Players : row[p] \in Row
  BY SoundReq, RowOK DEF Queue

\* A settlement that begins or is over comes to no statement about the seats.
LEMMA FoundAfter ==
  ASSUME NEW m \in Request, m.op \in {"cancel", "settle"}, NEW full, NEW rows
  PROVE  /\ Found(After(m), full, rows) /\ After(m).pc \in {"swp.next", "can.write"}
<1>1. CASE m.op = "settle"
  <2> DEFINE n == [m EXCEPT !.pc = "swp.next", !.seen[m.who] = NoRow]
  <2>1. n.op = "settle" /\ n.pc = "swp.next"
    BY <1>1 DEF Request
  <2>2. n = After(m)
    BY <1>1 DEF After
  <2> HIDE DEF n
  <2> QED
    BY <2>1, <2>2 DEF Found, Barred, Enrolling
<1>2. CASE m.op = "cancel"
  <2> DEFINE n == [m EXCEPT !.pc = "can.write"]
  <2>1. n.op = "cancel" /\ n.pc = "can.write"
    BY <1>2 DEF Request
  <2>2. n = After(m)
    BY <1>2 DEF After
  <2> HIDE DEF n
  <2> QED
    BY <2>1, <2>2 DEF Found, Barred, Enrolling
<1> QED
  BY <1>1, <1>2

LEMMA FoundSettle ==
  ASSUME NEW m \in Request, m.op \in {"cancel", "settle"}, NEW full, NEW rows
  PROVE  /\ Found(Settle(m), full, rows)
         /\ Settle(m).pc \in {"swp.next", "can.write", "set.claim", "set.refund"}
<1>1. ASSUME NEW l \in {"set.claim", "set.refund"}
      PROVE  LET n == [m EXCEPT !.pc = l]
             IN  Found(n, full, rows) /\ n.pc = l
  <2> DEFINE n == [m EXCEPT !.pc = l]
  <2>1. n.op = m.op /\ n.pc = l
    BY DEF Request
  <2> HIDE DEF n
  <2>2. Found(n, full, rows)
    BY <2>1 DEF Found, Barred, Enrolling
  <2> QED
    BY <2>1, <2>2 DEF n
<1>2. LET n == [m EXCEPT !.got = "nothing"]
      IN  Found(After(n), full, rows) /\ After(n).pc \in {"swp.next", "can.write"}
  <2>1. [m EXCEPT !.got = "nothing"] \in Request /\ [m EXCEPT !.got = "nothing"].op = m.op
    BY DEF Request
  <2> QED
    BY <2>1, FoundAfter
<1> HIDE DEF After
<1> QED
  BY <1>1, <1>2 DEF Settle

LEMMA QueueSettled ==
  ASSUME TypeOK, Orderly, Orderly', Queue, NEW q \in Requests,
         req[q].pc \in {"set.claim", "set.restore", "set.refund", "set.mark"},
         NEW got \in {"nothing", "returned", "failed"}, Settled(q, got),
         UNCHANGED class, \A i \in Intents : intent'[i].of = intent[i].of,
         \A p \in Players : row'[p].status = row[p].status
  PROVE  Queue'
<1> DEFINE n == [req[q] EXCEPT !.got = got, !.failed = IF got = "failed" THEN TRUE ELSE @]
<1>1. n \in Request /\ n.op \in {"cancel", "settle"}
  <2>1. req[q] \in Request /\ req[q].op \in {"cancel", "settle"}
    BY Queued DEF Found
  <2>2. (IF got = "failed" THEN TRUE ELSE req[q].failed) \in BOOLEAN
    BY <2>1 DEF Request
  <2>3. n = [req[q] EXCEPT !.got = got, !.failed = IF got = "failed" THEN TRUE ELSE req[q].failed]
    OBVIOUS
  <2> QED
    BY <2>1, <2>2, <2>3 DEF Request
<1>2. Go(q, After(n))
  BY DEF Settled
<1> HIDE DEF n
<1>3. Found(After(n), Full, row) /\ After(n).pc \in {"swp.next", "can.write"}
  BY <1>1, FoundAfter
<1> HIDE DEF After
<1> QED
  BY <1>2, <1>3, QueueSame DEF Moving, Enrolling

LEMMA SettlingQueue ==
  ASSUME TypeOK, Orderly, Orderly', Queue, NEW q \in Requests,
         Claim(q) \/ Restore(q) \/ Revert(q) \/ Refund(q) \/ Mark(q)
  PROVE  Queue'
<1>1. req[q].pc \in {"set.claim", "set.restore", "set.refund", "set.mark"} /\ ~Revert(q)
  BY Queued DEF Claim, Restore, Revert, Refund, Mark, At, Found, Barred
<1>2. UNCHANGED class
  BY <1>1 DEF Claim, Restore, Refund, Mark
<1>3. \A i \in Intents : intent'[i].of = intent[i].of
  <2>1. UNCHANGED intent \/ \E j : intent' = [intent EXCEPT ![j].status = "refunded"]
    BY <1>1 DEF Claim, Restore, Refund, Mark
  <2>2. intent \in [Intents -> Intent]
    BY DEF TypeOK, MoneyOK
  <2>3. ASSUME NEW j, intent' = [intent EXCEPT ![j].status = "refunded"], NEW i \in Intents
        PROVE  intent'[i].of = intent[i].of
    BY <2>2, <2>3 DEF Intent
  <2> QED
    BY <2>1, <2>3
<1>4. \A p \in Players : row'[p].status = row[p].status
  <2>1. row \in [Players -> Row]
    BY DEF TypeOK
  <2>2. CASE UNCHANGED row
    BY <2>2
  <2>3. ASSUME NEW p, row' = [row EXCEPT ![p].back = TRUE]
        PROVE  \A o \in Players : row'[o].status = row[o].status
    BY <2>1, <2>3 DEF Row
  <2>4. ASSUME NEW p, NEW f, Patch(p, [row[p] EXCEPT !.ref = f, !.back = TRUE])
        PROVE  \A o \in Players : row'[o].status = row[o].status
    BY <2>1, <2>4 DEF Row, Patch
  <2>5. \/ UNCHANGED row \/ \E p : row' = [row EXCEPT ![p].back = TRUE]
        \/ \E p, f : Patch(p, [row[p] EXCEPT !.ref = f, !.back = TRUE])
    BY <1>1 DEF Claim, Restore, Refund, Mark
  <2> QED
    BY <2>2, <2>3, <2>4, <2>5
<1>5. ASSUME NEW l \in {"set.restore", "set.mark"}, To(q, l) PROVE Queue'
  <2> DEFINE m == [req[q] EXCEPT !.pc = l]
  <2>1. Go(q, m) /\ m.op = req[q].op /\ m.pc = l /\ req[q].op \in {"cancel", "settle"}
    BY <1>1, <1>5, Queued DEF To, Request, Found
  <2> HIDE DEF m
  <2>2. Found(m, Full, row)
    BY <2>1 DEF Found, Barred, Enrolling
  <2> QED
    BY <1>1, <1>2, <1>3, <1>4, <2>1, <2>2, QueueSame DEF Moving, Enrolling
<1>6. \/ \E got \in {"nothing", "returned", "failed"} : Settled(q, got)
      \/ \E l \in {"set.restore", "set.mark"} : To(q, l)
  BY <1>1, NotUsed DEF Claim, Restore, Refund, Mark
<1> QED
  BY <1>1, <1>2, <1>3, <1>4, <1>5, <1>6, QueueSettled

LEMMA PromoteQueue ==
  ASSUME IsFiniteSet(Players), Seats > 0, TypeOK, Orderly, Orderly', Queue, NEW q \in Requests,
         PromoteCount(q) \/ PromotePick(q) \/ PromoteWrite(q)
  PROVE  Queue'
<1>1. /\ req[q].pc \in Moving /\ req[q] \in Request /\ Found(req[q], Full, row)
      /\ UNCHANGED <<intent, class>> /\ class.open /\ class.seats = Seats
  BY Queued DEF PromoteCount, PromotePick, PromoteWrite, At, Moving, Queue, InTurn
<1>2. ASSUME Promoted(q)
      PROVE  \E m : /\ Go(q, m) /\ m.pc \in {"idle", "exp.next"}
                    /\ \A full, rows : Found(m, full, rows)
  <2>1. CASE req[q].op = "expire"
    <3> DEFINE m == [req[q] EXCEPT !.pc = "exp.next"]
    <3>1. Go(q, m) /\ m.op = "expire" /\ m.pc = "exp.next"
      BY <1>1, <1>2, <2>1 DEF Promoted, To, Request
    <3> HIDE DEF m
    <3>2. \A full, rows : Found(m, full, rows)
      BY <3>1 DEF Found, Barred, Enrolling
    <3> QED
      BY <3>1, <3>2
  <2>2. CASE req[q].op # "expire"
    BY <1>2, <2>2, FoundIdle, IdleOK DEF Promoted, Done
  <2> QED
    BY <2>1, <2>2
<1>3. ASSUME UNCHANGED row, Promoted(q), Full \/ Waiting = {} PROVE Queue'
  <2>1. PICK m : /\ Go(q, m) /\ m.pc \in {"idle", "exp.next"}
                 /\ \A full, rows : Found(m, full, rows)
    BY <1>2, <1>3
  <2>2. Holding' = Holding /\ Waiting' = Waiting /\ Full' = Full
    BY <1>1, <1>3, StatusSame DEF Full
  <2>3. /\ Cardinality(Holding') <= Seats
        /\ Waiting' = {} \/ Cardinality(Holding') >= Seats - 1
        /\ Full' \/ Waiting' = {}
    BY <1>3, <2>2 DEF Queue, InTurn
  <2> QED
    BY <1>1, <2>1, <2>3, QueueGoes DEF Moving
<1>4. CASE PromoteCount(q)
  <2>1. UNCHANGED row /\ (IF ~Full THEN To(q, "pro.pick") ELSE Promoted(q))
    BY <1>1, <1>4, NotUsed DEF PromoteCount
  <2>2. CASE Full
    BY <1>3, <2>1, <2>2
  <2>3. CASE ~Full
    <3> DEFINE m == [req[q] EXCEPT !.pc = "pro.pick"]
    <3>1. Go(q, m) /\ m.pc = "pro.pick"
      BY <1>1, <2>1, <2>3 DEF To, Request
    <3> HIDE DEF m
    <3>2. Found(m, Full, row)
      BY <2>3, <3>1 DEF Found, Barred, Enrolling
    <3> QED
      BY <1>1, <2>1, <3>1, <3>2, QueueSame DEF Moving, Enrolling
  <2> QED
    BY <2>2, <2>3
<1>5. CASE PromotePick(q)
  <2>1. UNCHANGED row /\ req[q].pc = "pro.pick"
    BY <1>5 DEF PromotePick, At
  <2>2. CASE Waiting = {} /\ Promoted(q)
    BY <1>3, <2>1, <2>2
  <2>3. ASSUME NEW p \in Waiting, Go(q, [req[q] EXCEPT !.who = p, !.pc = "pro.write"])
        PROVE  Queue'
    <3> DEFINE m == [req[q] EXCEPT !.who = p, !.pc = "pro.write"]
    <3>1. Go(q, m) /\ m.pc = "pro.write" /\ m.who = p /\ p \in Players
          /\ row[p].status = "waitlisted"
      BY <1>1, <2>3 DEF Request, Waiting
    <3> HIDE DEF m
    <3>2. Found(m, Full, row)
      BY <1>1, <2>1, <3>1 DEF Found, Barred, Enrolling
    <3> QED
      BY <1>1, <2>1, <3>1, <3>2, QueueSame DEF Moving, Enrolling
  <2> QED
    BY <1>5, <2>2, <2>3, NotUsed DEF PromotePick
<1>6. CASE PromoteWrite(q)
  <2>p. PICK p \in Players : p = req[q].who
    BY <1>6, Queued DEF PromoteWrite, At, Anyone
  <2>1. /\ Promoted(q) /\ ~Full /\ row[p].status = "waitlisted" /\ row[p] \in Row
        /\ \E r : Patch(p, r) /\ r.status \in {"enrolled", "offered"}
    <3>1. Promoted(q) /\ ~Full /\ row[p].status = "waitlisted" /\ row[p] \in Row
      BY <1>1, <1>6, <2>p, Queued DEF PromoteWrite, At, Found
    <3>2. /\ [row[p] EXCEPT !.status = "offered", !.paid = FALSE, !.late = FALSE].status = "offered"
          /\ [row[p] EXCEPT !.status = "enrolled"].status = "enrolled"
      BY <3>1 DEF Row
    <3>3. \/ Patch(p, [row[p] EXCEPT !.status = "offered", !.paid = FALSE, !.late = FALSE])
          \/ Patch(p, [row[p] EXCEPT !.status = "enrolled"])
      BY <1>6, <2>p, NotUsed DEF PromoteWrite
    <3> QED
      BY <3>1, <3>2, <3>3
  <2>2. PICK r : Patch(p, r) /\ r.status \in {"enrolled", "offered"}
    BY <2>1
  <2>3. row' = [row EXCEPT ![p] = r]
    BY <2>1, <2>2 DEF Patch
  <2>4. p \notin Holding /\ p \in Waiting /\ Holding' = Holding \cup {p}
    BY <2>1, <2>2, <2>3, WrittenOK DEF Holding, Waiting
  <2>5. Cardinality(Holding') = Cardinality(Holding) + 1
    BY <2>4, OneSeat
  <2>6. /\ Cardinality(Holding) >= Seats - 1 /\ Cardinality(Holding) < Seats
        /\ Cardinality(Holding) \in Nat
    BY <1>1, <2>1, <2>4, CountOK DEF Queue, InTurn, Full
  <2>7. /\ Cardinality(Holding') = Seats /\ class'.seats = Seats
    BY <1>1, <2>5, <2>6
  <2>8. Full'
    BY <2>7 DEF Full
  <2>9. PICK m : /\ Go(q, m) /\ m.pc \in {"idle", "exp.next"}
                 /\ \A full, rows : Found(m, full, rows)
    BY <1>2, <2>1
  <2>10. Cardinality(Holding') <= Seats /\ Cardinality(Holding') >= Seats - 1
    <3> HIDE DEF Holding
    <3>1. Seats \in Nat
      BY ClassAssumption
    <3> QED
      BY <2>7, <3>1
  <2>11. /\ class'.open = class.open /\ class'.seats = class.seats
         /\ \A i \in Intents : intent'[i].of = intent[i].of
         /\ req[q].pc # "idle"
    BY <1>1 DEF Moving
  <2>12. Found(m, Full', row')
    BY <2>9
  <2> QED
    BY <2>8, <2>9, <2>10, <2>11, <2>12, QueueGoes
<1> QED
  BY <1>4, <1>5, <1>6

LEMMA EnrollQueue ==
  ASSUME IsFiniteSet(Players), Seats > 0, TypeOK, Orderly, Orderly', Queue, NEW q \in Requests,
         EnrollCount(q) \/ EnrollSpend(q) \/ EnrollWait(q) \/ EnrollWrite(q)
  PROVE  Queue'
<1>p. PICK p \in Players : p = req[q].who
  BY SoundReq DEF EnrollCount, EnrollSpend, EnrollWait, EnrollWrite, At, Anyone
<1>1. /\ req[q].pc \in Enrolling /\ UNCHANGED <<intent, class>> /\ req[q] \in Request
      /\ Found(req[q], Full, row) /\ row[p] \in Row
  BY <1>p, Queued DEF EnrollCount, EnrollSpend, EnrollWait, EnrollWrite, At, Enrolling
<1>2. /\ row[p].status \notin {"enrolled", "offered", "waitlisted"}
      /\ p \notin Holding /\ p \notin Waiting
      /\ Full \/ Waiting = {}
  <2>1. row[p].status \notin {"enrolled", "offered", "waitlisted"}
    BY <1>p, <1>1 DEF Found
  <2>2. \A o \in Requests : req[o].pc \notin Moving
    BY <1>1, IdleOK DEF Orderly, Enrolling, Moving
  <2> QED
    BY <2>1, <2>2 DEF Holding, Waiting, Queue, InTurn
<1>3. ASSUME NEW m, Go(q, m), UNCHANGED row, m.who = p,
             \/ Full /\ m.pc = "enr.wait"
             \/ ~Full /\ m.pc \in {"enr.spend", "enr.write"}
      PROVE  Queue'
  <2>1. Found(m, Full, row)
    BY <1>2, <1>3 DEF Found, Barred
  <2> QED
    BY <1>1, <1>3, <2>1, QueueSame DEF Moving, Enrolling
<1>4. CASE EnrollCount(q)
  <2>1. ASSUME NEW l \in {"enr.wait", "enr.spend"}, To(q, l), Full = (l = "enr.wait") PROVE Queue'
    <3> DEFINE m == [req[q] EXCEPT !.pc = l]
    <3>1. Go(q, m) /\ m.pc = l /\ m.who = p
      BY <1>p, <1>1, <2>1 DEF To, Request
    <3> HIDE DEF m
    <3> QED
      BY <1>3, <1>4, <2>1, <3>1 DEF EnrollCount
  <2>2. To(q, IF Full THEN "enr.wait" ELSE "enr.spend")
    BY <1>4, NotUsed DEF EnrollCount
  <2> QED
    BY <2>1, <2>2 DEF Full
<1>5. CASE EnrollSpend(q)
  <2>1. ~Full /\ UNCHANGED row
    BY <1>1, <1>5 DEF EnrollSpend, At, Found
  <2>2. ASSUME NEW m, Go(q, m), \/ m = [req[q] EXCEPT !.pc = "enr.write", !.spent = TRUE]
                                \/ m = [req[q] EXCEPT !.pc = "enr.write"]
        PROVE  Queue'
    <3>1. m.pc = "enr.write" /\ m.who = p
      BY <1>p, <1>1, <2>2 DEF Request
    <3> QED
      BY <1>3, <2>1, <2>2, <3>1
  <2> QED
    BY <1>5, <2>2 DEF EnrollSpend, To
<1>6. ASSUME NEW r, r.status \in {"enrolled", "waitlisted"}, Done(q),
             Full = (r.status = "waitlisted"),
             UNCHANGED row \/ row' = [row EXCEPT ![p] = r]
      PROVE  Queue'
  <2>1. Go(q, Idle) /\ Idle.pc = "idle" /\ Found(Idle, Full', row') /\ req[q].pc # "idle"
    BY <1>1, <1>6, FoundIdle, IdleOK DEF Done, Enrolling
  <2>2. CASE UNCHANGED row
    BY <1>1, <2>1, <2>2, QueueSame, FoundIdle DEF Enrolling, Moving
  <2>3. CASE row' = [row EXCEPT ![p] = r] /\ r.status = "waitlisted"
    <3>0. Holding' = Holding \ {p}
      BY <2>3, WrittenOK
    <3>1. Holding' = Holding
      BY <1>2, <3>0
    <3>2. Full' /\ Cardinality(Holding) >= Seats
      BY <1>1, <1>6, <2>3, <3>1 DEF Full, Queue, InTurn
    <3>3. Cardinality(Holding') <= Seats /\ Cardinality(Holding') >= Seats - 1
      BY <3>1, <3>2, CountOK DEF Queue, InTurn
    <3> QED
      BY <1>1, <2>1, <3>2, <3>3, QueueGoes
  <2>4. CASE row' = [row EXCEPT ![p] = r] /\ r.status = "enrolled"
    <3>1. Holding' = Holding \cup {p} /\ Waiting' = {}
      BY <1>2, <1>6, <2>4, WrittenOK
    <3>2. Cardinality(Holding') = Cardinality(Holding) + 1
      <4>1. Holding' = Holding \cup {p} /\ p \notin Holding
        BY <1>2, <3>1
      <4> HIDE DEF Holding
      <4> QED
        BY <4>1, OneSeat
    <3>3. Cardinality(Holding) < Seats /\ Cardinality(Holding) \in Nat
      BY <1>6, <2>4, CountOK DEF Full, Queue, InTurn
    <3>4. Cardinality(Holding') <= Seats
      BY <3>2, <3>3
    <3> QED
      BY <1>1, <2>1, <3>1, <3>4, QueueGoes
  <2> QED
    BY <1>6, <2>2, <2>3, <2>4
<1>7. ASSUME NEW r, Upsert(q, p, r) PROVE UNCHANGED row \/ row' = [row EXCEPT ![p] = r]
  BY <1>7, <1>1 DEF Upsert, Patch, TypeOK
<1>8. CASE EnrollWait(q)
  <2> DEFINE r == [row[p] EXCEPT !.status = "waitlisted", !.paid = FALSE]
  <2>1. Full /\ r.status = "waitlisted" /\ Done(q) /\ (UNCHANGED row \/ Upsert(q, p, r))
    BY <1>p, <1>1, <1>8 DEF EnrollWait, At, Found, Row
  <2> HIDE DEF r
  <2> QED
    BY <1>6, <1>7, <2>1 DEF Full
<1>9. CASE EnrollWrite(q)
  <2> DEFINE s == req[q].spent
             r == [row[p] EXCEPT !.status = "enrolled", !.paid = ~Priced \/ s,
                                 !.ref  = IF s THEN "credit" ELSE @,
                                 !.back = IF s THEN FALSE ELSE @]
  <2>1. ~Full /\ r.status = "enrolled" /\ Done(q) /\ (UNCHANGED row \/ Upsert(q, p, r))
    BY <1>p, <1>1, <1>9 DEF EnrollWrite, At, Found, Row
  <2> HIDE DEF r
  <2> QED
    BY <1>6, <1>7, <2>1 DEF Full
<1> QED
  BY <1>4, <1>5, <1>8, <1>9

\* A request that begins at a statement where nothing is to be found yet.
LEMMA QueueStart ==
  ASSUME TypeOK, Orderly, Orderly', Queue, NEW q \in Requests,
         NEW op, NEW l, NEW p, NEW seen, Start(q, op, l, p, seen), l \notin Moving \cup {"idle"},
         UNCHANGED <<row, intent, class>>,
         \A m : m.op = op /\ m.pc = l /\ m.who = p => Found(m, Full, row),
         l \in Enrolling => p \in Players
  PROVE  Queue'
<1> DEFINE m == [Idle EXCEPT !.op = op, !.pc = l, !.who = p, !.seen = seen]
<1>1. Go(q, m) /\ req[q] = Idle /\ m.op = op /\ m.pc = l /\ m.who = p /\ m.seen = seen
  BY DEF Start, Idle
<1>2. Found(m, Full, row)
  BY <1>1
<1> HIDE DEF m
<1>3. req[q].pc \notin Moving
  BY <1>1, IdleOK DEF Moving
<1>4. m.pc # "idle" /\ m.pc # "pro.write" /\ (m.pc \in Enrolling => m.who \in Players)
  BY <1>1 DEF Moving
<1> QED
  BY <1>1, <1>2, <1>3, <1>4, QueueSame

LEMMA EnrollReadQueue ==
  ASSUME TypeOK, Orderly, Orderly', Queue, NEW q \in Requests, NEW p \in Players,
         EnrollRead(q, p)
  PROVE  Queue'
<1>1. /\ Start(q, "enroll", "enr.count", p, Only({p})) /\ UNCHANGED <<row, intent, class>>
      /\ row[p].status \notin {"enrolled", "waitlisted"}
  BY DEF EnrollRead
<1>2. row[p].status # "offered"
  <2> DEFINE m == [Idle EXCEPT !.op = "enroll", !.pc = "enr.count", !.who = p,
                               !.seen = Only({p})]
  <2>1. Go(q, m) /\ m.pc = "enr.count" /\ m.who = p /\ m.seen[p] = row[p]
    BY <1>1 DEF Start, Idle, Only
  <2> HIDE DEF m
  <2>2. req'[q] = m
    BY <2>1 DEF Go, TypeOK, ReqOK
  <2> QED
    BY <2>1, <2>2 DEF Orderly, Enrolling
<1>3. ASSUME NEW m, m.pc = "enr.count", m.who = p PROVE Found(m, Full, row)
  BY <1>1, <1>2, <1>3 DEF Found, Barred, Enrolling
<1> QED
  BY <1>1, <1>3, QueueStart DEF Moving

\* A seat that is given up between promotions leaves one free seat at most to
\* those who wait.
LEMMA FreedQueue ==
  ASSUME IsFiniteSet(Players), TypeOK, Orderly, Orderly', Queue, NEW q \in Requests,
         NEW m, Go(q, m), m.pc = "pro.count", req[q].pc \notin Moving,
         UNCHANGED <<intent, class>>, Found(m, Full', row'),
         NEW p, Holding' = Holding \ {p}, Waiting' \subseteq Waiting
  PROVE  Queue'
<1>1. \A o \in Requests : req[o].pc \notin Moving
  BY Alone, IdleOK DEF Moving
<1>2. /\ Full \/ Waiting = {}
      /\ Cardinality(Holding) <= Seats /\ class.seats = Seats /\ Seats \in Nat
  BY <1>1, ClassAssumption DEF Queue, InTurn
<1>3. /\ Cardinality(Holding') <= Cardinality(Holding)
      /\ Cardinality(Holding') >= Cardinality(Holding) - 1
      /\ Cardinality(Holding) \in Nat /\ Cardinality(Holding') \in Nat
  BY OneSeat, CountOK
<1>4. Cardinality(Holding') <= Seats
  BY <1>2, <1>3
<1>5. Waiting' = {} \/ Cardinality(Holding') >= Seats - 1
  <2>1. CASE Full
    <3>1. Cardinality(Holding) >= Seats
      BY <1>2, <2>1 DEF Full
    <3> QED
      BY <1>2, <1>3, <3>1
  <2>2. CASE Waiting = {}
    BY <2>2
  <2> QED
    BY <1>2, <2>1, <2>2
<1> QED
  BY <1>4, <1>5, QueueGoes DEF Moving

LEMMA LeaveQueue ==
  ASSUME IsFiniteSet(Players), TypeOK, Orderly, Orderly', Queue, NEW q \in Requests,
         CancelWrite(q) \/ \E p \in Players : CancelRead(q, p) \/ RemoveRead(q, p)
  PROVE  Queue'
<1>1. ASSUME NEW p \in Players, CancelRead(q, p) PROVE Queue'
  <2> DEFINE m == [Idle EXCEPT !.op = "cancel", !.who = p, !.seen = Only({p})]
  <2>1. /\ req[q] = Idle /\ UNCHANGED <<row, intent, class>>
        /\ Go(q, After(m)) \/ Go(q, Settle(m))
    BY <1>1 DEF CancelRead
  <2>2. m \in Request /\ m.op = "cancel"
    BY OnlyOK, IdleOK DEF Request, Idle
  <2> HIDE DEF m
  <2>3. ASSUME NEW n, Go(q, n), Found(n, Full, row),
               n.pc \in {"swp.next", "can.write", "set.claim", "set.refund"}
        PROVE  Queue'
    BY <2>1, <2>3, IdleOK, QueueSame DEF Moving, Enrolling
  <2>4. /\ Found(After(m), Full, row) /\ After(m).pc \in {"swp.next", "can.write"}
        /\ Found(Settle(m), Full, row)
        /\ Settle(m).pc \in {"swp.next", "can.write", "set.claim", "set.refund"}
    BY <2>2, FoundAfter, FoundSettle
  <2> HIDE DEF After, Settle
  <2> QED
    BY <2>1, <2>3, <2>4
<1>2. ASSUME NEW p \in Players PROVE ~RemoveRead(q, p)
  BY NotUsed DEF RemoveRead
<1>3. CASE CancelWrite(q)
  <2>p. PICK p \in Players : p = req[q].who
    BY <1>3, Queued DEF CancelWrite, At, Anyone
  <2> DEFINE m == [req[q] EXCEPT !.pc = "pro.count"]
             r == [row[p] EXCEPT !.status = "canceled"]
  <2>1. /\ req[q].pc = "can.write" /\ req[q].op = "cancel" /\ req[q] \in Request
        /\ UNCHANGED <<intent, class>>
    BY <1>3, Queued DEF CancelWrite, At, Found
  <2>2. Patch(p, r) /\ Go(q, m)
    BY <1>3, <2>p, <2>1, NotUsed DEF CancelWrite, To
  <2>3. m.pc = "pro.count"
    BY <2>1 DEF Request
  <2>4. Found(m, Full', row')
    BY <2>3 DEF Found, Barred, Enrolling
  <2>5. r.status = "canceled" /\ row[p] \in Row /\ row \in [Players -> Row]
    BY DEF TypeOK, Row
  <2> HIDE DEF m, r
  <2>6. Holding' = Holding \ {p} /\ Waiting' \subseteq Waiting
    <3>1. CASE row[p].status = "absent"
      <4>1. row' = row
        BY <2>2, <2>5, <3>1 DEF Patch
      <4> QED
        BY <3>1, <4>1 DEF Holding, Waiting
    <3>2. CASE row[p].status # "absent"
      <4>1. row' = [row EXCEPT ![p] = r]
        BY <2>2, <3>2 DEF Patch
      <4> QED
        BY <2>5, <4>1, WrittenOK
    <3> QED
      BY <3>1, <3>2
  <2> QED
    BY <2>1, <2>2, <2>3, <2>4, <2>6, FreedQueue DEF Moving
<1> QED
  BY <1>1, <1>2, <1>3

LEMMA SweepQueue ==
  ASSUME TypeOK, Orderly, Orderly', Queue, NEW q \in Requests,
         SweepRefunds(q) \/ SweepNext(q) \/ SweepOffers(q)
  PROVE  Queue'
<1>1. UNCHANGED <<row, intent, class>>
  BY DEF SweepRefunds, SweepNext, SweepOffers
<1>2. CASE SweepRefunds(q)
  <2>1. Start(q, "settle", "swp.next", Nobody, Only(Owed))
    BY <1>2 DEF SweepRefunds
  <2>2. \A m : m.op = "settle" /\ m.pc = "swp.next" => Found(m, Full, row)
    BY DEF Found, Barred, Enrolling
  <2> QED
    BY <1>1, <2>1, <2>2, QueueStart DEF Moving, Enrolling
<1>3. CASE SweepOffers(q)
  <2>1. PICK S : Start(q, "expire", "exp.next", Nobody, S)
    BY <1>3 DEF SweepOffers
  <2>2. \A m : m.op = "expire" /\ m.pc = "exp.next" => Found(m, Full, row)
    BY DEF Found, Barred, Enrolling
  <2> QED
    BY <1>1, <2>1, <2>2, QueueStart DEF Moving, Enrolling
<1>4. CASE SweepNext(q)
  <2>1. req[q].pc = "swp.next" /\ req[q].op = "settle" /\ req[q] \in Request
    BY <1>4, Queued DEF SweepNext, At, Found
  <2>2. CASE Done(q)
    BY <1>1, <2>1, <2>2, FoundIdle, IdleOK, QueueSame DEF Done, Moving, Enrolling
  <2>3. ASSUME NEW p \in Players, Go(q, Settle([req[q] EXCEPT !.who = p])) PROVE Queue'
    <3> DEFINE m == [req[q] EXCEPT !.who = p]
    <3>1. m \in Request /\ m.op = "settle"
      BY <2>1 DEF Request
    <3> HIDE DEF m
    <3>2. /\ Found(Settle(m), Full, row)
          /\ Settle(m).pc \in {"swp.next", "can.write", "set.claim", "set.refund"}
      BY <3>1, FoundSettle
    <3>3. Go(q, Settle(m))
      BY <2>3 DEF m
    <3> HIDE DEF Settle
    <3> QED
      BY <1>1, <2>1, <3>2, <3>3, QueueSame DEF Moving, Enrolling
  <2>4. Done(q) \/ \E p \in Players : Go(q, Settle([req[q] EXCEPT !.who = p]))
    BY <1>4 DEF SweepNext, Rows
  <2> QED
    BY <2>2, <2>3, <2>4
<1> QED
  BY <1>2, <1>3, <1>4

LEMMA ExpireQueue ==
  ASSUME IsFiniteSet(Players), TypeOK, Orderly, Orderly', Queue, NEW q \in Requests,
         ExpireOffer(q)
  PROVE  Queue'
<1>1. /\ req[q].pc = "exp.next" /\ req[q].op = "expire" /\ req[q] \in Request
      /\ UNCHANGED <<intent, class>> /\ row \in [Players -> Row]
  BY Queued DEF ExpireOffer, At, Found, TypeOK
<1>2. CASE Done(q) /\ UNCHANGED row
  BY <1>1, <1>2, FoundIdle, IdleOK, QueueSame DEF Done, Moving, Enrolling
<1>3. ASSUME NEW p \in Players, UNCHANGED row, Go(q, [req[q] EXCEPT !.seen[p] = NoRow])
      PROVE  Queue'
  <2> DEFINE m == [req[q] EXCEPT !.seen[p] = NoRow]
  <2>1. Go(q, m) /\ m.pc = "exp.next" /\ m.op = "expire"
    BY <1>1, <1>3 DEF Request
  <2> HIDE DEF m
  <2>2. Found(m, Full, row)
    BY <2>1 DEF Found, Barred, Enrolling
  <2> QED
    BY <1>1, <1>3, <2>1, <2>2, QueueSame DEF Moving, Enrolling
<1>4. ASSUME NEW p \in Players, row' = [row EXCEPT ![p].status = "expired"],
             Go(q, [[req[q] EXCEPT !.seen[p] = NoRow] EXCEPT !.pc = "pro.count"])
      PROVE  Queue'
  <2> DEFINE m == [[req[q] EXCEPT !.seen[p] = NoRow] EXCEPT !.pc = "pro.count"]
             r == [row[p] EXCEPT !.status = "expired"]
  <2>1. Go(q, m) /\ m.pc = "pro.count"
    BY <1>1, <1>4 DEF Request
  <2>2. r.status = "expired" /\ row' = [row EXCEPT ![p] = r]
    BY <1>1, <1>4 DEF Row
  <2> HIDE DEF m, r
  <2>3. Found(m, Full', row')
    BY <2>1 DEF Found, Barred, Enrolling
  <2>4. Holding' = Holding \ {p} /\ Waiting' \subseteq Waiting
    BY <2>2, WrittenOK
  <2> QED
    BY <1>1, <2>1, <2>3, <2>4, FreedQueue DEF Moving
<1>5. \/ Done(q) /\ UNCHANGED row
      \/ \E p \in Players :
            \/ UNCHANGED row /\ Go(q, [req[q] EXCEPT !.seen[p] = NoRow])
            \/ /\ row' = [row EXCEPT ![p].status = "expired"]
               /\ Go(q, [[req[q] EXCEPT !.seen[p] = NoRow] EXCEPT !.pc = "pro.count"])
  BY NotUsed DEF ExpireOffer, Rows
<1> QED
  BY <1>2, <1>3, <1>4, <1>5

LEMMA PackQueue ==
  ASSUME TypeOK, Orderly, Orderly', Queue, NEW q \in Requests,
         \/ PackClaim(q) \/ PackBalance(q) \/ PackWrite(q) \/ PackApplied(q)
         \/ \E p \in Players : PackRead(q, p)
  PROVE  Queue'
<1>1. UNCHANGED <<row, intent, class>>
  BY DEF PackClaim, PackBalance, PackWrite, PackApplied, PackRead
<1>2. ASSUME NEW m, m.pc \in Packing \cup {"idle"}
      PROVE  /\ m.pc \notin Moving \cup Enrolling \cup {"pro.write"}
             /\ Found(m, Full, row)
  BY <1>2 DEF Packing, Moving, Enrolling, Found, Barred
<1>3. CASE \E p \in Players : PackRead(q, p)
  <2>1. PICK p \in Players, l \in Packing : Start(q, "pack", l, p, Nothing)
    BY <1>3 DEF PackRead, Packing
  <2>2. \A m : m.op = "pack" /\ m.pc = l /\ m.who = p => Found(m, Full, row)
    BY <1>2
  <2> QED
    BY <1>1, <2>1, <2>2, QueueStart DEF Moving, Enrolling, Packing
<1>4. CASE PackClaim(q) \/ PackBalance(q) \/ PackWrite(q) \/ PackApplied(q)
  <2>1. req[q] \in Request /\ req[q].pc \in Packing
    BY <1>4, Queued DEF PackClaim, PackBalance, PackWrite, PackApplied, At, Packing
  <2>2. \E m : Go(q, m) /\ m.pc \in Packing \cup {"idle"}
    <3>1. CASE Done(q)
      BY <3>1, IdleOK DEF Done
    <3>2. ASSUME NEW l \in Packing, To(q, l) PROVE \E m : Go(q, m) /\ m.pc \in Packing
      <4>1. [req[q] EXCEPT !.pc = l].pc = l
        BY <2>1 DEF Request
      <4> QED
        BY <3>2, <4>1 DEF To
    <3>3. ASSUME PackBalance(q) PROVE \E m : Go(q, m) /\ m.pc \in Packing
      <4>1. [req[q] EXCEPT !.pc = "pack.write", !.balance = credits[req[q].who]].pc \in Packing
        BY <2>1 DEF Request, Packing
      <4> QED
        BY <3>3, <4>1 DEF PackBalance
    <3>4. PackBalance(q) \/ Done(q) \/ \E l \in Packing : To(q, l)
      BY <1>4 DEF PackClaim, PackWrite, PackApplied, Packing
    <3> QED
      BY <3>1, <3>2, <3>3, <3>4
  <2>3. req[q].pc # "idle" /\ req[q].pc \notin Moving
    BY <2>1 DEF Packing, Moving
  <2> QED
    BY <1>1, <1>2, <2>2, <2>3, QueueSame
<1> QED
  BY <1>3, <1>4

\* Time goes on, and nothing is charged that was never started.
LEMMA WorldQueue ==
  ASSUME TypeOK, Orderly, Orderly', Queue, World
  PROVE  Queue'
<1>1. ASSUME NEW p \in Players PROVE ~MarkPaidInCash(p) /\ \A i \in Intents : ~Pay(p, i)
  BY NotUsed DEF MarkPaidInCash, Pay
<1>2. (\A n \in 0..Seats + 1 : ~EditClass(n)) /\ ~Stop
  BY NotUsed DEF EditClass, Stop
<1>3. ASSUME NEW p \in Players, OfferLapses(p) PROVE Queue'
  <2>1. \A o \in Players : row'[o].status = row[o].status
    BY <1>3 DEF OfferLapses, TypeOK, Row
  <2> QED
    BY <1>3, <2>1, QueueStays DEF OfferLapses
<1>4. ASSUME NEW i \in Intents, Capture(i) PROVE Queue'
  <2>1. \A j \in Intents : intent'[j].of = intent[j].of
    BY <1>4 DEF Capture, TypeOK, MoneyOK, Intent
  <2> QED
    BY <1>4, <2>1, QueueStays DEF Capture
<1>5. CASE ClassNears
  <2>1. class'.open = class.open /\ class'.seats = class.seats
    BY <1>5 DEF ClassNears, TypeOK
  <2> QED
    BY <1>5, <2>1, QueueStays DEF ClassNears
<1> QED
  BY <1>1, <1>2, <1>3, <1>4, <1>5 DEF World

LEMMA ManualQueue ==
  ASSUME IsFiniteSet(Players), Seats > 0, TypeOK, Orderly, Orderly', Queue, NEW q \in Requests,
         ManualWrite(q) \/ \E p \in Players : ManualCount(q, p)
  PROVE  Queue'
<1>1. UNCHANGED <<intent, class>>
  BY DEF ManualWrite, ManualCount
<1>2. ASSUME NEW p \in Players, ManualCount(q, p) PROVE Queue'
  <2>1. /\ Start(q, "promote", "man.write", p, Only({p})) /\ UNCHANGED <<row, intent, class>>
        /\ ~Full
    BY <1>2 DEF ManualCount
  <2>2. \A m : m.op = "promote" /\ m.pc = "man.write" /\ m.who = p => Found(m, Full, row)
    BY <2>1 DEF Found, Barred, Enrolling
  <2> QED
    BY <2>1, <2>2, QueueStart DEF Moving, Enrolling
<1>3. CASE ManualWrite(q)
  <2>p. PICK p \in Players : p = req[q].who
    BY <1>3, Queued DEF ManualWrite, At, Anyone
  <2> DEFINE r == [row[p] EXCEPT !.status = "enrolled"]
  <2>1. /\ req[q].pc = "man.write" /\ ~Full /\ Patch(p, r) /\ Done(q)
        /\ r.status = "enrolled" /\ row \in [Players -> Row]
    BY <1>3, <2>p, Queued DEF ManualWrite, At, Found, Row, TypeOK
  <2> HIDE DEF r
  <2>2. Waiting = {}
    <3>1. \A o \in Requests : req[o].pc \notin Moving
      BY <2>1, IdleOK DEF Orderly, Moving
    <3> QED
      BY <2>1, <3>1 DEF Queue, InTurn
  <2>3. /\ Waiting' = {}
        /\ \/ Holding' = Holding
           \/ p \notin Holding /\ Holding' = Holding \cup {p}
    <3>1. CASE row' = row
      BY <2>2, <3>1 DEF Holding, Waiting
    <3>2. CASE row' = [row EXCEPT ![p] = r]
      <4>1. Waiting' = Waiting \ {p} /\ Holding' = Holding \cup {p}
        BY <2>1, <3>2, WrittenOK
      <4> QED
        BY <2>2, <4>1
    <3>3. row' = row \/ row' = [row EXCEPT ![p] = r]
      BY <2>1 DEF Patch
    <3> QED
      BY <3>1, <3>2, <3>3
  <2>4. Cardinality(Holding) < Seats /\ Cardinality(Holding) \in Nat
    BY <2>1, CountOK, ClassAssumption DEF Full, Queue, InTurn
  <2>5. Cardinality(Holding') <= Seats
    <3> HIDE DEF Holding, Waiting
    <3>1. CASE Holding' = Holding
      BY <2>4, <3>1, ClassAssumption
    <3>2. CASE p \notin Holding /\ Holding' = Holding \cup {p}
      <4>1. Cardinality(Holding') = Cardinality(Holding) + 1
        BY <3>2, OneSeat
      <4> QED
        BY <2>4, <4>1, ClassAssumption
    <3> QED
      BY <2>3, <3>1, <3>2
  <2>6. Go(q, Idle) /\ Found(Idle, Full', row')
    BY <2>1, FoundIdle DEF Done
  <2> QED
    BY <1>1, <2>1, <2>3, <2>5, <2>6, QueueGoes
<1> QED
  BY <1>2, <1>3

LEMMA QueueStep ==
  ASSUME IsFiniteSet(Players), Seats > 0, TypeOK, Orderly, Orderly', Queue, [Next]_vars
  PROVE  Queue'
<1>1. CASE UNCHANGED vars
  BY <1>1, QueueStays DEF vars
<1>2. CASE World
  BY <1>2, WorldQueue
<1>3. ASSUME NEW q \in Requests, Continue(q) PROVE Queue'
  <2>1. ~PaidWrite(q) /\ ~DeleteNext(q) /\ ~DeleteFree(q) /\ ~DeleteDrop(q)
    BY Queued DEF PaidWrite, DeleteNext, DeleteFree, DeleteDrop, At, Found, Barred
  <2> QED
    BY <1>3, <2>1, SettlingQueue, PromoteQueue, EnrollQueue, LeaveQueue, SweepQueue,
       ManualQueue, ExpireQueue, PackQueue DEF Continue
<1>4. ASSUME NEW q \in Requests, Calls(q) PROVE Queue'
  <2>1. ASSUME NEW i \in Intents PROVE ~HearRead(q, i)
    BY ClassAssumption DEF HearRead, Queue
  <2>2. ~DeleteRead(q)
    BY NotUsed DEF DeleteRead
  <2> QED
    BY <1>4, <2>1, <2>2, EnrollReadQueue, LeaveQueue, ManualQueue, PackQueue DEF Calls
<1>5. ASSUME NEW q \in Requests, Sweeps(q) PROVE Queue'
  BY <1>5, SweepQueue DEF Sweeps
<1> QED
  BY <1>1, <1>2, <1>3, <1>4, <1>5 DEF Next

LEMMA InitQueue ==
  ASSUME Init
  PROVE  Queue
<1>1. Holding = {} /\ Waiting = {}
  BY DEF Init, Holding, Waiting, NoRow
<1>2. Cardinality(Holding) = 0
  BY <1>1, FS_EmptySet
<1>3. InTurn
  BY <1>1, <1>2, ClassAssumption DEF Init, InTurn
<1> QED
  BY <1>3, FoundIdle DEF Init, Queue

\* Served one at a time, a class with a capacity is never overbooked, offered
\* seats counting as taken, and when no request is in flight nobody waits for
\* a seat that is free (classEnrolledCount, promoteNextWaitlisted).
THEOREM SeatsInTurnHolds ==
  ASSUME IsFiniteSet(Players), Seats > 0
  PROVE  Spec /\ []Orderly => []SeatsTaken
<1>1. Init => Queue
  BY InitQueue
<1>2. Queue /\ TypeOK /\ Orderly /\ Orderly' /\ [Next]_vars => Queue'
  BY QueueStep
<1>3. Queue => SeatsTaken
  BY IdleOK DEF Queue, InTurn, SeatsTaken, Moving
<1> QED
  BY <1>1, <1>2, <1>3, TypeOKHolds, PTL DEF Spec
=============================================================================
