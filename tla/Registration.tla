----------------------------- MODULE Registration -----------------------------
(***************************************************************************)
(* The registrations and the waitlist of one event (service.go:            *)
(* RegisterPlayer, linkPartner, JoinWaitlist, RemoveWaitlist,              *)
(* PromoteWaitlist, ApproveRegistration, DeleteRegistration) in one        *)
(* process, statement by statement: sign-ups hold the event's lock, the    *)
(* other handlers do not take it.                                          *)
(*                                                                         *)
(* A person is a name with a phone.  E-mail addresses, DUPR and ratings,   *)
(* the invite code and the cutoff only refuse a request before it has done *)
(* anything, and are left out.                                             *)
(***************************************************************************)
EXTENDS Naturals, Sequences, FiniteSets

CONSTANTS
    People, Nobody,
    Accounts,      \* the people who have an account, and sign up signed in
    PhoneOf,       \* person -> phone
    NoPhone,
    Requests,      \* requests the process may be serving at once
    Free,
    Occasions      \* the events to look at, with the bounds on each:
                   \*   cap: max_players, 0 when there is none
                   \*   approval: require_approval
                   \*   organizers: the accounts that run the event
                   \*   contactless: players without a phone
                   \*   mates: whether they bring partners
                   \*   divisions, signups, adds, waits, removals, fees, faults

ASSUME RegistrationAssumption ==
    /\ Accounts \subseteq People
    /\ Nobody \notin People
    /\ \A p \in People : PhoneOf[p] # NoPhone
    /\ Free \notin Requests
    /\ \A o \in Occasions : {o.cap, o.faults} \subseteq Nat

VARIABLES
    event,
    players,   \* players: the rows, in the order of their insertion
    entries,   \* registrations
    waitlist,  \* event_waitlist
    serial,    \* ids given out
    lock,      \* registerLocks[event]: the request that holds it
    request,   \* request -> its calls, the innermost first
    left

base == <<event, players, entries, waitlist, serial, lock, request, left>>

Budgets == {"signups", "adds", "waits", "removals", "fees", "faults"}

Init ==
    /\ event \in Occasions
    /\ players = <<>>
    /\ entries = {}
    /\ waitlist = {}
    /\ serial = 0
    /\ lock = Free
    /\ request = [r \in Requests |-> <<>>]
    /\ left = [b \in Budgets |-> event[b]]

Spend(b) == left[b] > 0 /\ left' = [left EXCEPT ![b] = @ - 1]

-----------------------------------------------------------------------------
(* What the statements read.                                               *)

Rows == DOMAIN players
In(d) == {e \in entries : e.div = d}
Entered(row, d) == \E e \in In(d) : e.row = row

\* RegistrantByPhone: a row with this phone that is in the event; which of
\* several comes first is left to the database.
Registrants(phone) == {i \in Rows : /\ players[i].phone = phone /\ phone # NoPhone
                                    /\ \E e \in entries : e.row = i}

\* registrationExistsByContact: the same name and phone in this division.
KnownIn(who, phone, d) ==
    phone # NoPhone /\ \E i \in Rows : /\ players[i].who = who /\ players[i].phone = phone
                                       /\ Entered(i, d)

\* distinctPlayerCount.
Counted == {e.row : e \in {x \in entries : x.approved}}

Contactless == {e.row : e \in {x \in entries : players[x.row].phone = NoPhone}}

\* players.user_id is unique.
RowsOf(u) == {i \in Rows : players[i].user = u /\ u # Nobody}

\* accountForContact: the account with this phone, when there is one only.
AccountFor(phone) == {u \in Accounts : {v \in Accounts : PhoneOf[v] = phone} = {u}}

\* Only the organizer's additions are linked by their phone.
LinkedTo(c) == IF c.trusted /\ c.phone # NoPhone THEN AccountFor(c.phone) ELSE {}

-----------------------------------------------------------------------------
(* RegisterPlayer.                                                         *)

Busy(r) == request[r] # <<>>
Call(r) == Head(request[r])
At(r, pc) == Busy(r) /\ Call(r).at = pc
GoTo(r, pc) == request' = [request EXCEPT ![r][1].at = pc]

Return(r) ==
    /\ request' = [request EXCEPT ![r] = Tail(@)]
    /\ lock' = IF lock = r THEN Free ELSE lock

\* capped: a request of the public's for themselves, which the cap may refuse.
\* trusted: the organizer's.  gated: it waits for approval where the event asks for one.
SignUp(who, phone, div, capped, trusted, user, mate, from) ==
    [at |-> "lock", who |-> who, phone |-> phone, div |-> div,
     capped |-> capped, trusted |-> trusted, gated |-> ~trusted,
     user |-> user, mate |-> mate, from |-> from, row |-> 0, counted |-> FALSE]

\* Somebody signs up, with or without a partner.  Who is signed in (an organizer,
\* too) is linked to their account when the client says that it is for
\* themselves, and then only is the cap looked at.
Register(r, who, div, self, user, mate) ==
    /\ ~Busy(r)
    /\ user \in ({Nobody} \cup (Accounts \cap {who}))
    /\ user # Nobody => self
    /\ mate = Nobody \/ (mate # who /\ event.mates)
    /\ Spend("signups")
    /\ request' = [request EXCEPT ![r] =
                      <<SignUp(who, PhoneOf[who], div, self /\ event.cap > 0,
                               user \in event.organizers, user, mate, 0)>>]
    /\ UNCHANGED <<event, players, entries, waitlist, serial, lock>>

\* The organizer adds a player, with a phone or without.
Add(r, who, div, phone) ==
    /\ ~Busy(r)
    /\ phone \in {PhoneOf[who], NoPhone}
    /\ Spend("adds")
    /\ request' = [request EXCEPT ![r] =
                      <<SignUp(who, phone, div, FALSE, TRUE, Nobody, Nobody, 0)>>]
    /\ UNCHANGED <<event, players, entries, waitlist, serial, lock>>

\* PromoteWaitlist reads the row and registers the person as the organizer.
Promote(r, w) ==
    /\ ~Busy(r)
    /\ Spend("adds")
    /\ request' = [request EXCEPT ![r] =
                      <<SignUp(w.who, w.phone, w.div, FALSE, TRUE, w.user, Nobody, w.no)>>]
    /\ UNCHANGED <<event, players, entries, waitlist, serial, lock>>

\* Slip: as if every request had a lock of its own.
AcquireOwn(r) ==
    /\ At(r, "lock")
    /\ GoTo(r, "dup")
    /\ UNCHANGED <<event, players, entries, waitlist, serial, lock, left>>

\* A sync.Mutex is not reentrant: nobody gets it while it is held.
Acquire(r) ==
    /\ At(r, "lock")
    /\ lock = Free
    /\ lock' = r
    /\ GoTo(r, "dup")
    /\ UNCHANGED <<event, players, entries, waitlist, serial, left>>

\* checkContactlessRoom, eventRequiresApproval (when that read fails, nobody is
\* asked), then registrationExistsByContact.
CheckContact(r) ==
    LET c == Call(r)
        Pass(gated) ==
            /\ request' = [request EXCEPT ![r][1].gated = gated,
                              ![r][1].at = IF c.capped THEN "cap" ELSE "row"]
            /\ UNCHANGED lock
    IN  /\ At(r, "dup")
        /\ IF \/ c.trusted /\ c.phone = NoPhone /\ Cardinality(Contactless) >= event.contactless
              \/ KnownIn(c.who, c.phone, c.div)
           THEN Return(r) /\ UNCHANGED left
           ELSE \/ Pass(c.gated) /\ UNCHANGED left
                \/ c.gated /\ event.approval /\ Spend("faults") /\ Pass(FALSE)
        /\ UNCHANGED <<event, players, entries, waitlist, serial>>

\* The cap is the public's only; who is in another division keeps their seat,
\* and a count that cannot be read lets everybody in.
Seated(c) == \E i \in RowsOf(c.user) : \E e \in entries : e.row = i

CheckCap(r) ==
    LET ToRow(counted) ==
            /\ request' = [request EXCEPT ![r][1].at = "row", ![r][1].counted = counted]
            /\ UNCHANGED lock
        seated == Seated(Call(r))
    IN  /\ At(r, "cap")
        /\ \/ seated /\ ToRow(FALSE) /\ UNCHANGED left
           \/ /\ (~seated /\ UNCHANGED left) \/ (seated /\ Spend("faults"))
              /\ IF Cardinality(Counted) >= event.cap THEN Return(r) ELSE ToRow(TRUE)
           \/ ~seated /\ Spend("faults") /\ ToRow(FALSE)
        /\ UNCHANGED <<event, players, entries, waitlist, serial>>

\* The player's row: the account's, that of the account with this phone, that
\* of a registrant with this phone, or a new one.  A row that is in the
\* division already is a duplicate.
Linked(c) == UNION {RowsOf(u) : u \in LinkedTo(c)}

KnownRows(c) ==
    IF c.user # Nobody THEN RowsOf(c.user)
    ELSE IF Linked(c) # {} THEN Linked(c) ELSE Registrants(c.phone)

AccountOf(c) ==
    IF c.user # Nobody THEN c.user
    ELSE IF LinkedTo(c) # {} THEN CHOOSE u \in LinkedTo(c) : TRUE ELSE Nobody

Found(r, row) ==
    /\ request' = [request EXCEPT ![r][1].at = "insert", ![r][1].row = row]
    /\ UNCHANGED lock

\* An account's row takes the name and the phone, if one is given.
Updated(c, row) ==
    [who |-> c.who, phone |-> IF c.phone = NoPhone THEN players[row].phone ELSE c.phone,
     user |-> players[row].user]

UseRow(r, row) ==
    LET c == Call(r)
    IN  IF Entered(row, c.div) THEN Return(r) /\ UNCHANGED players
        ELSE /\ Found(r, row)
             /\ players' = IF c.user = Nobody THEN players
                           ELSE [players EXCEPT ![row] = Updated(c, row)]

NewRow(r, user) ==
    LET c == Call(r)
    IN  /\ Found(r, Len(players) + 1)
        /\ players' = Append(players, [who |-> c.who, phone |-> c.phone, user |-> user])

UseOrMake(r, rows, user) ==
    \/ \E row \in rows : UseRow(r, row)
    \/ rows = {} /\ NewRow(r, user)

\* For who is not signed in, a look-up of the account or of the phone that fails
\* counts as no match.
FindRow(r) ==
    LET c == Call(r)
    IN  /\ At(r, "row")
        /\ \/ UseOrMake(r, KnownRows(c), AccountOf(c)) /\ UNCHANGED left
           \/ /\ c.user = Nobody /\ Spend("faults")
              /\ \/ UseOrMake(r, Registrants(c.phone), Nobody)
                 \/ \E user \in {Nobody, AccountOf(c)} : RowsOf(user) = {} /\ NewRow(r, user)
        /\ UNCHANGED <<event, entries, waitlist, serial>>

\* The row of the registration.  history: whom it is for, how it came about, and
\* whether their phone was given and in the player's row.
Entry(row, who, div, approved, how, known) ==
    [no |-> serial + 1, row |-> row, div |-> div, approved |-> approved, partner |-> 0,
     who |-> who, how |-> how, known |-> known]

HowItCame(c) == IF c.counted THEN "counted" ELSE "uncounted"

NeedsApproval(c) == c.gated /\ event.approval

Insert(r) ==
    LET c == Call(r)
    IN  /\ At(r, "insert")
        /\ IF Entered(c.row, c.div)
           THEN Return(r) /\ UNCHANGED <<entries, serial>>
           ELSE /\ entries' = entries \cup {Entry(c.row, c.who, c.div,
                                                  ~NeedsApproval(c), HowItCame(c),
                                                  NoPhone \notin {c.phone, players[c.row].phone})}
                /\ serial' = serial + 1
                /\ CASE c.from # 0      -> GoTo(r, "unlist") /\ lock' = Free
                     [] c.mate # Nobody -> GoTo(r, "partner") /\ UNCHANGED lock
                     [] OTHER           -> Return(r)
        /\ UNCHANGED <<event, players, waitlist, left>>

\* linkPartner.  A partner who is in the event is paired, and entered in the
\* division, to wait for approval as who brings them does; anybody else is
\* registered first, by a call of RegisterPlayer (which never returns).  When
\* the look-up in the division or the insertion fails, only one side is paired.
FindPartner(r) ==
    LET c == Call(r)
        found == Registrants(PhoneOf[c.mate])
        To(pc, row) == request' = [request EXCEPT ![r][1].at = pc, ![r][1].mate = row]
    IN  /\ At(r, "partner")
        /\ \/ /\ found = {}
              /\ request' = [request EXCEPT ![r] =
                    <<SignUp(c.mate, PhoneOf[c.mate], c.div, FALSE, TRUE, Nobody, Nobody, 0)>> \o @]
              /\ UNCHANGED <<entries, serial, left>>
           \/ \E row \in found :
                 /\ To("pair", row)
                 /\ IF Entered(row, c.div) THEN UNCHANGED <<entries, serial>>
                    ELSE /\ entries' = entries \cup {Entry(row, c.mate, c.div,
                                                           ~NeedsApproval(c), "partner", TRUE)}
                         /\ serial' = serial + 1
                 /\ UNCHANGED left
           \/ \E row \in found :
                 /\ To("pair alone", row)
                 /\ Spend("faults")
                 /\ UNCHANGED <<entries, serial>>
        /\ UNCHANGED <<event, players, waitlist, lock>>

\* The registration of a row in the division gets the other player; nothing is
\* said when that fails.
Partnered(div, row, other) ==
    \/ /\ entries' = {IF e.div = div /\ e.row = row THEN [e EXCEPT !.partner = other] ELSE e :
                         e \in entries}
       /\ UNCHANGED left
    \/ UNCHANGED entries /\ Spend("faults")

Pair(r) ==
    LET c == Call(r)
    IN  /\ At(r, "pair") \/ At(r, "pair alone")
        /\ Partnered(c.div, c.row, c.mate)
        /\ IF At(r, "pair") THEN GoTo(r, "pair back") /\ UNCHANGED lock ELSE Return(r)
        /\ UNCHANGED <<event, players, waitlist, serial>>

PairBack(r) ==
    LET c == Call(r)
    IN  /\ At(r, "pair back")
        /\ Partnered(c.div, c.mate, c.row)
        /\ Return(r)
        /\ UNCHANGED <<event, players, waitlist, serial>>

\* After a promotion; its error is ignored.
Unlist(r) ==
    /\ At(r, "unlist")
    /\ \/ waitlist' = {w \in waitlist : w.no # Call(r).from} /\ UNCHANGED left
       \/ Spend("faults") /\ UNCHANGED waitlist
    /\ Return(r)
    /\ UNCHANGED <<event, players, entries, serial>>

-----------------------------------------------------------------------------
(* Handlers that do not take the lock.                                     *)

JoinWaitlist(who, div, user) ==
    /\ user \in ({Nobody} \cup (Accounts \cap {who}))
    /\ Spend("waits")
    /\ \E phone \in {PhoneOf[who], NoPhone} :
          waitlist' = waitlist \cup {[no |-> serial + 1, who |-> who, phone |-> phone,
                                      div |-> div, user |-> user]}
    /\ serial' = serial + 1
    /\ UNCHANGED <<event, players, entries, lock, request>>

RemoveWaitlist(w) ==
    /\ Spend("removals")
    /\ waitlist' = waitlist \ {w}
    /\ UNCHANGED <<event, players, entries, serial, lock, request>>

\* DeleteRegistration, while the division has no draw.
DeleteRegistration(e) ==
    /\ Spend("removals")
    /\ entries' = entries \ {e}
    /\ UNCHANGED <<event, players, waitlist, serial, lock, request>>

\* ApproveRegistration reads the row; then it approves it, and the partner's
\* rows in every division.
ApproveRead(r, e) ==
    /\ ~Busy(r)
    /\ ~e.approved
    /\ request' = [request EXCEPT ![r] = <<[at |-> "approve", no |-> e.no, mate |-> e.partner]>>]
    /\ UNCHANGED <<event, players, entries, waitlist, serial, lock, left>>

Approve(which) ==
    entries' = {IF which[e.no] THEN [e EXCEPT !.approved = TRUE] ELSE e : e \in entries}

ApproveWrite(r) ==
    /\ At(r, "approve")
    /\ Approve([n \in 1..serial |-> n = Call(r).no])
    /\ IF Call(r).mate = 0 THEN Return(r) ELSE GoTo(r, "approve mate") /\ UNCHANGED lock
    /\ UNCHANGED <<event, players, waitlist, serial, left>>

ApproveMate(r) ==
    /\ At(r, "approve mate")
    /\ Approve([n \in 1..serial |-> \E e \in entries : e.no = n /\ e.row = Call(r).mate])
    /\ Return(r)
    /\ UNCHANGED <<event, players, waitlist, serial, left>>

\* A statement fails and the request returns its error; or the process stops,
\* and its requests and its locks are gone.
Fail(r) ==
    /\ Busy(r) /\ Call(r).at \notin {"lock", "unlist", "pair", "pair alone", "pair back"}
    /\ Spend("faults")
    /\ Return(r)
    /\ UNCHANGED <<event, players, entries, waitlist, serial>>

Restart ==
    /\ \E r \in Requests : Busy(r)
    /\ Spend("faults")
    /\ request' = [r \in Requests |-> <<>>]
    /\ lock' = Free
    /\ UNCHANGED <<event, players, entries, waitlist, serial>>

-----------------------------------------------------------------------------
Step(r) ==
    \/ Acquire(r) \/ CheckContact(r) \/ CheckCap(r) \/ FindRow(r) \/ Insert(r)
    \/ FindPartner(r) \/ Pair(r) \/ PairBack(r) \/ Unlist(r) \/ ApproveWrite(r) \/ ApproveMate(r)

Requested ==
    \/ \E r \in Requests, p \in People, d \in event.divisions :
          \/ \E self \in BOOLEAN, user, mate \in People \cup {Nobody} :
                Register(r, p, d, self, user, mate)
          \/ \E phone \in {PhoneOf[p], NoPhone} : Add(r, p, d, phone)
    \/ \E r \in Requests : \/ \E w \in waitlist : Promote(r, w)
                           \/ \E e \in entries : ApproveRead(r, e)
    \/ \E p \in People, d \in event.divisions, user \in People \cup {Nobody} :
          JoinWaitlist(p, d, user)
    \/ \E w \in waitlist : RemoveWaitlist(w)
    \/ \E e \in entries : DeleteRegistration(e)

Next ==
    \/ Requested
    \/ \E r \in Requests : Step(r) \/ Fail(r)
    \/ Restart

Spec == Init /\ [][Next]_base

-----------------------------------------------------------------------------
(* Properties.                                                             *)

\* Sign-ups racing for the last places do not exceed the event's cap: those who
\* were let in on the count are never more, whatever the organizer adds and
\* promotes beside them (RegisterPlayer's lock, service.go:5017).
CapHeld ==
    event.cap > 0 /\ ~event.approval =>
        Cardinality({e.row : e \in {x \in entries : x.how = "counted"}}) <= event.cap

\* Whoever signs up, is added and is promoted from the waitlist, twice, at once
\* or after a failed deletion of the waitlist row, is in a division once, and no
\* player's row is in it twice.  Only who is known by their phone: without one
\* nobody can be told apart.  A partner may be entered again who has a second
\* row, which takes an account or a failed look-up (linkPartner).
OneEntryEach ==
    \A d \in event.divisions : \A e, f \in In(d) :
        e # f => /\ e.row # f.row
                 /\ e.known /\ f.known /\ e.who = f.who
                       => /\ "partner" \in {e.how, f.how}
                          /\ e.who \in Accounts \/ left["faults"] < event.faults
=============================================================================
