-------------------------- MODULE RegistrationProofs --------------------------
(* Proofs about Registration with EntryFees: sign-ups let in on the count     *)
(* never exceed the cap, what was paid is in the books and settled, for       *)
(* every event, people, phones and requests in flight, and every budget; and  *)
(* nobody who is known by their phone is entered in a division twice, while   *)
(* nobody shares a phone.                                                     *)
EXTENDS EntryFees, FiniteSetTheorems, SequenceTheorems, TLAPS

USE RegistrationAssumption

-----------------------------------------------------------------------------
(* What calls and rows look like.                                           *)

\* The statements of a sign-up behind the event's lock.
Held == {"dup", "cap", "row", "insert", "partner", "pair", "pair alone", "pair back"}

IsSignUp(c) ==
    /\ {"at", "mate", "row", "counted"} \subseteq DOMAIN c
    /\ c.at \in Held \cup {"lock", "unlist"}
    /\ c.counted \in BOOLEAN
    /\ c.at \in {"lock", "dup"} => c.counted = FALSE

IsApproval(c) ==
    /\ "at" \in DOMAIN c
    /\ c.at \in {"approve", "approve mate"}

\* Only what settles a fee is ever reported by a provider.
IsFee(c) ==
    /\ {"at", "no", "provider", "settles", "hook"} \subseteq DOMAIN c
    /\ c.at \in {"look", "book", "status"}
    /\ c.settles \in BOOLEAN
    /\ c.hook \in BOOLEAN
    /\ c.hook = TRUE => c.settles = TRUE

IsCall(c) == IsSignUp(c) \/ IsApproval(c) \/ IsFee(c)

\* A request is one call, or the registration of a partner, waiting for the
\* lock, inside the sign-up that holds it.
Within(s, c, d) == s = <<c, d>> /\ IsSignUp(c) /\ c.at = "lock" /\ IsSignUp(d) /\ d.at = "partner"

IsRequest(s) ==
    \/ s = <<>>
    \/ \E c : s = <<c>> /\ IsCall(c)
    \/ \E c, d : Within(s, c, d)

\* Who is past the lock holds it.
HoldsLock(s) == Len(s) = 2 \/ (s # <<>> /\ Head(s).at \in Held)

RequestsOK ==
    /\ DOMAIN request = Requests /\ request = [r \in Requests |-> request[r]]
    /\ \A r \in Requests : IsRequest(request[r])
    /\ \A r \in Requests : HoldsLock(request[r]) => lock = r

IsEntry(e) == {"no", "row", "approved", "partner", "how"} \subseteq DOMAIN e

EntriesOK ==
    /\ serial \in Nat
    /\ IsFiniteSet(entries)
    /\ \A e \in entries : IsEntry(e) /\ e.no \in 1..serial

Shape == RequestsOK /\ EntriesOK

-----------------------------------------------------------------------------
(* Calls that go on, return and begin.                                      *)

LEMMA TwoCalls ==
  ASSUME NEW n, NEW c
  PROVE  <<n>> \o <<c>> = <<n, c>>
<1> DEFINE S == {n, c}
<1>1. <<n>> \in Seq(S) /\ <<c>> \in Seq(S) /\ <<n, c>> \in Seq(S)
  OBVIOUS
<1>2. Len(<<n>>) = 1 /\ Len(<<c>>) = 1 /\ Len(<<n, c>>) = 2
  OBVIOUS
<1>3. /\ <<n>> \o <<c>> \in Seq(S) /\ Len(<<n>> \o <<c>>) = 2
      /\ \A i \in 1..2 : (<<n>> \o <<c>>)[i] = IF i <= 1 THEN <<n>>[i] ELSE <<c>>[i - 1]
  BY <1>1, <1>2, ConcatProperties
<1>4. \A i \in 1..2 : (<<n>> \o <<c>>)[i] = <<n, c>>[i]
  BY <1>3
<1> HIDE DEF S
<1> QED
  BY <1>1, <1>2, <1>3, <1>4, SeqEqual

LEMMA TopCall ==
  ASSUME NEW s, IsRequest(s), s # <<>>
  PROVE  /\ IsCall(Head(s))
         /\ Head(s).at # "lock" => s = <<Head(s)>> /\ Tail(s) = <<>> /\ Len(s) = 1
<1>1. CASE \E c : s = <<c>> /\ IsCall(c)
  <2>1. PICK c : s = <<c>> /\ IsCall(c)
    BY <1>1
  <2>2. Head(s) = c /\ Tail(s) = <<>> /\ Len(s) = 1
    BY <2>1
  <2> QED
    BY <2>1, <2>2
<1>2. CASE \E c, d : Within(s, c, d)
  <2>1. PICK c, d : Within(s, c, d)
    BY <1>2
  <2>2. Head(s) = c
    BY <2>1 DEF Within
  <2> QED
    BY <2>1, <2>2 DEF Within, IsCall
<1> QED
  BY <1>1, <1>2 DEF IsRequest

\* A request that goes on with another call or statement.
LEMMA Onward ==
  ASSUME RequestsOK, NEW r \in Requests, NEW s, IsRequest(s),
         request' = [request EXCEPT ![r] = s],
         lock' = lock \/ lock' = r \/ (lock' = Free /\ (lock = r \/ lock = Free)),
         lock' = r => lock \in {r, Free},
         HoldsLock(s) => lock' = r
  PROVE  RequestsOK'
<1>1. /\ DOMAIN request = Requests /\ request = [o \in Requests |-> request[o]]
      /\ \A o \in Requests : IsRequest(request[o])
      /\ \A o \in Requests : HoldsLock(request[o]) => lock = o
  BY DEF RequestsOK
<1>2. /\ request' = [o \in Requests |-> request'[o]] /\ DOMAIN request' = Requests
      /\ \A o \in Requests : request'[o] = IF o = r THEN s ELSE request[o]
  BY <1>1
<1>3. \A o \in Requests : IsRequest(request'[o])
  BY <1>1, <1>2
<1>4. ASSUME NEW o \in Requests, HoldsLock(request'[o]) PROVE lock' = o
  <2>1. CASE o = r
    BY <2>1, <1>2, <1>4
  <2>2. CASE o # r
    BY <2>2, <1>1, <1>2, <1>4
  <2> QED
    BY <2>1, <2>2
<1> QED
  BY <1>2, <1>3, <1>4 DEF RequestsOK

LEMMA Returned ==
  ASSUME RequestsOK, NEW r \in Requests, Busy(r), Call(r).at # "lock", Return(r)
  PROVE  RequestsOK' /\ request' = [request EXCEPT ![r] = <<>>]
<1>1. Tail(request[r]) = <<>> /\ request' = [request EXCEPT ![r] = <<>>]
  BY TopCall DEF RequestsOK, Busy, Call, Return
<1>2. IsRequest(<<>>) /\ ~HoldsLock(<<>>)
  BY DEF IsRequest, HoldsLock
<1> QED
  BY <1>1, <1>2, Onward DEF Return

LEMMA WentOn ==
  ASSUME RequestsOK, NEW r \in Requests, Busy(r), Call(r).at # "lock",
         NEW c, IsCall(c), request' = [request EXCEPT ![r] = <<c>>],
         lock' = lock \/ (lock' = Free /\ lock = r),
         c.at \in Held => Call(r).at \in Held /\ lock' = lock
  PROVE  RequestsOK'
<1>1. request[r] = <<Call(r)>> /\ (HoldsLock(request[r]) => lock = r)
  BY TopCall DEF RequestsOK, Busy, Call
<1>2. IsRequest(<<c>>)
  BY DEF IsRequest
<1>3. HoldsLock(<<c>>) => lock' = r
  BY <1>1 DEF HoldsLock
<1> QED
  BY <1>2, <1>3, Onward

LEMMA Began ==
  ASSUME RequestsOK, NEW r \in Requests, ~Busy(r), NEW c, IsCall(c), c.at \notin Held,
         request' = [request EXCEPT ![r] = <<c>>], lock' = lock
  PROVE  RequestsOK'
<1>1. IsRequest(<<c>>) /\ ~HoldsLock(<<c>>)
  BY DEF IsRequest, HoldsLock
<1> QED
  BY <1>1, Onward

LEMMA Moved ==
  ASSUME RequestsOK, NEW r \in Requests, Busy(r), Call(r).at # "lock", NEW pc, GoTo(r, pc)
  PROVE  request' = [request EXCEPT ![r] = <<[Call(r) EXCEPT !.at = pc]>>]
<1>1. request[r] = <<Call(r)>>
  BY TopCall DEF RequestsOK, Busy, Call
<1>2. [request[r] EXCEPT ![1].at = pc] = <<[Call(r) EXCEPT !.at = pc]>>
  BY <1>1
<1> QED
  BY <1>2 DEF GoTo

LEMMA NextStatement ==
  ASSUME NEW c, IsSignUp(c), NEW pc \in (Held \ {"dup"}) \cup {"unlist"}
  PROVE  /\ IsSignUp([c EXCEPT !.at = pc])
         /\ [c EXCEPT !.at = pc].at = pc /\ [c EXCEPT !.at = pc].counted = c.counted
  BY DEF IsSignUp, Held

\* Which statement a call is at says what kind of call it is.
LEMMA KindOfCall ==
  ASSUME NEW c, IsCall(c)
  PROVE  /\ c.at \in Held \cup {"lock", "unlist"} => IsSignUp(c)
         /\ c.at \in {"approve", "approve mate"} => IsApproval(c)
         /\ c.at \in {"look", "book", "status"} => IsFee(c)
  BY DEF IsCall, IsSignUp, IsApproval, IsFee, Held

-----------------------------------------------------------------------------
(* The cap.                                                                 *)

CountedRows == {e.row : e \in {x \in entries : x.how = "counted"}}
Capped == event.cap > 0 /\ ~event.approval

\* A sign-up that was let in on the count and has no registration yet.
Pending(s) == \E c : s = <<c>> /\ c.at \in {"row", "insert"} /\ c.counted = TRUE

CapOK ==
    /\ event \in Occasions
    /\ Capped => \A e \in entries : e.approved = TRUE
    /\ Capped => Cardinality(CountedRows) <= event.cap
    /\ Capped => \A r \in Requests : Pending(request[r]) => Cardinality(CountedRows) < event.cap

LEMMA CountedRowsFinite ==
  ASSUME NEW E, IsFiniteSet(E), NEW P
  PROVE  /\ IsFiniteSet({e.row : e \in {x \in E : x.how = P}})
         /\ Cardinality({e.row : e \in {x \in E : x.how = P}}) \in Nat
<1> DEFINE T == {x \in E : x.how = P}
           R == {e.row : e \in T}
           f == [x \in T |-> x.row]
<1>1. IsFiniteSet(T)
  BY FS_Subset
<1>2. f \in Surjection(T, R)
  BY DEF Surjection
<1>3. IsFiniteSet(R)
  BY <1>1, <1>2, FS_Surjection
<1> QED
  BY <1>3, FS_CardinalityType

LEMMA FewerRows ==
  ASSUME EntriesOK, EntriesOK', CountedRows' \subseteq CountedRows
  PROVE  /\ Cardinality(CountedRows) \in Nat
         /\ Cardinality(CountedRows') \in Nat
         /\ Cardinality(CountedRows') <= Cardinality(CountedRows)
<1>1. IsFiniteSet(CountedRows) /\ Cardinality(CountedRows) \in Nat
  BY CountedRowsFinite DEF EntriesOK, CountedRows
<1>2. IsFiniteSet(CountedRows') /\ Cardinality(CountedRows') \in Nat
  BY CountedRowsFinite DEF EntriesOK, CountedRows
<1> QED
  BY <1>1, <1>2, FS_Subset

-----------------------------------------------------------------------------
(* What every step of Registration keeps, and what the fees see of it.      *)

RegistrationInv == Shape /\ CapOK

\* Numbers are not given out twice, and no fee is in question that was not.
Registers ==
    /\ serial' >= serial
    /\ \A e \in entries' : Exists(e.no) \/ e.no > serial
    /\ \A r \in Requests : \A c : request'[r] = <<c>> /\ IsFee(c) => request[r] = <<c>>

\* Registrations that are not let in on the count leave the cap alone.
LEMMA CapKept ==
  ASSUME RegistrationInv, EntriesOK', event' = event,
         CountedRows' \subseteq CountedRows,
         Capped => \A e \in entries' : e.approved = TRUE,
         \A r \in Requests : Pending(request'[r]) => Pending(request[r])
  PROVE  CapOK'
<1>1. event \in Occasions /\ event.cap \in Nat
  BY DEF RegistrationInv, CapOK
<1>2. /\ Cardinality(CountedRows) \in Nat /\ Cardinality(CountedRows') \in Nat
      /\ Cardinality(CountedRows') <= Cardinality(CountedRows)
  BY FewerRows DEF RegistrationInv, Shape
<1>3. Capped' <=> Capped
  BY DEF Capped
<1>4. Capped => Cardinality(CountedRows') <= event.cap
  BY <1>1, <1>2 DEF RegistrationInv, CapOK
<1>5. ASSUME Capped, NEW r \in Requests, Pending(request'[r])
      PROVE  Cardinality(CountedRows') < event.cap
  BY <1>1, <1>2, <1>5 DEF RegistrationInv, CapOK
<1>6. \A r \in Requests : Pending(request[r])' <=> Pending(request'[r])
  BY DEF Pending
<1> QED
  BY <1>1, <1>3, <1>4, <1>5, <1>6 DEF CapOK

\* A statement that changes its request only.
LEMMA OneRequest ==
  ASSUME RegistrationInv, NEW r \in Requests, NEW s, RequestsOK',
         request' = [request EXCEPT ![r] = s],
         UNCHANGED <<event, entries, serial>>,
         Pending(s) => Pending(request[r]),
         \A c : s = <<c>> => ~IsFee(c)
  PROVE  RegistrationInv' /\ Registers
<1>1. EntriesOK' /\ EntriesOK /\ CountedRows' = CountedRows
  BY DEF RegistrationInv, Shape, EntriesOK, CountedRows
<1>2. \A o \in Requests : request'[o] = IF o = r THEN s ELSE request[o]
  BY DEF RegistrationInv, Shape, RequestsOK
<1>3. \A o \in Requests : Pending(request'[o]) => Pending(request[o])
  BY <1>2
<1>4. Capped => \A e \in entries' : e.approved = TRUE
  BY DEF RegistrationInv, CapOK
<1>5. CapOK'
  BY <1>1, <1>3, <1>4, CapKept
<1>6. Registers
  BY <1>1, <1>2 DEF Registers, EntriesOK, Exists
<1> QED
  BY <1>1, <1>5, <1>6 DEF RegistrationInv, Shape

\* A call that returns.
LEMMA ReturnKeeps ==
  ASSUME RegistrationInv, NEW r \in Requests, Busy(r), Call(r).at # "lock", Return(r),
         UNCHANGED <<event, entries, serial>>
  PROVE  RegistrationInv' /\ Registers
<1>1. RequestsOK' /\ request' = [request EXCEPT ![r] = <<>>]
  BY Returned DEF RegistrationInv, Shape
<1>2. ~Pending(<<>>) /\ \A c : <<>> # <<c>>
  BY DEF Pending
<1> QED
  BY <1>1, <1>2, OneRequest

\* A sign-up that goes on.
LEMMA SignUpGoesOn ==
  ASSUME RegistrationInv, NEW r \in Requests, Busy(r), Call(r).at \in Held,
         NEW c, IsSignUp(c), c.at # "lock",
         request' = [request EXCEPT ![r] = <<c>>],
         lock' = lock \/ (lock' = Free /\ c.at = "unlist"),
         UNCHANGED <<event, entries, serial>>,
         Pending(<<c>>) => Pending(request[r])
  PROVE  RegistrationInv' /\ Registers
<1>1. IsCall(c) /\ RequestsOK /\ lock = r
  BY TopCall DEF RegistrationInv, Shape, RequestsOK, IsCall, HoldsLock, Busy, Call
<1>2. RequestsOK'
  BY <1>1, WentOn DEF IsSignUp, Held
<1>3. \A d : <<c>> = <<d>> => ~IsFee(d)
  BY DEF IsSignUp, IsFee, Held
<1> QED
  BY <1>2, <1>3, OneRequest

-----------------------------------------------------------------------------
(* Step by step.                                                            *)

LEMMA CallBegins ==
  ASSUME RegistrationInv, NEW r \in Requests, ~Busy(r), NEW c, IsSignUp(c) \/ IsApproval(c),
         c.at \notin Held, request' = [request EXCEPT ![r] = <<c>>],
         UNCHANGED <<event, entries, serial, lock>>
  PROVE  RegistrationInv' /\ Registers
<1>1. RequestsOK'
  BY Began DEF RegistrationInv, Shape, IsCall
<1>2. \A d : <<c>> = <<d>> => ~IsFee(d)
  BY DEF IsSignUp, IsApproval, IsFee, Held
<1>3. ~Pending(<<c>>)
  BY DEF Pending, Held
<1> QED
  BY <1>1, <1>2, <1>3, OneRequest

LEMMA SignUpBegins ==
  ASSUME NEW who, NEW phone, NEW div, NEW capped, NEW trusted, NEW user, NEW mate, NEW from
  PROVE  /\ IsSignUp(SignUp(who, phone, div, capped, trusted, user, mate, from))
         /\ SignUp(who, phone, div, capped, trusted, user, mate, from).at = "lock"
  BY DEF SignUp, IsSignUp

LEMMA BeginningsKeep ==
  ASSUME RegistrationInv, NEW r \in Requests,
         \/ \E who, div, self, user, mate : Register(r, who, div, self, user, mate)
         \/ \E who, div, phone : Add(r, who, div, phone)
         \/ \E w : Promote(r, w)
         \/ \E e : ApproveRead(r, e)
  PROVE  RegistrationInv' /\ Registers
<1>1. CASE \E who, phone, div, capped, trusted, user, mate, from :
              request' = [request EXCEPT ![r] =
                             <<SignUp(who, phone, div, capped, trusted, user, mate, from)>>]
  <2>1. PICK who, phone, div, capped, trusted, user, mate, from :
              request' = [request EXCEPT ![r] =
                             <<SignUp(who, phone, div, capped, trusted, user, mate, from)>>]
    BY <1>1
  <2>2. ~Busy(r) /\ UNCHANGED <<event, entries, serial, lock>>
    BY DEF Register, Add, Promote, ApproveRead
  <2> QED
    BY <2>1, <2>2, SignUpBegins, CallBegins DEF Held
<1>2. CASE \E e : ApproveRead(r, e)
  <2>1. PICK e : ApproveRead(r, e)
    BY <1>2
  <2> DEFINE c == [at |-> "approve", no |-> e.no, mate |-> e.partner]
  <2>2. IsApproval(c) /\ c.at \notin Held
    BY DEF IsApproval, Held
  <2>3. ~Busy(r) /\ request' = [request EXCEPT ![r] = <<c>>]
        /\ UNCHANGED <<event, entries, serial, lock>>
    BY <2>1 DEF ApproveRead
  <2> HIDE DEF c
  <2> QED
    BY <2>2, <2>3, CallBegins
<1>3. ASSUME NEW who, NEW div, NEW self, NEW user, NEW mate,
             Register(r, who, div, self, user, mate)
      PROVE  RegistrationInv' /\ Registers
  BY <1>1, <1>3 DEF Register
<1>4. ASSUME NEW who, NEW div, NEW phone, Add(r, who, div, phone)
      PROVE  RegistrationInv' /\ Registers
  BY <1>1, <1>4 DEF Add
<1>5. ASSUME NEW w, Promote(r, w)
      PROVE  RegistrationInv' /\ Registers
  BY <1>1, <1>5 DEF Promote
<1> QED
  BY <1>2, <1>3, <1>4, <1>5

LEMMA AcquireKeeps ==
  ASSUME RegistrationInv, NEW r \in Requests, Acquire(r)
  PROVE  RegistrationInv' /\ Registers
<1>1. RequestsOK /\ IsRequest(request[r]) /\ request[r] # <<>> /\ lock = Free /\ lock' = r
      /\ UNCHANGED <<event, entries, serial>>
  BY DEF RegistrationInv, Shape, RequestsOK, Acquire, At, Busy
<1>2. ~\E c, d : Within(request[r], c, d)
  BY <1>1 DEF Within, RequestsOK, HoldsLock
<1>3. PICK c : request[r] = <<c>> /\ IsCall(c)
  BY <1>1, <1>2 DEF IsRequest
<1>4. c.at = "lock" /\ IsSignUp(c)
  <2>1. Head(request[r]) = c
    BY <1>3
  <2> QED
    BY <1>3, <2>1, KindOfCall DEF Acquire, At, Call
<1> DEFINE d == [c EXCEPT !.at = "dup"]
<1>5. IsSignUp(d) /\ d.at = "dup" /\ d.counted = FALSE
  BY <1>4 DEF IsSignUp, Held
<1>6. request' = [request EXCEPT ![r] = <<d>>]
  <2>1. [request[r] EXCEPT ![1].at = "dup"] = <<d>>
    BY <1>3
  <2> QED
    BY <2>1 DEF Acquire, GoTo
<1> HIDE DEF d
<1>7. IsRequest(<<d>>)
  BY <1>5 DEF IsRequest, IsCall
<1>8. RequestsOK'
  BY <1>1, <1>6, <1>7, Onward
<1>9. ~Pending(<<d>>) /\ \A x : <<d>> = <<x>> => ~IsFee(x)
  BY <1>5 DEF Pending, IsFee
<1> QED
  BY <1>1, <1>6, <1>8, <1>9, OneRequest

\* A sign-up past the lock.
LEMMA InHand ==
  ASSUME RegistrationInv, NEW r \in Requests, NEW pc \in Held, At(r, pc)
  PROVE  /\ Busy(r) /\ Call(r).at = pc /\ IsSignUp(Call(r)) /\ lock = r
         /\ request[r] = <<Call(r)>>
<1>1. IsRequest(request[r]) /\ (HoldsLock(request[r]) => lock = r)
  BY DEF RegistrationInv, Shape, RequestsOK
<1> QED
  BY <1>1, TopCall, KindOfCall DEF At, Busy, Call, HoldsLock, Held

\* Fields of the only call of a request.
LEMMA OnlyCallsField ==
  ASSUME NEW c, NEW x
  PROVE  /\ [<<c>> EXCEPT ![1].at = x] = <<[c EXCEPT !.at = x]>>
         /\ [<<c>> EXCEPT ![1].mate = x] = <<[c EXCEPT !.mate = x]>>
  OBVIOUS

LEMMA CheckContactKeeps ==
  ASSUME RegistrationInv, NEW r \in Requests, CheckContact(r)
  PROVE  RegistrationInv' /\ Registers
<1>1. /\ Busy(r) /\ Call(r).at = "dup" /\ IsSignUp(Call(r))
      /\ request[r] = <<Call(r)>> /\ UNCHANGED <<event, entries, serial>>
  BY InHand DEF CheckContact, Held
<1>2. CASE Return(r)
  BY <1>1, <1>2, ReturnKeeps
<1>3. ASSUME NEW pc \in {"cap", "row"}, NEW gated, UNCHANGED lock,
             request' = [request EXCEPT ![r][1].gated = gated, ![r][1].at = pc]
      PROVE  RegistrationInv' /\ Registers
  <2> DEFINE d == [Call(r) EXCEPT !.gated = gated, !.at = pc]
  <2>1. IsSignUp(d) /\ d.at = pc /\ d.counted = FALSE
    BY <1>1 DEF Held, IsSignUp
  <2>2. request' = [request EXCEPT ![r] = <<d>>]
    <3>1. PICK x, y : x = Call(r) /\ y = [x EXCEPT !.gated = gated]
      OBVIOUS
    <3>2. RequestsOK /\ request[r] = <<x>>
      BY <1>1, <3>1 DEF RegistrationInv, Shape
    <3>3. [request[r] EXCEPT ![1].gated = gated] = <<y>>
      BY <3>1, <3>2
    <3>4. [<<y>> EXCEPT ![1].at = pc] = <<[y EXCEPT !.at = pc]>>
      OBVIOUS
    <3>5. [request EXCEPT ![r][1].gated = gated, ![r][1].at = pc]
             = [request EXCEPT ![r] = [[request[r] EXCEPT ![1].gated = gated] EXCEPT ![1].at = pc]]
      BY <3>2 DEF RequestsOK
    <3> QED
      BY <1>3, <3>1, <3>3, <3>4, <3>5
  <2> HIDE DEF d
  <2>3. ~Pending(<<d>>)
    BY <2>1 DEF Pending
  <2> QED
    BY <1>1, <1>3, <2>1, <2>2, <2>3, SignUpGoesOn DEF Held
<1> DEFINE pc == IF Call(r).capped THEN "cap" ELSE "row"
<1>4. ASSUME NEW gated, UNCHANGED lock,
             request' = [request EXCEPT ![r][1].gated = gated, ![r][1].at = pc]
      PROVE  RegistrationInv' /\ Registers
  <2>1. pc \in {"cap", "row"}
    OBVIOUS
  <2> HIDE DEF pc
  <2> QED
    BY <1>3, <1>4, <2>1
<1> QED
  BY <1>2, <1>4 DEF CheckContact

LEMMA CheckCapKeeps ==
  ASSUME RegistrationInv, NEW r \in Requests, CheckCap(r)
  PROVE  RegistrationInv' /\ Registers
<1>1. /\ Busy(r) /\ Call(r).at = "cap" /\ IsSignUp(Call(r)) /\ lock = r
      /\ request[r] = <<Call(r)>> /\ UNCHANGED <<event, entries, serial>>
  BY InHand DEF CheckCap, Held
<1> DEFINE d(counted) == [Call(r) EXCEPT !.at = "row", !.counted = counted]
           Goes(counted) == /\ request' = [request EXCEPT ![r][1].at = "row", ![r][1].counted = counted]
                            /\ UNCHANGED lock
<1>2. ASSUME NEW counted \in BOOLEAN, Goes(counted)
      PROVE  /\ IsSignUp(d(counted)) /\ d(counted).at = "row" /\ d(counted).counted = counted
             /\ request' = [request EXCEPT ![r] = <<d(counted)>>] /\ lock' = lock
  <2>1. IsSignUp(d(counted)) /\ d(counted).at = "row" /\ d(counted).counted = counted
    BY <1>1 DEF IsSignUp, Held
  <2>2. request' = [request EXCEPT ![r] = <<d(counted)>>]
    <3> DEFINE c == [Call(r) EXCEPT !.at = "row"]
    <3>1. request[r] = <<Call(r)>> /\ [request[r] EXCEPT ![1].at = "row"] = <<c>>
      BY <1>1
    <3>2. [<<c>> EXCEPT ![1].counted = counted] = <<[c EXCEPT !.counted = counted]>>
      OBVIOUS
    <3>3. [request EXCEPT ![r][1].at = "row", ![r][1].counted = counted]
             = [request EXCEPT ![r] = [request[r] EXCEPT ![1].at = "row", ![1].counted = counted]]
      BY DEF RegistrationInv, Shape, RequestsOK
    <3> QED
      BY <1>2, <3>1, <3>2, <3>3
  <2> QED
    BY <1>2, <2>1, <2>2
<1>3. CASE Return(r)
  BY <1>1, <1>3, ReturnKeeps
<1>4. CASE Goes(FALSE)
  <2>1. /\ IsSignUp(d(FALSE)) /\ d(FALSE).at = "row" /\ d(FALSE).counted = FALSE
        /\ request' = [request EXCEPT ![r] = <<d(FALSE)>>] /\ lock' = lock
    BY <1>2, <1>4
  <2> HIDE DEF d
  <2>2. ~Pending(<<d(FALSE)>>)
    BY <2>1 DEF Pending
  <2> QED
    BY <1>1, <2>1, <2>2, SignUpGoesOn DEF Held
<1>5. CASE Goes(TRUE) /\ ~(Cardinality(Counted) >= event.cap)
  <2>1. /\ IsSignUp(d(TRUE)) /\ d(TRUE).at = "row"
        /\ request' = [request EXCEPT ![r] = <<d(TRUE)>>] /\ lock' = lock
    BY <1>2, <1>5
  <2> HIDE DEF d
  <2>2. IsCall(d(TRUE)) /\ RequestsOK /\ EntriesOK /\ EntriesOK' /\ CountedRows' = CountedRows
    BY <1>1, <2>1 DEF RegistrationInv, Shape, EntriesOK, CountedRows, IsCall
  <2>3. RequestsOK'
    BY <1>1, <2>1, <2>2, WentOn DEF Held
  <2>4. Capped => Cardinality(CountedRows) < event.cap
    <3>1. SUFFICES ASSUME Capped PROVE Cardinality(CountedRows) < event.cap
      OBVIOUS
    <3>2. CountedRows \subseteq Counted
      BY <3>1 DEF RegistrationInv, CapOK, CountedRows, Counted
    <3>3. IsFiniteSet(Counted) /\ Cardinality(Counted) \in Nat
      <4> DEFINE T == {x \in entries : x.approved}
                 f == [x \in T |-> x.row]
      <4>1. IsFiniteSet(T)
        BY <2>2, FS_Subset DEF EntriesOK
      <4>2. f \in Surjection(T, Counted)
        BY DEF Surjection, Counted
      <4> QED
        BY <4>1, <4>2, FS_Surjection, FS_CardinalityType
    <3>4. Cardinality(CountedRows) \in Nat /\ Cardinality(CountedRows) <= Cardinality(Counted)
      BY <3>2, <3>3, FS_Subset, FS_CardinalityType
    <3>5. event.cap \in Nat
      BY DEF RegistrationInv, CapOK
    <3> QED
      BY <1>5, <3>3, <3>4, <3>5
  <2>5. CapOK'
    <3>1. Capped' <=> Capped
      BY <1>1 DEF Capped
    <3> QED
      BY <1>1, <2>2, <2>4, <3>1 DEF RegistrationInv, CapOK
  <2>6. \A c : <<d(TRUE)>> = <<c>> => ~IsFee(c)
    BY <2>1 DEF IsFee
  <2>7. \A o \in Requests : request'[o] = IF o = r THEN <<d(TRUE)>> ELSE request[o]
    BY <2>1, <2>2 DEF RequestsOK
  <2>8. Registers
    <3>1. entries' = entries /\ serial' = serial /\ serial \in Nat
      BY <1>1, <2>2 DEF EntriesOK
    <3>2. \A o \in Requests : \A c : request'[o] = <<c>> /\ IsFee(c) => request[o] = <<c>>
      BY <2>6, <2>7
    <3> QED
      BY <3>1, <3>2 DEF Registers, Exists
  <2> QED
    BY <2>2, <2>3, <2>5, <2>8 DEF RegistrationInv, Shape
<1> QED
  BY <1>3, <1>4, <1>5 DEF CheckCap

LEMMA FindRowKeeps ==
  ASSUME RegistrationInv, NEW r \in Requests, FindRow(r)
  PROVE  RegistrationInv' /\ Registers
<1>1. /\ Busy(r) /\ Call(r).at = "row" /\ IsSignUp(Call(r)) /\ lock = r
      /\ request[r] = <<Call(r)>> /\ UNCHANGED <<event, entries, serial>>
  BY InHand DEF FindRow, Held
<1>2. CASE Return(r)
  BY <1>1, <1>2, ReturnKeeps
<1>3. ASSUME NEW row, UNCHANGED lock,
             request' = [request EXCEPT ![r][1].at = "insert", ![r][1].row = row]
      PROVE  RegistrationInv' /\ Registers
  <2> DEFINE d == [Call(r) EXCEPT !.at = "insert", !.row = row]
  <2>1. IsSignUp(d) /\ d.at = "insert" /\ d.counted = Call(r).counted
    BY <1>1 DEF IsSignUp, Held
  <2>2. request' = [request EXCEPT ![r] = <<d>>]
    <3> DEFINE c == [Call(r) EXCEPT !.at = "insert"]
    <3>1. request[r] = <<Call(r)>> /\ [request[r] EXCEPT ![1].at = "insert"] = <<c>>
      BY <1>1
    <3>2. [<<c>> EXCEPT ![1].row = row] = <<[c EXCEPT !.row = row]>>
      OBVIOUS
    <3>3. [request EXCEPT ![r][1].at = "insert", ![r][1].row = row]
             = [request EXCEPT ![r] = [request[r] EXCEPT ![1].at = "insert", ![1].row = row]]
      BY DEF RegistrationInv, Shape, RequestsOK
    <3> QED
      BY <1>3, <3>1, <3>2, <3>3
  <2> HIDE DEF d
  <2>3. Pending(<<d>>) => Pending(request[r])
    BY <1>1, <2>1 DEF Pending
  <2> QED
    BY <1>1, <1>3, <2>1, <2>2, <2>3, SignUpGoesOn DEF Held
<1>4. ASSUME NEW row, Found(r, row) PROVE RegistrationInv' /\ Registers
  BY <1>3, <1>4 DEF Found
<1> QED
  BY <1>2, <1>4 DEF FindRow, UseOrMake, UseRow, NewRow
\* A request that is at no statement of the fees and not let in on the count.
Aside(s) == ~Pending(s) /\ \A c : s = <<c>> => ~IsFee(c)

\* A statement that changes registrations, of which none is let in on the count.
LEMMA RowsChange ==
  ASSUME RegistrationInv, RequestsOK', EntriesOK', event' = event, serial' >= serial,
         \A o \in Requests : request'[o] = request[o] \/ Aside(request'[o]),
         \A e \in entries' : Exists(e.no) \/ e.no > serial,
         CountedRows' \subseteq CountedRows,
         Capped => \A e \in entries' : e.approved = TRUE
  PROVE  RegistrationInv' /\ Registers
<1>1. \A o \in Requests : Pending(request'[o]) => Pending(request[o])
  BY DEF Aside
<1>2. CapOK'
  BY <1>1, CapKept
<1>3. Registers
  BY DEF Registers, Aside
<1> QED
  BY <1>2, <1>3 DEF RegistrationInv, Shape

LEMMA AsideOK ==
  /\ Aside(<<>>)
  /\ \A c : c.at \notin {"row", "insert", "look", "book", "status"} => Aside(<<c>>)
  BY DEF Aside, Pending, IsFee

LEMMA NewEntry ==
  ASSUME EntriesOK, NEW row, NEW who, NEW div, NEW approved, NEW how, NEW known,
         entries' = entries \cup {Entry(row, who, div, approved, how, known)}, serial' = serial + 1
  PROVE  /\ EntriesOK' /\ serial' >= serial
         /\ \A e \in entries' : Exists(e.no) \/ e.no > serial
         /\ CountedRows' = CountedRows \cup (IF how = "counted" THEN {row} ELSE {})
         /\ \A e \in entries' : e \in entries \/ e.approved = approved
<1> DEFINE n == Entry(row, who, div, approved, how, known)
<1>1. /\ IsEntry(n) /\ n.no = serial + 1 /\ n.row = row /\ n.how = how /\ n.approved = approved
  BY DEF IsEntry, Entry
<1> HIDE DEF n
<1>2. entries' = entries \cup {n}
  BY DEF n
<1>3. IsFiniteSet(entries')
  BY <1>2, FS_AddElement DEF EntriesOK
<1>4. serial \in Nat /\ 1..serial \subseteq 1..serial'
  BY DEF EntriesOK
<1>5. EntriesOK'
  BY <1>1, <1>2, <1>3, <1>4 DEF EntriesOK
<1>6. CountedRows' = CountedRows \cup (IF how = "counted" THEN {row} ELSE {})
  BY <1>1, <1>2 DEF CountedRows
<1>7. \A e \in entries' : Exists(e.no) \/ e.no > serial
  BY <1>1, <1>2, <1>4 DEF Exists
<1> QED
  BY <1>1, <1>2, <1>4, <1>5, <1>6, <1>7

\* The registration is written: on to the waitlist, the partner or the answer.
LEMMA AfterInsert ==
  ASSUME RegistrationInv, NEW r \in Requests, Insert(r), ~Entered(Call(r).row, Call(r).div)
  PROVE  RequestsOK' /\ \E s : Aside(s) /\ request' = [request EXCEPT ![r] = s]
<1> DEFINE c == Call(r)
<1>1. /\ Busy(r) /\ c.at = "insert" /\ IsSignUp(c) /\ lock = r /\ RequestsOK
  BY InHand DEF Insert, Held, RegistrationInv, Shape
<1>2. CASE Return(r)
  BY <1>1, <1>2, Returned, AsideOK
<1>3. ASSUME NEW pc \in {"unlist", "partner"}, GoTo(r, pc),
             lock' = lock \/ (lock' = Free /\ pc = "unlist")
      PROVE  RequestsOK' /\ \E s : Aside(s) /\ request' = [request EXCEPT ![r] = s]
  <2> DEFINE d == [c EXCEPT !.at = pc]
  <2>1. IsSignUp(d) /\ d.at = pc
    BY <1>1, NextStatement DEF Held
  <2>2. request' = [request EXCEPT ![r] = <<d>>]
    BY <1>1, <1>3, Moved
  <2> HIDE DEF c, d
  <2>3. IsCall(d) /\ Aside(<<d>>)
    BY <2>1, AsideOK DEF IsCall
  <2>4. Call(r) = c
    BY DEF c
  <2>5. RequestsOK'
    BY <1>1, <1>3, <2>1, <2>2, <2>3, <2>4, WentOn DEF Held
  <2> QED
    BY <2>2, <2>3, <2>5
<1> QED
  BY <1>2, <1>3 DEF Insert
LEMMA InsertKeeps ==
  ASSUME RegistrationInv, NEW r \in Requests, Insert(r)
  PROVE  RegistrationInv' /\ Registers
<1> DEFINE c == Call(r)
           approved == ~NeedsApproval(c)
           known == NoPhone \notin {c.phone, players[c.row].phone}
<1>1. /\ Busy(r) /\ c.at = "insert" /\ IsSignUp(c) /\ lock = r /\ request[r] = <<c>>
      /\ event' = event
  BY InHand DEF Insert, Held
<1>2. CASE Entered(c.row, c.div)
  BY <1>1, <1>2, ReturnKeeps DEF Insert
<1>3. CASE ~Entered(c.row, c.div)
  <2>1. /\ entries' = entries \cup {Entry(c.row, c.who, c.div, approved, HowItCame(c), known)}
        /\ serial' = serial + 1
    BY <1>3 DEF Insert
  <2>2. /\ EntriesOK' /\ serial' >= serial
        /\ \A e \in entries' : Exists(e.no) \/ e.no > serial
        /\ CountedRows' = CountedRows \cup (IF HowItCame(c) = "counted" THEN {c.row} ELSE {})
        /\ \A e \in entries' : e \in entries \/ e.approved = approved
    BY <2>1, NewEntry DEF RegistrationInv, Shape
  <2>3. RequestsOK' /\ RequestsOK
    BY <1>3, AfterInsert DEF RegistrationInv, Shape
  <2>4. PICK s : Aside(s) /\ request' = [request EXCEPT ![r] = s]
    BY <1>3, AfterInsert
  <2>5. \A o \in Requests : request'[o] = IF o = r THEN s ELSE request[o]
    BY <2>3, <2>4 DEF RequestsOK
  <2>6. ASSUME Capped PROVE \A e \in entries' : e.approved = TRUE
    <3>1. approved = TRUE
      BY <2>6 DEF Capped, NeedsApproval
    <3> QED
      BY <2>2, <2>6, <3>1 DEF RegistrationInv, CapOK
  <2>7. CASE c.counted = FALSE
    <3>1. HowItCame(c) # "counted"
      BY <2>7 DEF HowItCame
    <3> QED
      BY <1>1, <2>2, <2>3, <2>4, <2>5, <2>6, <3>1, RowsChange
  <2>8. CASE c.counted = TRUE
    <3>1. Pending(request[r])
      BY <1>1, <2>8 DEF Pending
    <3>2. IsFiniteSet(CountedRows) /\ Cardinality(CountedRows) \in Nat
      BY CountedRowsFinite DEF RegistrationInv, Shape, EntriesOK, CountedRows
    <3>3. CountedRows' = CountedRows \cup {c.row}
      BY <2>2, <2>8 DEF HowItCame
    <3>4. Cardinality(CountedRows') <= Cardinality(CountedRows) + 1 /\ Cardinality(CountedRows') \in Nat
      <4>1. Cardinality(CountedRows \cup {c.row}) \in {Cardinality(CountedRows), Cardinality(CountedRows) + 1}
        BY <3>2, FS_AddElement
      <4>2. Cardinality(CountedRows') = Cardinality(CountedRows \cup {c.row})
        BY <3>3
      <4> QED
        BY <3>2, <4>1, <4>2
    <3>5. Capped => Cardinality(CountedRows') <= event.cap
      BY <3>1, <3>2, <3>4 DEF RegistrationInv, CapOK
    <3>6. ASSUME NEW o \in Requests PROVE ~Pending(request'[o])
      <4>1. CASE o = r
        BY <4>1, <2>4, <2>5 DEF Aside
      <4>2. CASE o # r
        <5>1. ~HoldsLock(request[o])
          BY <1>1, <2>3, <4>2 DEF RequestsOK
        <5>2. ASSUME NEW x, request[o] = <<x>> PROVE x.at \notin {"row", "insert"}
          <6>1. request[o] # <<>> /\ Head(request[o]) = x
            BY <5>2
          <6> QED
            BY <5>1, <6>1 DEF HoldsLock, Held
        <5> QED
          BY <5>2, <2>5, <4>2 DEF Pending
      <4> QED
        BY <4>1, <4>2
    <3>7. CapOK'
      <4>1. (Capped' <=> Capped) /\ event' \in Occasions
        BY <1>1 DEF Capped, RegistrationInv, CapOK
      <4>2. \A o \in Requests : ~Pending(request[o])'
        BY <3>6 DEF Pending
      <4> QED
        BY <1>1, <2>6, <3>5, <4>1, <4>2 DEF CapOK
    <3>8. Registers
      BY <2>2, <2>4, <2>5 DEF Registers, Aside
    <3> QED
      BY <2>2, <2>3, <3>7, <3>8 DEF RegistrationInv, Shape
  <2> QED
    BY <1>1, <2>7, <2>8 DEF IsSignUp
<1> QED
  BY <1>2, <1>3
\* Registrations that are rewritten keep their number, row and history.
LEMMA Rewritten ==
  ASSUME EntriesOK, NEW f, entries' = {f[e] : e \in entries}, serial' = serial,
         \A e \in entries : /\ IsEntry(f[e]) /\ f[e].no = e.no
                            /\ f[e].row = e.row /\ f[e].how = e.how
  PROVE  /\ EntriesOK' /\ serial' >= serial
         /\ \A e \in entries' : Exists(e.no) \/ e.no > serial
         /\ CountedRows' \subseteq CountedRows
<1> DEFINE g == [e \in entries |-> f[e]]
<1>1. g \in Surjection(entries, entries')
  BY DEF Surjection
<1>2. IsFiniteSet(entries')
  BY <1>1, FS_Surjection DEF EntriesOK
<1>3. EntriesOK'
  BY <1>2 DEF EntriesOK
<1>4. CountedRows' \subseteq CountedRows
  BY DEF CountedRows
<1> QED
  BY <1>3, <1>4 DEF EntriesOK, Exists

\* One side of a pair is written, or the write fails.
LEMMA PartneredKeeps ==
  ASSUME EntriesOK, NEW div, NEW row, NEW other, Partnered(div, row, other), serial' = serial,
         Capped => \A e \in entries : e.approved = TRUE
  PROVE  /\ EntriesOK' /\ serial' >= serial
         /\ \A e \in entries' : Exists(e.no) \/ e.no > serial
         /\ CountedRows' \subseteq CountedRows
         /\ Capped => \A e \in entries' : e.approved = TRUE
<1> DEFINE f == [e \in entries |-> IF e.div = div /\ e.row = row
                                  THEN [e EXCEPT !.partner = other] ELSE e]
<1>1. CASE entries' = entries
  BY <1>1 DEF EntriesOK, CountedRows, Exists
<1>2. CASE entries' # entries
  <2>1. \A e \in entries : IsEntry(e) /\ f[e] \in {e, [e EXCEPT !.partner = other]}
    BY DEF EntriesOK
  <2>2. \A e \in entries : /\ IsEntry(f[e]) /\ f[e].no = e.no /\ f[e].approved = e.approved
                           /\ f[e].row = e.row /\ f[e].how = e.how
    BY <2>1 DEF IsEntry
  <2>3. entries' = {f[e] : e \in entries}
    BY <1>2 DEF Partnered
  <2> HIDE DEF f
  <2> QED
    BY <2>2, <2>3, Rewritten
<1> QED
  BY <1>1, <1>2

LEMMA PairKeeps ==
  ASSUME RegistrationInv, NEW r \in Requests, Pair(r) \/ PairBack(r)
  PROVE  RegistrationInv' /\ Registers
<1>1. /\ Busy(r) /\ Call(r).at # "lock" /\ Call(r).at \in Held /\ IsSignUp(Call(r))
      /\ UNCHANGED <<event, serial>>
      /\ \E div, row, other : Partnered(div, row, other)
  BY InHand DEF Pair, PairBack, Held
<1>2. RequestsOK' /\ \A o \in Requests : request'[o] = request[o] \/ Aside(request'[o])
  <2>1. CASE Return(r)
    <3>1. RequestsOK' /\ request' = [request EXCEPT ![r] = <<>>]
      BY <1>1, <2>1, Returned DEF RegistrationInv, Shape
    <3> QED
      BY <3>1, AsideOK DEF RegistrationInv, Shape, RequestsOK
  <2>2. CASE GoTo(r, "pair back") /\ UNCHANGED lock
    <3> DEFINE d == [Call(r) EXCEPT !.at = "pair back"]
    <3>1. IsSignUp(d) /\ d.at = "pair back"
      BY <1>1, NextStatement DEF Held
    <3>2. request' = [request EXCEPT ![r] = <<d>>]
      BY <1>1, <2>2, Moved DEF RegistrationInv, Shape
    <3> HIDE DEF d
    <3>3. IsCall(d) /\ Aside(<<d>>)
      BY <3>1, AsideOK DEF IsCall
    <3>4. RequestsOK'
      BY <1>1, <2>2, <3>1, <3>2, <3>3, WentOn DEF Held, RegistrationInv, Shape
    <3> QED
      BY <3>2, <3>3, <3>4 DEF RegistrationInv, Shape, RequestsOK
  <2> QED
    BY <2>1, <2>2 DEF Pair, PairBack
<1>3. /\ EntriesOK' /\ serial' >= serial
      /\ \A e \in entries' : Exists(e.no) \/ e.no > serial
      /\ CountedRows' \subseteq CountedRows
      /\ Capped => \A e \in entries' : e.approved = TRUE
  BY <1>1, PartneredKeeps DEF RegistrationInv, Shape, CapOK
<1> QED
  BY <1>1, <1>2, <1>3, RowsChange

LEMMA ApproveRows ==
  ASSUME RegistrationInv, NEW which, Approve(which), RequestsOK', UNCHANGED <<event, serial>>,
         \A o \in Requests : request'[o] = request[o] \/ Aside(request'[o])
  PROVE  RegistrationInv' /\ Registers
<1> DEFINE f == [e \in entries |-> IF which[e.no] THEN [e EXCEPT !.approved = TRUE] ELSE e]
<1>1. \A e \in entries : IsEntry(e) /\ f[e] \in {e, [e EXCEPT !.approved = TRUE]}
  BY DEF RegistrationInv, Shape, EntriesOK
<1>2. \A e \in entries : /\ IsEntry(f[e]) /\ f[e].no = e.no /\ f[e].approved \in {e.approved, TRUE}
                         /\ f[e].row = e.row /\ f[e].how = e.how
  BY <1>1 DEF IsEntry
<1>3. entries' = {f[e] : e \in entries}
  BY DEF Approve
<1> HIDE DEF f
<1>4. /\ EntriesOK' /\ serial' >= serial
      /\ \A e \in entries' : Exists(e.no) \/ e.no > serial
      /\ CountedRows' \subseteq CountedRows
  BY <1>2, <1>3, Rewritten DEF RegistrationInv, Shape
<1>5. Capped => \A e \in entries' : e.approved = TRUE
  BY <1>2, <1>3 DEF RegistrationInv, CapOK
<1> QED
  BY <1>4, <1>5, RowsChange

LEMMA UnlistKeeps ==
  ASSUME RegistrationInv, NEW r \in Requests, Unlist(r)
  PROVE  RegistrationInv' /\ Registers
  BY ReturnKeeps DEF Unlist, At

LEMMA FailKeeps ==
  ASSUME RegistrationInv, NEW r \in Requests, Fail(r)
  PROVE  RegistrationInv' /\ Registers
  BY ReturnKeeps DEF Fail

LEMMA RestartKeeps ==
  ASSUME RegistrationInv, Restart
  PROVE  RegistrationInv' /\ Registers
<1>1. request' = [r \in Requests |-> <<>>] /\ UNCHANGED <<event, entries, serial>>
  BY DEF Restart
<1>2. IsRequest(<<>>) /\ ~HoldsLock(<<>>)
  BY DEF IsRequest, HoldsLock
<1>3. RequestsOK'
  BY <1>1, <1>2 DEF RequestsOK
<1>4. EntriesOK /\ EntriesOK' /\ CountedRows' = CountedRows
  BY <1>1 DEF RegistrationInv, Shape, EntriesOK, CountedRows
<1>5. Capped => \A e \in entries' : e.approved = TRUE
  BY <1>1 DEF RegistrationInv, CapOK
<1>6. \A o \in Requests : request'[o] = request[o] \/ Aside(request'[o])
  BY <1>1, AsideOK
<1>7. event' = event /\ serial' >= serial /\ \A e \in entries' : Exists(e.no) \/ e.no > serial
  BY <1>1, <1>4 DEF EntriesOK, Exists
<1> QED
  BY <1>3, <1>4, <1>5, <1>6, <1>7, RowsChange
LEMMA ApproveKeeps ==
  ASSUME RegistrationInv, NEW r \in Requests, ApproveWrite(r) \/ ApproveMate(r)
  PROVE  RegistrationInv' /\ Registers
<1>1. /\ Busy(r) /\ Call(r).at \in {"approve", "approve mate"} /\ RequestsOK
      /\ UNCHANGED <<event, serial>> /\ \E which : Approve(which)
  BY DEF ApproveWrite, ApproveMate, At, RegistrationInv, Shape
<1>2. RequestsOK' /\ \A o \in Requests : request'[o] = request[o] \/ Aside(request'[o])
  <2>1. CASE Return(r)
    <3>1. RequestsOK' /\ request' = [request EXCEPT ![r] = <<>>]
      BY <1>1, <2>1, Returned
    <3> QED
      BY <1>1, <3>1, AsideOK DEF RequestsOK
  <2>2. CASE GoTo(r, "approve mate") /\ UNCHANGED lock
    <3> DEFINE d == [Call(r) EXCEPT !.at = "approve mate"]
    <3>1. IsCall(Call(r))
      BY <1>1, TopCall DEF RequestsOK, Busy, Call
    <3>2. IsApproval(d) /\ d.at = "approve mate"
      BY <1>1, <3>1, KindOfCall DEF IsApproval
    <3>3. request' = [request EXCEPT ![r] = <<d>>]
      BY <1>1, <2>2, Moved
    <3> HIDE DEF d
    <3>4. IsCall(d) /\ Aside(<<d>>) /\ d.at \notin Held
      BY <3>2, AsideOK DEF IsCall, Held
    <3>5. RequestsOK'
      BY <1>1, <2>2, <3>3, <3>4, WentOn
    <3> QED
      BY <1>1, <3>3, <3>4, <3>5 DEF RequestsOK
  <2> QED
    BY <2>1, <2>2 DEF ApproveWrite, ApproveMate
<1> QED
  BY <1>1, <1>2, ApproveRows

\* linkPartner registers the partner first, or enters them and goes on.
LEMMA FindPartnerRequests ==
  ASSUME RegistrationInv, NEW r \in Requests, FindPartner(r)
  PROVE  RequestsOK' /\ \A o \in Requests : request'[o] = request[o] \/ Aside(request'[o])
<1> DEFINE c == Call(r)
           found == Registrants(PhoneOf[c.mate])
<1>0. r \in Requests /\ DOMAIN request = Requests
  BY DEF RegistrationInv, Shape, RequestsOK
<1>1. /\ Busy(r) /\ c.at = "partner" /\ IsSignUp(c) /\ lock = r /\ request[r] = <<c>>
      /\ RequestsOK /\ lock' = lock
  BY InHand DEF FindPartner, Held, RegistrationInv, Shape
<1>2. ASSUME NEW n, IsSignUp(n), n.at = "lock",
             request' = [request EXCEPT ![r] = <<n>> \o request[r]]
      PROVE  RequestsOK' /\ \A o \in Requests : request'[o] = request[o] \/ Aside(request'[o])
  <2> HIDE DEF c
  <2>1. <<n>> \o request[r] = <<n, c>>
    BY <1>1, TwoCalls
  <2>2. IsRequest(<<n, c>>)
    BY <1>1, <1>2 DEF IsRequest, Within
  <2>3. Aside(<<n, c>>)
    <3>1. \A x : <<n, c>> # <<x>>
      OBVIOUS
    <3> QED
      BY <3>1 DEF Aside, Pending
  <2>4. RequestsOK'
    BY <1>1, <1>2, <2>1, <2>2, Onward
  <2> QED
    BY <1>1, <1>2, <2>1, <2>3, <2>4 DEF RequestsOK
<1>3. ASSUME NEW pc \in {"pair", "pair alone"}, NEW row,
             request' = [request EXCEPT ![r][1].at = pc, ![r][1].mate = row]
      PROVE  RequestsOK' /\ \A o \in Requests : request'[o] = request[o] \/ Aside(request'[o])
  <2> DEFINE d == [c EXCEPT !.at = pc, !.mate = row]
  <2>1. IsSignUp(d) /\ d.at = pc
    BY <1>1 DEF IsSignUp, Held
  <2>2. request' = [request EXCEPT ![r] = <<d>>]
    <3>1. PICK x, y : x = c /\ y = [x EXCEPT !.at = pc]
      OBVIOUS
    <3>2. RequestsOK /\ request[r] = <<x>>
      BY <1>1, <3>1 DEF RegistrationInv, Shape
    <3>3. [request[r] EXCEPT ![1].at = pc] = <<y>>
      <4>1. [<<x>> EXCEPT ![1].at = pc] = <<[x EXCEPT !.at = pc]>>
        BY OnlyCallsField
      <4>2. [<<x>> EXCEPT ![1].at = pc] = <<y>>
        BY <3>1, <4>1
      <4>3. request[r] = <<x>>
        BY <3>2
      <4> QED
        BY <4>2, <4>3
    <3>4. [<<y>> EXCEPT ![1].mate = row] = <<[y EXCEPT !.mate = row]>>
      BY OnlyCallsField
    <3>5. [request EXCEPT ![r][1].at = pc, ![r][1].mate = row]
             = [request EXCEPT ![r] = [[request[r] EXCEPT ![1].at = pc] EXCEPT ![1].mate = row]]
      BY <3>2 DEF RequestsOK
    <3> QED
      BY <1>3, <3>1, <3>3, <3>4, <3>5
  <2> HIDE DEF d
  <2>3. IsCall(d) /\ Aside(<<d>>)
    BY <2>1, AsideOK DEF IsCall
  <2>4. RequestsOK'
    BY <1>1, <2>1, <2>2, <2>3, WentOn DEF Held
  <2> QED
    BY <1>1, <2>2, <2>3, <2>4 DEF RequestsOK
<1>4. CASE found = {}
  <2> DEFINE n == SignUp(c.mate, PhoneOf[c.mate], c.div, FALSE, TRUE, Nobody, Nobody, 0)
  <2>1. request' = [request EXCEPT ![r] = <<n>> \o request[r]]
    BY <1>4 DEF FindPartner
  <2>2. IsSignUp(n) /\ n.at = "lock"
    BY DEF SignUp, IsSignUp
  <2> HIDE DEF n
  <2> QED
    BY <1>2, <2>1, <2>2
<1>5. CASE found # {}
  BY <1>3, <1>5 DEF FindPartner
<1> QED
  BY <1>4, <1>5

LEMMA FindPartnerKeeps ==
  ASSUME RegistrationInv, NEW r \in Requests, FindPartner(r)
  PROVE  RegistrationInv' /\ Registers
<1> DEFINE c == Call(r)
           approved == ~NeedsApproval(c)
<1>1. /\ RequestsOK' /\ event' = event
      /\ \A o \in Requests : request'[o] = request[o] \/ Aside(request'[o])
  BY FindPartnerRequests DEF FindPartner
<1>2. CASE UNCHANGED <<entries, serial>>
  <2>1. /\ EntriesOK' /\ CountedRows' = CountedRows /\ serial' >= serial
        /\ \A e \in entries' : Exists(e.no)
    BY <1>2 DEF RegistrationInv, Shape, EntriesOK, CountedRows, Exists
  <2>2. Capped => \A e \in entries' : e.approved = TRUE
    BY <1>2 DEF RegistrationInv, CapOK
  <2> QED
    BY <1>1, <2>1, <2>2, RowsChange
<1>3. ASSUME NEW row, NEW known, serial' = serial + 1,
             entries' = entries \cup {Entry(row, c.mate, c.div, approved, "partner", known)}
      PROVE  RegistrationInv' /\ Registers
  <2>1. /\ EntriesOK' /\ serial' >= serial /\ CountedRows' \subseteq CountedRows
        /\ \A e \in entries' : Exists(e.no) \/ e.no > serial
        /\ \A e \in entries' : e \in entries \/ e.approved = approved
    BY <1>3, NewEntry DEF RegistrationInv, Shape
  <2>2. Capped => \A e \in entries' : e.approved = TRUE
    BY <2>1 DEF RegistrationInv, CapOK, Capped, NeedsApproval
  <2> QED
    BY <1>1, <2>1, <2>2, RowsChange
<1>4. \/ UNCHANGED <<entries, serial>>
      \/ \E row : /\ entries' = entries \cup {Entry(row, c.mate, c.div, approved, "partner", TRUE)}
                  /\ serial' = serial + 1
  <2>1. CASE Registrants(PhoneOf[c.mate]) = {}
    BY <2>1 DEF FindPartner
  <2>2. CASE Registrants(PhoneOf[c.mate]) # {}
    BY <2>2 DEF FindPartner
  <2> QED
    BY <2>1, <2>2
<1> QED
  BY <1>2, <1>3, <1>4
LEMMA DeskKeeps ==
  ASSUME RegistrationInv,
         \/ \E who, div, user : JoinWaitlist(who, div, user)
         \/ \E w : RemoveWaitlist(w)
         \/ \E e : DeleteRegistration(e)
  PROVE  RegistrationInv' /\ Registers
<1>1. /\ UNCHANGED <<event, lock, request>>
      /\ entries' \subseteq entries /\ serial' \in {serial, serial + 1}
  BY DEF JoinWaitlist, RemoveWaitlist, DeleteRegistration
<1>2. RequestsOK'
  BY <1>1 DEF RegistrationInv, Shape, RequestsOK
<1>3. serial \in Nat /\ serial' >= serial /\ 1..serial \subseteq 1..serial' /\ serial' \in Nat
  BY <1>1 DEF RegistrationInv, Shape, EntriesOK
<1>4. IsFiniteSet(entries')
  BY <1>1, FS_Subset DEF RegistrationInv, Shape, EntriesOK
<1>5. EntriesOK' /\ \A e \in entries' : Exists(e.no)
  BY <1>1, <1>3, <1>4 DEF RegistrationInv, Shape, EntriesOK, Exists
<1>6. CountedRows' \subseteq CountedRows
  BY <1>1 DEF CountedRows
<1>7. Capped => \A e \in entries' : e.approved = TRUE
  BY <1>1 DEF RegistrationInv, CapOK
<1> QED
  BY <1>1, <1>2, <1>3, <1>5, <1>6, <1>7, RowsChange

LEMMA RegistrationStep ==
  ASSUME RegistrationInv, Next
  PROVE  RegistrationInv' /\ Registers
<1>1. CASE Requested
  <2>1. CASE \E r \in Requests : \/ \E who, div, self, user, mate :
                                       Register(r, who, div, self, user, mate)
                                 \/ \E who, div, phone : Add(r, who, div, phone)
                                 \/ \E w : Promote(r, w)
                                 \/ \E e : ApproveRead(r, e)
    BY <2>1, BeginningsKeep
  <2>2. CASE \/ \E who, div, user : JoinWaitlist(who, div, user)
             \/ \E w : RemoveWaitlist(w)
             \/ \E e : DeleteRegistration(e)
    BY <2>2, DeskKeeps
  <2> QED
    BY <1>1, <2>1, <2>2 DEF Requested
<1>2. ASSUME NEW r \in Requests, Step(r) PROVE RegistrationInv' /\ Registers
  BY <1>2, AcquireKeeps, CheckContactKeeps, CheckCapKeeps, FindRowKeeps, InsertKeeps,
     FindPartnerKeeps, PairKeeps, UnlistKeeps, ApproveKeeps DEF Step
<1>3. ASSUME NEW r \in Requests, Fail(r) PROVE RegistrationInv' /\ Registers
  BY <1>3, FailKeeps
<1>4. CASE Restart
  BY <1>4, RestartKeeps
<1> QED
  BY <1>1, <1>2, <1>3, <1>4 DEF Next

LEMMA RegistrationInit ==
  ASSUME Init
  PROVE  RegistrationInv
<1>1. IsRequest(<<>>) /\ ~HoldsLock(<<>>) /\ ~Pending(<<>>)
  BY DEF IsRequest, HoldsLock, Pending
<1>2. RequestsOK
  BY <1>1 DEF Init, RequestsOK
<1>3. EntriesOK
  BY FS_EmptySet DEF Init, EntriesOK
<1>4. CountedRows = {} /\ Cardinality(CountedRows) = 0
  BY FS_EmptySet DEF Init, CountedRows
<1>5. event \in Occasions /\ event.cap \in Nat
  BY DEF Init
<1>6. CapOK
  BY <1>1, <1>4, <1>5 DEF Init, CapOK, Capped
<1> QED
  BY <1>2, <1>3, <1>6 DEF RegistrationInv, Shape
-----------------------------------------------------------------------------
(* The fees.                                                                *)

Settled(n) == \E b \in books : b.no = n /\ b.settles = TRUE

Reported == (1..serial) \X Providers

\* A call about a fee is about a registration that was made once, and is at
\* its last statement only with the payment in the books, while it is there.
CallKnows(c) ==
    /\ c.no \in 1..serial
    /\ c.at = "status" /\ c.settles = TRUE /\ Exists(c.no) => Settled(c.no)
    /\ c.hook = TRUE => c.provider \in Providers

FeesInv ==
    /\ paid \subseteq 1..serial /\ captured \subseteq 1..serial
    /\ checkouts \subseteq Reported /\ deliveries \subseteq Reported
    /\ \A r \in Requests : \A c : request[r] = <<c>> /\ IsFee(c) => CallKnows(c)
    /\ \A e \in entries : e.no \in paid => Settled(e.no)
    /\ \A e \in entries : /\ e.no \in captured
                          /\ \A p \in Providers : <<e.no, p>> \notin deliveries
                          => e.no \in paid

Inv == RegistrationInv /\ FeesInv

\* The invariant is what is claimed of the cap and the fees.
LEMMA InvImplies ==
  ASSUME Inv
  PROVE  CapHeld /\ FeesSettled
<1>1. CapHeld
  BY DEF Inv, RegistrationInv, CapOK, Capped, CountedRows, CapHeld
<1>2. FeesSettled
  BY DEF Inv, FeesInv, Settled, FeesSettled
<1> QED
  BY <1>1, <1>2

LEMMA InitInv ==
  ASSUME InitFees
  PROVE  Inv
<1>1. RegistrationInv
  BY RegistrationInit DEF InitFees
<1>2. FeesInv
  BY DEF InitFees, Init, FeesInv
<1> QED
  BY <1>1, <1>2 DEF Inv

LEMMA RegisteringKeeps ==
  ASSUME Inv, Registering
  PROVE  Inv'
<1>1. RegistrationInv' /\ Registers
  BY RegistrationStep DEF Inv, Registering
<1>2. /\ serial \in Nat /\ serial' \in Nat /\ serial' >= serial /\ 1..serial \subseteq 1..serial'
      /\ UNCHANGED <<paid, checkouts, captured, deliveries>>
  BY <1>1 DEF Registers, Registering, Inv, RegistrationInv, Shape, EntriesOK
<1>3. \A n : Exists(n)' /\ n \in 1..serial => Exists(n)
  BY <1>1, <1>2 DEF Registers, Exists
<1>4. \A n : Exists(n)' /\ Settled(n) => Settled(n)'
  BY DEF Registering, Settled, Exists
<1>5. \A r \in Requests : \A c : (request[r] = <<c>>)' /\ IsFee(c) => CallKnows(c)'
  <2> SUFFICES ASSUME NEW r \in Requests, NEW c, request'[r] = <<c>>, IsFee(c)
               PROVE  CallKnows(c)'
    OBVIOUS
  <2>1. CallKnows(c)
    BY <1>1 DEF Registers, Inv, FeesInv
  <2> QED
    BY <2>1, <1>2, <1>3, <1>4 DEF CallKnows
<1>6. ASSUME NEW e \in entries' PROVE Exists(e.no)' /\ (e.no \in 1..serial => \E f \in entries : f.no = e.no)
  BY <1>3 DEF Exists
<1>7. \A e \in entries' : e.no \in paid' => Settled(e.no)'
  BY <1>2, <1>4, <1>6 DEF Inv, FeesInv
<1>8. \A e \in entries' : /\ e.no \in captured'
                          /\ \A p \in Providers : <<e.no, p>> \notin deliveries'
                          => e.no \in paid'
  BY <1>2, <1>6 DEF Inv, FeesInv
<1>9. /\ paid' \subseteq 1..serial' /\ captured' \subseteq 1..serial'
      /\ checkouts' \subseteq Reported' /\ deliveries' \subseteq Reported'
  BY <1>2 DEF Inv, FeesInv, Reported
<1> QED
  BY <1>1, <1>5, <1>7, <1>8, <1>9 DEF Inv, FeesInv

\* A statement about a fee: registrations stay as they are.
LEMMA FeeStatement ==
  ASSUME Inv, NEW r \in Requests, NEW s, RequestsOK', request' = [request EXCEPT ![r] = s],
         UNCHANGED <<event, entries, serial>>, ~Pending(s)
  PROVE  /\ RegistrationInv'
         /\ \A o \in Requests : request'[o] = IF o = r THEN s ELSE request[o]
         /\ \A n : Exists(n)' <=> Exists(n)
<1>1. \A o \in Requests : request'[o] = IF o = r THEN s ELSE request[o]
  BY DEF Inv, RegistrationInv, Shape, RequestsOK
<1>2. EntriesOK' /\ CountedRows' = CountedRows /\ RegistrationInv
  BY DEF Inv, RegistrationInv, Shape, EntriesOK, CountedRows
<1>3. Capped => \A e \in entries' : e.approved = TRUE
  BY DEF Inv, RegistrationInv, CapOK
<1>4. CapOK'
  BY <1>1, <1>2, <1>3, CapKept
<1> QED
  BY <1>1, <1>2, <1>4 DEF RegistrationInv, Shape, Exists

\* Requests that are about no fee, or about one as before, know what they did.
LEMMA CallsKnow ==
  ASSUME Inv, serial' = serial, \A n : Exists(n)' <=> Exists(n),
         \A n : Settled(n) => Settled(n)',
         \A r \in Requests : \A c : request'[r] = <<c>> /\ IsFee(c)
                                       => request[r] = <<c>> \/ CallKnows(c)'
  PROVE  \A r \in Requests : \A c : (request[r] = <<c>>)' /\ IsFee(c) => CallKnows(c)'
<1> SUFFICES ASSUME NEW r \in Requests, NEW c, request'[r] = <<c>>, IsFee(c), request[r] = <<c>>
             PROVE  CallKnows(c)'
  OBVIOUS
<1>1. CallKnows(c)
  BY DEF Inv, FeesInv
<1> QED
  BY <1>1 DEF CallKnows
\* A statement about money: what is newly paid is in the books, what is newly
\* captured is about to be reported, and a report is over when it is settled
\* or its registration gone.
LEMMA MoneyMoves ==
  ASSUME Inv, RegistrationInv', UNCHANGED <<entries, serial>>,
         \A n : Settled(n) => Settled(n)',
         paid \subseteq paid',
         \A n \in paid' \ paid : n \in 1..serial /\ (Exists(n) => Settled(n)'),
         \A n \in captured' \ captured : n \in 1..serial /\ \E p \in Providers : <<n, p>> \in deliveries',
         checkouts' \subseteq Reported, deliveries' \subseteq Reported,
         \A n \in 1..serial, p \in Providers :
             <<n, p>> \in deliveries \ deliveries' /\ Exists(n) => n \in paid',
         \A r \in Requests : \A c : request'[r] = <<c>> /\ IsFee(c)
                                       => request[r] = <<c>> \/ CallKnows(c)'
  PROVE  Inv'
<1>1. \A n : Exists(n)' <=> Exists(n)
  BY DEF Exists
<1>2. \A r \in Requests : \A c : (request[r] = <<c>>)' /\ IsFee(c) => CallKnows(c)'
  BY <1>1, CallsKnow
<1>3. \A e \in entries : e.no \in 1..serial /\ Exists(e.no)
  BY DEF Inv, RegistrationInv, Shape, EntriesOK, Exists
<1>4. \A e \in entries : e.no \in paid' => Settled(e.no)'
  BY <1>3 DEF Inv, FeesInv
<1>5. ASSUME NEW e \in entries, e.no \in captured', \A p \in Providers : <<e.no, p>> \notin deliveries'
      PROVE  e.no \in paid'
  <2>1. e.no \in captured
    BY <1>5
  <2>2. CASE \E p \in Providers : <<e.no, p>> \in deliveries
    BY <2>2, <1>3, <1>5
  <2>3. CASE \A p \in Providers : <<e.no, p>> \notin deliveries
    BY <2>1, <2>3 DEF Inv, FeesInv
  <2> QED
    BY <2>2, <2>3
<1>6. /\ paid' \subseteq 1..serial' /\ captured' \subseteq 1..serial'
      /\ checkouts' \subseteq Reported' /\ deliveries' \subseteq Reported'
  BY DEF Inv, FeesInv, Reported
<1> QED
  BY <1>2, <1>4, <1>5, <1>6 DEF Inv, FeesInv

LEMMA BeginKeeps ==
  ASSUME Inv, NEW r \in Requests, NEW c, IsFee(c), c.at = "look", Begin(r, c),
         UNCHANGED <<books, paid>>, c.no \in 1..serial, c.hook = TRUE => c.provider \in Providers
  PROVE  /\ RegistrationInv'
         /\ \A o \in Requests : \A d : request'[o] = <<d>> /\ IsFee(d)
                                          => request[o] = <<d>> \/ CallKnows(d)'
         /\ UNCHANGED <<entries, serial>> /\ \A n : Settled(n) => Settled(n)'
<1>1. /\ ~Busy(r) /\ request' = [request EXCEPT ![r] = <<c>>]
      /\ UNCHANGED <<event, entries, serial, lock>>
  BY DEF Begin
<1>2. RequestsOK'
  BY <1>1, Began DEF Inv, RegistrationInv, Shape, IsCall, Held
<1>3. ~Pending(<<c>>)
  BY DEF Pending
<1>4. RegistrationInv' /\ \A o \in Requests : request'[o] = IF o = r THEN <<c>> ELSE request[o]
  BY <1>1, <1>2, <1>3, FeeStatement
<1>5. CallKnows(c)'
  BY <1>1 DEF CallKnows
<1>6. \A d : <<c>> = <<d>> => d = c
  OBVIOUS
<1>7. \A n : Settled(n) => Settled(n)'
  BY DEF Settled
<1> QED
  BY <1>1, <1>4, <1>5, <1>6, <1>7

LEMMA ExistsOK ==
  ASSUME Inv, NEW n, Exists(n)
  PROVE  n \in 1..serial
  BY DEF Inv, RegistrationInv, Shape, EntriesOK, Exists

LEMMA CollectKeeps ==
  ASSUME Inv, NEW r \in Requests, NEW n,
         CollectPaymentManually(r, n) \/ \E p \in Providers : CollectPayment(r, n, p)
  PROVE  Inv'
<1>1. n \in 1..serial
  BY ExistsOK DEF CollectPaymentManually, CollectPayment
<1>2. CASE CollectPaymentManually(r, n)
  <2> DEFINE c == Record(n, "manual", TRUE, FALSE)
  <2>1. IsFee(c) /\ c.at = "look" /\ c.no = n /\ c.hook = FALSE
    BY DEF Record, IsFee
  <2>2. Begin(r, c) /\ UNCHANGED <<books, paid, checkouts, captured, deliveries>>
    BY <1>2 DEF CollectPaymentManually, fees
  <2> HIDE DEF c
  <2>3. /\ RegistrationInv'
        /\ \A o \in Requests : \A d : request'[o] = <<d>> /\ IsFee(d)
                                         => request[o] = <<d>> \/ CallKnows(d)'
        /\ UNCHANGED <<entries, serial>> /\ \A m : Settled(m) => Settled(m)'
    BY <1>1, <2>1, <2>2, BeginKeeps
  <2> QED
    BY <2>2, <2>3, MoneyMoves DEF Inv, FeesInv
<1>3. ASSUME NEW p \in Providers, CollectPayment(r, n, p)
      PROVE  Inv'
  <2> DEFINE c == Record(n, p, FALSE, FALSE)
  <2>1. IsFee(c) /\ c.at = "look" /\ c.no = n /\ c.hook = FALSE
    BY DEF Record, IsFee
  <2>2. /\ Begin(r, c) /\ UNCHANGED <<books, paid, captured, deliveries>>
        /\ checkouts' = checkouts \cup {<<n, p>>}
    BY <1>3 DEF CollectPayment
  <2> HIDE DEF c
  <2>3. /\ RegistrationInv'
        /\ \A o \in Requests : \A d : request'[o] = <<d>> /\ IsFee(d)
                                         => request[o] = <<d>> \/ CallKnows(d)'
        /\ UNCHANGED <<entries, serial>> /\ \A m : Settled(m) => Settled(m)'
    BY <1>1, <2>1, <2>2, BeginKeeps
  <2>4. checkouts' \subseteq Reported
    BY <1>1, <2>2 DEF Reported, Inv, FeesInv
  <2> QED
    BY <2>2, <2>3, <2>4, MoneyMoves DEF Inv, FeesInv
<1> QED
  BY <1>2, <1>3
LEMMA CapturePayPalOrderKeeps ==
  ASSUME Inv, NEW r \in Requests, NEW n, CapturePayPalOrder(r, n)
  PROVE  Inv'
<1> DEFINE c == Record(n, "paypal", TRUE, FALSE)
<1>1. IsFee(c) /\ c.at = "look" /\ c.no = n /\ c.hook = FALSE
  BY DEF Record, IsFee
<1>2. /\ <<n, "paypal">> \in checkouts /\ Begin(r, c) /\ UNCHANGED <<books, paid>>
      /\ checkouts' \subseteq checkouts /\ captured' = captured \cup {n}
      /\ deliveries' = deliveries \cup {<<n, "paypal">>}
  BY DEF CapturePayPalOrder
<1>3. n \in 1..serial /\ "paypal" \in Providers
  BY <1>2 DEF Inv, FeesInv, Reported, Providers
<1> HIDE DEF c
<1>4. /\ RegistrationInv'
      /\ \A o \in Requests : \A d : request'[o] = <<d>> /\ IsFee(d)
                                       => request[o] = <<d>> \/ CallKnows(d)'
      /\ UNCHANGED <<entries, serial>> /\ \A m : Settled(m) => Settled(m)'
  BY <1>1, <1>2, <1>3, BeginKeeps
<1>5. checkouts' \subseteq Reported /\ deliveries' \subseteq Reported
  BY <1>2 DEF Inv, FeesInv
<1> QED
  BY <1>2, <1>3, <1>4, <1>5, MoneyMoves

LEMMA Untouched ==
  ASSUME RegistrationInv, UNCHANGED <<event, entries, serial, lock, request>>
  PROVE  RegistrationInv'
<1>1. EntriesOK' /\ RequestsOK' /\ CountedRows' = CountedRows /\ event' = event
  BY DEF RegistrationInv, Shape, EntriesOK, RequestsOK, CountedRows
<1>2. /\ Capped => \A e \in entries' : e.approved = TRUE
      /\ \A r \in Requests : Pending(request'[r]) => Pending(request[r])
  BY DEF RegistrationInv, CapOK
<1>3. CapOK'
  BY <1>1, <1>2, CapKept
<1> QED
  BY <1>1, <1>3 DEF RegistrationInv, Shape

LEMMA CompleteKeeps ==
  ASSUME Inv, NEW c \in checkouts, Complete(c)
  PROVE  Inv'
<1>1. /\ UNCHANGED <<event, players, entries, waitlist, serial, lock, request, left, books, paid>>
      /\ checkouts' \subseteq checkouts /\ captured' = captured \cup {c[1]}
      /\ deliveries' = deliveries \cup {c}
  BY DEF Complete, base
<1>2. c[1] \in 1..serial /\ c[2] \in Providers /\ c = <<c[1], c[2]>>
  BY DEF Inv, FeesInv, Reported
<1>3. RegistrationInv'
  BY <1>1, Untouched DEF Inv
<1>4. \A n : Settled(n) => Settled(n)'
  BY <1>1 DEF Settled
<1>5. checkouts' \subseteq Reported /\ deliveries' \subseteq Reported
  BY <1>1 DEF Inv, FeesInv
<1> QED
  BY <1>1, <1>2, <1>3, <1>4, <1>5, MoneyMoves

LEMMA DeliverKeeps ==
  ASSUME Inv, NEW r \in Requests, NEW h \in deliveries, Deliver(r, h)
  PROVE  Inv'
<1>1. h[1] \in 1..serial /\ h[2] \in Providers /\ h = <<h[1], h[2]>>
  BY DEF Inv, FeesInv, Reported
<1>2. UNCHANGED <<left, books, paid, checkouts, captured>>
  BY DEF Deliver
<1>3. CASE ~Exists(h[1])
  <2>1. /\ UNCHANGED <<event, players, entries, waitlist, serial, lock, request>>
        /\ deliveries' = deliveries \ {h}
    BY <1>3 DEF Deliver
  <2>2. RegistrationInv'
    BY <2>1, Untouched DEF Inv
  <2>3. \A n : Settled(n) => Settled(n)'
    BY <1>2 DEF Settled
  <2>4. \A n \in 1..serial, p \in Providers :
             <<n, p>> \in deliveries \ deliveries' /\ Exists(n) => n \in paid'
    BY <1>1, <1>3, <2>1
  <2>5. checkouts' \subseteq Reported /\ deliveries' \subseteq Reported
    BY <1>2, <2>1 DEF Inv, FeesInv
  <2> QED
    BY <1>2, <2>1, <2>2, <2>3, <2>4, <2>5, MoneyMoves
<1>4. CASE Exists(h[1])
  <2> DEFINE c == Record(h[1], h[2], TRUE, TRUE)
  <2>1. IsFee(c) /\ c.at = "look" /\ c.no = h[1] /\ c.provider = h[2]
    BY DEF Record, IsFee
  <2>2. Begin(r, c) /\ UNCHANGED deliveries
    BY <1>4 DEF Deliver
  <2> HIDE DEF c
  <2>3. /\ RegistrationInv'
        /\ \A o \in Requests : \A d : request'[o] = <<d>> /\ IsFee(d)
                                         => request[o] = <<d>> \/ CallKnows(d)'
        /\ UNCHANGED <<entries, serial>> /\ \A m : Settled(m) => Settled(m)'
    BY <1>1, <1>2, <2>1, <2>2, BeginKeeps
  <2> QED
    BY <1>2, <2>2, <2>3, MoneyMoves DEF Inv, FeesInv
<1> QED
  BY <1>3, <1>4
\* A call about a fee.
LEMMA FeeInHand ==
  ASSUME Inv, NEW r \in Requests, NEW pc \in {"look", "book", "status"}, At(r, pc)
  PROVE  /\ Busy(r) /\ Call(r).at = pc /\ IsFee(Call(r)) /\ request[r] = <<Call(r)>>
         /\ CallKnows(Call(r)) /\ RequestsOK
<1>1. IsRequest(request[r]) /\ RequestsOK
  BY DEF Inv, RegistrationInv, Shape, RequestsOK
<1>2. Busy(r) /\ Call(r).at = pc /\ IsFee(Call(r)) /\ request[r] = <<Call(r)>>
  BY <1>1, TopCall, KindOfCall DEF At, Busy, Call
<1>3. CallKnows(Call(r))
  BY <1>2 DEF Inv, FeesInv
<1> QED
  BY <1>1, <1>2, <1>3

\* It goes on.
LEMMA FeeGoesOn ==
  ASSUME Inv, NEW r \in Requests, NEW c, c = Call(r), Busy(r), IsFee(c), CallKnows(c),
         NEW pc \in {"book", "status"}, GoTo(r, pc),
         UNCHANGED <<event, entries, serial, lock>>, \A n : Settled(n) => Settled(n)',
         pc = "status" /\ c.settles = TRUE /\ Exists(c.no) => Settled(c.no)'
  PROVE  /\ RegistrationInv'
         /\ \A o \in Requests : \A d : request'[o] = <<d>> /\ IsFee(d)
                                          => request[o] = <<d>> \/ CallKnows(d)'
<1>0. PICK d : d = [c EXCEPT !.at = pc]
  OBVIOUS
<1>1. /\ IsFee(d) /\ d.at = pc /\ d.no = c.no /\ d.settles = c.settles
      /\ d.hook = c.hook /\ d.provider = c.provider
  BY <1>0 DEF IsFee
<1>2. RequestsOK /\ c.at # "lock"
  BY DEF Inv, RegistrationInv, Shape, IsFee
<1>3. request' = [request EXCEPT ![r] = <<d>>]
  BY <1>0, <1>2, Moved
<1>4. CallKnows(d)'
  BY <1>1 DEF CallKnows, Exists
<1>5. IsCall(d) /\ ~Pending(<<d>>) /\ d.at \notin Held /\ Call(r).at # "lock"
  BY <1>1, <1>2 DEF IsCall, Pending, Held
<1>6. RequestsOK'
  BY <1>2, <1>3, <1>5, WentOn
<1>7. RegistrationInv' /\ \A o \in Requests : request'[o] = IF o = r THEN <<d>> ELSE request[o]
  BY <1>3, <1>5, <1>6, FeeStatement
<1>8. \A x : <<d>> = <<x>> => x = d
  OBVIOUS
<1> QED
  BY <1>4, <1>7, <1>8

\* It returns.
LEMMA FeeReturns ==
  ASSUME Inv, NEW r \in Requests, Busy(r), IsFee(Call(r)), Return(r),
         UNCHANGED <<event, entries, serial>>
  PROVE  /\ RegistrationInv'
         /\ \A o \in Requests : \A d : request'[o] = <<d>> /\ IsFee(d) => request[o] = <<d>>
  BY ReturnKeeps DEF Inv, IsFee, Registers

LEMMA LookKeeps ==
  ASSUME Inv, NEW r \in Requests, Look(r)
  PROVE  Inv'
<1>0. PICK c : c = Call(r)
  OBVIOUS
<1>1. Busy(r) /\ IsFee(c) /\ CallKnows(c)
  BY <1>0, FeeInHand DEF Look
<1>2. UNCHANGED <<event, entries, serial, lock, books, paid, checkouts, captured, deliveries>>
  BY DEF Look, fees
<1>3. PICK pc \in {"book", "status"} :
          /\ GoTo(r, pc)
          /\ pc = "status" => \E b \in books : b.no = c.no /\ b.settles = c.settles
  BY <1>0 DEF Look
<1>4. \A n : Settled(n) => Settled(n)'
  BY <1>2 DEF Settled
<1>5. pc = "status" /\ c.settles = TRUE => Settled(c.no)'
  BY <1>2, <1>3 DEF Settled
<1>6. /\ RegistrationInv'
      /\ \A o \in Requests : \A d : request'[o] = <<d>> /\ IsFee(d)
                                       => request[o] = <<d>> \/ CallKnows(d)'
  BY <1>0, <1>1, <1>2, <1>3, <1>4, <1>5, FeeGoesOn
<1> QED
  BY <1>2, <1>4, <1>6, MoneyMoves DEF Inv, FeesInv

LEMMA BookKeeps ==
  ASSUME Inv, NEW r \in Requests, Book(r)
  PROVE  Inv'
<1>0. PICK c : c = Call(r)
  OBVIOUS
<1> DEFINE there == c.settles /\ \E b \in books : b.no = c.no /\ b.settles
           new == [no |-> c.no, provider |-> c.provider, settles |-> c.settles]
<1>1. Busy(r) /\ IsFee(c) /\ CallKnows(c)
  BY <1>0, FeeInHand DEF Book
<1>2. UNCHANGED <<event, entries, serial, paid, checkouts, captured, deliveries>>
  BY DEF Book
<1>3. CASE Return(r) /\ UNCHANGED books
  <2>1. \A n : Settled(n) => Settled(n)'
    BY <1>3 DEF Settled
  <2>2. /\ RegistrationInv'
        /\ \A o \in Requests : \A d : request'[o] = <<d>> /\ IsFee(d) => request[o] = <<d>>
    BY <1>0, <1>1, <1>2, <1>3, FeeReturns
  <2> QED
    BY <1>2, <2>1, <2>2, MoneyMoves DEF Inv, FeesInv
<1>4. CASE /\ GoTo(r, "status") /\ UNCHANGED lock
           /\ books' = IF there \/ ~Exists(c.no) THEN books ELSE books \cup {new}
  <2>1. \A n : Settled(n) => Settled(n)'
    BY <1>4 DEF Settled
  <2>2. ASSUME c.settles = TRUE, Exists(c.no) PROVE Settled(c.no)'
    <3>1. CASE there
      BY <1>4, <3>1 DEF Settled
    <3>2. CASE ~there
      <4>1. new \in books' /\ new.no = c.no /\ new.settles = TRUE
        BY <1>4, <2>2, <3>2
      <4> QED
        BY <4>1 DEF Settled
    <3> QED
      BY <3>1, <3>2
  <2>3. /\ RegistrationInv'
        /\ \A o \in Requests : \A d : request'[o] = <<d>> /\ IsFee(d)
                                         => request[o] = <<d>> \/ CallKnows(d)'
    BY <1>0, <1>1, <1>2, <1>4, <2>1, <2>2, FeeGoesOn
  <2> QED
    BY <1>2, <2>1, <2>3, MoneyMoves DEF Inv, FeesInv
<1> QED
  BY <1>0, <1>3, <1>4 DEF Book

LEMMA WriteStatusKeeps ==
  ASSUME Inv, NEW r \in Requests, WriteStatus(r)
  PROVE  Inv'
<1> DEFINE c == Call(r)
<1>1. Busy(r) /\ c.at = "status" /\ IsFee(c) /\ CallKnows(c)
  BY FeeInHand DEF WriteStatus
<1>2. /\ Return(r) /\ UNCHANGED <<event, entries, serial, books, checkouts, captured>>
      /\ paid' = Status(c)
      /\ deliveries' = IF c.hook THEN deliveries \ {<<c.no, c.provider>>} ELSE deliveries
  BY DEF WriteStatus
<1>3. /\ RegistrationInv'
      /\ \A o \in Requests : \A d : request'[o] = <<d>> /\ IsFee(d) => request[o] = <<d>>
  BY <1>1, <1>2, FeeReturns
<1>4. \A n : Settled(n) => Settled(n)'
  BY <1>2 DEF Settled
<1>5. paid \subseteq paid' /\ \A n \in paid' \ paid : n = c.no /\ c.settles = TRUE /\ Exists(n)
  BY <1>1, <1>2 DEF Status, IsFee
<1>6. \A n \in paid' \ paid : n \in 1..serial /\ (Exists(n) => Settled(n)')
  BY <1>1, <1>4, <1>5 DEF CallKnows
<1>7. ASSUME NEW n \in 1..serial, NEW p \in Providers,
             <<n, p>> \in deliveries \ deliveries', Exists(n)
      PROVE  n \in paid'
  <2>1. c.hook = TRUE /\ n = c.no
    BY <1>1, <1>2, <1>7 DEF IsFee
  <2> QED
    BY <1>1, <1>2, <1>7, <2>1 DEF Status, IsFee
<1>8. checkouts' \subseteq Reported /\ deliveries' \subseteq Reported
  BY <1>2 DEF Inv, FeesInv
<1> QED
  BY <1>2, <1>3, <1>4, <1>5, <1>6, <1>7, <1>8, MoneyMoves

-----------------------------------------------------------------------------
LEMMA StutterKeeps ==
  ASSUME Inv, UNCHANGED <<base, fees>>
  PROVE  Inv'
<1>1. UNCHANGED <<event, entries, serial, lock, request, books, paid, checkouts, captured, deliveries>>
  BY DEF base, fees
<1>2. RegistrationInv'
  BY <1>1, Untouched DEF Inv
<1>3. \A n : Settled(n) => Settled(n)'
  BY <1>1 DEF Settled
<1> QED
  BY <1>1, <1>2, <1>3, MoneyMoves DEF Inv, FeesInv

LEMMA StepInv ==
  ASSUME Inv, [NextFees]_<<base, fees>>
  PROVE  Inv'
<1>1. CASE Registering
  BY <1>1, RegisteringKeeps
<1>2. ASSUME NEW r \in Requests, NEW e \in entries,
             \/ CollectPaymentManually(r, e.no)
             \/ \E p \in Providers : CollectPayment(r, e.no, p)
             \/ CapturePayPalOrder(r, e.no)
      PROVE  Inv'
  BY <1>2, CollectKeeps, CapturePayPalOrderKeeps
<1>3. ASSUME NEW c \in checkouts, Complete(c) PROVE Inv'
  BY <1>3, CompleteKeeps
<1>4. ASSUME NEW r \in Requests, NEW c \in deliveries, Deliver(r, c) PROVE Inv'
  BY <1>4, DeliverKeeps
<1>5. ASSUME NEW r \in Requests, Look(r) \/ Book(r) \/ WriteStatus(r) PROVE Inv'
  BY <1>5, LookKeeps, BookKeeps, WriteStatusKeeps
<1>6. CASE UNCHANGED <<base, fees>>
  BY <1>6, StutterKeeps
<1> QED
  BY <1>1, <1>2, <1>3, <1>4, <1>5, <1>6 DEF NextFees

LEMMA InvHolds == FeesSpec => []Inv
<1>1. InitFees => Inv
  BY InitInv
<1>2. Inv /\ [NextFees]_<<base, fees>> => Inv'
  BY StepInv
<1> QED
  BY <1>1, <1>2, PTL DEF FeesSpec

\* Sign-ups racing for the last places never exceed the cap, with any number of
\* people, requests, partners, additions, promotions, failures and restarts
\* (RegisterPlayer's lock, service.go:5017).
THEOREM CapHeldHolds == FeesSpec => []CapHeld
<1>1. Inv => CapHeld
  BY InvImplies
<1> QED
  BY <1>1, InvHolds, PTL

\* A paid registration has its payment in the books, and captured money is
\* settled once its report is acknowledged, with any number of registrations,
\* captures and repeated webhooks (recordPayment, service.go:9978).
THEOREM FeesSettledHolds == FeesSpec => []FeesSettled
<1>1. Inv => FeesSettled
  BY InvImplies
<1> QED
  BY <1>1, InvHolds, PTL

-----------------------------------------------------------------------------
(* Who is entered.                                                          *)

OwnPhones == \A p, q \in People : PhoneOf[p] = PhoneOf[q] => p = q

-----------------------------------------------------------------------------
(* The inductive invariant.                                                 *)

\* A row of players, a row of the waitlist or a sign-up is about somebody, with
\* their own phone and account or none.
IsPerson(x) ==
    /\ {"who", "phone", "user"} \subseteq DOMAIN x
    /\ x.who \in People
    /\ x.phone \in {PhoneOf[x.who], NoPhone}
    /\ x.user = Nobody \/ (x.user = x.who /\ x.who \in Accounts)

\* Until linkPartner has found the partner's row, mate is who they are.
Pairing == {"pair", "pair alone", "pair back"}

Applies(c) ==
    /\ IsPerson(c)
    /\ {"div", "from"} \subseteq DOMAIN c
    /\ c.at \notin Pairing => c.mate \in People \cup {Nobody}
    /\ c.at = "partner" => c.mate # Nobody

PlayersOK ==
    /\ \E S : players \in Seq(S)
    /\ \A i \in Rows : IsPerson(players[i])

BudgetOK ==
    /\ left = [b \in Budgets |-> left[b]]
    /\ event.faults \in Nat /\ left["faults"] \in Nat
    /\ left["faults"] <= event.faults

\* Who may be registered under two rows.
Twofold(p) == p \in Accounts \/ left["faults"] < event.faults

Registered(i) == \E e \in entries : e.row = i
Reachable(i, p) == i \in Rows /\ players[i].phone = PhoneOf[p]

\* Entries are about rows, and known ones about rows with their phone.
RowsOK ==
    \A e \in entries :
        /\ {"no", "row", "approved", "partner", "div", "who", "how", "known"} \subseteq DOMAIN e
        /\ e.row \in Rows
        /\ e.known \in BOOLEAN
        /\ e.known = TRUE => e.who \in People /\ Reachable(e.row, e.who)

RowOnce == \A e, f \in entries : e.div = f.div /\ e.row = f.row => e = f

KnownOnce ==
    \A e, f \in entries :
        e # f /\ e.div = f.div /\ e.who = f.who /\ e.known = TRUE /\ f.known = TRUE
            => "partner" \in {e.how, f.how} /\ Twofold(e.who)

OneRow ==
    \A p \in People : ~Twofold(p) =>
        \A i, j \in Rows : /\ Registered(i) /\ Reachable(i, p)
                           /\ Registered(j) /\ Reachable(j, p)
                           => i = j

\* What the holder of the lock found out: who signs up with a phone is not known
\* in the division, and the row found for them is theirs alone.
NotYet(c) == \A e \in entries : e.known = TRUE /\ e.who = c.who => e.div # c.div

Knows(c) ==
    /\ c.at \in {"cap", "row", "insert"} /\ c.phone # NoPhone => NotYet(c)
    /\ c.at = "insert" =>
          /\ c.row \in Rows
          /\ players[c.row].phone # NoPhone =>
                /\ Reachable(c.row, c.who)
                /\ ~Twofold(c.who) => \A i \in Rows : Registered(i) /\ Reachable(i, c.who)
                                                         => i = c.row

Fit(c) == (IsSignUp(c) => Applies(c)) /\ Knows(c)

EntriesSound == RowsOK /\ RowOnce /\ KnownOnce /\ OneRow

PeopleInv ==
    /\ PlayersOK /\ BudgetOK
    /\ \A w \in waitlist : IsPerson(w)
    /\ EntriesSound
    /\ \A r \in Requests : \A c : request[r] = <<c>> => Fit(c)

-----------------------------------------------------------------------------
(* Steps that add no entry and touch no player's row.                       *)

Spends == left' = left \/ \E b \in Budgets : Spend(b)

\* Entries that are rewritten or deleted.
Alike(e, f) ==
    /\ DOMAIN e = DOMAIN f
    /\ e.row = f.row /\ e.div = f.div /\ e.who = f.who /\ e.how = f.how /\ e.known = f.known
Remain == \E h : /\ entries' \subseteq {h[e] : e \in entries}
                 /\ \A e \in entries : Alike(e, h[e])

LEMMA BudgetKept ==
  ASSUME BudgetOK, event' = event, Spends
  PROVE  BudgetOK' /\ \A p : Twofold(p) => Twofold(p)'
<1>1. CASE left' = left
  BY <1>1 DEF BudgetOK, Twofold
<1>2. ASSUME NEW b \in Budgets, Spend(b)
      PROVE  BudgetOK' /\ \A p : Twofold(p) => Twofold(p)'
  <2>1. left' = [x \in Budgets |-> left'[x]]
    BY <1>2 DEF Spend, BudgetOK
  <2>2. /\ "faults" \in Budgets
        /\ left'["faults"] = IF b = "faults" THEN left["faults"] - 1 ELSE left["faults"]
        /\ b = "faults" => left["faults"] > 0
    BY <1>2 DEF Spend, BudgetOK, Budgets
  <2>3. left'["faults"] \in Nat /\ left'["faults"] <= left["faults"] /\ left'["faults"] <= event.faults
    BY <2>2 DEF BudgetOK
  <2> QED
    BY <2>1, <2>3 DEF BudgetOK, Twofold
<1> QED
  BY <1>1, <1>2 DEF Spends

\* A failed statement leaves nobody without a second row.
LEMMA FaultSpent ==
  ASSUME BudgetOK, event' = event, Spend("faults")
  PROVE  /\ BudgetOK' /\ \A p : Twofold(p)'
<1>1. left' = [x \in Budgets |-> left'[x]] /\ left["faults"] > 0
      /\ left'["faults"] = left["faults"] - 1
  BY DEF Spend, BudgetOK, Budgets
<1> QED
  BY <1>1 DEF BudgetOK, Twofold

LEMMA EntriesRemain ==
  ASSUME PeopleInv, Remain, players' = players, \A p : Twofold(p) => Twofold(p)'
  PROVE  /\ EntriesSound'
         /\ \A i : Registered(i)' => Registered(i)
         /\ \A c : NotYet(c) => NotYet(c)'
<1>1. PICK h : /\ entries' \subseteq {h[e] : e \in entries}
               /\ \A e \in entries : Alike(e, h[e])
  BY DEF Remain
<1>2. \A f \in entries' : \E e \in entries : f = h[e] /\ Alike(e, f)
  BY <1>1
<1>3. RowsOK'
  BY <1>2 DEF PeopleInv, EntriesSound, RowsOK, Alike, Reachable, Rows
<1>4. RowOnce'
  <2> SUFFICES ASSUME NEW e \in entries', NEW f \in entries', e.div = f.div, e.row = f.row
               PROVE  e = f
    BY DEF RowOnce
  <2>1. PICK a \in entries : e = h[a] /\ Alike(a, e)
    BY <1>2
  <2>2. PICK b \in entries : f = h[b] /\ Alike(b, f)
    BY <1>2
  <2>3. a = b
    BY <2>1, <2>2 DEF PeopleInv, EntriesSound, RowOnce, Alike
  <2> QED
    BY <2>1, <2>2, <2>3
<1>5. KnownOnce'
  <2> SUFFICES ASSUME NEW e \in entries', NEW f \in entries', e # f, e.div = f.div, e.who = f.who,
                      e.known = TRUE, f.known = TRUE
               PROVE  "partner" \in {e.how, f.how} /\ Twofold(e.who)'
    BY DEF KnownOnce
  <2>1. PICK a \in entries : e = h[a] /\ Alike(a, e)
    BY <1>2
  <2>2. PICK b \in entries : f = h[b] /\ Alike(b, f)
    BY <1>2
  <2>3. a # b /\ a.div = b.div /\ a.who = b.who /\ a.known = TRUE /\ b.known = TRUE
    BY <2>1, <2>2 DEF Alike
  <2>4. "partner" \in {a.how, b.how} /\ Twofold(a.who)
    BY <2>3 DEF PeopleInv, EntriesSound, KnownOnce
  <2> QED
    BY <2>1, <2>2, <2>4 DEF Alike
<1>6. \A i : Registered(i)' => Registered(i)
  BY <1>2 DEF Registered, Alike
<1>7. OneRow'
  BY <1>6 DEF PeopleInv, EntriesSound, OneRow, Reachable, Rows
<1>8. \A c : NotYet(c) => NotYet(c)'
  BY <1>2 DEF NotYet, Alike
<1> QED
  BY <1>3, <1>4, <1>5, <1>6, <1>7, <1>8 DEF EntriesSound

LEMMA FitKept ==
  ASSUME NEW c, Fit(c), players' = players, \A p : Twofold(p) => Twofold(p)',
         \A i : Registered(i)' => Registered(i), NotYet(c) => NotYet(c)'
  PROVE  Fit(c)'
<1>1. Knows(c)'
  BY DEF Fit, Knows, Reachable, Rows
<1> QED
  BY <1>1 DEF Fit, IsSignUp, Applies, IsPerson

\* A step of any kind that adds no entry and touches no player's row.
LEMMA Quiet ==
  ASSUME PeopleInv, Remain, Spends, UNCHANGED <<event, players>>,
         \A w \in waitlist' : IsPerson(w),
         \A r \in Requests : \A c : request'[r] = <<c>> => request[r] = <<c>> \/ Fit(c)
  PROVE  PeopleInv'
<1>1. BudgetOK' /\ \A p : Twofold(p) => Twofold(p)'
  BY BudgetKept DEF PeopleInv
<1>2. /\ EntriesSound'
      /\ \A i : Registered(i)' => Registered(i)
      /\ \A c : NotYet(c) => NotYet(c)'
  BY <1>1, EntriesRemain
<1>3. \A r \in Requests : \A c : request'[r] = <<c>> => Fit(c)
  BY DEF PeopleInv
<1>4. \A r \in Requests : \A c : request'[r] = <<c>> => Fit(c)'
  BY <1>1, <1>2, <1>3, FitKept
<1>5. PlayersOK'
  BY DEF PeopleInv, PlayersOK, Rows, IsPerson
<1>6. \A w \in waitlist' : IsPerson(w)'
  BY DEF IsPerson
<1> QED
  BY <1>1, <1>2, <1>4, <1>5, <1>6 DEF PeopleInv

LEMMA NothingRemoved ==
  ASSUME entries' \subseteq entries
  PROVE  Remain
<1> DEFINE h == [e \in entries |-> e]
<1>1. entries' \subseteq {h[e] : e \in entries} /\ \A e \in entries : Alike(e, h[e])
  BY DEF Alike
<1> HIDE DEF h
<1> QED
  BY <1>1 DEF Remain

\* A request goes on, and nothing else changes.
LEMMA OnlyRequest ==
  ASSUME RegistrationInv, PeopleInv, NEW r \in Requests, NEW s, \A c : s = <<c>> => Fit(c),
         request' = [request EXCEPT ![r] = s], Spends, entries' \subseteq entries,
         waitlist' \subseteq waitlist, UNCHANGED <<event, players>>
  PROVE  PeopleInv'
<1>1. \A o \in Requests : request'[o] = IF o = r THEN s ELSE request[o]
  BY DEF RegistrationInv, Shape, RequestsOK
<1>2. \A o \in Requests : \A c : request'[o] = <<c>> => request[o] = <<c>> \/ Fit(c)
  BY <1>1
<1>3. \A w \in waitlist' : IsPerson(w)
  BY DEF PeopleInv
<1> QED
  BY <1>2, <1>3, NothingRemoved, Quiet

\* A request returns.
LEMMA OnlyReturns ==
  ASSUME RegistrationInv, PeopleInv, NEW r \in Requests, Busy(r), Call(r).at # "lock", Return(r),
         Spends, entries' \subseteq entries, waitlist' \subseteq waitlist,
         UNCHANGED <<event, players>>
  PROVE  PeopleInv'
<1>1. request' = [request EXCEPT ![r] = <<>>]
  BY Returned DEF RegistrationInv, Shape
<1>2. \A c : <<>> = <<c>> => Fit(c)
  OBVIOUS
<1> QED
  BY <1>1, <1>2, OnlyRequest

-----------------------------------------------------------------------------
(* Requests that begin, and sign-ups up to the search for the row.          *)

LEMMA Spending ==
  ASSUME NEW b \in Budgets, Spend(b)
  PROVE  Spends
  BY DEF Spends

LEMMA Applicant ==
  ASSUME NEW x, IsPerson(x), NEW div, NEW capped, NEW trusted,
         NEW mate \in People \cup {Nobody}, NEW from
  PROVE  Fit(SignUp(x.who, x.phone, div, capped, trusted, x.user, mate, from))
<1> DEFINE c == SignUp(x.who, x.phone, div, capped, trusted, x.user, mate, from)
<1>1. /\ c.at = "lock" /\ c.who = x.who /\ c.phone = x.phone /\ c.user = x.user /\ c.mate = mate
      /\ {"who", "phone", "user", "div", "from"} \subseteq DOMAIN c
  BY DEF SignUp
<1> HIDE DEF c
<1>2. Applies(c) /\ Knows(c)
  BY <1>1 DEF IsPerson, Applies, Pairing, Knows
<1> QED
  BY <1>2 DEF Fit, c

LEMMA RegisterKept ==
  ASSUME RegistrationInv, PeopleInv, NEW r \in Requests, NEW who \in People, NEW div, NEW self,
         NEW user, NEW mate \in People \cup {Nobody}, Register(r, who, div, self, user, mate)
  PROVE  PeopleInv'
<1> DEFINE x == [who |-> who, phone |-> PhoneOf[who], user |-> user]
           capped == self /\ event.cap > 0
           trusted == user \in event.organizers
           c == SignUp(who, PhoneOf[who], div, capped, trusted, user, mate, 0)
<1>1. IsPerson(x)
  BY DEF Register, IsPerson
<1>2. Fit(c)
  <2> HIDE DEF capped, trusted
  <2>1. Fit(SignUp(x.who, x.phone, div, capped, trusted, x.user, mate, 0))
    BY <1>1, Applicant
  <2> QED
    BY <2>1
<1>3. Fit(c)
  BY <1>2
<1>4. /\ request' = [request EXCEPT ![r] = <<c>>] /\ Spends
      /\ UNCHANGED <<event, players, entries, waitlist>>
  BY Spending DEF Register, Budgets
<1> HIDE DEF c
<1> QED
  BY <1>3, <1>4, OnlyRequest

LEMMA AddKept ==
  ASSUME RegistrationInv, PeopleInv, NEW r \in Requests, NEW who \in People, NEW div, NEW phone,
         Add(r, who, div, phone)
  PROVE  PeopleInv'
<1> DEFINE x == [who |-> who, phone |-> phone, user |-> Nobody]
           c == SignUp(who, phone, div, FALSE, TRUE, Nobody, Nobody, 0)
<1>1. IsPerson(x)
  BY DEF Add, IsPerson
<1>2. Fit(SignUp(x.who, x.phone, div, FALSE, TRUE, x.user, Nobody, 0))
  BY <1>1, Applicant
<1>3. Fit(c)
  BY <1>2
<1>4. /\ request' = [request EXCEPT ![r] = <<c>>] /\ Spends
      /\ UNCHANGED <<event, players, entries, waitlist>>
  BY Spending DEF Add, Budgets
<1> HIDE DEF c
<1> QED
  BY <1>3, <1>4, OnlyRequest

LEMMA PromoteKept ==
  ASSUME RegistrationInv, PeopleInv, NEW r \in Requests, NEW w \in waitlist, Promote(r, w)
  PROVE  PeopleInv'
<1> DEFINE c == SignUp(w.who, w.phone, w.div, FALSE, TRUE, w.user, Nobody, w.no)
<1>1. Fit(c)
  BY Applicant DEF PeopleInv
<1>2. /\ request' = [request EXCEPT ![r] = <<c>>] /\ Spends
      /\ UNCHANGED <<event, players, entries, waitlist>>
  BY Spending DEF Promote, Budgets
<1> HIDE DEF c
<1> QED
  BY <1>1, <1>2, OnlyRequest

LEMMA ApproveReadKept ==
  ASSUME RegistrationInv, PeopleInv, NEW r \in Requests, NEW e, ApproveRead(r, e)
  PROVE  PeopleInv'
<1> DEFINE c == [at |-> "approve", no |-> e.no, mate |-> e.partner]
<1>1. c.at \in {"approve", "approve mate", "look", "book", "status"}
  OBVIOUS
<1>2. /\ request' = [request EXCEPT ![r] = <<c>>] /\ Spends
      /\ UNCHANGED <<event, players, entries, waitlist>>
  BY DEF ApproveRead, Spends
<1> HIDE DEF c
<1>3. Fit(c)
  BY <1>1 DEF Fit, Knows, IsSignUp, Held
<1>4. \A x : <<c>> = <<x>> => Fit(x)
  BY <1>3
<1> QED
  BY <1>2, <1>4, OnlyRequest

\* A sign-up at its next statement is about the same person.
LEMMA StillApplies ==
  ASSUME NEW c, IsSignUp(c), Applies(c), NEW d, DOMAIN d = DOMAIN c, d.who = c.who,
         d.phone = c.phone, d.user = c.user,
         d.at \notin Pairing => d.mate = c.mate /\ c.at \notin Pairing,
         d.at = "partner" => c.mate # Nobody
  PROVE  Applies(d)
  BY DEF Applies, IsPerson, Pairing

LEMMA AcquireKept ==
  ASSUME RegistrationInv, PeopleInv, NEW r \in Requests, Acquire(r)
  PROVE  PeopleInv'
<1>1. RequestsOK /\ IsRequest(request[r]) /\ request[r] # <<>> /\ lock = Free
  BY DEF RegistrationInv, Shape, RequestsOK, Acquire, At, Busy
<1>2. ~\E c, d : Within(request[r], c, d)
  BY <1>1 DEF Within, RequestsOK, HoldsLock
<1>3. PICK c : request[r] = <<c>> /\ IsCall(c)
  BY <1>1, <1>2 DEF IsRequest
<1>4. c.at = "lock" /\ IsSignUp(c)
  <2>1. Head(request[r]) = c
    BY <1>3
  <2> QED
    BY <1>3, <2>1, KindOfCall DEF Acquire, At, Call
<1> DEFINE d == [c EXCEPT !.at = "dup"]
<1>5. /\ DOMAIN d = DOMAIN c /\ d.who = c.who /\ d.phone = c.phone /\ d.user = c.user
      /\ d.mate = c.mate /\ d.at = "dup"
  BY <1>4 DEF IsSignUp
<1>6. request' = [request EXCEPT ![r] = <<d>>]
  <2>1. [request[r] EXCEPT ![1].at = "dup"] = <<d>>
    BY <1>3
  <2> QED
    BY <2>1 DEF Acquire, GoTo
<1> HIDE DEF d
<1>7. Applies(c)
  BY <1>3, <1>4 DEF PeopleInv, Fit
<1>8. Applies(d)
  BY <1>4, <1>5, <1>7, StillApplies DEF Pairing
<1>9. Fit(d)
  BY <1>5, <1>8 DEF Fit, Knows
<1>10. UNCHANGED <<event, players, entries, waitlist>> /\ Spends
  BY DEF Acquire, Spends
<1> QED
  BY <1>6, <1>9, <1>10, OnlyRequest

\* A sign-up past the lock, with what it knows.
LEMMA HandFits ==
  ASSUME RegistrationInv, PeopleInv, NEW r \in Requests, NEW pc \in Held, At(r, pc)
  PROVE  /\ Busy(r) /\ Call(r).at = pc /\ IsSignUp(Call(r)) /\ request[r] = <<Call(r)>>
         /\ Applies(Call(r)) /\ Knows(Call(r))
<1>1. /\ Busy(r) /\ Call(r).at = pc /\ IsSignUp(Call(r)) /\ request[r] = <<Call(r)>>
  BY InHand
<1> QED
  BY <1>1 DEF PeopleInv, Fit

\* Whoever is known in the division has a row there with their phone.
LEMMA NotKnown ==
  ASSUME PeopleInv, OwnPhones, NEW c, IsPerson(c), ~KnownIn(c.who, c.phone, c.div), c.phone # NoPhone
  PROVE  NotYet(c)
<1> SUFFICES ASSUME NEW e \in entries, e.known = TRUE, e.who = c.who, e.div = c.div
             PROVE  FALSE
  BY DEF NotYet
<1>1. e.row \in Rows /\ players[e.row].phone = PhoneOf[e.who]
  BY DEF PeopleInv, EntriesSound, RowsOK, Reachable
<1>2. c.phone = PhoneOf[c.who]
  BY DEF IsPerson
<1>3. players[e.row].who = c.who
  BY <1>1, <1>2 DEF PeopleInv, PlayersOK, IsPerson, OwnPhones
<1> QED
  BY <1>1, <1>2, <1>3 DEF KnownIn, Entered, In

LEMMA CheckContactKept ==
  ASSUME RegistrationInv, PeopleInv, OwnPhones, NEW r \in Requests, CheckContact(r)
  PROVE  PeopleInv'
<1> DEFINE c == Call(r)
<1>1. /\ Busy(r) /\ c.at = "dup" /\ IsSignUp(c) /\ request[r] = <<c>> /\ Applies(c)
      /\ UNCHANGED <<event, players, entries, waitlist>>
  BY HandFits DEF CheckContact, Held
<1>0. Spends
  BY Spending DEF CheckContact, Budgets, Spends
<1>2. CASE Return(r)
  BY <1>0, <1>1, <1>2, OnlyReturns
<1>3. ASSUME NEW pc \in {"cap", "row"}, NEW gated, ~KnownIn(c.who, c.phone, c.div),
             request' = [request EXCEPT ![r][1].gated = gated, ![r][1].at = pc]
      PROVE  PeopleInv'
  <2> DEFINE d == [c EXCEPT !.gated = gated, !.at = pc]
  <2>1. /\ DOMAIN d = DOMAIN c /\ d.who = c.who /\ d.phone = c.phone /\ d.user = c.user
        /\ d.mate = c.mate /\ d.at = pc /\ d.div = c.div
    BY <1>1 DEF IsSignUp, Applies, IsPerson
  <2>2. request' = [request EXCEPT ![r] = <<d>>]
    <3>1. PICK x, y : x = c /\ y = [x EXCEPT !.gated = gated]
      OBVIOUS
    <3>2. RequestsOK /\ request[r] = <<x>>
      BY <1>1, <3>1 DEF RegistrationInv, Shape
    <3>3. [request[r] EXCEPT ![1].gated = gated] = <<y>>
      BY <3>1, <3>2
    <3>4. [<<y>> EXCEPT ![1].at = pc] = <<[y EXCEPT !.at = pc]>>
      OBVIOUS
    <3>5. [request EXCEPT ![r][1].gated = gated, ![r][1].at = pc]
             = [request EXCEPT ![r] = [[request[r] EXCEPT ![1].gated = gated] EXCEPT ![1].at = pc]]
      BY <3>2 DEF RequestsOK
    <3> QED
      BY <1>3, <3>1, <3>3, <3>4, <3>5
  <2> HIDE DEF c, d
  <2>3. Applies(d)
    BY <1>1, <2>1, StillApplies DEF Pairing
  <2>4. d.phone # NoPhone => NotYet(d)
    BY <1>1, <1>3, <2>1, NotKnown DEF Applies, NotYet
  <2>5. Fit(d)
    BY <2>1, <2>3, <2>4 DEF Fit, Knows
  <2> QED
    BY <1>0, <1>1, <2>2, <2>5, OnlyRequest
<1> DEFINE pc == IF c.capped THEN "cap" ELSE "row"
<1>4. ASSUME NEW gated, ~KnownIn(c.who, c.phone, c.div),
             request' = [request EXCEPT ![r][1].gated = gated, ![r][1].at = pc]
      PROVE  PeopleInv'
  <2>1. pc \in {"cap", "row"}
    OBVIOUS
  <2> HIDE DEF pc
  <2> QED
    BY <1>3, <1>4, <2>1
<1> QED
  BY <1>2, <1>4 DEF CheckContact

LEMMA CheckCapKept ==
  ASSUME RegistrationInv, PeopleInv, NEW r \in Requests, CheckCap(r)
  PROVE  PeopleInv'
<1> DEFINE c == Call(r)
           Goes(counted) == request' = [request EXCEPT ![r][1].at = "row", ![r][1].counted = counted]
<1>1. /\ Busy(r) /\ c.at = "cap" /\ IsSignUp(c) /\ request[r] = <<c>> /\ Applies(c) /\ Knows(c)
      /\ UNCHANGED <<event, players, entries, waitlist>>
  BY HandFits DEF CheckCap, Held
<1>2. Spends
  BY Spending DEF CheckCap, Budgets, Spends
<1>3. CASE Return(r)
  BY <1>1, <1>2, <1>3, OnlyReturns
<1>4. ASSUME NEW counted, Goes(counted) PROVE PeopleInv'
  <2> DEFINE d == [c EXCEPT !.at = "row", !.counted = counted]
             x == [c EXCEPT !.at = "row"]
  <2>1. /\ DOMAIN d = DOMAIN c /\ d.who = c.who /\ d.phone = c.phone /\ d.user = c.user
        /\ d.mate = c.mate /\ d.at = "row" /\ d.div = c.div
    BY <1>1 DEF IsSignUp, Applies, IsPerson
  <2>2. request' = [request EXCEPT ![r] = <<d>>]
    <3>1. [request[r] EXCEPT ![1].at = "row"] = <<x>>
      BY <1>1
    <3>2. [<<x>> EXCEPT ![1].counted = counted] = <<[x EXCEPT !.counted = counted]>>
      OBVIOUS
    <3>3. [request EXCEPT ![r][1].at = "row", ![r][1].counted = counted]
             = [request EXCEPT ![r] = [request[r] EXCEPT ![1].at = "row", ![1].counted = counted]]
      BY DEF RegistrationInv, Shape, RequestsOK
    <3> QED
      BY <1>4, <3>1, <3>2, <3>3
  <2> HIDE DEF c, d
  <2>3. Applies(d)
    BY <1>1, <2>1, StillApplies DEF Pairing
  <2>4. Fit(d)
    BY <1>1, <2>1, <2>3 DEF Fit, Knows, NotYet
  <2> QED
    BY <1>1, <1>2, <2>2, <2>4, OnlyRequest
<1> QED
  BY <1>3, <1>4 DEF CheckCap

-----------------------------------------------------------------------------
(* The player's row.                                                        *)

\* The account with somebody's phone is theirs.
LEMMA LinkedIsTheirs ==
  ASSUME OwnPhones, NEW c, IsPerson(c), NEW u \in LinkedTo(c)
  PROVE  u = c.who /\ c.who \in Accounts
<1>1. c.phone # NoPhone /\ u \in AccountFor(c.phone)
  BY DEF LinkedTo
<1>2. u \in Accounts /\ PhoneOf[u] = c.phone
  BY <1>1 DEF AccountFor
<1> QED
  BY <1>1, <1>2 DEF IsPerson, OwnPhones

LEMMA AccountIsTheirs ==
  ASSUME OwnPhones, NEW c, IsPerson(c)
  PROVE  AccountOf(c) = Nobody \/ (AccountOf(c) = c.who /\ c.who \in Accounts)
<1>1. CASE c.user # Nobody
  BY <1>1 DEF AccountOf, IsPerson
<1>2. CASE c.user = Nobody /\ LinkedTo(c) # {}
  <2>1. AccountOf(c) \in LinkedTo(c)
    BY <1>2 DEF AccountOf
  <2> QED
    BY <2>1, LinkedIsTheirs
<1>3. CASE c.user = Nobody /\ LinkedTo(c) = {}
  BY <1>3 DEF AccountOf
<1> QED
  BY <1>1, <1>2, <1>3

LEMMA RowOfAccount ==
  ASSUME PlayersOK, NEW u, NEW i \in RowsOf(u)
  PROVE  i \in Rows /\ players[i].who = u
  BY DEF RowsOf, PlayersOK, IsPerson

LEMMA RowIsTheirs ==
  ASSUME PlayersOK, OwnPhones, NEW c, IsPerson(c), NEW i \in KnownRows(c) \cup Registrants(c.phone)
  PROVE  i \in Rows /\ players[i].who = c.who
<1>1. CASE i \in Registrants(c.phone)
  <2>1. i \in Rows /\ players[i].phone = c.phone /\ c.phone # NoPhone
    BY <1>1 DEF Registrants
  <2> QED
    BY <2>1 DEF PlayersOK, IsPerson, OwnPhones
<1>2. CASE i \in RowsOf(c.user)
  <2>1. c.user # Nobody
    BY <1>2 DEF RowsOf
  <2> QED
    BY <1>2, <2>1, RowOfAccount DEF IsPerson
<1>3. CASE i \in Linked(c)
  <2>1. PICK u \in LinkedTo(c) : i \in RowsOf(u)
    BY <1>3 DEF Linked
  <2> QED
    BY <2>1, RowOfAccount, LinkedIsTheirs
<1> QED
  BY <1>1, <1>2, <1>3 DEF KnownRows

\* Who has no account is looked for by their phone only.
LEMMA GuestRows ==
  ASSUME OwnPhones, NEW c, IsPerson(c), c.who \notin Accounts
  PROVE  KnownRows(c) = Registrants(c.phone)
<1>1. c.user = Nobody
  BY DEF IsPerson
<1>2. Linked(c) = {}
  BY LinkedIsTheirs DEF Linked
<1> QED
  BY <1>1, <1>2 DEF KnownRows

\* Rows are added, and an account's row gets its phone, by the holder of the lock.
Grown(i) ==
    \/ players'[i].phone = players[i].phone
    \/ /\ players[i].phone = NoPhone /\ players[i].who \in Accounts
       /\ players'[i].phone = PhoneOf[players[i].who]

LEMMA RowsGrow ==
  ASSUME RegistrationInv, PeopleInv, OwnPhones, NEW r \in Requests, lock = r,
         PlayersOK', Rows \subseteq Rows', \A i \in Rows : Grown(i),
         UNCHANGED <<event, entries, waitlist>>, Spends,
         NEW d, request' = [request EXCEPT ![r] = <<d>>], Fit(d)'
  PROVE  PeopleInv'
<1>1. BudgetOK' /\ \A p : Twofold(p) => Twofold(p)'
  BY BudgetKept DEF PeopleInv
<1>2. \A i \in Rows : players[i].phone # NoPhone => players'[i].phone = players[i].phone
  BY DEF Grown
<1>3. \A i : \A p \in People : Reachable(i, p) => Reachable(i, p)'
  BY <1>2 DEF Reachable
<1>4. RowsOK'
  BY <1>3 DEF PeopleInv, EntriesSound, RowsOK
<1>5. RowOnce' /\ KnownOnce'
  BY <1>1 DEF PeopleInv, EntriesSound, RowOnce, KnownOnce
<1>6. ASSUME NEW p \in People, ~Twofold(p)', NEW i, Registered(i)', Reachable(i, p)'
      PROVE  Registered(i) /\ Reachable(i, p)
  <2>1. Registered(i) /\ i \in Rows
    BY <1>6 DEF Registered, PeopleInv, EntriesSound, RowsOK
  <2>2. p \notin Accounts /\ players'[i].phone = PhoneOf[p]
    BY <1>6 DEF Twofold, Reachable
  <2>3. players[i].phone = PhoneOf[p]
    BY <2>1, <2>2 DEF Grown, OwnPhones
  <2> QED
    BY <2>1, <2>3 DEF Reachable
<1>7. OneRow'
  <2> SUFFICES ASSUME NEW p \in People, ~Twofold(p)', NEW i \in Rows', NEW j \in Rows',
                      Registered(i)', Reachable(i, p)', Registered(j)', Reachable(j, p)'
               PROVE  i = j
    BY DEF OneRow
  <2>1. Registered(i) /\ Reachable(i, p) /\ Registered(j) /\ Reachable(j, p)
    BY <1>6
  <2>2. ~Twofold(p)
    BY <1>1
  <2> QED
    BY <2>1, <2>2 DEF PeopleInv, EntriesSound, OneRow, Reachable
<1>8. ASSUME NEW o \in Requests, NEW c, request'[o] = <<c>> PROVE Fit(c)'
  <2>1. request'[o] = IF o = r THEN <<d>> ELSE request[o]
    BY DEF RegistrationInv, Shape, RequestsOK
  <2>2. CASE o = r
    BY <1>8, <2>1, <2>2
  <2>3. CASE o # r
    <3>1. ~HoldsLock(request[o]) /\ request[o] = <<c>>
      BY <1>8, <2>1, <2>3 DEF RegistrationInv, Shape, RequestsOK
    <3>2. c.at \notin Held
      BY <3>1 DEF HoldsLock
    <3>3. Knows(c)'
      BY <3>2 DEF Knows, Held
    <3>4. IsSignUp(c) => Applies(c)
      BY <3>1 DEF PeopleInv, Fit
    <3> QED
      BY <3>3, <3>4 DEF Fit, IsSignUp, Applies, IsPerson
  <2> QED
    BY <2>2, <2>3
<1>9. \A w \in waitlist' : IsPerson(w)'
  BY DEF PeopleInv, IsPerson
<1> QED
  BY <1>1, <1>4, <1>5, <1>7, <1>8, <1>9 DEF PeopleInv, EntriesSound

\* A sign-up that has found its row.
LEMMA FoundRequest ==
  ASSUME RegistrationInv, PeopleInv, NEW r \in Requests, At(r, "row"), NEW row, Found(r, row)
  PROVE  \E d : /\ request' = [request EXCEPT ![r] = <<d>>]
               /\ Applies(d)
               /\ d.at = "insert" /\ d.row = row /\ d.div = Call(r).div
               /\ d.who = Call(r).who /\ d.phone = Call(r).phone
<1> DEFINE c == Call(r)
           x == [c EXCEPT !.at = "insert"]
           d == [c EXCEPT !.at = "insert", !.row = row]
<1>1. c.at = "row" /\ IsSignUp(c) /\ request[r] = <<c>> /\ Applies(c)
  BY HandFits DEF Held
<1>2. /\ DOMAIN d = DOMAIN c /\ d.who = c.who /\ d.phone = c.phone /\ d.user = c.user
      /\ d.mate = c.mate /\ d.at = "insert" /\ d.row = row /\ d.div = c.div
  BY <1>1 DEF IsSignUp, Applies, IsPerson
<1>3. request' = [request EXCEPT ![r] = <<d>>]
  <2>1. [request[r] EXCEPT ![1].at = "insert"] = <<x>>
    BY <1>1
  <2>2. [<<x>> EXCEPT ![1].row = row] = <<[x EXCEPT !.row = row]>>
    OBVIOUS
  <2>3. [request EXCEPT ![r][1].at = "insert", ![r][1].row = row]
           = [request EXCEPT ![r] = [request[r] EXCEPT ![1].at = "insert", ![1].row = row]]
    BY DEF RegistrationInv, Shape, RequestsOK
  <2> QED
    BY <2>1, <2>2, <2>3 DEF Found
<1> HIDE DEF c, d
<1>4. Applies(d)
  BY <1>1, <1>2, StillApplies DEF Pairing
<1>5. c = Call(r)
  BY DEF c
<1> QED
  BY <1>2, <1>3, <1>4, <1>5

\* What is known of the row that was found: it is theirs, and the only one
\* where no account and no failure gave them a second.
LEMMA InsertFits ==
  ASSUME PeopleInv, PlayersOK', entries' = entries, NEW d, d.at = "insert", Applies(d),
         d.phone # NoPhone => NotYet(d),
         d.row \in Rows', players'[d.row].who = d.who,
         ~Twofold(d.who)' /\ players'[d.row].phone # NoPhone =>
             \A i \in Rows' : Registered(i) /\ players'[i].phone = PhoneOf[d.who] => i = d.row
  PROVE  Fit(d)'
<1>1. d.who \in People /\ players'[d.row].phone \in {PhoneOf[d.who], NoPhone}
  BY DEF PlayersOK, Applies, IsPerson
<1>2. players'[d.row].phone # NoPhone => Reachable(d.row, d.who)'
  BY <1>1 DEF Reachable
<1>3. NotYet(d) => NotYet(d)'
  BY DEF NotYet
<1>4. Knows(d)'
  BY <1>2, <1>3 DEF Knows, Registered, Reachable
<1>5. Applies(d)'
  BY DEF Applies, IsPerson
<1> QED
  BY <1>4, <1>5 DEF Fit

LEMMA OnlyTheirs ==
  ASSUME PeopleInv, NEW p \in People, ~Twofold(p), NEW row \in Registrants(PhoneOf[p])
  PROVE  \A i \in Rows : Registered(i) /\ players[i].phone = PhoneOf[p] => i = row
<1>1. row \in Rows /\ Registered(row) /\ Reachable(row, p)
  BY DEF Registrants, Registered, Reachable
<1> QED
  BY <1>1 DEF PeopleInv, EntriesSound, OneRow, Reachable

LEMMA UseRowKept ==
  ASSUME RegistrationInv, PeopleInv, OwnPhones, NEW r \in Requests, At(r, "row"),
         NEW c, c = Call(r), Spends, UNCHANGED <<event, entries, waitlist>>,
         NEW row \in KnownRows(c) \cup Registrants(c.phone), UseRow(r, row),
         ~Twofold(c.who)' => row \in Registrants(c.phone)
  PROVE  PeopleInv'
<1>1. /\ Busy(r) /\ c.at = "row" /\ IsSignUp(c) /\ request[r] = <<c>> /\ Applies(c) /\ Knows(c)
      /\ lock = r
  BY HandFits, InHand DEF Held
<1>2. CASE Entered(row, c.div)
  <2>1. Return(r) /\ UNCHANGED players
    BY <1>2 DEF UseRow
  <2> QED
    BY <1>1, <2>1, OnlyReturns
<1>3. CASE ~Entered(row, c.div)
  <2>1. /\ Found(r, row)
        /\ players' = IF c.user = Nobody THEN players ELSE [players EXCEPT ![row] = Updated(c, row)]
    BY <1>3 DEF UseRow
  <2>2. PICK d : /\ request' = [request EXCEPT ![r] = <<d>>] /\ Applies(d)
                 /\ d.at = "insert" /\ d.row = row /\ d.div = c.div
                 /\ d.who = c.who /\ d.phone = c.phone
    BY <2>1, FoundRequest
  <2>3. row \in Rows /\ players[row].who = c.who /\ PlayersOK
    BY <1>1, RowIsTheirs DEF PeopleInv, Applies
  <2>4. /\ PlayersOK' /\ Rows' = Rows
        /\ \A i \in Rows : Grown(i) /\ players'[i].who = players[i].who
        /\ c.who \notin Accounts => players' = players
    <3>1. CASE c.user = Nobody
      BY <2>1, <2>3, <3>1 DEF PlayersOK, Rows, IsPerson, Grown
    <3>2. CASE c.user # Nobody
      <4> DEFINE n == Updated(c, row)
      <4>1. c.user = c.who /\ c.who \in Accounts /\ c.phone \in {PhoneOf[c.who], NoPhone}
        BY <1>1, <3>2 DEF Applies, IsPerson
      <4>2. /\ n.who = c.who /\ n.user = players[row].user
            /\ n.phone = IF c.phone = NoPhone THEN players[row].phone ELSE c.phone
            /\ DOMAIN n = {"who", "phone", "user"}
        BY DEF Updated
      <4>3. IsPerson(players[row])
        BY <2>3 DEF PlayersOK
      <4> HIDE DEF n
      <4>4. IsPerson(n)
        BY <2>3, <4>1, <4>2, <4>3 DEF IsPerson
      <4>5. players' = [players EXCEPT ![row] = n]
        BY <2>1, <3>2 DEF n
      <4>6. PICK S : players \in Seq(S)
        BY <2>3 DEF PlayersOK
      <4>7. /\ DOMAIN players' = DOMAIN players
            /\ \A i \in Rows : players'[i] = IF i = row THEN n ELSE players[i]
        BY <4>5 DEF Rows
      <4>8. players' \in Seq(S \cup {n})
        <5>1. players \in Seq(S \cup {n}) /\ row \in 1..Len(players)
          BY <2>3, <4>6 DEF Rows
        <5> QED
          BY <4>5, <5>1
      <4>9. PlayersOK' /\ Rows' = Rows
        BY <2>3, <4>4, <4>7, <4>8 DEF PlayersOK, Rows, IsPerson
      <4>10. Grown(row)
        BY <2>3, <4>1, <4>2, <4>3, <4>7 DEF Grown, IsPerson
      <4> QED
        BY <2>3, <4>1, <4>2, <4>7, <4>9, <4>10 DEF Grown
    <3> QED
      BY <3>1, <3>2
  <2>5. d.phone # NoPhone => NotYet(d)
    BY <1>1, <2>2 DEF Knows, NotYet
  <2>6. ASSUME ~Twofold(d.who)', players'[d.row].phone # NoPhone,
               NEW i \in Rows', Registered(i), players'[i].phone = PhoneOf[d.who]
        PROVE  i = d.row
    <3>1. c.who \notin Accounts /\ c.who \in People /\ d.who = c.who
      BY <1>1, <2>2, <2>6 DEF Twofold, Applies, IsPerson
    <3>2. players' = players /\ row \in Registrants(c.phone)
      BY <2>4, <2>6, <3>1
    <3>3. c.phone = PhoneOf[c.who]
      BY <1>1, <3>2 DEF Registrants, Applies, IsPerson
    <3>4. ~Twofold(c.who)
      BY <2>6, <3>1, BudgetKept DEF PeopleInv
    <3> QED
      BY <2>2, <2>6, <3>1, <3>2, <3>3, <3>4, OnlyTheirs DEF Rows
  <2>7. Fit(d)'
    BY <2>2, <2>3, <2>4, <2>5, <2>6, InsertFits
  <2> QED
    BY <1>1, <2>2, <2>4, <2>7, RowsGrow
<1> QED
  BY <1>2, <1>3

LEMMA NewRowKept ==
  ASSUME RegistrationInv, PeopleInv, OwnPhones, NEW r \in Requests, At(r, "row"),
         NEW c, c = Call(r), Spends, UNCHANGED <<event, entries, waitlist>>,
         NEW user, user \in {Nobody, AccountOf(c)}, NewRow(r, user),
         ~Twofold(c.who)' => Registrants(c.phone) = {}
  PROVE  PeopleInv'
<1>1. /\ Busy(r) /\ c.at = "row" /\ IsSignUp(c) /\ request[r] = <<c>> /\ Applies(c) /\ Knows(c)
      /\ lock = r /\ IsPerson(c)
  BY HandFits, InHand DEF Held, Applies
<1> DEFINE n == [who |-> c.who, phone |-> c.phone, user |-> user]
           k == Len(players) + 1
<1>2. IsPerson(n)
  BY <1>1, AccountIsTheirs DEF IsPerson
<1>3. n.who = c.who /\ n.phone = c.phone
  OBVIOUS
<1>4. Found(r, k) /\ players' = Append(players, n)
  BY DEF NewRow
<1> HIDE DEF n
<1>5. PICK S : players \in Seq(S)
  BY DEF PeopleInv, PlayersOK
<1>6. /\ players' \in Seq(S \cup {n}) /\ Rows' = 1..k /\ Rows = 1..Len(players)
      /\ Len(players) \in Nat /\ k \in Rows' /\ k \notin Rows /\ Rows' = Rows \cup {k}
      /\ players'[k] = n /\ \A i \in Rows : players'[i] = players[i]
  <2>1. players \in Seq(S \cup {n})
    BY <1>5
  <2> QED
    BY <1>4, <2>1, AppendProperties DEF Rows
<1>7. PlayersOK'
  BY <1>2, <1>6 DEF PeopleInv, PlayersOK, IsPerson
<1>8. Rows \subseteq Rows' /\ \A i \in Rows : Grown(i)
  BY <1>6 DEF Grown
<1>9. PICK d : /\ request' = [request EXCEPT ![r] = <<d>>] /\ Applies(d)
               /\ d.at = "insert" /\ d.row = k /\ d.div = c.div
               /\ d.who = c.who /\ d.phone = c.phone
  BY <1>4, FoundRequest
<1>10. d.phone # NoPhone => NotYet(d)
  BY <1>1, <1>9 DEF Knows, NotYet
<1>11. ASSUME ~Twofold(d.who)', players'[d.row].phone # NoPhone,
              NEW i \in Rows', Registered(i), players'[i].phone = PhoneOf[d.who]
       PROVE  i = d.row
  <2>1. i \in Rows /\ players[i].phone = PhoneOf[c.who]
    BY <1>6, <1>9, <1>11 DEF Registered, PeopleInv, EntriesSound, RowsOK
  <2>2. c.phone = PhoneOf[c.who] /\ c.phone # NoPhone
    BY <1>1, <1>3, <1>6, <1>9, <1>11 DEF IsPerson
  <2>3. i \in Registrants(c.phone)
    BY <1>11, <2>1, <2>2 DEF Registrants, Registered
  <2> QED
    BY <1>9, <1>11, <2>3
<1>12. Fit(d)'
  <2>1. d.row \in Rows' /\ players'[d.row].who = d.who
    BY <1>3, <1>6, <1>9
  <2> QED
    BY <1>7, <1>9, <1>10, <1>11, <2>1, InsertFits
<1> QED
  BY <1>1, <1>7, <1>8, <1>9, <1>12, RowsGrow

LEMMA FindRowKept ==
  ASSUME RegistrationInv, PeopleInv, OwnPhones, NEW r \in Requests, FindRow(r)
  PROVE  PeopleInv'
<1>1. PICK c : c = Call(r)
  OBVIOUS
<1>2. /\ At(r, "row") /\ UNCHANGED <<event, entries, waitlist>> /\ IsPerson(c)
      /\ BudgetOK
  BY <1>1, HandFits DEF FindRow, Held, Applies, PeopleInv
<1>3. CASE UseOrMake(r, KnownRows(c), AccountOf(c)) /\ UNCHANGED left
  <2>1. Spends
    BY <1>3 DEF Spends
  <2>2. ~Twofold(c.who)' => KnownRows(c) = Registrants(c.phone)
    BY <1>2, GuestRows DEF Twofold
  <2>3. ASSUME NEW row \in KnownRows(c), UseRow(r, row) PROVE PeopleInv'
    <3>1. ~Twofold(c.who)' => row \in Registrants(c.phone)
      BY <2>2
    <3> QED
      BY <1>1, <1>2, <2>1, <2>3, <3>1, UseRowKept
  <2>4. ASSUME KnownRows(c) = {}, NewRow(r, AccountOf(c)) PROVE PeopleInv'
    <3>1. PICK user : user = AccountOf(c)
      OBVIOUS
    <3> QED
      BY <1>1, <1>2, <2>1, <2>2, <2>4, <3>1, NewRowKept
  <2> QED
    BY <1>3, <2>3, <2>4 DEF UseOrMake
<1>4. CASE /\ Spend("faults")
           /\ \/ UseOrMake(r, Registrants(c.phone), Nobody)
              \/ \E user \in {Nobody, AccountOf(c)} : NewRow(r, user)
  <2>1. Spends /\ Twofold(c.who)'
    BY <1>2, <1>4, FaultSpent, Spending DEF Budgets
  <2>2. ASSUME NEW row \in Registrants(c.phone), UseRow(r, row) PROVE PeopleInv'
    BY <1>1, <1>2, <2>1, <2>2, UseRowKept
  <2>3. ASSUME NEW user, user \in {Nobody, AccountOf(c)}, NewRow(r, user) PROVE PeopleInv'
    BY <1>1, <1>2, <2>1, <2>3, NewRowKept
  <2>4. CASE UseOrMake(r, Registrants(c.phone), Nobody)
    BY <2>2, <2>3, <2>4 DEF UseOrMake
  <2> QED
    BY <1>4, <2>3, <2>4
<1>5. \/ UseOrMake(r, KnownRows(c), AccountOf(c)) /\ UNCHANGED left
      \/ /\ Spend("faults")
         /\ \/ UseOrMake(r, Registrants(c.phone), Nobody)
            \/ \E user \in {Nobody, AccountOf(c)} : NewRow(r, user)
  BY <1>1 DEF FindRow
<1> QED
  BY <1>3, <1>4, <1>5

-----------------------------------------------------------------------------
(* Entries that are added.                                                  *)

\* An entry is added by the holder of the lock.
LEMMA EntryAdded ==
  ASSUME RegistrationInv, PeopleInv, NEW r \in Requests, lock = r,
         UNCHANGED <<event, players, waitlist, left>>,
         NEW n, entries' = entries \cup {n},
         {"no", "row", "approved", "partner", "div", "who", "how", "known"} \subseteq DOMAIN n,
         n.row \in Rows, n.known \in BOOLEAN,
         n.known = TRUE => n.who \in People /\ Reachable(n.row, n.who),
         \A e \in entries : e.div = n.div => e.row # n.row,
         \A e \in entries : /\ n.known = TRUE /\ e.known = TRUE
                            /\ e.div = n.div /\ e.who = n.who
                            => "partner" \in {e.how, n.how} /\ Twofold(n.who),
         \A p \in People : ~Twofold(p) /\ Reachable(n.row, p) =>
             \A i \in Rows : Registered(i) /\ Reachable(i, p) => i = n.row,
         NEW s, request' = [request EXCEPT ![r] = s],
         \A c : s = <<c>> => (IsSignUp(c) => Applies(c)) /\ c.at \notin {"cap", "row", "insert"}
  PROVE  PeopleInv'
<1>1. /\ PlayersOK' /\ BudgetOK' /\ \A w \in waitlist' : IsPerson(w)'
      /\ \A p : Twofold(p)' <=> Twofold(p)
      /\ \A i, p : Reachable(i, p)' <=> Reachable(i, p)
  BY DEF PeopleInv, PlayersOK, BudgetOK, IsPerson, Twofold, Reachable, Rows
<1>2. RowsOK'
  BY <1>1 DEF PeopleInv, EntriesSound, RowsOK, Rows
<1>3. RowOnce'
  BY DEF PeopleInv, EntriesSound, RowOnce
<1>4. KnownOnce'
  <2> SUFFICES ASSUME NEW e \in entries', NEW f \in entries', e # f, e.div = f.div, e.who = f.who,
                      e.known = TRUE, f.known = TRUE
               PROVE  "partner" \in {e.how, f.how} /\ Twofold(e.who)
    BY <1>1 DEF KnownOnce
  <2>1. CASE e \in entries /\ f \in entries
    BY <2>1 DEF PeopleInv, EntriesSound, KnownOnce
  <2>2. CASE e = n /\ f \in entries
    BY <2>2
  <2>3. CASE f = n /\ e \in entries
    BY <2>3
  <2> QED
    BY <2>1, <2>2, <2>3
<1>5. \A i : Registered(i)' => Registered(i) \/ i = n.row
  BY DEF Registered
<1>6. OneRow'
  <2> SUFFICES ASSUME NEW p \in People, ~Twofold(p), NEW i \in Rows, NEW j \in Rows,
                      Registered(i)', Reachable(i, p), Registered(j)', Reachable(j, p)
               PROVE  i = j
    BY <1>1 DEF OneRow, Rows
  <2>1. CASE Registered(i) /\ Registered(j)
    BY <2>1 DEF PeopleInv, EntriesSound, OneRow
  <2>2. CASE i = n.row
    BY <2>2, <1>5
  <2>3. CASE j = n.row
    BY <2>3, <1>5
  <2> QED
    BY <2>1, <2>2, <2>3, <1>5
<1>7. ASSUME NEW o \in Requests, NEW c, request'[o] = <<c>> PROVE Fit(c)'
  <2>1. request'[o] = IF o = r THEN s ELSE request[o]
    BY DEF RegistrationInv, Shape, RequestsOK
  <2>2. c.at \notin {"cap", "row", "insert"} /\ (IsSignUp(c) => Applies(c))
    <3>1. CASE o = r
      BY <1>7, <2>1, <3>1
    <3>2. CASE o # r
      <4>1. ~HoldsLock(request[o]) /\ request[o] = <<c>>
        BY <1>7, <2>1, <3>2 DEF RegistrationInv, Shape, RequestsOK
      <4>2. c.at \notin Held
        BY <4>1 DEF HoldsLock
      <4> QED
        BY <4>1, <4>2 DEF PeopleInv, Fit, Held
    <3> QED
      BY <3>1, <3>2
  <2> QED
    BY <2>2 DEF Fit, Knows, IsSignUp, Applies, IsPerson
<1> QED
  BY <1>1, <1>2, <1>3, <1>4, <1>6, <1>7 DEF PeopleInv, EntriesSound

LEMMA InsertKept ==
  ASSUME RegistrationInv, PeopleInv, OwnPhones, NEW r \in Requests, Insert(r)
  PROVE  PeopleInv'
<1>1. PICK c : c = Call(r)
  OBVIOUS
<1>2. /\ Busy(r) /\ c.at = "insert" /\ IsSignUp(c) /\ request[r] = <<c>> /\ Applies(c) /\ Knows(c)
      /\ lock = r /\ IsPerson(c) /\ UNCHANGED <<event, players, waitlist, left>>
  BY <1>1, HandFits, InHand DEF Insert, Held, Applies
<1>3. CASE Entered(c.row, c.div)
  BY <1>1, <1>2, <1>3, OnlyReturns DEF Insert, Spends
<1>4. CASE ~Entered(c.row, c.div)
  <2> DEFINE k == NoPhone \notin {c.phone, players[c.row].phone}
             n == Entry(c.row, c.who, c.div, ~NeedsApproval(c), HowItCame(c), k)
  <2>1. entries' = entries \cup {n}
    BY <1>1, <1>4 DEF Insert
  <2>2. /\ {"no", "row", "approved", "partner", "div", "who", "how", "known"} \subseteq DOMAIN n
        /\ n.row = c.row /\ n.div = c.div /\ n.who = c.who /\ n.known = k
    BY DEF Entry
  <2>3. n.known \in BOOLEAN /\ (n.known = TRUE => c.phone # NoPhone /\ players[c.row].phone # NoPhone)
    BY <2>2
  <2> HIDE DEF n
  <2>4. \E s : /\ request' = [request EXCEPT ![r] = s]
               /\ \A x : s = <<x>> =>
                    (IsSignUp(x) => Applies(x)) /\ x.at \notin {"cap", "row", "insert"}
    <3>1. CASE Return(r)
      BY <1>1, <1>2, <3>1, Returned DEF RegistrationInv, Shape
    <3>2. ASSUME NEW pc \in {"unlist", "partner"}, GoTo(r, pc), pc = "partner" => c.mate # Nobody
          PROVE  \E s : /\ request' = [request EXCEPT ![r] = s]
                        /\ \A x : s = <<x>> =>
                             (IsSignUp(x) => Applies(x)) /\ x.at \notin {"cap", "row", "insert"}
      <4>1. PICK d : d = [c EXCEPT !.at = pc]
        OBVIOUS
      <4>2. /\ DOMAIN d = DOMAIN c /\ d.who = c.who /\ d.phone = c.phone /\ d.user = c.user
            /\ d.mate = c.mate /\ d.at = pc
        BY <1>2, <4>1 DEF IsSignUp, Applies, IsPerson
      <4>3. request' = [request EXCEPT ![r] = <<d>>]
        BY <1>1, <1>2, <3>2, <4>1, Moved DEF RegistrationInv, Shape
      <4>4. Applies(d)
        BY <1>2, <3>2, <4>2, StillApplies DEF Pairing
      <4>5. \A x : <<d>> = <<x>> => Applies(x) /\ x.at \notin {"cap", "row", "insert"}
        BY <4>2, <4>4
      <4> QED
        BY <4>3, <4>5
    <3> QED
      BY <1>1, <1>4, <3>1, <3>2 DEF Insert
  <2>5. PICK s : /\ request' = [request EXCEPT ![r] = s]
                 /\ \A x : s = <<x>> =>
                      (IsSignUp(x) => Applies(x)) /\ x.at \notin {"cap", "row", "insert"}
    BY <2>4
  <2>6. \A e \in entries : e.div = n.div => e.row # n.row
    BY <1>4, <2>2 DEF Entered, In
  <2>7. \A e \in entries : n.known = TRUE /\ e.known = TRUE /\ e.who = n.who => e.div # n.div
    BY <1>2, <2>2, <2>3 DEF Knows, NotYet
  <2>8. n.row \in Rows /\ (n.known = TRUE => n.who \in People /\ Reachable(n.row, n.who))
    BY <1>2, <2>2, <2>3 DEF Knows, IsPerson
  <2>9. ASSUME NEW p \in People, ~Twofold(p), Reachable(n.row, p),
               NEW i \in Rows, Registered(i), Reachable(i, p)
        PROVE  i = n.row
    <3>1. players[c.row].phone = PhoneOf[p] /\ PhoneOf[p] # NoPhone
      BY <2>2, <2>9 DEF Reachable
    <3>2. Reachable(c.row, c.who)
      BY <1>2, <3>1 DEF Knows
    <3>3. PhoneOf[p] = PhoneOf[c.who]
      BY <3>1, <3>2 DEF Reachable
    <3>4. p = c.who
      BY <3>3, <1>2 DEF IsPerson, OwnPhones
    <3> QED
      BY <1>2, <2>2, <2>9, <3>1, <3>4 DEF Knows
  <2>10. PICK m : m = n
    OBVIOUS
  <2> QED
    BY <1>2, <2>1, <2>2, <2>3, <2>5, <2>6, <2>7, <2>8, <2>9, <2>10, EntryAdded
<1> QED
  BY <1>3, <1>4

\* linkPartner enters somebody who is in the event, under a row with their phone.
LEMMA FindPartnerKept ==
  ASSUME RegistrationInv, PeopleInv, OwnPhones, NEW r \in Requests, FindPartner(r)
  PROVE  PeopleInv'
<1>1. PICK c : c = Call(r)
  OBVIOUS
<1>2. /\ Busy(r) /\ c.at = "partner" /\ IsSignUp(c) /\ request[r] = <<c>> /\ Applies(c)
      /\ lock = r /\ UNCHANGED <<event, players, waitlist>> /\ c.mate \in People
  BY <1>1, HandFits, InHand DEF FindPartner, Held, Applies, Pairing
<1>3. CASE Registrants(PhoneOf[c.mate]) = {}
  <2> DEFINE n == SignUp(c.mate, PhoneOf[c.mate], c.div, FALSE, TRUE, Nobody, Nobody, 0)
  <2>1. request' = [request EXCEPT ![r] = <<n>> \o @] /\ UNCHANGED <<entries, left>>
    BY <1>1, <1>3 DEF FindPartner
  <2> HIDE DEF n
  <2>2. <<n>> \o request[r] = <<n, c>>
    BY <1>2, TwoCalls
  <2>3. request' = [request EXCEPT ![r] = <<n, c>>]
    BY <2>1, <2>2
  <2>4. \A x : <<n, c>> = <<x>> => Fit(x)
    OBVIOUS
  <2> QED
    BY <1>2, <2>1, <2>3, <2>4, OnlyRequest DEF Spends
<1>4. ASSUME NEW pc \in {"pair", "pair alone"}, NEW row \in Registrants(PhoneOf[c.mate]),
             request' = [request EXCEPT ![r][1].at = pc, ![r][1].mate = row],
             \/ UNCHANGED entries /\ Spends
             \/ /\ ~Entered(row, c.div) /\ UNCHANGED left
                /\ \E approved, known : /\ known = TRUE
                     /\ entries' = entries \cup {Entry(row, c.mate, c.div, approved, "partner", known)}
      PROVE  PeopleInv'
  <2>1. PICK d : d = [c EXCEPT !.at = pc, !.mate = row]
    OBVIOUS
  <2>2. /\ DOMAIN d = DOMAIN c /\ d.who = c.who /\ d.phone = c.phone /\ d.user = c.user
        /\ d.at = pc
    BY <1>2, <2>1 DEF IsSignUp, Applies, IsPerson
  <2>3. request' = [request EXCEPT ![r] = <<d>>]
    <3>1. PICK x, y : x = c /\ y = [x EXCEPT !.at = pc]
      OBVIOUS
    <3>2. RequestsOK /\ request[r] = <<x>>
      BY <1>2, <3>1 DEF RegistrationInv, Shape
    <3>3. [request[r] EXCEPT ![1].at = pc] = <<y>>
      <4>1. [<<x>> EXCEPT ![1].at = pc] = <<[x EXCEPT !.at = pc]>>
        BY OnlyCallsField
      <4>2. [<<x>> EXCEPT ![1].at = pc] = <<y>>
        BY <3>1, <4>1
      <4>3. request[r] = <<x>>
        BY <3>2
      <4> QED
        BY <4>2, <4>3
    <3>4. [<<y>> EXCEPT ![1].mate = row] = <<[y EXCEPT !.mate = row]>>
      BY OnlyCallsField
    <3>5. [request EXCEPT ![r][1].at = pc, ![r][1].mate = row]
             = [request EXCEPT ![r] = [[request[r] EXCEPT ![1].at = pc] EXCEPT ![1].mate = row]]
      BY <3>2 DEF RequestsOK
    <3> QED
      BY <1>4, <2>1, <3>1, <3>3, <3>4, <3>5
  <2>4. Applies(d)
    BY <1>2, <2>2, StillApplies DEF Pairing
  <2>5. \A x : <<d>> = <<x>> =>
            /\ (IsSignUp(x) => Applies(x)) /\ x.at \notin {"cap", "row", "insert"} /\ Fit(x)
    BY <2>2, <2>4 DEF Fit, Knows
  <2>6. CASE UNCHANGED entries /\ Spends
    BY <1>2, <2>3, <2>5, <2>6, OnlyRequest
  <2>7. ASSUME ~Entered(row, c.div), UNCHANGED left, NEW approved, NEW known, known = TRUE,
               entries' = entries \cup {Entry(row, c.mate, c.div, approved, "partner", known)}
        PROVE  PeopleInv'
    <3>1. PICK n : n = Entry(row, c.mate, c.div, approved, "partner", known)
      OBVIOUS
    <3>2. /\ {"no", "row", "approved", "partner", "div", "who", "how", "known"} \subseteq DOMAIN n
          /\ n.row = row /\ n.div = c.div /\ n.who = c.mate /\ n.how = "partner" /\ n.known = TRUE
      BY <2>7, <3>1 DEF Entry
    <3>3. /\ row \in Rows /\ Reachable(row, c.mate) /\ Registered(row)
      BY <1>4 DEF Registrants, Reachable, Registered
    <3>4. \A e \in entries : e.div = n.div => e.row # n.row
      BY <2>7, <3>2 DEF Entered, In
    <3>5. ASSUME NEW p \in People, ~Twofold(p), Reachable(row, p),
                 NEW i \in Rows, Registered(i), Reachable(i, p)
          PROVE  i = row
      BY <3>3, <3>5 DEF PeopleInv, EntriesSound, OneRow
    <3>6. ASSUME NEW e \in entries, e.known = TRUE, e.div = n.div, e.who = n.who
          PROVE  Twofold(n.who)
      <4>1. Registered(e.row) /\ Reachable(e.row, c.mate) /\ e.row \in Rows
        BY <3>2, <3>6 DEF Registered, PeopleInv, EntriesSound, RowsOK
      <4> QED
        BY <1>2, <3>2, <3>3, <3>4, <3>5, <3>6, <4>1
    <3>7. \A e \in entries : /\ n.known = TRUE /\ e.known = TRUE
                             /\ e.div = n.div /\ e.who = n.who
                             => "partner" \in {e.how, n.how} /\ Twofold(n.who)
      BY <3>2, <3>6
    <3>8. \A p \in People : ~Twofold(p) /\ Reachable(n.row, p) =>
              \A i \in Rows : Registered(i) /\ Reachable(i, p) => i = n.row
      BY <3>2, <3>5
    <3>9. /\ n.row \in Rows /\ n.known \in BOOLEAN
          /\ n.known = TRUE => n.who \in People /\ Reachable(n.row, n.who)
      BY <1>2, <3>2, <3>3
    <3>10. /\ lock = r /\ UNCHANGED <<event, players, waitlist, left>>
           /\ entries' = entries \cup {n}
           /\ {"no", "row", "approved", "partner", "div", "who", "how", "known"} \subseteq DOMAIN n
           /\ n.row \in Rows /\ n.known \in BOOLEAN
      BY <1>2, <2>7, <3>1, <3>2, <3>9
    <3>11. PICK s : /\ request' = [request EXCEPT ![r] = s]
                    /\ \A x : s = <<x>> =>
                         (IsSignUp(x) => Applies(x)) /\ x.at \notin {"cap", "row", "insert"}
      BY <2>3, <2>5
    <3> QED
      BY <3>4, <3>7, <3>8, <3>9, <3>10, <3>11, EntryAdded
  <2> QED
    BY <1>4, <2>6, <2>7
<1>5. ASSUME NEW row \in Registrants(PhoneOf[c.mate]), UNCHANGED left,
             request' = [request EXCEPT ![r][1].at = "pair", ![r][1].mate = row],
             IF Entered(row, c.div) THEN UNCHANGED <<entries, serial>>
             ELSE entries' = entries \cup {Entry(row, c.mate, c.div, ~NeedsApproval(c),
                                                 "partner", TRUE)}
      PROVE  PeopleInv'
  <2>1. PICK approved : approved = ~NeedsApproval(c)
    OBVIOUS
  <2>2. PICK known : known = TRUE
    OBVIOUS
  <2> QED
    BY <1>4, <1>5, <2>1, <2>2 DEF Spends
<1>6. ASSUME NEW row \in Registrants(PhoneOf[c.mate]), Spend("faults"), UNCHANGED entries,
             request' = [request EXCEPT ![r][1].at = "pair alone", ![r][1].mate = row]
      PROVE  PeopleInv'
  BY <1>4, <1>6, Spending DEF Budgets
<1> QED
  BY <1>1, <1>3, <1>5, <1>6 DEF FindPartner

-----------------------------------------------------------------------------
(* Entries that are paired, approved and deleted, and the rest.             *)

LEMMA PairKept ==
  ASSUME RegistrationInv, PeopleInv, NEW r \in Requests, Pair(r) \/ PairBack(r)
  PROVE  PeopleInv'
<1>1. /\ Busy(r) /\ Call(r).at \in Pairing /\ IsSignUp(Call(r)) /\ Applies(Call(r))
      /\ UNCHANGED <<event, players, waitlist>>
      /\ \E div, row, other : Partnered(div, row, other)
      /\ Return(r) \/ GoTo(r, "pair back")
  BY HandFits DEF Pair, PairBack, Held, Pairing
<1>2. PICK div, row, other : Partnered(div, row, other)
  BY <1>1
<1>3. Spends
  BY <1>2, Spending DEF Partnered, Spends, Budgets
<1> DEFINE h == [e \in entries |-> IF e.div = div /\ e.row = row
                                  THEN [e EXCEPT !.partner = other] ELSE e]
<1>4. Remain
  <2>1. CASE entries' = entries
    BY <2>1, NothingRemoved
  <2>2. CASE entries' # entries
    <3>1. \A e \in entries :
              /\ {"no", "row", "approved", "partner", "div", "who", "how", "known"} \subseteq DOMAIN e
              /\ h[e] \in {e, [e EXCEPT !.partner = other]}
      BY DEF PeopleInv, EntriesSound, RowsOK
    <3>2. \A e \in entries : Alike(e, h[e])
      BY <3>1 DEF Alike
    <3>3. entries' \subseteq {h[e] : e \in entries}
      BY <1>2, <2>2 DEF Partnered
    <3> HIDE DEF h
    <3> QED
      BY <3>2, <3>3 DEF Remain
  <2> QED
    BY <2>1, <2>2
<1>5. \A o \in Requests : \A x : request'[o] = <<x>> => request[o] = <<x>> \/ Fit(x)
  <2>1. CASE Return(r)
    <3>1. request' = [request EXCEPT ![r] = <<>>]
      BY <1>1, <2>1, Returned DEF RegistrationInv, Shape, Pairing
    <3> QED
      BY <3>1 DEF RegistrationInv, Shape, RequestsOK
  <2>2. CASE GoTo(r, "pair back")
    <3>1. PICK d : d = [Call(r) EXCEPT !.at = "pair back"]
      OBVIOUS
    <3>2. request' = [request EXCEPT ![r] = <<d>>]
      BY <1>1, <2>2, <3>1, Moved DEF RegistrationInv, Shape, Pairing
    <3>3. /\ DOMAIN d = DOMAIN Call(r) /\ d.who = Call(r).who /\ d.phone = Call(r).phone
          /\ d.user = Call(r).user /\ d.at = "pair back"
      BY <1>1, <3>1 DEF IsSignUp, Applies, IsPerson
    <3>4. Applies(d)
      BY <1>1, <3>3, StillApplies DEF Pairing
    <3>5. Fit(d)
      BY <3>3, <3>4 DEF Fit, Knows
    <3> QED
      BY <3>2, <3>5 DEF RegistrationInv, Shape, RequestsOK
  <2> QED
    BY <1>1, <2>1, <2>2
<1> QED
  BY <1>1, <1>3, <1>4, <1>5, Quiet DEF PeopleInv

LEMMA ApproveKept ==
  ASSUME RegistrationInv, PeopleInv, NEW r \in Requests, ApproveWrite(r) \/ ApproveMate(r)
  PROVE  PeopleInv'
<1>1. /\ Busy(r) /\ Call(r).at \in {"approve", "approve mate"}
      /\ UNCHANGED <<event, players, waitlist, left>> /\ \E which : Approve(which)
      /\ Return(r) \/ GoTo(r, "approve mate")
  BY DEF ApproveWrite, ApproveMate, At
<1>2. PICK which : Approve(which)
  BY <1>1
<1> DEFINE h == [e \in entries |-> IF which[e.no] THEN [e EXCEPT !.approved = TRUE] ELSE e]
<1>3. \A e \in entries :
          /\ {"no", "row", "approved", "partner", "div", "who", "how", "known"} \subseteq DOMAIN e
          /\ h[e] \in {e, [e EXCEPT !.approved = TRUE]}
  BY DEF PeopleInv, EntriesSound, RowsOK
<1>4. \A e \in entries : Alike(e, h[e])
  BY <1>3 DEF Alike
<1>5. entries' \subseteq {h[e] : e \in entries}
  BY <1>2 DEF Approve
<1> HIDE DEF h
<1>6. Remain
  BY <1>4, <1>5 DEF Remain
<1>7. \A o \in Requests : \A x : request'[o] = <<x>> => request[o] = <<x>> \/ Fit(x)
  <2>1. CASE Return(r)
    <3>1. request' = [request EXCEPT ![r] = <<>>]
      BY <1>1, <2>1, Returned DEF RegistrationInv, Shape
    <3> QED
      BY <3>1 DEF RegistrationInv, Shape, RequestsOK
  <2>2. CASE GoTo(r, "approve mate")
    <3>1. PICK d : d = [Call(r) EXCEPT !.at = "approve mate"]
      OBVIOUS
    <3>2. request' = [request EXCEPT ![r] = <<d>>]
      BY <1>1, <2>2, <3>1, Moved DEF RegistrationInv, Shape
    <3>3. IsCall(Call(r))
      BY <1>1, TopCall DEF RegistrationInv, Shape, RequestsOK, Busy, Call
    <3>4. d.at = "approve mate"
      BY <1>1, <3>1, <3>3, KindOfCall DEF IsApproval
    <3>5. Fit(d)
      BY <3>4 DEF Fit, Knows, IsSignUp, Held
    <3> QED
      BY <3>2, <3>5 DEF RegistrationInv, Shape, RequestsOK
  <2> QED
    BY <1>1, <2>1, <2>2
<1> QED
  BY <1>1, <1>6, <1>7, Quiet DEF Spends, PeopleInv

LEMMA UnlistKept ==
  ASSUME RegistrationInv, PeopleInv, NEW r \in Requests, Unlist(r)
  PROVE  PeopleInv'
<1>1. /\ Busy(r) /\ Call(r).at # "lock" /\ Return(r) /\ UNCHANGED <<event, players, entries>>
      /\ waitlist' \subseteq waitlist
  BY DEF Unlist, At
<1>2. Spends
  BY Spending DEF Unlist, Spends, Budgets
<1> QED
  BY <1>1, <1>2, OnlyReturns

LEMMA FailKept ==
  ASSUME RegistrationInv, PeopleInv, NEW r \in Requests, Fail(r)
  PROVE  PeopleInv'
<1>1. Spends
  BY Spending DEF Fail, Budgets
<1> QED
  BY <1>1, OnlyReturns DEF Fail

LEMMA RestartKept ==
  ASSUME PeopleInv, Restart
  PROVE  PeopleInv'
<1>1. Spends /\ \A o \in Requests : \A x : request'[o] # <<x>>
  BY Spending DEF Restart, Budgets
<1>2. UNCHANGED <<event, players, entries, waitlist>>
  BY DEF Restart
<1> QED
  BY <1>1, <1>2, NothingRemoved, Quiet DEF PeopleInv

LEMMA DeskKept ==
  ASSUME PeopleInv,
         \/ \E who \in People : \E div, user : JoinWaitlist(who, div, user)
         \/ \E w : RemoveWaitlist(w)
         \/ \E e : DeleteRegistration(e)
  PROVE  PeopleInv'
<1>1. /\ Spends /\ entries' \subseteq entries /\ UNCHANGED <<event, players, request>>
  BY Spending DEF JoinWaitlist, RemoveWaitlist, DeleteRegistration, Budgets
<1>2. \A w \in waitlist' : IsPerson(w)
  <2>1. ASSUME NEW who \in People, NEW div, NEW user, JoinWaitlist(who, div, user)
        PROVE  \A w \in waitlist' : IsPerson(w)
    BY <2>1 DEF JoinWaitlist, IsPerson, PeopleInv
  <2>2. CASE waitlist' \subseteq waitlist
    BY <2>2 DEF PeopleInv
  <2>3. (\E w : RemoveWaitlist(w)) \/ (\E e : DeleteRegistration(e)) => waitlist' \subseteq waitlist
    BY DEF RemoveWaitlist, DeleteRegistration
  <2> QED
    BY <2>1, <2>2, <2>3
<1> QED
  BY <1>1, <1>2, NothingRemoved, Quiet

-----------------------------------------------------------------------------
(* Every step.                                                              *)

LEMMA RegistrationKept ==
  ASSUME RegistrationInv, PeopleInv, OwnPhones, Next
  PROVE  PeopleInv'
<1>1. ASSUME NEW r \in Requests, NEW p \in People, NEW d
      PROVE  /\ \A self : \A user, mate \in People \cup {Nobody} :
                    Register(r, p, d, self, user, mate) => PeopleInv'
             /\ \A phone : Add(r, p, d, phone) => PeopleInv'
  BY RegisterKept, AddKept
<1>2. ASSUME NEW r \in Requests
      PROVE  /\ \A w \in waitlist : Promote(r, w) => PeopleInv'
             /\ \A e : ApproveRead(r, e) => PeopleInv'
  BY PromoteKept, ApproveReadKept
<1>3. CASE Requested
  BY <1>1, <1>2, <1>3, DeskKept DEF Requested
<1>4. ASSUME NEW r \in Requests, Step(r) PROVE PeopleInv'
  BY <1>4, AcquireKept, CheckContactKept, CheckCapKept, FindRowKept, InsertKept,
     FindPartnerKept, PairKept, UnlistKept, ApproveKept DEF Step
<1>5. ASSUME NEW r \in Requests, Fail(r) PROVE PeopleInv'
  BY <1>5, FailKept
<1>6. CASE Restart
  BY <1>6, RestartKept
<1> QED
  BY <1>3, <1>4, <1>5, <1>6 DEF Next

\* A call about a fee knows nothing of rows.
LEMMA FeeFits ==
  ASSUME NEW c, c.at \in {"look", "book", "status"}
  PROVE  Fit(c)
  BY DEF Fit, Knows, IsSignUp, Held

\* A request about a fee begins, goes on or returns.
LEMMA FeeKept ==
  ASSUME RegistrationInv, PeopleInv, NEW r \in Requests, Spends,
         UNCHANGED <<event, players, entries, waitlist>>,
         \/ UNCHANGED request
         \/ \E c : c.at = "look" /\ request' = [request EXCEPT ![r] = <<c>>]
         \/ \E pc \in {"look", "book", "status"} :
                /\ At(r, pc)
                /\ Return(r) \/ \E next \in {"book", "status"} : GoTo(r, next)
  PROVE  PeopleInv'
<1>1. CASE UNCHANGED request
  BY <1>1, NothingRemoved, Quiet DEF PeopleInv
<1>2. ASSUME NEW c, c.at = "look", request' = [request EXCEPT ![r] = <<c>>]
      PROVE  PeopleInv'
  <2>1. \A x : <<c>> = <<x>> => Fit(x)
    BY <1>2, FeeFits
  <2> QED
    BY <1>2, <2>1, OnlyRequest
<1>3. ASSUME NEW pc \in {"look", "book", "status"}, At(r, pc),
             Return(r) \/ \E next \in {"book", "status"} : GoTo(r, next)
      PROVE  PeopleInv'
  <2>1. /\ Busy(r) /\ Call(r).at = pc /\ Call(r).at # "lock" /\ RequestsOK
        /\ IsRequest(request[r]) /\ request[r] # <<>>
    BY <1>3 DEF At, Busy, RegistrationInv, Shape, RequestsOK
  <2>2. CASE Return(r)
    BY <2>1, <2>2, OnlyReturns
  <2>3. ASSUME NEW next \in {"book", "status"}, GoTo(r, next) PROVE PeopleInv'
    <3>1. PICK d : d = [Call(r) EXCEPT !.at = next]
      OBVIOUS
    <3>2. request' = [request EXCEPT ![r] = <<d>>]
      BY <2>1, <2>3, <3>1, Moved
    <3>3. IsFee(Call(r))
      BY <2>1, TopCall, KindOfCall DEF Call
    <3>4. d.at \in {"look", "book", "status"}
      BY <3>1, <3>3 DEF IsFee
    <3>5. \A x : <<d>> = <<x>> => Fit(x)
      BY <3>4, FeeFits
    <3> QED
      BY <3>2, <3>5, OnlyRequest
  <2> QED
    BY <1>3, <2>2, <2>3
<1> QED
  BY <1>1, <1>2, <1>3

LEMMA PeopleStep ==
  ASSUME Inv, PeopleInv, OwnPhones, [NextFees]_<<base, fees>>
  PROVE  PeopleInv'
<1>1. RegistrationInv
  BY DEF Inv
<1>2. CASE Registering
  BY <1>1, <1>2, RegistrationKept DEF Registering
<1>3. ASSUME NEW r \in Requests, NEW n, NEW p,
             \/ CollectPaymentManually(r, n)
             \/ CollectPayment(r, n, p)
             \/ CapturePayPalOrder(r, n)
      PROVE  PeopleInv'
  <2>1. UNCHANGED <<event, players, entries, waitlist>> /\ Spends
    BY <1>3, Spending DEF CollectPaymentManually, CollectPayment, CapturePayPalOrder, Begin,
       Budgets, Spends
  <2>2. \E c : c.at = "look" /\ request' = [request EXCEPT ![r] = <<c>>]
    BY <1>3 DEF CollectPaymentManually, CollectPayment, CapturePayPalOrder, Begin, Record
  <2> QED
    BY <1>1, <2>1, <2>2, FeeKept
<1>4. ASSUME NEW r \in Requests, NEW c, Deliver(r, c) PROVE PeopleInv'
  <2>1. UNCHANGED <<event, players, entries, waitlist>> /\ Spends
    BY <1>4 DEF Deliver, Begin, Spends
  <2>2. \/ UNCHANGED request
        \/ \E d : d.at = "look" /\ request' = [request EXCEPT ![r] = <<d>>]
    BY <1>4 DEF Deliver, Begin, Record
  <2> QED
    BY <1>1, <2>1, <2>2, FeeKept
<1>5. ASSUME NEW r \in Requests, Look(r) \/ Book(r) \/ WriteStatus(r) PROVE PeopleInv'
  <2>1. UNCHANGED <<event, players, entries, waitlist>> /\ Spends
    BY <1>5 DEF Look, Book, WriteStatus, Spends
  <2>2. \E pc \in {"look", "book", "status"} :
            /\ At(r, pc)
            /\ Return(r) \/ \E next \in {"book", "status"} : GoTo(r, next)
    BY <1>5 DEF Look, Book, WriteStatus
  <2> QED
    BY <1>1, <2>1, <2>2, FeeKept
<1>6. CASE (\E c \in checkouts : Complete(c)) \/ UNCHANGED <<base, fees>>
  <2>1. UNCHANGED <<event, players, entries, waitlist, request>> /\ Spends
    BY <1>6 DEF Complete, base, Spends
  <2> QED
    BY <2>1, NothingRemoved, Quiet DEF PeopleInv
<1> QED
  BY <1>2, <1>3, <1>4, <1>5, <1>6 DEF NextFees

LEMMA PeopleInit ==
  ASSUME InitFees
  PROVE  PeopleInv
<1>1. PlayersOK
  <2>1. players \in Seq({})
    BY DEF InitFees, Init
  <2> QED
    BY <2>1 DEF InitFees, Init, PlayersOK, Rows
<1>2. BudgetOK
  <2>1. event \in Occasions /\ left = [b \in Budgets |-> event[b]]
    BY DEF InitFees, Init
  <2>2. event.faults \in Nat /\ left["faults"] = event.faults /\ left = [b \in Budgets |-> left[b]]
    BY <2>1 DEF Budgets
  <2> QED
    BY <2>2 DEF BudgetOK
<1>3. EntriesSound
  BY DEF InitFees, Init, EntriesSound, RowsOK, RowOnce, KnownOnce, OneRow, Registered
<1>4. \A r \in Requests : \A c : request[r] # <<c>>
  BY DEF InitFees, Init
<1> QED
  BY <1>1, <1>2, <1>3, <1>4 DEF InitFees, Init, PeopleInv

LEMMA PeopleImplies ==
  ASSUME PeopleInv
  PROVE  OneEntryEach
<1> SUFFICES ASSUME NEW d \in event.divisions, NEW e \in In(d), NEW f \in In(d), e # f
             PROVE  /\ e.row # f.row
                    /\ e.known /\ f.known /\ e.who = f.who
                          => /\ "partner" \in {e.how, f.how}
                             /\ e.who \in Accounts \/ left["faults"] < event.faults
  BY DEF OneEntryEach
<1>1. e \in entries /\ f \in entries /\ e.div = f.div
  BY DEF In
<1>2. e.row # f.row
  BY <1>1 DEF PeopleInv, EntriesSound, RowOnce
<1>3. ASSUME e.known, f.known, e.who = f.who
      PROVE  /\ "partner" \in {e.how, f.how}
             /\ e.who \in Accounts \/ left["faults"] < event.faults
  <2>1. e.known = TRUE /\ f.known = TRUE
    BY <1>1, <1>3 DEF PeopleInv, EntriesSound, RowsOK
  <2> QED
    BY <1>1, <1>3, <2>1 DEF PeopleInv, EntriesSound, KnownOnce, Twofold
<1> QED
  BY <1>2, <1>3

\* While nobody shares a phone, whoever is known by theirs is in a division
\* once, and no player's row is in it twice, with any number of people,
\* requests, partners, promotions, approvals, payments, failures and restarts:
\* what RegisterPlayer checks under the event's lock stays true until it inserts
\* (registrationExistsByContact, service.go:5094), and a partner entered again
\* has an account or was missed by a look-up (linkPartner, service.go:4723).
THEOREM OneEntryEachHolds ==
  ASSUME OwnPhones
  PROVE  FeesSpec => []OneEntryEach
<1>1. InitFees => PeopleInv
  BY PeopleInit
<1>2. Inv /\ PeopleInv /\ [NextFees]_<<base, fees>> => PeopleInv'
  BY PeopleStep
<1>3. PeopleInv => OneEntryEach
  BY PeopleImplies
<1> QED
  BY <1>1, <1>2, <1>3, InvHolds, PTL DEF FeesSpec
===============================================================================
