---------------------------- MODULE MCClassSeats -----------------------------
(* TLC instances of ClassSeats: several afternoons in one run, each with its *)
(* own calls and number of requests at a time.                               *)
EXTENDS ClassSeats, TLC

CONSTANTS a, b, c, q1, q2, i1, i2

VARIABLE afternoon

None == [k \in Kinds |-> 0]
Booking  == {a, b, c}
Payments == {i1, i2}
Two  == {q1, q2}
One  == {q1}

MostOf(afternoons) ==
    [k \in Kinds |-> CHOOSE n \in {e.calls[k] : e \in afternoons} :
                         \A e \in afternoons : e.calls[k] <= n]

\* Cancellations race payments, a failing refund and the sweeps; bookings and
\* returns of credits race each other and a process stop; one request at a
\* time: a waitlist that moves; a class that is deleted; the coach's desk.
Paying    == [enroll |-> 2, cancel |-> 1, pay |-> 2, hear |-> 2, lapse |-> 1, fault |-> 1] @@ None
Crediting == [enroll |-> 2, cancel |-> 2, fault |-> 1, stop |-> 1] @@ None
Waitlist  == [enroll |-> 3, cancel |-> 2, lapse |-> 2, near |-> 1] @@ None
Deleting  == [enroll |-> 2, pay |-> 1, hear |-> 2, cancel |-> 1, delete |-> 2, fault |-> 2] @@ None
Desk      == [enroll |-> 3, cash |-> 1, edit |-> 1, promote |-> 1, remove |-> 1, pack |-> 1] @@ None

\* once: nobody books twice or opens two checkouts; orderly: one request at a
\* time and nothing but bookings, cancellations and time.
Afternoons == {
    [calls |-> Paying,    requests |-> Two, who |-> {a, b},    once |-> TRUE,  orderly |-> FALSE],
    [calls |-> Crediting, requests |-> Two, who |-> {a},       once |-> FALSE, orderly |-> FALSE],
    [calls |-> Waitlist,  requests |-> One, who |-> {a, b, c}, once |-> TRUE,  orderly |-> TRUE],
    [calls |-> Deleting,  requests |-> One, who |-> {a, b},    once |-> TRUE,  orderly |-> FALSE],
    [calls |-> Desk,      requests |-> One, who |-> {a, b},    once |-> FALSE, orderly |-> FALSE]}
Most == MostOf(Afternoons)

Afternoon(e) == [least |-> [k \in Kinds |-> Budget[k] - e.calls[k]],
                 away |-> Requests \ e.requests, absent |-> Players \ e.who,
                 once |-> e.once, orderly |-> e.orderly]
Kept ==
    /\ \A k \in Kinds : left[k] >= afternoon.least[k]
    /\ \A q \in afternoon.away : req[q] = Idle
    /\ \A q \in Requests : At(q, "enr.count") =>
          /\ req[q].who \notin afternoon.absent
          /\ afternoon.once => req[q].seen[req[q].who].status = "absent"
    /\ \A i, j \in Intents : afternoon.once /\ i # j /\ intent[i].of = intent[j].of
                                => intent[i].of = Nobody

Tonight == Init /\ afternoon \in {Afternoon(e) : e \in Afternoons}
Goes    == UNCHANGED afternoon /\ Next /\ Kept'

\* Handlers that have begun go on, and the sweep comes round (the ticker in
\* cmd/api/main.go).
Turning == \A q \in Requests :
              /\ WF_<<vars, afternoon>>(Continue(q) /\ UNCHANGED afternoon)
              /\ WF_<<vars, afternoon>>(SweepRefunds(q) /\ UNCHANGED afternoon)
AfternoonSpec == Tonight /\ [][Goes]_<<vars, afternoon>> /\ Turning

\* Served one request at a time, the class is never overbooked and seats are
\* taken in turn (classEnrolledCount, promoteNextWaitlisted).
SeatsInTurn == afternoon.orderly => SeatsTaken
=============================================================================
