-------------------------- MODULE ScoreReportsProofs --------------------------
(***************************************************************************)
(* Theorems about BracketPlay, for every draw, set of devices and bound:   *)
(* the type invariant, that results exclude each other while they are      *)
(* written and routed, and that the event is over exactly when every game  *)
(* is played; and for every draw that leads one way, that results are      *)
(* carried to the games they lead to, belong to the sides that played      *)
(* them, and stand while those do.  Then about ScoreReports: all of it     *)
(* still holds when players report the scores; a report has one outcome;   *)
(* and a confirmed score counts, is open again, or was lost with a failure *)
(* to open it again.                                                       *)
(***************************************************************************)
EXTENDS ScoreReports, FiniteSetTheorems, SequenceTheorems, TLAPS

-----------------------------------------------------------------------------
(* What a request has still to execute.                                    *)

Feeds   == [to : Games, slot : 1..2]
Asked   == [op : {"check", "lock"}, game : Games, won : 1..2]
Writing == [op : {"write"}, game : Games, won : 1..2]
Started == [op : {"start"}, game : Games]
Ending  == [op : {"sync"}, game : Games]

Deciding ==
    IF GrandFinal \in Games
    THEN [op : {"decide"}, won : 1..2]
         \cup [op : {"strip", "drop", "make", "compare", "empty"}]
         \cup [op : {"copy"}, sides : [1..2 -> Sides]]
    ELSE {}

Work == [op : {"clear"}, to : Feeds, from : Games, slot : 1..2]
        \cup [op : {"fill"}, to : Feeds, from : Games, slot : 1..2, before : Sides]
        \cup [op : {"reset"}, game : Games]
        \cup [op : {"wipe"}, to : Feeds]
        \cup Deciding

\* Statements of W and one of E at the end.
Chain(s, W, E) ==
    /\ s \in Seq(W \cup E) /\ Len(s) >= 1
    /\ \A i \in 1..(Len(s) - 1) : s[i] \in W
    /\ s[Len(s)] \in E

Alone(s, S) == s \in Seq(S) /\ Len(s) = 1

\* Past its write, a result has statements to execute and then the event's
\* status to reconcile; only the holder of the lock is at or past its write.
Routes(d) == Chain(todo[d], Work, Ending)
Waits1(d) == todo[d] = <<>> \/ Alone(todo[d], Asked \cup Started)
RequestOK(d) == IF lock = d THEN Alone(todo[d], Writing) \/ Routes(d) ELSE Waits1(d)

Settled == over <=> AllPlayed

\* Between requests the event's status is right, unless a failure left it.
Reconciled == Undisturbed => Settled \/ \E d \in Devices : lock = d /\ Routes(d)

\* What TypeOK says of everything but the requests and the lock.
DataOK ==
    /\ side \in [Games -> [1..2 -> Sides]]
    /\ status \in [Games -> Statuses]
    /\ winner \in [Games -> 0..2]
    /\ \A g \in Games : /\ winner[g] # 0 <=> status[g] = "completed"
                        /\ status[g] = "absent" => g = ResetGame
    /\ over \in BOOLEAN
    /\ left \in [{"rescores", "marks", "faults"} -> Nat]
    /\ playedBy \in [Games -> [1..2 -> Sides]]
    /\ routed \subseteq Games

\* The inductive invariant.
IInv ==
    /\ event \in Tournaments
    /\ DataOK
    /\ lock \in Devices \cup {Free}
    /\ left["faults"] <= event.faults
    /\ DOMAIN todo = Devices /\ \A d \in Devices : RequestOK(d)
    /\ Reconciled

-----------------------------------------------------------------------------
(* Chains.                                                                 *)

LEMMA ChainHead ==
    ASSUME NEW W, NEW E, NEW s, Chain(s, W, E)
    PROVE  /\ s # <<>> /\ s \in Seq(W \cup E)
           /\ Head(s) \in W \/ Head(s) \in E
           /\ Head(s) \notin E => Len(s) > 1 /\ Head(s) \in W
           /\ Head(s) \notin W => Len(s) = 1 /\ Tail(s) = <<>>
<1>1. s # <<>> /\ s \in Seq(W \cup E) /\ Len(s) \in Nat /\ Len(s) >= 1
    BY DEF Chain
<1>2. Head(s) = s[1]
    BY <1>1
<1>3. CASE Len(s) = 1
    <2>1. Tail(s) \in Seq(W \cup E) /\ Len(Tail(s)) = 0
        BY <1>1, <1>3, HeadTailProperties
    <2>2. Tail(s) = <<>>
        BY <2>1, EmptySeq
    <2>3. Head(s) \in E
        BY <1>2, <1>3 DEF Chain
    <2> QED
        BY <1>1, <1>3, <2>2, <2>3
<1>4. CASE Len(s) > 1
    <2>1. Head(s) \in W
        BY <1>1, <1>2, <1>4 DEF Chain
    <2> QED
        BY <1>1, <1>4, <2>1
<1>5. Len(s) = 1 \/ Len(s) > 1
    <2> DEFINE n == Len(s)
    <2>1. n \in Nat /\ n >= 1
        BY <1>1
    <2> HIDE DEF n
    <2>2. n = 1 \/ n > 1
        BY <2>1
    <2> QED
        BY <2>2 DEF n
<1> QED
    BY <1>3, <1>4, <1>5

LEMMA ChainOn ==
    ASSUME NEW W, NEW E, NEW s, Chain(s, W, E), Len(s) > 1, NEW more \in Seq(W)
    PROVE  Chain(more \o Tail(s), W, E) /\ more \o Tail(s) # <<>>
<1> DEFINE r == more \o Tail(s)
<1>1. /\ s \in Seq(W \cup E) /\ Len(s) \in Nat /\ s # <<>>
      /\ Tail(s) \in Seq(W \cup E) /\ Len(Tail(s)) = Len(s) - 1
      /\ \A i \in 1..(Len(s) - 1) : Tail(s)[i] = s[i + 1]
    BY DEF Chain
<1>2. more \in Seq(W \cup E) /\ Len(more) \in Nat
    OBVIOUS
<1>3. /\ r \in Seq(W \cup E) /\ Len(r) = Len(more) + Len(s) - 1
      /\ \A i \in 1..Len(r) : r[i] = IF i <= Len(more) THEN more[i]
                                     ELSE Tail(s)[i - Len(more)]
    BY <1>1, <1>2
<1> HIDE DEF r
<1>4. ASSUME NEW i \in 1..(Len(r) - 1)
      PROVE  r[i] \in W
    <2>1. CASE i <= Len(more)
        BY <1>2, <1>3, <2>1
    <2>2. CASE i > Len(more)
        <3>1. i - Len(more) \in 1..(Len(s) - 1) /\ i - Len(more) + 1 \in 1..(Len(s) - 1)
            BY <1>1, <1>2, <1>3, <2>2
        <3>2. Tail(s)[i - Len(more)] = s[i - Len(more) + 1]
            BY <1>1, <3>1
        <3>3. r[i] = Tail(s)[i - Len(more)]
            BY <1>2, <1>3, <2>2
        <3> QED
            BY <3>1, <3>2, <3>3 DEF Chain
    <2> QED
        BY <1>2, <1>3, <2>1, <2>2
<1>5. r[Len(r)] \in E
    <2>1. Len(r) > Len(more) /\ Len(r) \in 1..Len(r) /\ Len(r) - Len(more) = Len(s) - 1
        BY <1>1, <1>2, <1>3
    <2>2. r[Len(r)] = Tail(s)[Len(s) - 1]
        BY <1>1, <1>2, <1>3, <2>1
    <2> QED
        BY <1>1, <2>2 DEF Chain
<1>6. Len(r) >= 1 /\ r # <<>>
    BY <1>1, <1>2, <1>3
<1> QED
    BY <1>3, <1>4, <1>5, <1>6 DEF Chain, r

LEMMA AloneSome ==
    ASSUME NEW s, NEW S, Alone(s, S)
    PROVE  s # <<>>
<1>1. Len(<<>>) = 0
    OBVIOUS
<1> QED
    BY <1>1 DEF Alone

LEMMA ChainEnd ==
    ASSUME NEW W, NEW E, NEW more \in Seq(W), NEW e \in E
    PROVE  Chain(more \o <<e>>, W, E) /\ more \o <<e>> # <<>>
<1> DEFINE r == more \o <<e>>
<1>1. /\ r \in Seq(W \cup E) /\ Len(r) = Len(more) + 1 /\ Len(more) \in Nat
      /\ \A i \in 1..Len(more) : r[i] = more[i]
      /\ r[Len(more) + 1] = e
    OBVIOUS
<1>2. \A i \in 1..Len(more) : more[i] \in W
    OBVIOUS
<1> HIDE DEF r
<1>3. Len(r) >= 1 /\ r # <<>> /\ 1..(Len(r) - 1) = 1..Len(more)
    BY <1>1
<1>4. \A i \in 1..(Len(r) - 1) : r[i] \in W
    BY <1>1, <1>2, <1>3
<1> QED
    BY <1>1, <1>3, <1>4 DEF Chain, r

-----------------------------------------------------------------------------
(* Requests.                                                               *)

\* What the request of d can be doing.
LEMMA Kinds ==
    ASSUME IInv, NEW d \in Devices, ~Idle(d)
    PROVE  \/ lock # d /\ Alone(todo[d], Asked \cup Started) /\ Now(d) \in Asked \cup Started
           \/ lock = d /\ Alone(todo[d], Writing) /\ Now(d) \in Writing
           \/ lock = d /\ Routes(d) /\ Now(d) \in Work /\ Len(todo[d]) > 1
           \/ lock = d /\ Routes(d) /\ Now(d) \in Ending /\ Tail(todo[d]) = <<>>
<1>1. RequestOK(d) /\ todo[d] # <<>>
    BY DEF IInv, Idle
<1>2. ASSUME NEW S, Alone(todo[d], S)
      PROVE  Now(d) \in S
    BY <1>2 DEF Alone, Now
<1>3. CASE lock # d
    BY <1>1, <1>2, <1>3 DEF RequestOK, Waits1
<1>4. CASE lock = d /\ Alone(todo[d], Writing)
    BY <1>2, <1>4
<1>5. CASE lock = d /\ Routes(d)
    <2>1. Now(d) \in Work \/ Now(d) \in Ending
        BY <1>5, ChainHead DEF Routes, Now
    <2>2. Work \cap Ending = {}
        BY DEF Work, Ending, Deciding
    <2>3. CASE Now(d) \in Work
        <3>1. Now(d) \notin Ending
            BY <2>2, <2>3
        <3> QED
            BY <1>5, <2>3, <3>1, ChainHead DEF Routes, Now
    <2>4. CASE Now(d) \in Ending
        <3>1. Now(d) \notin Work
            BY <2>2, <2>4
        <3> QED
            BY <1>5, <2>4, <3>1, ChainHead DEF Routes, Now
    <2> QED
        BY <2>1, <2>3, <2>4
<1> QED
    BY <1>1, <1>3, <1>4, <1>5 DEF RequestOK

\* A statement is of the kind its name says.
LEMMA KindOf ==
    ASSUME IInv, NEW d \in Devices, ~Idle(d)
    PROVE  /\ Now(d).op \in {"check", "lock"} => lock # d /\ Now(d) \in Asked
           /\ Now(d).op = "start" => lock # d /\ Now(d) \in Started
           /\ Now(d).op = "write" => lock = d /\ Now(d) \in Writing /\ Alone(todo[d], Writing)
           /\ Now(d).op = "sync"  => lock = d /\ Now(d) \in Ending /\ Tail(todo[d]) = <<>>
           /\ Now(d).op \notin {"check", "lock", "start", "write", "sync"} =>
                  lock = d /\ Routes(d) /\ Now(d) \in Work /\ Len(todo[d]) > 1
<1>1. Now(d) \in Asked => Now(d).op \in {"check", "lock"}
    BY DEF Asked
<1>2. Now(d) \in Started => Now(d).op = "start"
    BY DEF Started
<1>3. Now(d) \in Writing => Now(d).op = "write"
    BY DEF Writing
<1>4. Now(d) \in Ending => Now(d).op = "sync"
    BY DEF Ending
<1>5. Now(d) \in Work => Now(d).op \notin {"check", "lock", "start", "write", "sync"}
    BY DEF Work, Deciding
<1> QED
    BY Kinds, <1>1, <1>2, <1>3, <1>4, <1>5

\* Requests in order keep the shape TypeOK asks for.
LEMMA RequestShape ==
    ASSUME NEW d, RequestOK(d)
    PROVE  /\ \A i \in DOMAIN todo[d] : todo[d][i].op \in Ops
           /\ lock = d => ~Idle(d)
<1>1. \A x \in Asked \cup Started \cup Writing \cup Work \cup Ending : x.op \in Ops
    BY DEF Asked, Started, Writing, Work, Ending, Deciding, Ops
<1>2. CASE todo[d] = <<>> /\ lock # d
    BY <1>2
<1>3. ASSUME NEW S, Alone(todo[d], S), S \subseteq Asked \cup Started \cup Writing
      PROVE  (\A i \in DOMAIN todo[d] : todo[d][i].op \in Ops) /\ ~Idle(d)
    <2>1. \A i \in DOMAIN todo[d] : todo[d][i] \in S
        BY <1>3 DEF Alone
    <2>2. todo[d] # <<>>
        BY <1>3, AloneSome
    <2> QED
        BY <1>1, <1>3, <2>1, <2>2 DEF Idle
<1>4. CASE Routes(d)
    <2>1. todo[d] \in Seq(Work \cup Ending) /\ todo[d] # <<>>
        BY <1>4, ChainHead DEF Routes
    <2>2. \A i \in DOMAIN todo[d] : todo[d][i] \in Work \cup Ending
        BY <2>1
    <2> QED
        BY <1>1, <2>1, <2>2 DEF Idle
<1> QED
    BY <1>2, <1>3, <1>4 DEF RequestOK, Waits1

\* The draw stays, and with it what requests are made of.
LEMMA Fixed ==
    ASSUME event' = event
    PROVE  /\ draw' = draw /\ Games' = Games /\ Sides' = Sides
           /\ Asked' = Asked /\ Writing' = Writing /\ Started' = Started
           /\ Work' = Work /\ Ending' = Ending
<1>1. draw' = draw /\ Games' = Games
    BY DEF draw, Games
<1>2. Sides' = Sides
    BY <1>1 DEF Sides
<1> QED
    BY <1>1, <1>2 DEF Asked, Writing, Started, Work, Ending, Deciding, Feeds

\* A request that did not move, and is not concerned by the lock, is in order.
LEMMA OthersOK ==
    ASSUME IInv, event' = event, NEW e \in Devices, todo'[e] = todo[e], lock' = e <=> lock = e
    PROVE  RequestOK(e)'
<1>1. RequestOK(e)
    BY DEF IInv
<1> QED
    BY <1>1, Fixed DEF RequestOK, Routes, Waits1

\* So is one that has returned.
LEMMA ReturnedOK ==
    ASSUME NEW e, todo'[e] = <<>>, lock' # e
    PROVE  RequestOK(e)'
BY DEF RequestOK, Waits1

LEMMA LockIsOne ==
    ASSUME IInv
    PROVE  lock \in Devices \cup {Free} /\ Free \notin Devices
BY TournamentsAssumption DEF IInv

LEMMA ReturnOK ==
    ASSUME IInv, event' = event, NEW d \in Devices, Return(d)
    PROVE  /\ DOMAIN todo' = Devices /\ lock' \in Devices \cup {Free}
           /\ \A e \in Devices : RequestOK(e)'
           /\ \A e \in Devices : lock # d /\ lock = e /\ Routes(e) => lock' = e /\ Routes(e)'
<1>1. /\ DOMAIN todo' = Devices /\ todo'[d] = <<>>
      /\ \A e \in Devices \ {d} : todo'[e] = todo[e]
    BY DEF IInv, Return
<1>2. lock' # d /\ \A e \in Devices \ {d} : lock' = e <=> lock = e
    BY LockIsOne DEF Return
<1>3. \A e \in Devices : RequestOK(e)'
    BY <1>1, <1>2, OthersOK, ReturnedOK
<1>4. \A e \in Devices \ {d} : Routes(e) => Routes(e)'
    BY <1>1, Fixed DEF Routes
<1> QED
    BY <1>1, <1>2, <1>3, <1>4, LockIsOne DEF Return

\* A result that is being routed executes a statement before its last one.
LEMMA ContinueOK ==
    ASSUME IInv, event' = event, NEW d \in Devices, lock = d, Routes(d), Len(todo[d]) > 1,
           NEW more \in Seq(Work), Continue(d, more)
    PROVE  /\ DOMAIN todo' = Devices /\ lock' = d
           /\ \A e \in Devices : RequestOK(e)'
           /\ Routes(d)'
<1>1. Chain(more \o Tail(todo[d]), Work, Ending) /\ more \o Tail(todo[d]) # <<>>
    BY ChainOn DEF Routes
<1>2. /\ DOMAIN todo' = Devices /\ todo'[d] = more \o Tail(todo[d]) /\ lock' = d
      /\ \A e \in Devices \ {d} : todo'[e] = todo[e]
    BY <1>1 DEF IInv, Continue
<1>3. Routes(d)'
    BY <1>1, <1>2, Fixed DEF Routes
<1>4. \A e \in Devices \ {d} : RequestOK(e)'
    BY <1>2, OthersOK
<1> QED
    BY <1>2, <1>3, <1>4 DEF RequestOK

\* A request is where it was, or has moved on alone without holding the lock.
LEMMA MovedOK ==
    ASSUME IInv, event' = event, NEW d \in Devices, lock # d, lock' = lock,
           NEW s, todo' = [todo EXCEPT ![d] = s], s = <<>> \/ Alone(s, Asked \cup Started)
    PROVE  /\ DOMAIN todo' = Devices
           /\ \A e \in Devices : RequestOK(e)'
           /\ \A e \in Devices : lock = e /\ Routes(e) => lock' = e /\ Routes(e)'
<1>1. /\ DOMAIN todo' = Devices /\ todo'[d] = s
      /\ \A e \in Devices \ {d} : todo'[e] = todo[e]
    BY DEF IInv
<1>2. RequestOK(d)'
    BY <1>1, Fixed DEF RequestOK, Waits1
<1>3. \A e \in Devices \ {d} : RequestOK(e)'
    BY <1>1, OthersOK
<1>4. \A e \in Devices \ {d} : Routes(e) => Routes(e)'
    BY <1>1, Fixed DEF Routes
<1> QED
    BY <1>1, <1>2, <1>3, <1>4

-----------------------------------------------------------------------------
(* The draw, and the event's status.                                       *)

LEMMA DrawOK ==
    ASSUME event \in Tournaments, NEW g \in Games
    PROVE  WinsTo(g) \in Feeds \cup {NoFeed} /\ LosesTo(g) \in Feeds \cup {NoFeed}
<1>1. {event.draw.wins, event.draw.loses} \subseteq
          [event.draw.games -> [to : event.draw.games, slot : 1..2] \cup {NoFeed}]
    BY TournamentsAssumption
<1>2. /\ event.draw.wins[g] \in Feeds \cup {NoFeed}
      /\ event.draw.loses[g] \in Feeds \cup {NoFeed}
    BY <1>1 DEF Games, draw, Feeds
<1> QED
    BY <1>2 DEF WinsTo, LosesTo, draw

LEMMA DeciderOK ==
    ASSUME event \in Tournaments, GrandFinal \in Games
    PROVE  ResetGame \in Games
BY TournamentsAssumption DEF Games, draw

LEMMA StaysReconciled ==
    ASSUME IInv, event' = event, left'["faults"] = left["faults"], over' = over,
           AllPlayed' = AllPlayed,
           \A e \in Devices : lock = e /\ Routes(e) => lock' = e /\ Routes(e)'
    PROVE  Reconciled'
BY DEF IInv, Reconciled, Settled, Undisturbed

LEMMA DisturbedReconciled ==
    ASSUME IInv, event' = event, Spend("faults")
    PROVE  Reconciled' /\ left' \in [{"rescores", "marks", "faults"} -> Nat]
           /\ left'["faults"] <= event.faults
<1>1. left["faults"] \in Nat /\ left["faults"] > 0 /\ left["faults"] <= event.faults
      /\ event.faults \in Nat
    BY TournamentsAssumption DEF IInv, DataOK, Spend
<1>2. left'["faults"] = left["faults"] - 1
      /\ left' \in [{"rescores", "marks", "faults"} -> Nat]
    BY <1>1 DEF IInv, DataOK, Spend
<1>3. left'["faults"] < event.faults
    BY <1>1, <1>2
<1> QED
    BY <1>1, <1>2, <1>3 DEF Reconciled, Undisturbed

LEMMA SpendOK ==
    ASSUME IInv, NEW k \in {"rescores", "marks"}, Spend(k)
    PROVE  /\ left' \in [{"rescores", "marks", "faults"} -> Nat]
           /\ left'["faults"] = left["faults"]
BY DEF IInv, DataOK, Spend

\* The carrying of sides and the whole routing are statements of results.
LEMMA RoutingOK ==
    ASSUME IInv, NEW g \in Games, NEW w \in 1..2
    PROVE  Routing(g, w) \in Seq(Work)
<1>1. ASSUME NEW feed \in Feeds \cup {NoFeed}, NEW i \in 1..2
      PROVE  Carry(feed, g, i) \in Seq(Work)
    <2>1. CASE feed = NoFeed
        BY <2>1 DEF Carry
    <2>2. CASE feed # NoFeed
        <3>1. [op |-> "clear", to |-> feed, from |-> g, slot |-> i] \in Work
            BY <2>2 DEF Work
        <3> QED
            BY <2>2, <3>1 DEF Carry
    <2> QED
        BY <2>1, <2>2
<1>2. Carry(WinsTo(g), g, w) \in Seq(Work) /\ Carry(LosesTo(g), g, 3 - w) \in Seq(Work)
    <2>1. 3 - w \in 1..2
        OBVIOUS
    <2> QED
        BY <1>1, <2>1, DrawOK DEF IInv
<1>3. (IF g = GrandFinal THEN <<[op |-> "decide", won |-> w]>> ELSE <<>>) \in Seq(Work)
    <2>1. CASE g = GrandFinal
        <3>1. [op |-> "decide", won |-> w] \in Work
            BY <2>1 DEF Work, Deciding
        <3> QED
            BY <2>1, <3>1
    <2>2. CASE g # GrandFinal
        BY <2>2
    <2> QED
        BY <2>1, <2>2
<1> QED
    BY <1>2, <1>3 DEF Routing

-----------------------------------------------------------------------------
(* The statements of a result that is being routed.                        *)

LEMMA StatementOK ==
    ASSUME IInv, event' = event, NEW d \in Devices, lock = d, Routes(d), Len(todo[d]) > 1,
           NEW more \in Seq(Work), Continue(d, more), DataOK', left' = left
    PROVE  IInv'
<1>1. /\ DOMAIN todo' = Devices /\ lock' = d /\ Routes(d)'
      /\ \A e \in Devices : RequestOK(e)'
    BY ContinueOK
<1>2. Reconciled'
    BY <1>1 DEF Reconciled
<1> QED
    BY <1>1, <1>2 DEF IInv

LEMMA SideOK ==
    ASSUME IInv, event' = event, side' \in [Games -> [1..2 -> Sides]],
           UNCHANGED <<status, winner, over, left, playedBy, routed>>
    PROVE  DataOK'
BY Fixed DEF IInv, DataOK

LEMMA ResultOK ==
    ASSUME IInv, event' = event, NEW g \in Games, NEW c \in Statuses \ {"absent"}, NEW w \in 0..2,
           w # 0 <=> c = "completed",
           status' = [status EXCEPT ![g] = c], winner' = [winner EXCEPT ![g] = w],
           side' = side, over' = over, left' = left,
           playedBy' \in [Games -> [1..2 -> Sides]], routed' \subseteq Games
    PROVE  DataOK'
<1>1. /\ status' \in [Games -> Statuses] /\ winner' \in [Games -> 0..2]
      /\ status'[g] = c /\ winner'[g] = w
      /\ \A h \in Games \ {g} : status'[h] = status[h] /\ winner'[h] = winner[h]
    BY DEF IInv, DataOK
<1>2. \A h \in Games : /\ winner'[h] # 0 <=> status'[h] = "completed"
                       /\ status'[h] = "absent" => h = ResetGame
    BY <1>1 DEF IInv, DataOK
<1> QED
    BY <1>1, <1>2, Fixed DEF IInv, DataOK, Statuses

LEMMA ClearOK ==
    ASSUME IInv, NEW d \in Devices, Clear(d)
    PROVE  IInv'
<1> DEFINE s == Now(d)
           more == <<[op |-> "fill", to |-> s.to, from |-> s.from, slot |-> s.slot,
                      before |-> side[s.to.to][s.to.slot]]>>
<1>1. lock = d /\ Routes(d) /\ Len(todo[d]) > 1 /\ s \in Work /\ s.op = "clear"
    BY KindOf DEF Clear, At
<1>2. s \in [op : {"clear"}, to : Feeds, from : Games, slot : 1..2]
    BY <1>1 DEF Work, Deciding
<1>3. s.to \in Feeds /\ s.to.to \in Games /\ s.to.slot \in 1..2 /\ s.from \in Games
      /\ s.slot \in 1..2
    BY <1>2 DEF Feeds
<1>4. Nobody \in Sides /\ side \in [Games -> [1..2 -> Sides]]
    BY DEF IInv, DataOK, Sides
<1>5. more \in Seq(Work)
    <2>1. more[1] \in Work
        BY <1>3, <1>4 DEF Work
    <2> QED
        BY <2>1
<1>6. DataOK'
    BY <1>3, <1>4, SideOK DEF Clear
<1> QED
    BY <1>1, <1>5, <1>6, StatementOK DEF Clear

LEMMA FillOK ==
    ASSUME IInv, NEW d \in Devices, Fill(d)
    PROVE  IInv'
<1> DEFINE s == Now(d)
           e == side[s.from][s.slot]
<1>1. lock = d /\ Routes(d) /\ Len(todo[d]) > 1 /\ s \in Work /\ s.op = "fill"
    BY KindOf DEF Fill, At
<1>2. s \in [op : {"fill"}, to : Feeds, from : Games, slot : 1..2, before : Sides]
    BY <1>1 DEF Work, Deciding
<1>3. s.to.to \in Games /\ s.to.slot \in 1..2 /\ s.from \in Games /\ s.slot \in 1..2
    BY <1>2 DEF Feeds
<1>4. Nobody \in Sides /\ side \in [Games -> [1..2 -> Sides]] /\ e \in Sides
    <2>1. Nobody \in Sides /\ side \in [Games -> [1..2 -> Sides]]
        BY DEF IInv, DataOK, Sides
    <2> QED
        BY <1>3, <2>1
<1>5. Unwind(s.before, e, s.to.to) \in Seq(Work)
    <2>1. [op |-> "reset", game |-> s.to.to] \in Work
        BY <1>3 DEF Work
    <2> QED
        BY <2>1 DEF Unwind
<1>6. DataOK'
    <2>1. \A sides \in [1..2 -> Sides] : Put(sides, s.to.slot, e) \in [1..2 -> Sides]
        BY <1>4 DEF Put
    <2>2. side' \in [Games -> [1..2 -> Sides]]
        BY <1>3, <1>4, <2>1 DEF Fill
    <2> QED
        BY <2>2, SideOK DEF Fill
<1> QED
    BY <1>1, <1>5, <1>6, StatementOK DEF Fill

LEMMA ResetOK ==
    ASSUME IInv, NEW d \in Devices, Reset(d)
    PROVE  IInv'
<1> DEFINE g == Now(d).game
           more == WipeAndReset(WinsTo(g)) \o WipeAndReset(LosesTo(g))
<1>1. lock = d /\ Routes(d) /\ Len(todo[d]) > 1 /\ Now(d) \in Work /\ Now(d).op = "reset"
    BY KindOf DEF Reset, At
<1>2. g \in Games
    BY <1>1 DEF Work, Deciding
<1>3. more \in Seq(Work)
    <2>1. ASSUME NEW feed \in Feeds \cup {NoFeed}
          PROVE  WipeAndReset(feed) \in Seq(Work)
        <3>1. CASE feed = NoFeed
            BY <3>1 DEF WipeAndReset
        <3>2. CASE feed # NoFeed
            <4>1. feed \in Feeds /\ feed.to \in Games
                BY <3>2 DEF Feeds
            <4>2. /\ [op |-> "wipe", to |-> feed] \in Work
                  /\ [op |-> "reset", game |-> feed.to] \in Work
                BY <4>1 DEF Work
            <4> QED
                BY <3>2, <4>2 DEF WipeAndReset
        <3> QED
            BY <3>1, <3>2
    <2>2. /\ WipeAndReset(WinsTo(g)) \in Seq(Work)
          /\ WipeAndReset(LosesTo(g)) \in Seq(Work)
        BY <1>2, <2>1, DrawOK DEF IInv
    <2> QED
        BY <2>2
<1>4. <<>> \in Seq(Work)
    OBVIOUS
<1>5. CASE status[g] # "completed"
    <2>1. UNCHANGED <<event, side, status, winner, over, left, playedBy, routed>>
          /\ Continue(d, <<>>)
        BY <1>5 DEF Reset
    <2>2. DataOK'
        BY <2>1, Fixed DEF IInv, DataOK
    <2> QED
        BY <1>1, <1>4, <2>1, <2>2, StatementOK
<1>6. CASE status[g] = "completed"
    <2>1. /\ UNCHANGED <<event, side, over, left, playedBy, routed>>
          /\ status' = [status EXCEPT ![g] = "scheduled"]
          /\ winner' = [winner EXCEPT ![g] = 0]
          /\ Continue(d, more)
        BY <1>6 DEF Reset, Unplayed
    <2>2. /\ playedBy' \in [Games -> [1..2 -> Sides]] /\ routed' \subseteq Games
          /\ "scheduled" \in Statuses \ {"absent"} /\ 0 \in 0..2
        BY <2>1 DEF IInv, DataOK, Statuses
    <2>3. DataOK'
        <3> HIDE DEF g, more
        <3> QED
            BY <1>2, <2>1, <2>2, ResultOK
    <2> QED
        BY <1>1, <1>3, <2>1, <2>3, StatementOK
<1> QED
    BY <1>5, <1>6

LEMMA WipeOK ==
    ASSUME IInv, NEW d \in Devices, Wipe(d)
    PROVE  IInv'
<1>1. lock = d /\ Routes(d) /\ Len(todo[d]) > 1 /\ Now(d) \in Work /\ Now(d).op = "wipe"
    BY KindOf DEF Wipe, At
<1>2. Now(d).to.to \in Games /\ Now(d).to.slot \in 1..2
    BY <1>1 DEF Work, Deciding, Feeds
<1>3. Nobody \in Sides /\ side \in [Games -> [1..2 -> Sides]] /\ <<>> \in Seq(Work)
    BY DEF IInv, DataOK, Sides
<1>4. DataOK'
    BY <1>2, <1>3, SideOK DEF Wipe
<1> QED
    BY <1>1, <1>3, <1>4, StatementOK DEF Wipe

-----------------------------------------------------------------------------
(* The statements about the deciding game.                                 *)

DecidingOps == {"decide", "strip", "drop", "make", "compare", "empty", "copy"}

\* They come up in draws that have a grand final.
LEMMA DecidingKind ==
    ASSUME IInv, NEW d \in Devices, ~Idle(d), Now(d).op \in DecidingOps
    PROVE  /\ lock = d /\ Routes(d) /\ Len(todo[d]) > 1
           /\ GrandFinal \in Games /\ ResetGame \in Games
           /\ Now(d).op = "copy" => Now(d).sides \in [1..2 -> Sides]
           /\ \A op \in DecidingOps \ {"decide", "copy"} : [op |-> op] \in Work
<1>1. lock = d /\ Routes(d) /\ Len(todo[d]) > 1 /\ Now(d) \in Work
    BY KindOf DEF DecidingOps
<1>2. Now(d) \in Deciding
    BY <1>1 DEF Work, DecidingOps
<1>3. GrandFinal \in Games
    BY <1>2 DEF Deciding
<1>4. ResetGame \in Games
    BY <1>3, DeciderOK DEF IInv
<1>5. Now(d).op = "copy" => Now(d).sides \in [1..2 -> Sides]
    BY <1>2, <1>3 DEF Deciding
<1>6. \A op \in DecidingOps \ {"decide", "copy"} : [op |-> op] \in Work
    BY <1>3 DEF Work, Deciding, DecidingOps
<1> QED
    BY <1>1, <1>3, <1>4, <1>5, <1>6

LEMMA SameDataOK ==
    ASSUME IInv, UNCHANGED <<event, side, status, winner, over, left, playedBy, routed>>
    PROVE  DataOK'
BY Fixed DEF IInv, DataOK

LEMMA DecideOK ==
    ASSUME IInv, NEW d \in Devices, Decide(d)
    PROVE  IInv'
<1>1. /\ lock = d /\ Routes(d) /\ Len(todo[d]) > 1
      /\ \A op \in DecidingOps \ {"decide", "copy"} : [op |-> op] \in Work
    BY DecidingKind DEF Decide, At, DecidingOps
<1>2. \A op \in DecidingOps \ {"decide", "copy"} : Statement(op) \in Seq(Work)
    <2>1. \A x \in Work : <<x>> \in Seq(Work)
        OBVIOUS
    <2> QED
        BY <1>1, <2>1 DEF Statement
<1>3. /\ Statement("strip") \o Statement("drop") \in Seq(Work)
      /\ Statement("make") \o Statement("compare") \in Seq(Work)
      /\ Statement("compare") \in Seq(Work) /\ <<>> \in Seq(Work)
    BY <1>2 DEF DecidingOps
<1>4. \E more \in Seq(Work) : Continue(d, more)
    BY <1>3 DEF Decide
<1>5. DataOK'
    BY SameDataOK DEF Decide
<1> QED
    BY <1>1, <1>4, <1>5, StatementOK DEF Decide

LEMMA StripOK ==
    ASSUME IInv, NEW d \in Devices, Strip(d)
    PROVE  IInv'
<1>1. lock = d /\ Routes(d) /\ Len(todo[d]) > 1 /\ ResetGame \in Games
    BY DecidingKind DEF Strip, At, DecidingOps
<1>2. /\ <<Nobody, Nobody>> \in [1..2 -> Sides] /\ <<>> \in Seq(Work)
      /\ side \in [Games -> [1..2 -> Sides]]
    BY DEF IInv, DataOK, Sides
<1>3. side' \in [Games -> [1..2 -> Sides]]
    BY <1>1, <1>2 DEF Strip
<1>4. DataOK'
    BY <1>3, SideOK DEF Strip
<1> QED
    BY <1>1, <1>2, <1>4, StatementOK DEF Strip

LEMMA CopyOK ==
    ASSUME IInv, NEW d \in Devices, Copy(d)
    PROVE  IInv'
<1>1. /\ lock = d /\ Routes(d) /\ Len(todo[d]) > 1 /\ ResetGame \in Games
      /\ Now(d).sides \in [1..2 -> Sides]
    BY DecidingKind DEF Copy, At, DecidingOps
<1>2. side \in [Games -> [1..2 -> Sides]] /\ <<>> \in Seq(Work)
    BY DEF IInv, DataOK
<1>3. side' \in [Games -> [1..2 -> Sides]]
    BY <1>1, <1>2 DEF Copy
<1>4. DataOK'
    BY <1>3, SideOK DEF Copy
<1> QED
    BY <1>1, <1>2, <1>4, StatementOK DEF Copy

LEMMA CompareOK ==
    ASSUME IInv, NEW d \in Devices, Compare(d)
    PROVE  IInv'
<1>1. /\ lock = d /\ Routes(d) /\ Len(todo[d]) > 1 /\ GrandFinal \in Games
      /\ [op |-> "empty"] \in Work
    BY DecidingKind DEF Compare, At, DecidingOps
<1>2. [op |-> "copy", sides |-> side[GrandFinal]] \in Work
    BY <1>1 DEF IInv, DataOK, Work, Deciding
<1>3. /\ Statement("empty") \o <<[op |-> "copy", sides |-> side[GrandFinal]]>> \in Seq(Work)
      /\ <<>> \in Seq(Work)
    BY <1>1, <1>2 DEF Statement
<1>4. \E more \in Seq(Work) : Continue(d, more)
    BY <1>3 DEF Compare
<1>5. DataOK'
    BY SameDataOK DEF Compare
<1> QED
    BY <1>1, <1>4, <1>5, StatementOK DEF Compare

LEMMA MakeOK ==
    ASSUME IInv, NEW d \in Devices, Make(d)
    PROVE  IInv'
<1>1. lock = d /\ Routes(d) /\ Len(todo[d]) > 1 /\ ResetGame \in Games
    BY DecidingKind DEF Make, At, DecidingOps
<1>2. /\ playedBy' \in [Games -> [1..2 -> Sides]] /\ routed' \subseteq Games
      /\ "scheduled" \in Statuses \ {"absent"} /\ 0 \in 0..2 /\ <<>> \in Seq(Work)
    BY Fixed DEF Make, IInv, DataOK, Statuses
<1>3. DataOK'
    BY <1>1, <1>2, ResultOK DEF Make
<1> QED
    BY <1>1, <1>2, <1>3, StatementOK DEF Make

LEMMA DropOK ==
    ASSUME IInv, NEW d \in Devices, Drop(d)
    PROVE  IInv'
<1>1. lock = d /\ Routes(d) /\ Len(todo[d]) > 1 /\ ResetGame \in Games
    BY DecidingKind DEF Drop, At, DecidingOps
<1>2. Chain(<<>> \o Tail(todo[d]), Work, Ending)
    <2>1. <<>> \in Seq(Work)
        OBVIOUS
    <2> QED
        BY <1>1, <2>1, ChainOn DEF Routes
<1>3. <<>> \o Tail(todo[d]) = Tail(todo[d])
    BY <1>1, ChainHead DEF Routes
<1>4. /\ DOMAIN todo' = Devices /\ todo'[d] = Tail(todo[d]) /\ lock' = d
      /\ \A e \in Devices \ {d} : todo'[e] = todo[e] \/ todo'[e] = <<>>
    <2> DEFINE Lost(e) == ~Idle(e) /\ Now(e).op \in {"check", "lock", "write", "start"}
                                   /\ Now(e).game = ResetGame
               after(e) == CASE e = d   -> Tail(todo[d])
                             [] Lost(e) -> <<>>
                             [] OTHER   -> todo[e]
    <2>1. todo' = [e \in Devices |-> after(e)] /\ lock' = lock
        BY DEF Drop
    <2>2. \A e \in Devices \ {d} : after(e) = todo[e] \/ after(e) = <<>>
        <3> HIDE DEF Lost
        <3> QED
            OBVIOUS
    <2>3. ~Lost(d)
        BY <1>1, KindOf, ChainHead DEF Drop, At
    <2>4. after(d) = Tail(todo[d])
        BY <2>3
    <2> HIDE DEF after
    <2> QED
        BY <1>1, <2>1, <2>2, <2>4
<1>5. Routes(d)'
    BY <1>2, <1>3, <1>4, Fixed DEF Routes, Drop
<1>6. \A e \in Devices \ {d} : RequestOK(e)'
    BY <1>1, <1>4, OthersOK, ReturnedOK DEF Drop
<1>7. DataOK'
    <2>1. /\ status' \in [Games -> Statuses] /\ winner' \in [Games -> 0..2]
          /\ status'[ResetGame] = "absent" /\ winner'[ResetGame] = 0
          /\ \A h \in Games \ {ResetGame} : status'[h] = status[h] /\ winner'[h] = winner[h]
        BY <1>1 DEF Drop, IInv, DataOK, Statuses
    <2>2. \A h \in Games : /\ winner'[h] # 0 <=> status'[h] = "completed"
                           /\ status'[h] = "absent" => h = ResetGame
        BY <2>1 DEF IInv, DataOK
    <2> QED
        BY <2>1, <2>2, Fixed DEF Drop, IInv, DataOK, Statuses
<1>8. RequestOK(d)' /\ Reconciled'
    BY <1>4, <1>5 DEF RequestOK, Reconciled
<1> QED
    BY <1>4, <1>6, <1>7, <1>8, LockIsOne DEF IInv, Drop

-----------------------------------------------------------------------------
(* The ends of a result: its request, its write, and its last statement.   *)

\* Steps after which the event's status is as right or wrong as it was.
LEMMA QuietOK ==
    ASSUME IInv, event' = event, DataOK', lock' \in Devices \cup {Free},
           left'["faults"] = left["faults"], over' = over, AllPlayed' = AllPlayed,
           DOMAIN todo' = Devices, \A e \in Devices : RequestOK(e)',
           \A e \in Devices : lock = e /\ Routes(e) => lock' = e /\ Routes(e)'
    PROVE  IInv'
<1>1. Reconciled'
    BY StaysReconciled
<1> QED
    BY <1>1 DEF IInv

LEMMA SamePlayed ==
    ASSUME event' = event, status' = status
    PROVE  AllPlayed' = AllPlayed
BY Fixed DEF AllPlayed

LEMMA CheckOK ==
    ASSUME IInv, NEW d \in Devices, Check(d)
    PROVE  IInv'
<1>1. lock # d /\ Now(d) \in Asked /\ Alone(todo[d], Asked \cup Started)
    BY Kinds, KindOf DEF Check, At
<1>2. Tail(todo[d]) = <<>>
    <2>1. Tail(todo[d]) \in Seq(Asked \cup Started) /\ Len(Tail(todo[d])) = 0
        BY <1>1, AloneSome, HeadTailProperties DEF Alone
    <2> QED
        BY <2>1, EmptySeq
<1> DEFINE next == [Now(d) EXCEPT !.op = "lock"]
<1>3. next \in Asked
    BY <1>1 DEF Asked
<1>4. <<next>> \o <<>> = <<next>>
    OBVIOUS
<1>5. Alone(<<next>>, Asked \cup Started) /\ <<next>> # <<>>
    BY <1>3 DEF Alone
<1>6. lock' = lock /\ \E s : /\ todo' = [todo EXCEPT ![d] = s]
                             /\ s = <<>> \/ Alone(s, Asked \cup Started)
    BY <1>1, <1>2, <1>4, <1>5 DEF Check, Continue, Return
<1>7. event' = event /\ over' = over /\ left' = left /\ DataOK' /\ AllPlayed' = AllPlayed
    BY SameDataOK, SamePlayed DEF Check
<1>8. /\ DOMAIN todo' = Devices
      /\ \A e \in Devices : RequestOK(e)'
      /\ \A e \in Devices : lock = e /\ Routes(e) => lock' = e /\ Routes(e)'
    BY <1>1, <1>6, <1>7, MovedOK
<1> QED
    BY <1>6, <1>7, <1>8, LockIsOne, QuietOK

LEMMA LockOK ==
    ASSUME IInv, NEW d \in Devices, Lock(d)
    PROVE  IInv'
<1>1. Now(d) \in Asked
    BY KindOf DEF Lock, At
<1>2. event' = event /\ over' = over /\ left' = left /\ DataOK' /\ AllPlayed' = AllPlayed
    BY SameDataOK, SamePlayed DEF Lock
<1> DEFINE next == [Now(d) EXCEPT !.op = "write"]
<1>3. Alone(<<next>>, Writing)
    <2>1. next \in Writing
        BY <1>1 DEF Asked, Writing
    <2> QED
        BY <2>1 DEF Alone
<1>4. /\ DOMAIN todo' = Devices /\ todo'[d] = <<next>> /\ lock' = d /\ lock \notin Devices
      /\ \A e \in Devices \ {d} : todo'[e] = todo[e]
    BY LockIsOne DEF Lock, IInv
<1>5. RequestOK(d)'
    BY <1>2, <1>3, <1>4, Fixed DEF RequestOK
<1>6. \A e \in Devices \ {d} : RequestOK(e)'
    BY <1>2, <1>4, OthersOK
<1> QED
    BY <1>2, <1>4, <1>5, <1>6, QuietOK

LEMMA WriteOK ==
    ASSUME IInv, NEW d \in Devices, Write(d)
    PROVE  IInv'
<1> DEFINE g == Now(d).game
           w == Now(d).won
<1>1. lock = d /\ Now(d) \in Writing /\ Alone(todo[d], Writing)
    BY KindOf DEF Write, At
<1>2. g \in Games /\ w \in 1..2
    BY <1>1 DEF Writing
<1>3. ~Routes(d)
    <2>1. Now(d) \notin Work /\ Now(d) \notin Ending
        BY <1>1 DEF Writing, Work, Ending, Deciding
    <2> QED
        BY <2>1, ChainHead DEF Routes, Now
<1>4. CASE status[g] = "absent"
    <2>1. Return(d) /\ UNCHANGED <<event, side, status, winner, over, left, playedBy, routed>>
        BY <1>4 DEF Write
    <2>2. event' = event /\ over' = over /\ left' = left /\ DataOK' /\ AllPlayed' = AllPlayed
        BY <2>1, SameDataOK, SamePlayed
    <2>3. /\ DOMAIN todo' = Devices /\ lock' \in Devices \cup {Free}
          /\ \A e \in Devices : RequestOK(e)'
        BY <2>1, ReturnOK
    <2> QED
        BY <1>1, <1>3, <2>2, <2>3, QuietOK
<1>5. CASE status[g] # "absent"
    <2> DEFINE more == Routing(g, w)
               end  == [op |-> "sync", game |-> g]
    <2>1. /\ UNCHANGED <<event, side, over, left>>
          /\ status' = [status EXCEPT ![g] = "completed"]
          /\ winner' = [winner EXCEPT ![g] = w]
          /\ playedBy' = [playedBy EXCEPT ![g] = side[g]]
          /\ routed' = routed \ {g}
          /\ Continue(d, more \o <<end>>)
        BY <1>5 DEF Write
    <2>2. more \in Seq(Work) /\ end \in Ending
        BY <1>2, RoutingOK DEF Ending
    <2> HIDE DEF more, end
    <2>3. Chain(more \o <<end>>, Work, Ending) /\ more \o <<end>> # <<>>
        BY <2>2, ChainEnd
    <2>4. (more \o <<end>>) \o Tail(todo[d]) = more \o <<end>>
        <3>1. Tail(todo[d]) \in Seq(Writing) /\ Len(Tail(todo[d])) = 0
            BY <1>1, AloneSome, HeadTailProperties DEF Alone
        <3>2. Tail(todo[d]) = <<>>
            BY <3>1, EmptySeq
        <3>3. more \o <<end>> \in Seq(Work \cup Ending)
            BY <2>3 DEF Chain
        <3>4. (more \o <<end>>) \o <<>> = more \o <<end>>
            BY <3>3, ConcatEmptySeq
        <3> QED
            BY <3>2, <3>4
    <2>5. /\ DOMAIN todo' = Devices /\ todo'[d] = more \o <<end>> /\ lock' = d
          /\ \A e \in Devices \ {d} : todo'[e] = todo[e]
        BY <1>1, <2>1, <2>3, <2>4 DEF Continue, IInv
    <2>6. Routes(d)'
        BY <2>1, <2>3, <2>5, Fixed DEF Routes
    <2>7. \A e \in Devices \ {d} : RequestOK(e)'
        BY <1>1, <2>1, <2>5, OthersOK
    <2>8. DataOK'
        <3>1. /\ playedBy' \in [Games -> [1..2 -> Sides]] /\ routed' \subseteq Games
              /\ "completed" \in Statuses \ {"absent"} /\ w \in 0..2 /\ w # 0
            BY <1>2, <2>1 DEF IInv, DataOK, Statuses
        <3> HIDE DEF g, w
        <3> QED
            BY <1>2, <2>1, <3>1, ResultOK
    <2>9. RequestOK(d)' /\ Reconciled'
        BY <2>5, <2>6 DEF RequestOK, Reconciled
    <2> QED
        BY <2>1, <2>5, <2>7, <2>8, <2>9 DEF IInv
<1> QED
    BY <1>4, <1>5

LEMMA SyncOK ==
    ASSUME IInv, NEW d \in Devices, Sync(d)
    PROVE  IInv'
<1>1. lock = d /\ Now(d) \in Ending /\ Tail(todo[d]) = <<>>
    BY KindOf DEF Sync, At
<1>2. Return(d)
    <2>1. <<>> \o <<>> = <<>>
        OBVIOUS
    <2> QED
        BY <1>1, <2>1 DEF Sync, Continue, Return
<1>3. event' = event /\ over' = AllPlayed /\ left' = left /\ AllPlayed' = AllPlayed
    BY SamePlayed DEF Sync, Synced
<1>4. DataOK'
    BY <1>1, Fixed DEF Sync, Synced, AllPlayed, IInv, DataOK, Ending
<1>5. Reconciled'
    BY <1>3 DEF Reconciled, Settled
<1> QED
    BY <1>2, <1>3, <1>4, <1>5, ReturnOK DEF IInv

LEMMA FailOK ==
    ASSUME IInv, NEW d \in Devices, Fail(d) \/ FailSync(d)
    PROVE  IInv'
<1>1. /\ Return(d) /\ Spend("faults") /\ event' = event
      /\ UNCHANGED <<side, status, winner, over, playedBy>>
    BY DEF Fail, FailSync
<1>2. routed' \subseteq Games
    <2>1. CASE Fail(d)
        BY <2>1 DEF Fail, IInv, DataOK
    <2>2. CASE FailSync(d)
        <3>1. Now(d).game \in Games
            BY <2>2, KindOf DEF FailSync, At, Ending
        <3> QED
            BY <2>2, <3>1 DEF FailSync, IInv, DataOK
    <2> QED
        BY <2>1, <2>2
<1>3. Reconciled' /\ left' \in [{"rescores", "marks", "faults"} -> Nat]
      /\ left'["faults"] <= event.faults
    BY <1>1, DisturbedReconciled
<1>4. DataOK'
    BY <1>1, <1>2, <1>3, Fixed DEF IInv, DataOK
<1> QED
    BY <1>1, <1>3, <1>4, ReturnOK DEF IInv

-----------------------------------------------------------------------------
(* New requests and marks.                                                 *)

LEMMA BegunOK ==
    ASSUME IInv, event' = event, NEW d \in Devices, Idle(d), lock' = lock,
           NEW r \in Asked \cup Started, todo' = [todo EXCEPT ![d] = <<r>>]
    PROVE  /\ DOMAIN todo' = Devices
           /\ \A e \in Devices : RequestOK(e)'
           /\ \A e \in Devices : lock = e /\ Routes(e) => lock' = e /\ Routes(e)'
<1>1. lock # d
    BY RequestShape DEF IInv
<1>2. Alone(<<r>>, Asked \cup Started)
    BY DEF Alone
<1> QED
    BY <1>1, <1>2, MovedOK

LEMMA ScoreOK ==
    ASSUME IInv, NEW d \in Devices, NEW g \in Games, NEW w \in 1..2, Score(d, g, w)
    PROVE  IInv'
<1>1. left' \in [{"rescores", "marks", "faults"} -> Nat] /\ left'["faults"] = left["faults"]
    <2>1. CASE status[g] = "completed"
        BY <2>1, SpendOK DEF Score
    <2>2. CASE status[g] # "completed"
        BY <2>2 DEF Score, IInv, DataOK
    <2> QED
        BY <2>1, <2>2
<1>2. event' = event /\ over' = over /\ lock' = lock /\ AllPlayed' = AllPlayed
    BY SamePlayed DEF Score
<1>3. DataOK'
    BY <1>1, Fixed DEF Score, IInv, DataOK
<1>4. [op |-> "check", game |-> g, won |-> w] \in Asked \cup Started
    BY DEF Asked
<1>5. /\ DOMAIN todo' = Devices
      /\ \A e \in Devices : RequestOK(e)'
      /\ \A e \in Devices : lock = e /\ Routes(e) => lock' = e /\ Routes(e)'
    BY <1>2, <1>4, BegunOK DEF Score
<1> QED
    BY <1>1, <1>2, <1>3, <1>5, LockIsOne, QuietOK

LEMMA StartOK ==
    ASSUME IInv, NEW d \in Devices, NEW g \in Games, Start(d, g)
    PROVE  IInv'
<1>1. left' \in [{"rescores", "marks", "faults"} -> Nat] /\ left'["faults"] = left["faults"]
    BY SpendOK DEF Start
<1>2. event' = event /\ over' = over /\ lock' = lock /\ AllPlayed' = AllPlayed
    BY SamePlayed DEF Start
<1>3. DataOK'
    BY <1>1, Fixed DEF Start, IInv, DataOK
<1>4. [op |-> "start", game |-> g] \in Asked \cup Started
    BY DEF Started
<1>5. /\ DOMAIN todo' = Devices
      /\ \A e \in Devices : RequestOK(e)'
      /\ \A e \in Devices : lock = e /\ Routes(e) => lock' = e /\ Routes(e)'
    BY <1>2, <1>4, BegunOK DEF Start
<1> QED
    BY <1>1, <1>2, <1>3, <1>5, LockIsOne, QuietOK

\* A game that is neither complete nor becomes so.
LEMMA OpenOK ==
    ASSUME IInv, event' = event, NEW g \in Games,
           status[g] \notin {"absent", "completed"},
           NEW c \in Statuses \ {"absent", "completed"}, status' = [status EXCEPT ![g] = c],
           left' \in [{"rescores", "marks", "faults"} -> Nat],
           UNCHANGED <<side, winner, over, playedBy, routed>>
    PROVE  DataOK' /\ AllPlayed' = AllPlayed
<1>1. /\ status' \in [Games -> Statuses] /\ status'[g] = c
      /\ \A h \in Games \ {g} : status'[h] = status[h]
    BY DEF IInv, DataOK
<1>2. \A h \in Games : /\ winner'[h] # 0 <=> status'[h] = "completed"
                       /\ status'[h] = "absent" => h = ResetGame
    BY <1>1 DEF IInv, DataOK
<1>3. DataOK'
    BY <1>1, <1>2, Fixed DEF IInv, DataOK, Statuses
<1>4. AllPlayed = FALSE /\ AllPlayed' = FALSE
    BY <1>1, Fixed DEF AllPlayed
<1> QED
    BY <1>3, <1>4

LEMMA StartWriteOK ==
    ASSUME IInv, NEW d \in Devices, StartWrite(d)
    PROVE  IInv'
<1> DEFINE g == Now(d).game
<1>1. lock # d /\ Now(d) \in Started /\ Alone(todo[d], Asked \cup Started)
    BY Kinds, KindOf DEF StartWrite, At
<1>2. g \in Games
    BY <1>1 DEF Started
<1>3. Tail(todo[d]) = <<>> /\ <<>> \o <<>> = <<>>
    <2>1. Tail(todo[d]) \in Seq(Asked \cup Started) /\ Len(Tail(todo[d])) = 0
        BY <1>1, AloneSome, HeadTailProperties DEF Alone
    <2>2. Tail(todo[d]) = <<>>
        BY <2>1, EmptySeq
    <2>3. <<>> \o <<>> = <<>>
        OBVIOUS
    <2> QED
        BY <2>2, <2>3
<1>4. /\ todo' = [todo EXCEPT ![d] = <<>>] /\ lock' = lock
      /\ UNCHANGED <<event, side, winner, over, left, playedBy, routed>>
    BY <1>1, <1>3 DEF StartWrite, Continue
<1>5. DataOK' /\ AllPlayed' = AllPlayed
    <2>1. CASE status[g] = "scheduled"
        <3>1. /\ status' = [status EXCEPT ![g] = "in_progress"]
              /\ "in_progress" \in Statuses \ {"absent", "completed"}
              /\ left' \in [{"rescores", "marks", "faults"} -> Nat]
            BY <1>4, <2>1 DEF StartWrite, Statuses, IInv, DataOK
        <3> HIDE DEF g
        <3> QED
            BY <1>2, <1>4, <2>1, <3>1, OpenOK
    <2>2. CASE status[g] # "scheduled"
        BY <1>4, <2>2, SameDataOK, SamePlayed DEF StartWrite
    <2> QED
        BY <2>1, <2>2
<1>6. /\ DOMAIN todo' = Devices
      /\ \A e \in Devices : RequestOK(e)'
      /\ \A e \in Devices : lock = e /\ Routes(e) => lock' = e /\ Routes(e)'
    BY <1>1, <1>4, MovedOK
<1> QED
    BY <1>4, <1>5, <1>6, LockIsOne, QuietOK

LEMMA MarkOK ==
    ASSUME IInv, NEW g \in Games, UnstartMatch(g) \/ CancelMatch(g) \/ RestoreMatch(g)
    PROVE  IInv'
<1>1. /\ status[g] \notin {"absent", "completed"}
      /\ \E c \in Statuses \ {"absent", "completed"} : status' = [status EXCEPT ![g] = c]
      /\ Spend("marks")
      /\ UNCHANGED <<event, side, winner, over, lock, todo, playedBy, routed>>
    BY DEF UnstartMatch, CancelMatch, RestoreMatch, Mark, Statuses
<1>2. left' \in [{"rescores", "marks", "faults"} -> Nat] /\ left'["faults"] = left["faults"]
    BY <1>1, SpendOK
<1>3. DataOK' /\ AllPlayed' = AllPlayed
    BY <1>1, <1>2, OpenOK
<1>4. /\ DOMAIN todo' = Devices
      /\ \A e \in Devices : RequestOK(e)'
      /\ \A e \in Devices : lock = e /\ Routes(e) => lock' = e /\ Routes(e)'
    <2>1. \A e \in Devices : Routes(e) => Routes(e)'
        BY <1>1, Fixed DEF Routes
    <2> QED
        BY <1>1, <2>1, OthersOK DEF IInv
<1> QED
    BY <1>1, <1>2, <1>3, <1>4, LockIsOne, QuietOK

-----------------------------------------------------------------------------
(* The invariant.                                                          *)

LEMMA InitOK ==
    ASSUME Init
    PROVE  IInv
<1>1. event \in Tournaments /\ lock = Free /\ over = FALSE /\ todo = [d \in Devices |-> <<>>]
    BY DEF Init
<1>2. /\ draw.opens \in [Games -> [1..2 -> Nat]] /\ draw.byes \subseteq Games
      /\ ResetGame \notin draw.byes
      /\ event.rescores \in Nat /\ event.marks \in Nat /\ event.faults \in Nat
    BY <1>1, TournamentsAssumption DEF Games, draw
<1>3. side \in [Games -> [1..2 -> Sides]] /\ playedBy = side
    <2>1. \A g \in Games : draw.opens[g] \in [1..2 -> Sides]
        BY <1>2 DEF Sides
    <2> QED
        BY <1>2, <2>1 DEF Init
<1>4. /\ status \in [Games -> Statuses] /\ winner \in [Games -> 0..2]
      /\ \A g \in Games : /\ winner[g] # 0 <=> status[g] = "completed"
                          /\ status[g] = "absent" => g = ResetGame
    <2>1. \A g \in Games :
              /\ g \in draw.byes => status[g] = "completed" /\ winner[g] \in 1..2
              /\ g \notin draw.byes => /\ status[g] = IF g = ResetGame THEN "absent"
                                                      ELSE "scheduled"
                                       /\ winner[g] = 0
        BY <1>2 DEF Init
    <2>2. /\ DOMAIN status = Games /\ status = [g \in Games |-> status[g]]
          /\ DOMAIN winner = Games /\ winner = [g \in Games |-> winner[g]]
        BY DEF Init
    <2>3. \A g \in Games : /\ status[g] \in Statuses /\ winner[g] \in 0..2
                           /\ winner[g] # 0 <=> status[g] = "completed"
                           /\ status[g] = "absent" => g = ResetGame
        BY <2>1 DEF Statuses
    <2> QED
        BY <2>2, <2>3
<1>5. /\ left \in [{"rescores", "marks", "faults"} -> Nat] /\ left["faults"] = event.faults
      /\ routed \subseteq Games
    BY <1>2 DEF Init
<1>6. AllPlayed = FALSE
    <2>1. PICK g \in Games : g # ResetGame /\ g \notin draw.byes
        BY <1>1, TournamentsAssumption DEF Games, draw
    <2>2. status[g] = "scheduled"
        BY <2>1 DEF Init
    <2> QED
        BY <2>2 DEF AllPlayed
<1>7. \A d \in Devices : RequestOK(d)
    BY <1>1, TournamentsAssumption DEF RequestOK, Waits1
<1>8. DataOK
    BY <1>1, <1>3, <1>4, <1>5 DEF DataOK
<1>9. Reconciled
    BY <1>1, <1>6 DEF Reconciled, Settled
<1>10. left["faults"] <= event.faults /\ DOMAIN todo = Devices
    BY <1>1, <1>2, <1>5
<1> QED
    BY <1>1, <1>7, <1>8, <1>9, <1>10 DEF IInv

LEMMA NextOK ==
    ASSUME IInv, [Next]_vars
    PROVE  IInv'
<1>1. CASE UNCHANGED vars
    <2>1. event' = event /\ DataOK' /\ AllPlayed' = AllPlayed
        BY <1>1, SameDataOK, SamePlayed DEF vars
    <2>2. \A e \in Devices : RequestOK(e)'
        BY <1>1, OthersOK DEF vars
    <2>3. \A e \in Devices : Routes(e) => Routes(e)'
        BY <1>1, <2>1, Fixed DEF Routes, vars
    <2> QED
        BY <1>1, <2>1, <2>2, <2>3, LockIsOne, QuietOK DEF vars, IInv
<1>2. ASSUME NEW d \in Devices, Step(d)
      PROVE  IInv'
    <2>1. CASE Check(d) \/ Lock(d) \/ Write(d)
        BY <2>1, CheckOK, LockOK, WriteOK
    <2>2. CASE Clear(d) \/ Fill(d) \/ Reset(d) \/ Wipe(d)
        BY <2>2, ClearOK, FillOK, ResetOK, WipeOK
    <2>3. CASE Decide(d) \/ Strip(d) \/ Drop(d) \/ Make(d) \/ Compare(d) \/ Copy(d)
        BY <2>3, DecideOK, StripOK, DropOK, MakeOK, CompareOK, CopyOK
    <2>4. CASE Sync(d) \/ StartWrite(d) \/ Fail(d) \/ FailSync(d)
        BY <2>4, SyncOK, StartWriteOK, FailOK
    <2> QED
        BY <1>2, <2>1, <2>2, <2>3, <2>4 DEF Step
<1>3. ASSUME NEW d \in Devices, NEW g \in Games, Start(d, g) \/ \E w \in 1..2 : Score(d, g, w)
      PROVE  IInv'
    BY <1>3, StartOK, ScoreOK
<1>4. ASSUME NEW g \in Games, UnstartMatch(g) \/ CancelMatch(g) \/ RestoreMatch(g)
      PROVE  IInv'
    BY <1>4, MarkOK
<1> QED
    BY <1>1, <1>2, <1>3, <1>4 DEF Next

THEOREM BracketInvariant == Spec => []IInv
BY InitOK, NextOK, PTL DEF Spec

\* Every variable keeps its kind, a game has a winner exactly when it is
\* completed, only the deciding game comes and goes, and the score lock is
\* held by a request that is still running, whatever the draw, the number of
\* devices, corrections, marks and failures (RecordSeries, ForfeitMatch).
LEMMA InvTyped == IInv => TypeOK
BY RequestShape DEF IInv, DataOK, TypeOK

THEOREM TypeOKHolds == Spec => []TypeOK
BY InvTyped, BracketInvariant, PTL

\* One result at a time: past its lock and up to its last statement, a result
\* of the event excludes every other (lockScoreEvent).
Underway(d) == ~Idle(d) /\ Now(d).op \notin {"check", "lock", "start"}
OneAtATime == \A d, e \in Devices : Underway(d) /\ Underway(e) => d = e

LEMMA InvOneAtATime == IInv => OneAtATime
BY KindOf DEF OneAtATime, Underway

THEOREM OneAtATimeHolds == Spec => []OneAtATime
BY InvOneAtATime, BracketInvariant, PTL

\* When nothing is being written and no statement has failed, the event is
\* over exactly when every game has its result (syncEventStatus).
LEMMA InvEventOver == IInv => EventOver
<1>1. ASSUME IInv, AtRest, NEW d \in Devices
      PROVE  ~(lock = d /\ Routes(d))
    <2>1. Routes(d) => ~Idle(d) /\ Now(d) \in Work \cup Ending
        BY ChainHead DEF Routes, Idle, Now
    <2>2. \A x \in Work \cup Ending : x.op \notin {"check", "lock", "write", "start"}
        BY DEF Work, Deciding, Ending
    <2> QED
        BY <1>1, <2>1, <2>2 DEF AtRest
<1> QED
    BY <1>1 DEF IInv, EventOver, Reconciled, Settled

THEOREM EventOverHolds == Spec => []EventOver
BY InvEventOver, BracketInvariant, PTL

-----------------------------------------------------------------------------
(* What is carried, where the draw leads one way.                          *)

\* Every draw but double elimination does.
LeadsOneWay == \E later, from : OneWay(draw, later, from)

FeedOf(g, k) == Way(draw, g, k)
Who(g, k)    == IF k = 1 THEN winner[g] ELSE 3 - winner[g]
Holds(g, k)  == side[FeedOf(g, k).to][FeedOf(g, k).slot]

\* What the result that holds the lock has still to execute, and its game.
Rest   == IF lock \in Devices /\ Routes(lock) THEN todo[lock] ELSE <<>>
Source == Rest[Len(Rest)].game

Pending(op, feed) == \E i \in 1..Len(Rest) : Rest[i].op = op /\ Rest[i].to = feed
Resets(g) == \E i \in 1..Len(Rest) : Rest[i].op = "reset" /\ Rest[i].game = g

\* Statement i carries a side of the source on, one at a time and the last
\* before the end; or it wipes what an undone result had carried on, and the
\* reset of the game it was carried to is next.
Fits(i, later) ==
    LET s == Rest[i]
    IN  /\ s.op \in {"clear", "fill"} =>
               /\ \E k \in 1..2 : /\ FeedOf(Source, k) # NoFeed /\ s.to = FeedOf(Source, k)
                                  /\ s.from = Source /\ s.slot = Who(Source, k)
               /\ \A j \in (i + 1)..Len(Rest) : Rest[j].op \in {"clear", "sync"}
        /\ s.op = "fill" => i = 1
        /\ s.op = "reset" => later[s.game] > later[Source]
        /\ s.op = "wipe" =>
               /\ Rest[i + 1].op = "reset" /\ Rest[i + 1].game = s.to.to
               /\ \E h \in Games : \E k \in 1..2 :
                      FeedOf(h, k) # NoFeed /\ s.to = FeedOf(h, k) /\ status[h] # "completed"
        /\ Rest[i + 1].op = "reset" => s.op = "wipe"

InHalves(from) == \A g \in Games : \A i \in 1..2 : side[g][i] \in from[g][i] \cup {Nobody}

RoutingSound(later) ==
    Rest # <<>> =>
        /\ status[Source] = "completed" /\ Source \notin routed /\ side[Source] = playedBy[Source]
        /\ \A i \in 1..(Len(Rest) - 1) : Fits(i, later)
        /\ Rest[1].op = "fill" => side[Rest[1].to.to][Rest[1].to.slot] = Nobody
        /\ \A k \in 1..2 : FeedOf(Source, k) # NoFeed =>
               \/ Holds(Source, k) = playedBy[Source][Who(Source, k)]
               \/ Pending("clear", FeedOf(Source, k)) \/ Pending("fill", FeedOf(Source, k))

Sent ==
    \A g \in Games \ draw.byes : \A k \in 1..2 :
        status[g] = "completed" /\ g \in routed /\ FeedOf(g, k) # NoFeed
            => Holds(g, k) = playedBy[g][Who(g, k)]

Unsent ==
    Undisturbed => \A g \in Games \ draw.byes : \A k \in 1..2 :
        status[g] # "completed" /\ FeedOf(g, k) # NoFeed
            => Holds(g, k) = Nobody \/ Pending("wipe", FeedOf(g, k))

\* The slot of g that was emptied is about to be filled.
Refilling(g) == Rest # <<>> /\ Rest[1].op = "fill" /\ Rest[1].to.to = g

\* A result is that of the sides in its game, the one included that is out of
\* its slot at the moment, or will be reset.
Standing ==
    Undisturbed => \A g \in Games :
        status[g] = "completed" =>
            IF Refilling(g)
            THEN playedBy[g] = [side[g] EXCEPT ![Rest[1].to.slot] = Rest[1].before]
            ELSE side[g] = playedBy[g] \/ Resets(g)

\* A result that is about to be undone.
Undone(g) == Rest # <<>> /\ Rest[1].op = "reset" /\ Rest[1].game = g

Overtaken ==
    Undisturbed => \A g \in Games :
        Undone(g) /\ status[g] = "completed" => side[g] # playedBy[g] \/ ~Ready(g)

Carrying(later, from) ==
    /\ InHalves(from) /\ RoutingSound(later)
    /\ Sent /\ Unsent /\ Standing /\ Overtaken

-----------------------------------------------------------------------------
(* Such a draw.                                                            *)

LEMMA WayOK ==
    ASSUME event \in Tournaments, NEW later, NEW from, OneWay(draw, later, from),
           NEW g \in Games, NEW k \in 1..2, FeedOf(g, k) # NoFeed
    PROVE  /\ FeedOf(g, k) \in Feeds /\ FeedOf(g, k).to \in Games /\ FeedOf(g, k).slot \in 1..2
           /\ later[g] < later[FeedOf(g, k).to] /\ later \in [Games -> Nat]
           /\ from[g][1] \cup from[g][2] \subseteq from[FeedOf(g, k).to][FeedOf(g, k).slot]
           /\ g \notin draw.byes => draw.opens[FeedOf(g, k).to][FeedOf(g, k).slot] = Nobody
           /\ \A h \in Games : \A j \in 1..2 : FeedOf(h, j) = FeedOf(g, k) => h = g /\ j = k
<1>1. FeedOf(g, k) \in Feeds
    BY DrawOK DEF FeedOf, Way, WinsTo, LosesTo
<1>2. k \in {j \in 1..2 : Way(draw, g, j) # NoFeed} /\ g \in draw.games
    BY DEF FeedOf, Games
<1> QED
    BY <1>1, <1>2 DEF OneWay, FeedOf, Games, Feeds

\* There is no deciding game, and a statement is of one of four kinds.
LEMMA WorkIs ==
    ASSUME NEW later, NEW from, OneWay(draw, later, from), NEW x \in Work
    PROVE  \/ x \in [op : {"clear"}, to : Feeds, from : Games, slot : 1..2]
           \/ x \in [op : {"fill"}, to : Feeds, from : Games, slot : 1..2, before : Sides]
           \/ x \in [op : {"reset"}, game : Games]
           \/ x \in [op : {"wipe"}, to : Feeds]
BY DEF Work, Deciding, OneWay, Games

\* A slot of the draw is written.
Puts(f, e) ==
    \A g \in Games : \A i \in 1..2 :
        side'[g][i] = IF g = f.to /\ i = f.slot THEN e ELSE side[g][i]

LEMMA Differ ==
    ASSUME NEW f \in Feeds, NEW h \in Feeds, f # h
    PROVE  ~(f.to = h.to /\ f.slot = h.slot)
BY DEF Feeds

LEMMA OthersHold ==
    ASSUME event \in Tournaments, event' = event, NEW later, NEW from, OneWay(draw, later, from),
           NEW f \in Feeds, NEW e, Puts(f, e),
           NEW g \in Games, NEW k \in 1..2, FeedOf(g, k) # NoFeed
    PROVE  /\ FeedOf(g, k)' = FeedOf(g, k)
           /\ FeedOf(g, k) # f => Holds(g, k)' = Holds(g, k)
           /\ FeedOf(g, k) = f => Holds(g, k)' = e
<1>1. FeedOf(g, k)' = FeedOf(g, k)
    BY Fixed DEF FeedOf
<1>2. FeedOf(g, k) \in Feeds /\ FeedOf(g, k).to \in Games /\ FeedOf(g, k).slot \in 1..2
    BY WayOK
<1> QED
    BY <1>1, <1>2, Differ DEF Holds, Puts

-----------------------------------------------------------------------------
(* What is left to execute.                                                *)

LEMMA RestOK ==
    ASSUME IInv, Rest # <<>>
    PROVE  /\ lock \in Devices /\ Routes(lock) /\ Rest = todo[lock]
           /\ Rest \in Seq(Work \cup Ending) /\ Len(Rest) \in Nat /\ Len(Rest) >= 1
           /\ \A i \in 1..(Len(Rest) - 1) : Rest[i] \in Work
           /\ Rest[Len(Rest)] \in Ending /\ Source \in Games
<1>1. lock \in Devices /\ Routes(lock) /\ Rest = todo[lock]
    BY DEF Rest
<1>2. /\ Rest \in Seq(Work \cup Ending) /\ Len(Rest) \in Nat /\ Len(Rest) >= 1
      /\ \A i \in 1..(Len(Rest) - 1) : Rest[i] \in Work
      /\ Rest[Len(Rest)] \in Ending
    BY <1>1 DEF Routes, Chain
<1> QED
    BY <1>1, <1>2 DEF Source, Ending

\* A statement is executed and m others take its place.
Shifted(m) ==
    /\ Rest # <<>> /\ Rest' # <<>> /\ Len(Rest) > 1
    /\ Len(Rest') = m + Len(Rest) - 1
    /\ \A j \in 2..Len(Rest) : Rest'[m + j - 1] = Rest[j]

LEMMA StepRest ==
    ASSUME IInv, event' = event, NEW d \in Devices, lock = d, Routes(d), Len(todo[d]) > 1,
           NEW more \in Seq(Work), Continue(d, more)
    PROVE  /\ Rest = todo[d] /\ Now(d) = Rest[1] /\ Shifted(Len(more))
           /\ \A i \in 1..Len(more) : Rest'[i] = more[i]
<1>1. lock' = d /\ Routes(d)' /\ d \in Devices
    BY ContinueOK
<1>2. Rest = todo[d] /\ Rest' = todo'[d]
    BY <1>1 DEF Rest
<1>3. todo'[d] = more \o Tail(todo[d])
    BY DEF Continue, IInv
<1>4. /\ todo[d] \in Seq(Work \cup Ending) /\ todo[d] # <<>> /\ Len(todo[d]) \in Nat
      /\ Tail(todo[d]) \in Seq(Work \cup Ending) /\ Len(Tail(todo[d])) = Len(todo[d]) - 1
      /\ \A i \in 1..(Len(todo[d]) - 1) : Tail(todo[d])[i] = todo[d][i + 1]
    BY DEF Routes, Chain
<1>5. more \in Seq(Work \cup Ending) /\ Len(more) \in Nat
    OBVIOUS
<1> DEFINE t == Tail(todo[d])
<1>6. /\ Len(more \o t) = Len(more) + Len(todo[d]) - 1
      /\ \A i \in 1..Len(more) : (more \o t)[i] = more[i]
      /\ \A i \in 1..Len(t) : (more \o t)[Len(more) + i] = t[i]
    BY <1>4, <1>5
<1>7. ASSUME NEW j \in 2..Len(todo[d]) PROVE (more \o t)[Len(more) + j - 1] = todo[d][j]
    <2>1. j - 1 \in 1..Len(t) /\ j - 1 + 1 = j /\ Len(more) + (j - 1) = Len(more) + j - 1
        BY <1>4, <1>5
    <2>2. t[j - 1] = todo[d][j]
        BY <1>4, <2>1
    <2> QED
        BY <1>6, <2>1, <2>2
<1>8. Rest' # <<>>
    BY <1>1, <1>2, ChainOn, <1>3 DEF Routes
<1>9. Now(d) = Rest[1] /\ Rest # <<>>
    BY <1>2, <1>4 DEF Now
<1> QED
    BY <1>2, <1>3, <1>6, <1>7, <1>8, <1>9 DEF Shifted

LEMMA KeptFits ==
    ASSUME IInv, event' = event, NEW later, RoutingSound(later), NEW m \in Nat, Shifted(m),
           \A h \in Games : status[h] # "completed" => status'[h] # "completed",
           winner'[Source] = winner[Source]
    PROVE  /\ Source' = Source /\ Source \in Games
           /\ \A j \in 2..(Len(Rest) - 1) : Fits(m + j - 1, later)'
<1>1. /\ Len(Rest) \in Nat /\ Len(Rest) > 1 /\ Len(Rest') = m + Len(Rest) - 1
      /\ \A j \in 2..Len(Rest) : Rest'[m + j - 1] = Rest[j]
      /\ \A j \in 1..(Len(Rest) - 1) : Fits(j, later)
      /\ Source \in Games
    BY RestOK DEF Shifted, RoutingSound
<1>2. Source' = Source
    <2>1. Len(Rest) \in 2..Len(Rest)
        BY <1>1
    <2>2. Rest'[Len(Rest')] = Rest[Len(Rest)]
        BY <1>1, <2>1
    <2> QED
        BY <2>2 DEF Source
<1>3. PICK o : o = Source
    OBVIOUS
<1>4. /\ o = Source' /\ Games' = Games
      /\ \A h, k : FeedOf(h, k)' = FeedOf(h, k)
      /\ \A k : Who(o, k)' = Who(o, k)
    BY <1>2, <1>3, Fixed DEF FeedOf, Who
<1>5. ASSUME NEW j \in 2..(Len(Rest) - 1) PROVE Fits(m + j - 1, later)'
    <2>1. /\ j \in 2..Len(Rest) /\ j + 1 \in 2..Len(Rest) /\ j \in 1..(Len(Rest) - 1)
          /\ m + (j + 1) - 1 = m + j - 1 + 1
        BY <1>1
    <2>2. Rest'[m + j - 1] = Rest[j] /\ Rest'[m + j - 1 + 1] = Rest[j + 1] /\ Fits(j, later)
        BY <1>1, <2>1
    <2>3. Rest[j].op # "fill"
        BY <2>1, <2>2 DEF Fits
    <2>4. ASSUME NEW l \in (m + j - 1 + 1)..Len(Rest') PROVE Rest'[l] = Rest[l - m + 1]
                                              /\ l - m + 1 \in (j + 1)..Len(Rest)
        <3>1. l - m + 1 \in 2..Len(Rest) /\ m + (l - m + 1) - 1 = l
              /\ l - m + 1 \in (j + 1)..Len(Rest)
            BY <1>1, <2>1, <2>4
        <3> QED
            BY <1>1, <3>1
    <2>5. Rest[j].op = "clear" =>
              /\ \E k \in 1..2 : /\ FeedOf(o, k) # NoFeed /\ Rest[j].to = FeedOf(o, k)
                                 /\ Rest[j].from = o /\ Rest[j].slot = Who(o, k)
              /\ \A l \in (j + 1)..Len(Rest) : Rest[l].op \in {"clear", "sync"}
        BY <1>3, <2>2 DEF Fits
    <2>6. Rest[j].op = "clear" =>
              /\ \E k \in 1..2 : /\ FeedOf(o, k)' # NoFeed /\ Rest[j].to = FeedOf(o, k)'
                                 /\ Rest[j].from = o /\ Rest[j].slot = Who(o, k)'
              /\ \A l \in (m + j - 1 + 1)..Len(Rest') : Rest'[l].op \in {"clear", "sync"}
        BY <1>4, <2>4, <2>5
    <2>7. Rest[j].op = "reset" => later[Rest[j].game] > later[o]
        BY <1>3, <2>2 DEF Fits
    <2>8. Rest[j].op = "wipe" =>
              /\ Rest[j + 1].op = "reset" /\ Rest[j + 1].game = Rest[j].to.to
              /\ \E h \in Games : \E k \in 1..2 :
                     FeedOf(h, k)' # NoFeed /\ Rest[j].to = FeedOf(h, k)' /\ status'[h] # "completed"
        BY <1>4, <2>2 DEF Fits
    <2>9. Rest[j + 1].op = "reset" => Rest[j].op = "wipe"
        BY <2>2 DEF Fits
    <2> QED
        BY <1>4, <2>2, <2>3, <2>6, <2>7, <2>8, <2>9 DEF Fits
<1> QED
    BY <1>1, <1>2, <1>5

\* A sequence of statements keeps what was not its head.
LEMMA PendingKept ==
    ASSUME NEW m \in Nat, Len(Rest) \in Nat, Shifted(m), NEW op, NEW f, Pending(op, f),
           ~(Rest[1].op = op /\ Rest[1].to = f)
    PROVE  Pending(op, f)'
<1>1. PICK j \in 1..Len(Rest) : Rest[j].op = op /\ Rest[j].to = f
    BY DEF Pending
<1>2. j \in 2..Len(Rest)
    BY <1>1
<1>3. m + j - 1 \in 1..Len(Rest') /\ Rest'[m + j - 1] = Rest[j]
    BY <1>2 DEF Shifted
<1> QED
    BY <1>1, <1>3 DEF Pending

LEMMA ResetsKept ==
    ASSUME NEW m \in Nat, Len(Rest) \in Nat, Shifted(m), NEW g, Resets(g),
           ~(Rest[1].op = "reset" /\ Rest[1].game = g)
    PROVE  Resets(g)'
<1>1. PICK j \in 1..Len(Rest) : Rest[j].op = "reset" /\ Rest[j].game = g
    BY DEF Resets
<1>2. j \in 2..Len(Rest)
    BY <1>1
<1>3. m + j - 1 \in 1..Len(Rest') /\ Rest'[m + j - 1] = Rest[j]
    BY <1>2 DEF Shifted
<1> QED
    BY <1>1, <1>3 DEF Resets

\* While a side is carried on, nothing else is being undone.
LEMMA NothingUndone ==
    ASSUME IInv, NEW later, RoutingSound(later), Rest # <<>>, Rest[1].op \in {"clear", "fill"},
           Len(Rest) > 1
    PROVE  /\ \A j \in 2..Len(Rest) : Rest[j].op \in {"clear", "sync"}
           /\ \A g : ~Resets(g)
           /\ \A f : ~Pending("wipe", f)
<1>1. Len(Rest) \in Nat /\ 1 \in 1..(Len(Rest) - 1)
    BY RestOK
<1>2. Fits(1, later)
    BY <1>1 DEF RoutingSound
<1>3. \A j \in 2..Len(Rest) : Rest[j].op \in {"clear", "sync"}
    BY <1>2 DEF Fits
<1>4. \A j \in 1..Len(Rest) : Rest[j].op \notin {"reset", "wipe"}
    <2> TAKE j \in 1..Len(Rest)
    <2>1. j = 1 \/ j \in 2..Len(Rest)
        BY <1>1
    <2> QED
        BY <1>3, <2>1
<1> QED
    BY <1>3, <1>4 DEF Resets, Pending

\* The routing of o goes on: its first m statements are new.
LEMMA RoutingOn ==
    ASSUME IInv, event' = event, NEW later, RoutingSound(later), NEW m \in Nat, Shifted(m),
           NEW o \in Games, o = Source,
           \A h \in Games : status[h] # "completed" => status'[h] # "completed",
           winner'[o] = winner[o], status'[o] = "completed", side'[o] = side[o],
           UNCHANGED <<routed, playedBy>>,
           \A i \in 1..m : Fits(i, later)',
           Rest'[1].op = "fill" => side'[Rest'[1].to.to][Rest'[1].to.slot] = Nobody,
           \A k \in 1..2 : FeedOf(o, k) # NoFeed =>
               \/ Holds(o, k)' = playedBy[o][Who(o, k)]
               \/ Pending("clear", FeedOf(o, k))' \/ Pending("fill", FeedOf(o, k))'
    PROVE  RoutingSound(later)'
<1>1. Source' = o /\ \A j \in 2..(Len(Rest) - 1) : Fits(m + j - 1, later)'
    BY KeptFits
<1>2. Len(Rest) \in Nat /\ Len(Rest') = m + Len(Rest) - 1 /\ Rest # <<>>
    BY RestOK DEF Shifted
<1>3. ASSUME NEW i \in 1..(Len(Rest') - 1) PROVE Fits(i, later)'
    <2>1. CASE i <= m
        BY <2>1
    <2>2. CASE i > m
        <3>1. PICK j \in 2..(Len(Rest) - 1) : i = m + j - 1
            <4>1. i - m + 1 \in 2..(Len(Rest) - 1) /\ i = m + (i - m + 1) - 1
                BY <1>2, <2>2
            <4> QED
                BY <4>1
        <3> QED
            BY <1>1, <3>1
    <2> QED
        BY <2>1, <2>2
<1>4. \A k \in 1..2 : /\ FeedOf(o, k)' = FeedOf(o, k) /\ Who(o, k)' = Who(o, k)
                      /\ FeedOf(Source, k)' = FeedOf(o, k)' /\ Who(Source, k)' = Who(o, k)'
                      /\ Holds(Source, k)' = Holds(o, k)'
    BY <1>1, Fixed DEF FeedOf, Who, Holds
<1>5. side'[o] = playedBy'[o] /\ o \notin routed'
    BY <1>2 DEF RoutingSound
<1>6. \A k \in 1..2 : FeedOf(Source, k)' # NoFeed =>
          \/ Holds(Source, k)' = playedBy'[o][Who(Source, k)']
          \/ Pending("clear", FeedOf(Source, k))' \/ Pending("fill", FeedOf(Source, k))'
    BY <1>4 DEF Pending
<1> QED
    BY <1>1, <1>3, <1>5, <1>6 DEF RoutingSound

\* What the routing of o writes: a slot of a later game, held by none who is
\* not allowed there.
LEMMA HalvesKept ==
    ASSUME event \in Tournaments, event' = event, NEW from, InHalves(from), NEW f \in Feeds, NEW e,
           Puts(f, e), e \in from[f.to][f.slot] \cup {Nobody}
    PROVE  InHalves(from)'
BY Fixed DEF InHalves, Puts, Feeds

\* A slot whose game has not sent anything is written.
LEMMA SentKept ==
    ASSUME event \in Tournaments, event' = event, NEW later, NEW from, OneWay(draw, later, from),
           Sent, NEW f \in Feeds, NEW e, Puts(f, e), UNCHANGED <<status, winner, playedBy, routed>>,
           \A g \in Games : \A k \in 1..2 :
               FeedOf(g, k) = f => ~(status[g] = "completed" /\ g \in routed)
    PROVE  Sent'
<1> SUFFICES ASSUME NEW g \in Games \ draw.byes, NEW k \in 1..2,
                    status[g] = "completed", g \in routed, FeedOf(g, k)' # NoFeed
             PROVE  Holds(g, k)' = playedBy[g][Who(g, k)']
    BY Fixed DEF Sent
<1>1. FeedOf(g, k)' = FeedOf(g, k) /\ Who(g, k)' = Who(g, k)
    BY Fixed DEF FeedOf, Who
<1>2. Holds(g, k) = playedBy[g][Who(g, k)] /\ FeedOf(g, k) # f
    BY <1>1 DEF Sent
<1> QED
    BY <1>1, <1>2, OthersHold

LEMMA UnsentKept ==
    ASSUME event \in Tournaments, event' = event, NEW later, NEW from, OneWay(draw, later, from),
           Unsent, NEW f \in Feeds, NEW e, Puts(f, e), UNCHANGED <<status, left>>,
           \A g \in Games : \A k \in 1..2 :
               FeedOf(g, k) = f /\ status[g] # "completed" => e = Nobody,
           \A p : p # f /\ Pending("wipe", p) => Pending("wipe", p)'
    PROVE  Unsent'
<1> SUFFICES ASSUME Undisturbed, NEW g \in Games \ draw.byes, NEW k \in 1..2,
                    status[g] # "completed", FeedOf(g, k)' # NoFeed
             PROVE  Holds(g, k)' = Nobody \/ Pending("wipe", FeedOf(g, k))'
    BY Fixed DEF Unsent, Undisturbed
<1> PICK p : p = FeedOf(g, k)
    OBVIOUS
<1>1. p = FeedOf(g, k)'
    BY Fixed DEF FeedOf
<1>2. Holds(g, k) = Nobody \/ Pending("wipe", p)
    BY <1>1 DEF Unsent
<1>3. CASE p = f
    <2>1. e = Nobody
        BY <1>3
    <2>2. FeedOf(g, k) = f /\ FeedOf(g, k) # NoFeed /\ g \in Games
        BY <1>1, <1>3
    <2>3. Holds(g, k)' = e
        BY <2>2, OthersHold
    <2> QED
        BY <2>1, <2>3
<1>4. CASE p # f
    <2>1. Holds(g, k)' = Holds(g, k)
        BY <1>1, <1>4, OthersHold
    <2>2. Pending("wipe", p) => Pending("wipe", p)'
        BY <1>4
    <2>3. Pending("wipe", p)' => Pending("wipe", FeedOf(g, k))'
        BY <1>1 DEF Pending
    <2> QED
        BY <1>2, <2>1, <2>2, <2>3
<1> QED
    BY <1>3, <1>4

\* A game none of whose slots is written.
LEMMA StandsKept ==
    ASSUME DataOK, DataOK', event' = event, NEW f \in Feeds, NEW e, Puts(f, e), NEW g \in Games, g # f.to
    PROVE  side'[g] = side[g]
<1>1. \A i \in 1..2 : side'[g][i] = side[g][i]
    BY DEF Puts
<1> QED
    BY <1>1, Fixed DEF DataOK

LEMMA ClearCarries ==
    ASSUME IInv, NEW later, NEW from, OneWay(draw, later, from), Carrying(later, from),
           NEW d \in Devices, Clear(d)
    PROVE  Carrying(later, from)'
<1>1. /\ lock = d /\ Routes(d) /\ Len(todo[d]) > 1 /\ Now(d) \in Work /\ Now(d).op = "clear"
      /\ event' = event /\ event \in Tournaments
    BY KindOf DEF Clear, At, IInv
<1>2. PICK s : s = Now(d)
    OBVIOUS
<1>3. s.op = "clear" /\ s.to \in Feeds /\ s.to.to \in Games /\ s.to.slot \in 1..2
    BY <1>1, <1>2, WorkIs DEF Feeds
<1>4. PICK b : b = side[s.to.to][s.to.slot]
    OBVIOUS
<1>5. DataOK
    BY DEF IInv
<1>6. PICK f : f = [op |-> "fill", to |-> s.to, from |-> s.from, slot |-> s.slot, before |-> b]
    OBVIOUS
<1>7. <<f>> \in Seq(Work) /\ Continue(d, <<f>>)
    <2>1. s \in [op : {"clear"}, to : Feeds, from : Games, slot : 1..2]
        BY <1>1, <1>2, WorkIs
    <2>2. b \in Sides
        BY <1>3, <1>4, <1>5 DEF DataOK
    <2>3. f \in Work
        BY <1>6, <2>1, <2>2 DEF Work
    <2> QED
        BY <1>2, <1>4, <1>6, <2>3 DEF Clear
<1>8. Rest = todo[d] /\ s = Rest[1] /\ Shifted(1) /\ Rest'[1] = f
    <2>1. Len(<<f>>) = 1 /\ <<f>>[1] = f
        OBVIOUS
    <2>2. /\ Rest = todo[d] /\ s = Rest[1] /\ Shifted(Len(<<f>>))
          /\ \A i \in 1..Len(<<f>>) : Rest'[i] = <<f>>[i]
        BY <1>1, <1>2, <1>7, StepRest
    <2> QED
        BY <2>1, <2>2
<1>9. /\ Puts(s.to, Nobody) /\ UNCHANGED <<event, status, winner, left, playedBy, routed>>
    BY <1>2, <1>3, <1>5 DEF Clear, Puts, DataOK
<1>10. Rest # <<>> /\ Len(Rest) > 1 /\ Len(Rest) \in Nat
    BY <1>8, RestOK DEF Shifted
<1>11. PICK o \in Games : o = Source
    BY <1>10, RestOK
<1>12. Fits(1, later)
    BY <1>10 DEF Carrying, RoutingSound
<1>13. PICK k \in 1..2 : FeedOf(o, k) # NoFeed /\ s.to = FeedOf(o, k) /\ s.from = o
                         /\ s.slot = Who(o, k)
    BY <1>3, <1>8, <1>11, <1>12 DEF Fits
<1>14. /\ \A j \in 2..Len(Rest) : Rest[j].op \in {"clear", "sync"}
       /\ \A g : ~Resets(g)
       /\ \A p : ~Pending("wipe", p)
    BY <1>3, <1>8, <1>10, NothingUndone DEF Carrying
<1>15. /\ \A j \in 2..Len(Rest') : Rest'[j].op \in {"clear", "sync"}
       /\ Len(Rest') = Len(Rest)
    BY <1>8, <1>10, <1>14 DEF Shifted
<1>16. o # s.to.to
    BY <1>1, <1>13, WayOK
<1>17. RoutingSound(later)'
    <2>1. status[o] = "completed" /\ o \notin routed /\ side[o] = playedBy[o]
          /\ \A j \in 1..2 : FeedOf(o, j) # NoFeed =>
                 \/ Holds(o, j) = playedBy[o][Who(o, j)]
                 \/ Pending("clear", FeedOf(o, j)) \/ Pending("fill", FeedOf(o, j))
        BY <1>10, <1>11 DEF Carrying, RoutingSound
    <2>2. side'[o] = side[o]
        <3>1. \A i \in 1..2 : side'[o][i] = side[o][i]
            BY <1>9, <1>16 DEF Puts
        <3>2. DataOK'
            BY ClearOK DEF IInv
        <3> QED
            BY <1>1, <1>5, <3>1, <3>2, Fixed DEF DataOK
    <2>3. Fits(1, later)'
        <3>1. FeedOf(o, k)' = FeedOf(o, k) /\ Who(o, k)' = Who(o, k) /\ Source' = o
            <4>1. Source' = Source
                BY <1>1, <1>8, <1>9, KeptFits DEF Carrying
            <4> QED
                BY <1>1, <1>9, <1>11, <4>1, Fixed DEF FeedOf, Who
        <3>2. Rest'[2].op \in {"clear", "sync"}
            BY <1>10, <1>15
        <3> QED
            BY <1>6, <1>8, <1>13, <1>15, <3>1, <3>2 DEF Fits
    <2>4. side'[s.to.to][s.to.slot] = Nobody
        BY <1>3, <1>9 DEF Puts
    <2>5. ASSUME NEW j \in 1..2, FeedOf(o, j) # NoFeed
          PROVE  \/ Holds(o, j)' = playedBy[o][Who(o, j)]
                 \/ Pending("clear", FeedOf(o, j))' \/ Pending("fill", FeedOf(o, j))'
        <3> PICK p : p = FeedOf(o, j)
            OBVIOUS
        <3>1. p = FeedOf(o, j)'
            BY <1>1, Fixed DEF FeedOf
        <3>2. CASE p = s.to
            <4>1. Pending("fill", p)'
                BY <1>6, <1>8, <1>10, <1>15, <3>2 DEF Pending
            <4> QED
                BY <3>1, <4>1 DEF Pending
        <3>3. CASE p # s.to /\ Holds(o, j) = playedBy[o][Who(o, j)]
            BY <1>1, <1>3, <1>9, <2>5, <3>3, OthersHold
        <3>4. CASE p # s.to /\ (Pending("clear", p) \/ Pending("fill", p))
            <4>1. Pending("clear", p)' \/ Pending("fill", p)'
                BY <1>3, <1>8, <1>10, <3>4, PendingKept
            <4> QED
                BY <3>1, <4>1 DEF Pending
        <3> QED
            BY <2>1, <2>5, <3>2, <3>3, <3>4
    <2> QED
        BY <1>1, <1>6, <1>8, <1>9, <1>11, <2>1, <2>2, <2>3, <2>4, <2>5, RoutingOn DEF Carrying
<1>18. InHalves(from)'
    BY <1>1, <1>3, <1>9, HalvesKept DEF Carrying
<1>19. /\ status[o] = "completed" /\ o \notin routed
       /\ \A g \in Games : \A j \in 1..2 : FeedOf(g, j) = s.to => g = o
    BY <1>1, <1>10, <1>11, <1>13, WayOK DEF Carrying, RoutingSound
<1>20. Sent'
    BY <1>1, <1>3, <1>9, <1>19, SentKept DEF Carrying
<1>21. Unsent'
    BY <1>1, <1>3, <1>9, <1>14, UnsentKept DEF Carrying
<1>22. DataOK'
    BY ClearOK DEF IInv
<1>23. Standing'
    <2>1. ASSUME Undisturbed, NEW g \in Games, status[g] = "completed"
          PROVE  side[g] = playedBy[g]
        BY <1>3, <1>8, <1>14, <2>1 DEF Carrying, Standing, Refilling
    <2>2. ASSUME Undisturbed, NEW g \in Games, status[g] = "completed", g # s.to.to
          PROVE  side'[g] = playedBy[g] /\ ~Refilling(g)'
        BY <1>3, <1>5, <1>6, <1>8, <1>9, <1>22, <2>1, <2>2, StandsKept DEF Refilling
    <2>3. ASSUME Undisturbed, status[s.to.to] = "completed"
          PROVE  playedBy[s.to.to] = [side'[s.to.to] EXCEPT ![s.to.slot] = b] /\ Refilling(s.to.to)'
        <3>1. side[s.to.to] = [side'[s.to.to] EXCEPT ![s.to.slot] = b]
            <4>1. side[s.to.to] \in [1..2 -> Sides] /\ side'[s.to.to] \in [1..2 -> Sides]
                BY <1>1, <1>3, <1>5, <1>22, Fixed DEF DataOK
            <4>2. \A i \in 1..2 : side[s.to.to][i] = IF i = s.to.slot THEN b ELSE side'[s.to.to][i]
                BY <1>3, <1>4, <1>9 DEF Puts
            <4> QED
                BY <4>1, <4>2
        <3> QED
            BY <1>3, <1>6, <1>8, <2>1, <2>3, <3>1 DEF Refilling, Shifted
    <2>4. Games' = Games /\ Undisturbed' = Undisturbed
        BY <1>1, <1>9, Fixed DEF Undisturbed
    <2> QED
        BY <1>6, <1>8, <1>9, <2>2, <2>3, <2>4 DEF Standing
<1>24. Overtaken'
    BY <1>6, <1>8 DEF Overtaken, Undone
<1> QED
    BY <1>17, <1>18, <1>20, <1>21, <1>23, <1>24 DEF Carrying

LEMMA FillCarries ==
    ASSUME IInv, NEW later, NEW from, OneWay(draw, later, from), Carrying(later, from),
           NEW d \in Devices, Fill(d)
    PROVE  Carrying(later, from)'
<1>1. /\ lock = d /\ Routes(d) /\ Len(todo[d]) > 1 /\ Now(d) \in Work /\ Now(d).op = "fill"
      /\ event' = event /\ event \in Tournaments
    BY KindOf DEF Fill, At, IInv
<1>2. PICK s : s = Now(d)
    OBVIOUS
<1>3. /\ s.op = "fill" /\ s.to \in Feeds /\ s.to.to \in Games /\ s.to.slot \in 1..2
      /\ s.from \in Games /\ s.slot \in 1..2
    BY <1>1, <1>2, WorkIs DEF Feeds
<1>4. PICK e : e = side[s.from][s.slot]
    OBVIOUS
<1>5. DataOK /\ DataOK'
    BY FillOK DEF IInv
<1>6. PICK more : more = Unwind(s.before, e, s.to.to)
    OBVIOUS
<1>7. more \in Seq(Work) /\ Continue(d, more)
    <2>1. [op |-> "reset", game |-> s.to.to] \in Work
        BY <1>3 DEF Work
    <2> QED
        BY <1>2, <1>4, <1>6, <2>1 DEF Fill, Unwind
<1>8. /\ Rest = todo[d] /\ s = Rest[1] /\ Shifted(Len(more))
      /\ \A i \in 1..Len(more) : Rest'[i] = more[i]
    BY <1>1, <1>2, <1>7, StepRest
<1>9. UNCHANGED <<event, status, winner, left, playedBy, routed>>
    BY DEF Fill
<1>10. Rest # <<>> /\ Len(Rest) > 1 /\ Len(Rest) \in Nat /\ Len(more) \in Nat
    BY <1>7, <1>8, RestOK DEF Shifted
<1>11. PICK o \in Games : o = Source
    BY <1>10, RestOK
<1>12. Fits(1, later)
    BY <1>10 DEF Carrying, RoutingSound
<1>13. PICK k \in 1..2 : FeedOf(o, k) # NoFeed /\ s.to = FeedOf(o, k) /\ s.from = o
                         /\ s.slot = Who(o, k)
    BY <1>3, <1>8, <1>11, <1>12 DEF Fits
<1>14. /\ \A j \in 2..Len(Rest) : Rest[j].op \in {"clear", "sync"}
       /\ \A g : ~Resets(g)
       /\ \A p : ~Pending("wipe", p)
    BY <1>3, <1>8, <1>10, NothingUndone DEF Carrying
<1>15. /\ status[o] = "completed" /\ o \notin routed /\ side[o] = playedBy[o]
       /\ \A j \in 1..2 : FeedOf(o, j) # NoFeed =>
                 \/ Holds(o, j) = playedBy[o][Who(o, j)]
                 \/ Pending("clear", FeedOf(o, j)) \/ Pending("fill", FeedOf(o, j))
       /\ side[s.to.to][s.to.slot] = Nobody
    BY <1>3, <1>8, <1>10, <1>11 DEF Carrying, RoutingSound
<1>16. /\ o # s.to.to /\ later \in [Games -> Nat] /\ later[o] < later[s.to.to]
       /\ \A g \in Games : \A j \in 1..2 : FeedOf(g, j) = s.to => g = o /\ j = k
       /\ from[o][1] \cup from[o][2] \subseteq from[s.to.to][s.to.slot]
    BY <1>1, <1>13, WayOK
<1>17. e \in from[s.to.to][s.to.slot] \cup {Nobody}
    <2>1. side[o][s.slot] \in from[o][s.slot] \cup {Nobody}
        BY <1>3 DEF Carrying, InHalves
    <2> QED
        BY <1>3, <1>4, <1>13, <1>16, <2>1
<1>18. Puts(s.to, e)
    <2>1. CASE e = Nobody
        BY <1>2, <1>4, <1>15, <2>1 DEF Fill, Puts
    <2>2. CASE e # Nobody
        <3>1. side' = [side EXCEPT ![s.to.to] = Put(@, s.to.slot, e)]
            BY <1>2, <1>4, <2>2 DEF Fill
        <3>2. ASSUME NEW i \in 1..2, i # s.to.slot PROVE side[s.to.to][i] # e
            <4>1. from[s.to.to][1] \cap from[s.to.to][2] = {} /\ s.to.to \in draw.games
                BY <1>3 DEF OneWay, Games
            <4>2. from[s.to.to][i] \cap from[s.to.to][s.to.slot] = {}
                BY <1>3, <3>2, <4>1
            <4>3. side[s.to.to][i] \in from[s.to.to][i] \cup {Nobody}
                BY <1>3 DEF Carrying, InHalves
            <4> QED
                BY <1>17, <2>2, <4>2, <4>3
        <3> QED
            BY <1>3, <1>5, <3>1, <3>2 DEF Puts, Put, DataOK
    <2> QED
        BY <2>1, <2>2
<1>19. /\ \/ s.before = e /\ more = <<>>
          \/ s.before # e /\ more = <<[op |-> "reset", game |-> s.to.to]>>
       /\ \/ s.before = e /\ Len(more) = 0 /\ Rest'[1].op \in {"clear", "sync"}
          \/ /\ s.before # e /\ Len(more) = 1
             /\ Rest'[1].op = "reset" /\ Rest'[1].game = s.to.to
             /\ Rest'[2].op \in {"clear", "sync"}
    <2>1. CASE s.before = e
        <3>1. more = <<>> /\ Len(more) = 0
            BY <1>6, <2>1 DEF Unwind
        <3>2. Rest'[0 + 2 - 1] = Rest[2]
            BY <1>8, <1>10, <3>1 DEF Shifted
        <3> QED
            BY <1>10, <1>14, <2>1, <3>1, <3>2
    <2>2. CASE s.before # e
        <3>1. more = <<[op |-> "reset", game |-> s.to.to]>> /\ Len(more) = 1
            BY <1>6, <2>2 DEF Unwind
        <3>2. Rest'[1 + 2 - 1] = Rest[2] /\ Rest'[1] = more[1]
            BY <1>8, <1>10, <3>1 DEF Shifted
        <3> QED
            BY <1>10, <1>14, <2>2, <3>1, <3>2
    <2> QED
        BY <2>1, <2>2
<1>20. RoutingSound(later)'
    <2>1. side'[o] = side[o]
        BY <1>1, <1>3, <1>5, <1>16, <1>18, StandsKept
    <2>2. \A i \in 1..Len(more) : Fits(i, later)'
        <3>1. Source' = o
            BY <1>1, <1>8, <1>9, <1>10, <1>11, KeptFits DEF Carrying
        <3>2. PICK m \in Nat : m = Len(more)
            BY <1>10
        <3>3. m = 0 \/ (m = 1 /\ s.before # e)
            BY <1>19, <3>2
        <3>4. \A i \in 1..m : i = 1 /\ s.before # e
            BY <3>3
        <3> QED
            BY <1>16, <1>19, <3>1, <3>2, <3>4 DEF Fits
    <2>3. Rest'[1].op # "fill"
        BY <1>19
    <2>4. ASSUME NEW j \in 1..2, FeedOf(o, j) # NoFeed
          PROVE  \/ Holds(o, j)' = playedBy[o][Who(o, j)]
                 \/ Pending("clear", FeedOf(o, j))' \/ Pending("fill", FeedOf(o, j))'
        <3> PICK p : p = FeedOf(o, j)
            OBVIOUS
        <3>1. p = FeedOf(o, j)'
            BY <1>1, Fixed DEF FeedOf
        <3>2. CASE p = s.to
            <4>1. j = k
                BY <1>16, <3>2
            <4>2. Holds(o, j)' = e
                BY <1>1, <1>3, <1>13, <1>18, <4>1, OthersHold
            <4> QED
                BY <1>4, <1>13, <1>15, <4>1, <4>2
        <3>3. CASE p # s.to /\ Holds(o, j) = playedBy[o][Who(o, j)]
            BY <1>1, <1>3, <1>18, <2>4, <3>3, OthersHold
        <3>4. CASE p # s.to /\ (Pending("clear", p) \/ Pending("fill", p))
            <4>1. Pending("clear", p)' \/ Pending("fill", p)'
                BY <1>3, <1>8, <1>10, <3>4, PendingKept
            <4> QED
                BY <3>1, <4>1 DEF Pending
        <3> QED
            BY <1>15, <2>4, <3>2, <3>3, <3>4
    <2>5. PICK m : m = Len(more)
        OBVIOUS
    <2>6. m \in Nat /\ Shifted(m) /\ \A i \in 1..m : Fits(i, later)'
        BY <1>8, <1>10, <2>2, <2>5
    <2> QED
        BY <1>1, <1>9, <1>11, <1>15, <2>1, <2>3, <2>4, <2>6, RoutingOn DEF Carrying
<1>21. InHalves(from)'
    BY <1>1, <1>3, <1>17, <1>18, HalvesKept DEF Carrying
<1>22. Sent'
    BY <1>1, <1>3, <1>9, <1>15, <1>16, <1>18, SentKept DEF Carrying
<1>23. Unsent'
    BY <1>1, <1>3, <1>9, <1>14, <1>15, <1>16, <1>18, UnsentKept DEF Carrying
<1>24. Games' = Games /\ Undisturbed' = Undisturbed
    BY <1>1, <1>9, Fixed DEF Undisturbed
<1>25. ASSUME Undisturbed, NEW g \in Games, status[g] = "completed"
       PROVE  IF g = s.to.to
              THEN playedBy[g] = [side[g] EXCEPT ![s.to.slot] = s.before]
              ELSE side[g] = playedBy[g]
    BY <1>3, <1>8, <1>10, <1>14, <1>25 DEF Carrying, Standing, Refilling
<1>26. Standing'
    <2>1. ASSUME Undisturbed, NEW g \in Games, status[g] = "completed"
          PROVE  side'[g] = playedBy[g] \/ Resets(g)'
        <3>1. CASE g # s.to.to
            BY <1>1, <1>3, <1>5, <1>18, <1>25, <2>1, <3>1, StandsKept
        <3>2. CASE g = s.to.to /\ s.before = e
            <4>1. side[g] \in [1..2 -> Sides] /\ side'[g] \in [1..2 -> Sides]
                BY <1>1, <1>5, Fixed DEF DataOK
            <4>2. \A i \in 1..2 : side'[g][i] = IF i = s.to.slot THEN e ELSE side[g][i]
                BY <1>18, <3>2 DEF Puts
            <4>3. side'[g] = [side[g] EXCEPT ![s.to.slot] = e]
                BY <4>1, <4>2
            <4> QED
                BY <1>25, <2>1, <3>2, <4>3
        <3>3. CASE g = s.to.to /\ s.before # e
            <4>1. 1 \in 1..Len(Rest')
                BY <1>8, <1>10, <1>19, <3>3 DEF Shifted
            <4> QED
                BY <1>19, <3>3, <4>1 DEF Resets
        <3> QED
            BY <3>1, <3>2, <3>3
    <2>2. \A g : ~Refilling(g)'
        BY <1>19 DEF Refilling
    <2> QED
        BY <1>9, <1>24, <2>1, <2>2 DEF Standing
<1>27. Overtaken'
    <2>1. ASSUME Undisturbed, NEW g \in Games, status[g] = "completed", Undone(g)'
          PROVE  side'[g] # playedBy[g]
        <3>1. g = s.to.to /\ s.before # e
            BY <1>19, <2>1 DEF Undone
        <3>2. side[g] \in [1..2 -> Sides]
            BY <1>5 DEF DataOK
        <3>3. playedBy[g][s.to.slot] = s.before
            BY <1>3, <1>25, <2>1, <3>1, <3>2
        <3>4. side'[g][s.to.slot] = e
            BY <1>3, <1>18, <3>1 DEF Puts
        <3> QED
            BY <3>1, <3>3, <3>4
    <2> QED
        BY <1>9, <1>24, <2>1 DEF Overtaken
<1> QED
    BY <1>20, <1>21, <1>22, <1>23, <1>26, <1>27 DEF Carrying

LEMMA WipeCarries ==
    ASSUME IInv, NEW later, NEW from, OneWay(draw, later, from), Carrying(later, from),
           NEW d \in Devices, Wipe(d)
    PROVE  Carrying(later, from)'
<1>1. /\ lock = d /\ Routes(d) /\ Len(todo[d]) > 1 /\ Now(d) \in Work /\ Now(d).op = "wipe"
      /\ event' = event /\ event \in Tournaments /\ DataOK /\ DataOK'
    BY KindOf, WipeOK DEF Wipe, At, IInv
<1>2. PICK s : s = Now(d)
    OBVIOUS
<1>3. s.op = "wipe" /\ s.to \in Feeds /\ s.to.to \in Games /\ s.to.slot \in 1..2
    BY <1>1, <1>2, WorkIs DEF Feeds
<1>4. Rest = todo[d] /\ s = Rest[1] /\ Shifted(0)
    <2>1. <<>> \in Seq(Work) /\ Len(<<>>) = 0 /\ Continue(d, <<>>)
        BY DEF Wipe
    <2> QED
        BY <1>1, <1>2, <2>1, StepRest
<1>5. /\ UNCHANGED <<event, status, winner, left, playedBy, routed>>
      /\ Puts(s.to, Nobody)
    BY <1>1, <1>2, <1>3 DEF Wipe, Puts, DataOK
<1>6. Rest # <<>> /\ Len(Rest) > 1 /\ Len(Rest) \in Nat /\ Rest[Len(Rest)].op = "sync"
    BY <1>4, RestOK DEF Shifted, Ending
<1>7. PICK o \in Games : o = Source
    BY <1>6, RestOK
<1>8. /\ status[o] = "completed" /\ o \notin routed /\ side[o] = playedBy[o]
      /\ \A j \in 1..2 : FeedOf(o, j) # NoFeed =>
                \/ Holds(o, j) = playedBy[o][Who(o, j)]
                \/ Pending("clear", FeedOf(o, j)) \/ Pending("fill", FeedOf(o, j))
      /\ \A i \in 1..(Len(Rest) - 1) : Fits(i, later)
    BY <1>6, <1>7 DEF Carrying, RoutingSound
<1>9. /\ Rest[2].op = "reset" /\ Rest[2].game = s.to.to
      /\ \E h \in Games : \E k \in 1..2 :
             FeedOf(h, k) # NoFeed /\ s.to = FeedOf(h, k) /\ status[h] # "completed"
    BY <1>3, <1>4, <1>6, <1>8 DEF Fits
<1>10. PICK h \in Games, k \in 1..2 :
             FeedOf(h, k) # NoFeed /\ s.to = FeedOf(h, k) /\ status[h] # "completed"
    BY <1>9
<1>11. /\ h # o /\ \A g \in Games : \A j \in 1..2 : FeedOf(g, j) = s.to => g = h
    BY <1>1, <1>8, <1>10, WayOK
<1>12. o # s.to.to
    <2>1. 2 \in 1..(Len(Rest) - 1)
        BY <1>6, <1>9
    <2>2. later[s.to.to] > later[o] /\ later \in [Games -> Nat]
        BY <1>1, <1>7, <1>8, <1>9, <1>10, <2>1, WayOK DEF Fits
    <2> QED
        BY <2>2
<1>13. Rest'[1].op = "reset" /\ Rest'[1].game = s.to.to /\ 1 \in 1..Len(Rest')
    <2>1. Rest'[0 + 2 - 1] = Rest[2]
        BY <1>4, <1>6 DEF Shifted
    <2> QED
        BY <1>4, <1>6, <1>9, <2>1 DEF Shifted
<1>14. RoutingSound(later)'
    <2>1. side'[o] = side[o]
        BY <1>1, <1>3, <1>5, <1>12, StandsKept
    <2>2. ASSUME NEW j \in 1..2, FeedOf(o, j) # NoFeed
          PROVE  \/ Holds(o, j)' = playedBy[o][Who(o, j)]
                 \/ Pending("clear", FeedOf(o, j))' \/ Pending("fill", FeedOf(o, j))'
        <3> PICK p : p = FeedOf(o, j)
            OBVIOUS
        <3>1. p = FeedOf(o, j)' /\ p # s.to
            BY <1>1, <1>11, Fixed DEF FeedOf
        <3>2. CASE Holds(o, j) = playedBy[o][Who(o, j)]
            BY <1>1, <1>3, <1>5, <2>2, <3>1, <3>2, OthersHold
        <3>3. CASE Pending("clear", p) \/ Pending("fill", p)
            <4>1. Pending("clear", p)' \/ Pending("fill", p)'
                BY <1>3, <1>4, <1>6, <3>3, PendingKept
            <4> QED
                BY <3>1, <4>1 DEF Pending
        <3> QED
            BY <1>8, <2>2, <3>2, <3>3
    <2>3. \A i \in 1..0 : Fits(i, later)'
        OBVIOUS
    <2> QED
        BY <1>1, <1>4, <1>5, <1>7, <1>8, <1>13, <2>1, <2>2, <2>3, RoutingOn DEF Carrying
<1>15. InHalves(from)'
    BY <1>1, <1>3, <1>5, HalvesKept DEF Carrying
<1>16. Sent'
    BY <1>1, <1>3, <1>5, <1>10, <1>11, SentKept DEF Carrying
<1>17. Unsent'
    <2>1. \A p : p # s.to /\ Pending("wipe", p) => Pending("wipe", p)'
        BY <1>4, <1>6, PendingKept
    <2> QED
        BY <1>1, <1>3, <1>5, <2>1, UnsentKept DEF Carrying
<1>18. Games' = Games /\ Undisturbed' = Undisturbed
    BY <1>1, <1>5, Fixed DEF Undisturbed
<1>19. Standing'
    <2>1. ASSUME Undisturbed, NEW g \in Games, status[g] = "completed"
          PROVE  (side'[g] = playedBy[g] \/ Resets(g)') /\ ~Refilling(g)'
        <3>1. side[g] = playedBy[g] \/ Resets(g)
            BY <1>3, <1>4, <2>1 DEF Carrying, Standing, Refilling
        <3>2. Resets(g) => Resets(g)'
            BY <1>3, <1>4, <1>6, ResetsKept
        <3>3. CASE g # s.to.to
            BY <1>1, <1>3, <1>5, <1>13, <3>1, <3>2, <3>3, StandsKept DEF Refilling
        <3>4. CASE g = s.to.to
            BY <1>13, <3>4 DEF Resets, Refilling
        <3> QED
            BY <3>3, <3>4
    <2> QED
        BY <1>5, <1>18, <2>1 DEF Standing
<1>20. Overtaken'
    <2>1. side'[s.to.to][s.to.slot] = Nobody
        BY <1>3, <1>5 DEF Puts
    <2>2. ~Ready(s.to.to)'
        BY <1>3, <2>1 DEF Ready
    <2>3. \A g : Undone(g)' => g = s.to.to
        BY <1>13 DEF Undone
    <2> QED
        BY <1>18, <2>2, <2>3 DEF Overtaken, Ready
<1> QED
    BY <1>14, <1>15, <1>16, <1>17, <1>19, <1>20 DEF Carrying

\* What is to be wiped and reset after g: pairs of statements.
Unwinds(g, more) ==
    /\ more = <<>> \/ more[1].op = "wipe"
    /\ \A i \in 1..Len(more) :
           \/ /\ more[i].op = "wipe" /\ i + 1 \in 1..Len(more)
              /\ \E k \in 1..2 : /\ FeedOf(g, k) # NoFeed /\ more[i].to = FeedOf(g, k)
                                 /\ more[i + 1].op = "reset"
                                 /\ more[i + 1].game = FeedOf(g, k).to
           \/ /\ more[i].op = "reset"
              /\ i + 1 \in 1..Len(more) => more[i + 1].op = "wipe"
              /\ \E k \in 1..2 : FeedOf(g, k) # NoFeed /\ more[i].game = FeedOf(g, k).to
    /\ \A k \in 1..2 : FeedOf(g, k) # NoFeed =>
           \E i \in 1..Len(more) : more[i].op = "wipe" /\ more[i].to = FeedOf(g, k)

LEMMA UnwindsBoth ==
    ASSUME NEW g, NEW more, more = WipeAndReset(WinsTo(g)) \o WipeAndReset(LosesTo(g))
    PROVE  Unwinds(g, more)
<1>1. FeedOf(g, 1) = WinsTo(g) /\ FeedOf(g, 2) = LosesTo(g)
    BY DEF FeedOf, Way, WinsTo, LosesTo
<1>2. PICK a, b : a = WinsTo(g) /\ b = LosesTo(g)
    OBVIOUS
<1> DEFINE Two(f) == <<[op |-> "wipe", to |-> f], [op |-> "reset", game |-> f.to]>>
<1>3. \A k \in 1..2 : (k = 1 /\ FeedOf(g, k) = a) \/ (k = 2 /\ FeedOf(g, k) = b)
    BY <1>1, <1>2
<1>4. CASE a = NoFeed /\ b = NoFeed
    <2>1. more = <<>>
        BY <1>2, <1>4 DEF WipeAndReset
    <2> QED
        BY <1>3, <1>4, <2>1 DEF Unwinds
<1>5. ASSUME NEW f, NEW k \in 1..2, f = FeedOf(g, k), f # NoFeed, more = Two(f),
             \A j \in 1..2 : j # k => FeedOf(g, j) = NoFeed
      PROVE  Unwinds(g, more)
    <2>1. /\ Len(more) = 2 /\ more # <<>>
          /\ more[1].op = "wipe" /\ more[1].to = f
          /\ more[2].op = "reset" /\ more[2].game = f.to
        BY <1>5
    <2> HIDE DEF Two
    <2>2. \A i \in 1..2 : i = 1 \/ i = 2
        OBVIOUS
    <2> QED
        BY <1>5, <2>1, <2>2 DEF Unwinds
<1>6. CASE a # NoFeed /\ b = NoFeed
    <2>1. more = Two(a)
        BY <1>2, <1>6 DEF WipeAndReset
    <2> QED
        BY <1>3, <1>5, <1>6, <2>1
<1>7. CASE a = NoFeed /\ b # NoFeed
    <2>1. more = Two(b)
        BY <1>2, <1>7 DEF WipeAndReset
    <2> QED
        BY <1>3, <1>5, <1>7, <2>1
<1>8. CASE a # NoFeed /\ b # NoFeed
    <2>1. more = Two(a) \o Two(b)
        BY <1>2, <1>8 DEF WipeAndReset
    <2>2. /\ Len(more) = 4 /\ more # <<>>
          /\ more[1].op = "wipe" /\ more[1].to = a
          /\ more[2].op = "reset" /\ more[2].game = a.to
          /\ more[3].op = "wipe" /\ more[3].to = b
          /\ more[4].op = "reset" /\ more[4].game = b.to
        BY <2>1
    <2> HIDE DEF Two
    <2>3. \A i \in 1..4 : i = 1 \/ i = 2 \/ i = 3 \/ i = 4
        OBVIOUS
    <2>4. FeedOf(g, 1) = a /\ FeedOf(g, 2) = b /\ FeedOf(g, 1) # NoFeed /\ FeedOf(g, 2) # NoFeed
        BY <1>1, <1>2, <1>8
    <2>5. ASSUME NEW i \in 1..4
          PROVE  \/ /\ more[i].op = "wipe" /\ i + 1 \in 1..4
                    /\ \E k \in 1..2 : /\ FeedOf(g, k) # NoFeed /\ more[i].to = FeedOf(g, k)
                                       /\ more[i + 1].op = "reset"
                                       /\ more[i + 1].game = FeedOf(g, k).to
                 \/ /\ more[i].op = "reset"
                    /\ i + 1 \in 1..4 => more[i + 1].op = "wipe"
                    /\ \E k \in 1..2 : FeedOf(g, k) # NoFeed /\ more[i].game = FeedOf(g, k).to
        BY <2>2, <2>3, <2>4
    <2>6. \A k \in 1..2 : \E i \in 1..4 : more[i].op = "wipe" /\ more[i].to = FeedOf(g, k)
        BY <2>2, <2>4
    <2> QED
        BY <2>2, <2>5, <2>6 DEF Unwinds
<1> QED
    BY <1>4, <1>6, <1>7, <1>8

LEMMA ResetCarries ==
    ASSUME IInv, NEW later, NEW from, OneWay(draw, later, from), Carrying(later, from),
           NEW d \in Devices, Reset(d)
    PROVE  Carrying(later, from)'
<1>1. /\ lock = d /\ Routes(d) /\ Len(todo[d]) > 1 /\ Now(d) \in Work /\ Now(d).op = "reset"
      /\ event' = event /\ event \in Tournaments /\ DataOK
    BY KindOf DEF Reset, At, IInv
<1>2. PICK g \in Games : g = Now(d).game
    BY <1>1, WorkIs
<1>3. UNCHANGED <<event, side, over, left, playedBy, routed>>
    BY DEF Reset
<1>4. PICK more \in Seq(Work) :
          /\ Continue(d, more)
          /\ \/ status[g] # "completed" /\ more = <<>> /\ UNCHANGED <<status, winner>>
             \/ /\ status[g] = "completed" /\ Unwinds(g, more)
                /\ status' = [status EXCEPT ![g] = "scheduled"] /\ winner' = Unplayed(g)
    <2>1. CASE status[g] # "completed"
        <3>1. <<>> \in Seq(Work)
            OBVIOUS
        <3> QED
            BY <1>2, <2>1, <3>1 DEF Reset
    <2>2. CASE status[g] = "completed"
        <3>1. PICK m : m = WipeAndReset(WinsTo(g)) \o WipeAndReset(LosesTo(g))
            OBVIOUS
        <3>2. m \in Seq(Work)
            <4>1. ASSUME NEW feed \in Feeds \cup {NoFeed}
                  PROVE  WipeAndReset(feed) \in Seq(Work)
                <5>1. CASE feed = NoFeed
                    BY <5>1 DEF WipeAndReset
                <5>2. CASE feed # NoFeed
                    <6>1. /\ [op |-> "wipe", to |-> feed] \in Work
                          /\ [op |-> "reset", game |-> feed.to] \in Work
                        BY <5>2 DEF Work, Feeds
                    <6> QED
                        BY <5>2, <6>1 DEF WipeAndReset
                <5> QED
                    BY <5>1, <5>2
            <4>2. /\ WipeAndReset(WinsTo(g)) \in Seq(Work)
                  /\ WipeAndReset(LosesTo(g)) \in Seq(Work)
                BY <1>1, <4>1, DrawOK
            <4> QED
                BY <3>1, <4>2
        <3> QED
            BY <1>2, <2>2, <3>1, <3>2, UnwindsBoth DEF Reset
    <2> QED
        BY <2>1, <2>2
<1>5. PICK m \in Nat : m = Len(more)
    OBVIOUS
<1>6. /\ Rest = todo[d] /\ Rest[1].op = "reset" /\ Rest[1].game = g /\ Shifted(m)
      /\ \A i \in 1..m : Rest'[i] = more[i]
    <2>1. /\ Rest = todo[d] /\ Now(d) = Rest[1] /\ Shifted(Len(more))
          /\ \A i \in 1..Len(more) : Rest'[i] = more[i]
        BY <1>1, <1>4, StepRest
    <2> QED
        BY <1>1, <1>2, <1>5, <2>1
<1>7. /\ Rest # <<>> /\ Len(Rest) > 1 /\ Len(Rest) \in Nat /\ Rest[Len(Rest)].op = "sync"
      /\ Len(Rest') = m + Len(Rest) - 1 /\ Rest'[m + 1] = Rest[2]
    <2>1. Rest'[m + 2 - 1] = Rest[2] /\ m + 2 - 1 = m + 1
        BY <1>6, RestOK DEF Shifted
    <2> QED
        BY <1>6, <2>1, RestOK DEF Shifted, Ending
<1>8. PICK o \in Games : o = Source
    BY <1>7, RestOK
<1>9. /\ status[o] = "completed" /\ o \notin routed /\ side[o] = playedBy[o]
      /\ \A j \in 1..2 : FeedOf(o, j) # NoFeed =>
                \/ Holds(o, j) = playedBy[o][Who(o, j)]
                \/ Pending("clear", FeedOf(o, j)) \/ Pending("fill", FeedOf(o, j))
      /\ \A i \in 1..(Len(Rest) - 1) : Fits(i, later)
    BY <1>7, <1>8 DEF Carrying, RoutingSound
<1>10. later[g] > later[o] /\ Rest[2].op \notin {"reset", "fill"}
    <2>1. 1 \in 1..(Len(Rest) - 1) /\ (2 = Len(Rest) \/ 2 \in 1..(Len(Rest) - 1))
        <3>1. PICK n \in Nat : n = Len(Rest) /\ n > 1
            BY <1>7
        <3>2. 1 \in 1..(n - 1) /\ (2 = n \/ 2 \in 1..(n - 1))
            BY <3>1
        <3> QED
            BY <3>1, <3>2
    <2>2. Rest[2].op # "fill"
        BY <1>7, <1>9, <2>1 DEF Fits
    <2> QED
        BY <1>6, <1>8, <1>9, <2>1, <2>2 DEF Fits
<1>11. /\ o # g /\ later \in [Games -> Nat]
       /\ \A k \in 1..2 : FeedOf(g, k) # NoFeed => later[FeedOf(g, k).to] > later[o]
    <2>1. later \in [Games -> Nat]
        BY DEF OneWay, Games
    <2>2. \A k \in 1..2 : FeedOf(g, k) # NoFeed => /\ FeedOf(g, k).to \in Games
                                                   /\ later[g] < later[FeedOf(g, k).to]
        BY <1>1, WayOK
    <2> QED
        BY <1>10, <2>1, <2>2
<1>12. \A h \in Games : /\ h # g => status'[h] = status[h] /\ winner'[h] = winner[h]
                        /\ status'[g] # "completed"
    <2>1. g \in DOMAIN status /\ g \in DOMAIN winner
        BY <1>1 DEF DataOK
    <2>2. CASE status[g] # "completed" /\ UNCHANGED <<status, winner>>
        BY <2>2
    <2>3. CASE status' = [status EXCEPT ![g] = "scheduled"] /\ winner' = Unplayed(g)
        BY <2>1, <2>3 DEF Unplayed
    <2> QED
        BY <1>4, <2>2, <2>3
<1>13. \A h, k : FeedOf(h, k)' = FeedOf(h, k) /\ (side' = side => Holds(h, k)' = Holds(h, k))
    BY <1>3, Fixed DEF FeedOf, Holds
<1>14. Source' = o
    BY <1>1, <1>6, <1>8, <1>11, <1>12, KeptFits DEF Carrying
<1>15. m > 0 => status[g] = "completed" /\ Unwinds(g, more) /\ more[1].op = "wipe"
    BY <1>4, <1>5 DEF Unwinds
<1>16. ASSUME NEW i \in 1..m PROVE Fits(i, later)'
    <2>1. /\ Rest'[i] = more[i]
          /\ i + 1 \in 1..m => Rest'[i + 1] = more[i + 1]
          /\ i + 1 \notin 1..m => Rest'[i + 1] = Rest[2]
        <3>1. i + 1 \notin 1..m => i + 1 = m + 1
            OBVIOUS
        <3> QED
            BY <1>6, <1>7, <3>1
    <2>2. status[g] = "completed" /\ Unwinds(g, more)
        BY <1>15
    <2>3. CASE /\ more[i].op = "wipe" /\ i + 1 \in 1..m
               /\ \E k \in 1..2 : /\ FeedOf(g, k) # NoFeed /\ more[i].to = FeedOf(g, k)
                                  /\ more[i + 1].op = "reset"
                                  /\ more[i + 1].game = FeedOf(g, k).to
        <3>1. \E h \in Games : \E k \in 1..2 :
                 FeedOf(h, k)' # NoFeed /\ more[i].to = FeedOf(h, k)' /\ status'[h] # "completed"
            BY <1>12, <1>13, <2>3
        <3>2. Games' = Games
            BY <1>3, Fixed
        <3> QED
            BY <2>1, <2>3, <3>1, <3>2 DEF Fits
    <2>4. CASE /\ more[i].op = "reset"
               /\ i + 1 \in 1..m => more[i + 1].op = "wipe"
               /\ \E k \in 1..2 : FeedOf(g, k) # NoFeed /\ more[i].game = FeedOf(g, k).to
        <3>1. Rest'[i + 1].op # "reset"
            BY <1>10, <2>1, <2>4
        <3>2. later[more[i].game] > later[o]
            BY <1>11, <2>4
        <3> QED
            BY <1>14, <2>1, <2>4, <3>1, <3>2 DEF Fits
    <2> QED
        BY <1>5, <2>2, <2>3, <2>4 DEF Unwinds
<1>17. Rest'[1].op \notin {"reset", "fill"}
    BY <1>5, <1>6, <1>7, <1>10, <1>15
<1>18. RoutingSound(later)'
    <2>1. ASSUME NEW j \in 1..2, FeedOf(o, j) # NoFeed
          PROVE  \/ Holds(o, j)' = playedBy[o][Who(o, j)]
                 \/ Pending("clear", FeedOf(o, j))' \/ Pending("fill", FeedOf(o, j))'
        <3> PICK p : p = FeedOf(o, j)
            OBVIOUS
        <3>1. p = FeedOf(o, j)'
            BY <1>13
        <3>2. CASE Holds(o, j) = playedBy[o][Who(o, j)]
            BY <1>3, <1>13, <3>2
        <3>3. CASE Pending("clear", p) \/ Pending("fill", p)
            <4>1. Pending("clear", p)' \/ Pending("fill", p)'
                BY <1>6, <1>7, <3>3, PendingKept
            <4> QED
                BY <3>1, <4>1 DEF Pending
        <3> QED
            BY <1>9, <2>1, <3>2, <3>3
    <2>2. /\ \A h \in Games : status[h] # "completed" => status'[h] # "completed"
          /\ winner'[o] = winner[o] /\ status'[o] = "completed" /\ side'[o] = side[o]
        BY <1>3, <1>9, <1>11, <1>12
    <2> QED
        BY <1>1, <1>3, <1>6, <1>8, <1>16, <1>17, <2>1, <2>2, RoutingOn DEF Carrying
<1>19. Games' = Games /\ Undisturbed' = Undisturbed /\ draw' = draw
    BY <1>3, Fixed DEF Undisturbed
<1>20. InHalves(from)'
    BY <1>3, <1>19 DEF Carrying, InHalves
<1>21. Sent'
    <2>1. ASSUME NEW h \in Games \ draw.byes, NEW k \in 1..2, status'[h] = "completed",
                 h \in routed, FeedOf(h, k) # NoFeed
          PROVE  Holds(h, k)' = playedBy[h][Who(h, k)']
        <3>1. h # g /\ status[h] = "completed" /\ Who(h, k)' = Who(h, k)
            BY <1>12, <2>1 DEF Who
        <3> QED
            BY <1>3, <1>13, <2>1, <3>1 DEF Carrying, Sent
    <2> QED
        BY <1>3, <1>13, <1>19, <2>1 DEF Sent
<1>22. Unsent'
    <2>1. ASSUME Undisturbed, NEW h \in Games \ draw.byes, NEW k \in 1..2, status'[h] # "completed",
                 FeedOf(h, k) # NoFeed
          PROVE  Holds(h, k)' = Nobody \/ Pending("wipe", FeedOf(h, k))'
        <3> PICK p : p = FeedOf(h, k)
            OBVIOUS
        <3>1. p = FeedOf(h, k)'
            BY <1>13
        <3>2. CASE status[h] # "completed"
            <4>1. Holds(h, k) = Nobody \/ Pending("wipe", p)
                BY <2>1, <3>2 DEF Carrying, Unsent
            <4>2. Pending("wipe", p) => Pending("wipe", p)'
                BY <1>6, <1>7, PendingKept
            <4>3. Pending("wipe", p)' => Pending("wipe", FeedOf(h, k))'
                BY <3>1 DEF Pending
            <4> QED
                BY <1>3, <1>13, <4>1, <4>2, <4>3
        <3>3. CASE status[h] = "completed"
            <4>1. h = g /\ status[g] = "completed" /\ Unwinds(g, more)
                BY <1>4, <1>12, <2>1, <3>3
            <4>2. PICK i \in 1..m : more[i].op = "wipe" /\ more[i].to = p
                BY <1>5, <2>1, <4>1 DEF Unwinds
            <4>3. Rest'[i].op = "wipe" /\ Rest'[i].to = p /\ i \in 1..Len(Rest')
                BY <1>6, <1>7, <4>2
            <4> QED
                BY <3>1, <4>3 DEF Pending
        <3> QED
            BY <3>2, <3>3
    <2> QED
        BY <1>13, <1>19, <2>1 DEF Unsent
<1>23. Standing'
    <2>1. ASSUME Undisturbed, NEW h \in Games, status'[h] = "completed"
          PROVE  (side'[h] = playedBy[h] \/ Resets(h)') /\ ~Refilling(h)'
        <3>1. h # g /\ status[h] = "completed"
            BY <1>12, <2>1
        <3>2. side[h] = playedBy[h] \/ Resets(h)
            BY <1>6, <2>1, <3>1 DEF Carrying, Standing, Refilling
        <3>3. Resets(h) => Resets(h)'
            BY <1>6, <1>7, <3>1, ResetsKept
        <3> QED
            BY <1>3, <1>17, <3>2, <3>3 DEF Refilling
    <2> QED
        BY <1>3, <1>19, <2>1 DEF Standing
<1>24. Overtaken'
    BY <1>17 DEF Overtaken, Undone
<1> QED
    BY <1>18, <1>20, <1>21, <1>22, <1>23, <1>24 DEF Carrying

\* A request at its write has not begun to route.
LEMMA NoRest ==
    ASSUME IInv, NEW d \in Devices, lock = d, Alone(todo[d], Writing)
    PROVE  Rest = <<>>
<1>1. todo[d] # <<>> /\ Len(todo[d]) = 1 /\ todo[d][1] \in Writing
    BY AloneSome DEF Alone
<1>2. Writing \cap Ending = {}
    BY DEF Writing, Ending
<1>3. ~Routes(d)
    BY <1>1, <1>2 DEF Routes, Chain
<1> QED
    BY <1>3 DEF Rest

\* The statements that carry the sides of g on, w having won, and the last one.
Carries(g, w, s) ==
    /\ Len(s) >= 1 /\ s[Len(s)].op = "sync" /\ s[Len(s)].game = g
    /\ \A i \in 1..(Len(s) - 1) :
           /\ s[i].op = "clear"
           /\ \E k \in 1..2 : /\ FeedOf(g, k) # NoFeed /\ s[i].to = FeedOf(g, k)
                              /\ s[i].from = g /\ s[i].slot = IF k = 1 THEN w ELSE 3 - w
    /\ \A k \in 1..2 : FeedOf(g, k) # NoFeed =>
           \E i \in 1..Len(s) : s[i].op = "clear" /\ s[i].to = FeedOf(g, k)

LEMMA CarriesBoth ==
    ASSUME NEW g, g # GrandFinal, NEW w, NEW s,
           s = Routing(g, w) \o <<[op |-> "sync", game |-> g]>>
    PROVE  Carries(g, w, s)
<1>1. FeedOf(g, 1) = WinsTo(g) /\ FeedOf(g, 2) = LosesTo(g)
    BY DEF FeedOf, Way, WinsTo, LosesTo
<1>2. PICK a, b, l : a = WinsTo(g) /\ b = LosesTo(g) /\ l = 3 - w
    OBVIOUS
<1>3. PICK x, y, z : /\ x = [op |-> "clear", to |-> a, from |-> g, slot |-> w]
                     /\ y = [op |-> "clear", to |-> b, from |-> g, slot |-> l]
                     /\ z = [op |-> "sync", game |-> g]
    OBVIOUS
<1>4. s = (Carry(a, g, w) \o Carry(b, g, l) \o <<>>) \o <<z>>
    BY <1>2, <1>3 DEF Routing
<1>5. /\ x.op = "clear" /\ x.to = a /\ x.from = g /\ x.slot = w
      /\ y.op = "clear" /\ y.to = b /\ y.from = g /\ y.slot = l
      /\ z.op = "sync" /\ z.game = g
    BY <1>3
<1>6. /\ a = NoFeed => Carry(a, g, w) = <<>>
      /\ a # NoFeed => Carry(a, g, w) = <<x>>
      /\ b = NoFeed => Carry(b, g, l) = <<>>
      /\ b # NoFeed => Carry(b, g, l) = <<y>>
    BY <1>3 DEF Carry
<1>7. \A k \in 1..2 : k = 1 \/ k = 2
    OBVIOUS
<1>8. /\ <<>> \o <<>> \o <<>> = <<>> /\ <<x>> \o <<>> \o <<>> = <<x>>
      /\ <<>> \o <<y>> \o <<>> = <<y>> /\ (<<x>> \o <<y>>) \o <<>> = <<x>> \o <<y>>
    <2>1. /\ <<>> \in Seq({x, y}) /\ <<x>> \in Seq({x, y}) /\ <<y>> \in Seq({x, y})
          /\ <<x>> \o <<y>> \in Seq({x, y})
        OBVIOUS
    <2> QED
        BY <2>1, ConcatEmptySeq
<1>9. CASE a = NoFeed /\ b = NoFeed
    <2>1. PICK t : t \in Seq({x, y}) /\ t = <<>> /\ Len(t) = 0
        <3>1. <<>> \in Seq({x, y}) /\ Len(<<>>) = 0
            OBVIOUS
        <3> QED
            BY <3>1
    <2>2. s = t \o <<z>>
        BY <1>4, <1>6, <1>8, <1>9, <2>1
    <2>3. Len(s) = 1 /\ s[1] = z
        BY <2>1, <2>2
    <2> QED
        BY <1>1, <1>2, <1>5, <1>7, <1>9, <2>3 DEF Carries
<1>10. CASE a # NoFeed /\ b = NoFeed
    <2>1. PICK t : t = <<x>>
        OBVIOUS
    <2>2. t \in Seq({x, y}) /\ Len(t) = 1 /\ t[1] = x
        BY <2>1
    <2>3. s = t \o <<z>>
        BY <1>4, <1>6, <1>8, <1>10, <2>1
    <2>4. Len(s) = 2 /\ s[1] = x /\ s[2] = z
        BY <2>2, <2>3
    <2> QED
        BY <1>1, <1>2, <1>5, <1>7, <1>10, <2>4 DEF Carries
<1>11. CASE a = NoFeed /\ b # NoFeed
    <2>1. PICK t : t = <<y>>
        OBVIOUS
    <2>2. t \in Seq({x, y}) /\ Len(t) = 1 /\ t[1] = y
        BY <2>1
    <2>3. s = t \o <<z>>
        BY <1>4, <1>6, <1>8, <1>11, <2>1
    <2>4. Len(s) = 2 /\ s[1] = y /\ s[2] = z
        BY <2>2, <2>3
    <2> QED
        BY <1>1, <1>2, <1>5, <1>7, <1>11, <2>4 DEF Carries
<1>12. CASE a # NoFeed /\ b # NoFeed
    <2>1. PICK t : t = <<x>> \o <<y>>
        OBVIOUS
    <2>2. t \in Seq({x, y}) /\ Len(t) = 2 /\ t[1] = x /\ t[2] = y
        BY <2>1
    <2>3. s = t \o <<z>>
        BY <1>4, <1>6, <1>8, <1>12, <2>1
    <2>4. Len(s) = 3 /\ s[1] = x /\ s[2] = y /\ s[3] = z
        BY <2>2, <2>3
    <2> QED
        BY <1>1, <1>2, <1>5, <1>7, <1>12, <2>4 DEF Carries
<1> QED
    BY <1>9, <1>10, <1>11, <1>12

LEMMA WritingOnly ==
    ASSUME NEW s, Alone(s, Writing)
    PROVE  ~Chain(s, Work, Ending)
<1>1. Len(s) = 1 /\ s[1] \in Writing
    BY DEF Alone
<1>2. Writing \cap Ending = {}
    BY DEF Writing, Ending
<1> QED
    BY <1>1, <1>2 DEF Chain

\* Once a statement has failed, one has failed.
LEMMA DisturbedUndone ==
    ASSUME IInv, event' = event, Spend("faults")
    PROVE  ~Undisturbed'
<1>1. left["faults"] \in Nat /\ left["faults"] <= event.faults /\ event.faults \in Nat
    BY TournamentsAssumption DEF IInv, DataOK
<1>2. left'["faults"] = left["faults"] - 1
    BY DEF IInv, DataOK, Spend
<1> QED
    BY <1>1, <1>2 DEF Undisturbed

\* No game of such a draw is ever absent.
LEMMA NoneAbsent ==
    ASSUME IInv, NEW later, NEW from, OneWay(draw, later, from), NEW g \in Games
    PROVE  status[g] # "absent" /\ g # GrandFinal
<1>1. GrandFinal \notin Games /\ ResetGame \notin Games
    BY TournamentsAssumption DEF OneWay, Games, draw, IInv
<1> QED
    BY <1>1 DEF IInv, DataOK

LEMMA WriteCarries ==
    ASSUME IInv, NEW later, NEW from, OneWay(draw, later, from), Carrying(later, from),
           NEW d \in Devices, Write(d)
    PROVE  Carrying(later, from)'
<1>1. lock = d /\ Now(d) \in Writing /\ Alone(todo[d], Writing)
    BY KindOf DEF Write, At
<1>2. PICK g \in Games, w \in 1..2 : g = Now(d).game /\ w = Now(d).won
    BY <1>1 DEF Writing
<1>3. PICK end : end = [op |-> "sync", game |-> g]
    OBVIOUS
<1>4. PICK more : more = Routing(g, w)
    OBVIOUS
<1>5. /\ UNCHANGED <<event, side, over, left>>
      /\ status' = [status EXCEPT ![g] = "completed"]
      /\ winner' = [winner EXCEPT ![g] = w]
      /\ playedBy' = [playedBy EXCEPT ![g] = side[g]]
      /\ routed' = routed \ {g}
      /\ Continue(d, more \o <<end>>)
    BY <1>2, <1>3, <1>4, NoneAbsent DEF Write
<1>6. event \in Tournaments /\ DataOK
    BY DEF IInv
<1>7. PICK s : s = more \o <<end>>
    OBVIOUS
<1>8. Chain(s, Work, Ending) /\ s # <<>>
    <2>1. more \in Seq(Work) /\ end \in Ending
        BY <1>2, <1>3, <1>4, <1>6, RoutingOK DEF Ending
    <2> QED
        BY <1>7, <2>1, ChainEnd
<1>9. todo'[d] = s /\ lock' = d
    <2>1. Tail(todo[d]) = <<>>
        <3>1. Tail(todo[d]) \in Seq(Writing) /\ Len(Tail(todo[d])) = 0
            BY <1>1, AloneSome, HeadTailProperties DEF Alone
        <3> QED
            BY <3>1, EmptySeq
    <2>2. s \o <<>> = s
        BY <1>8, ConcatEmptySeq DEF Chain
    <2> QED
        BY <1>1, <1>5, <1>7, <1>8, <2>1, <2>2 DEF Continue, IInv
<1>10. Rest' = s
    BY <1>5, <1>8, <1>9, Fixed DEF Rest, Routes
<1>11. Carries(g, w, s)
    BY <1>3, <1>4, <1>7, NoneAbsent, CarriesBoth
<1>12. Rest = <<>>
    BY <1>1, NoRest
<1>13. PICK n \in Nat : n = Len(s) /\ n >= 1
    BY <1>8 DEF Chain
<1>14. \A i \in 1..n : s[i].op \in {"clear", "sync"}
    <2> TAKE i \in 1..n
    <2>1. i = n \/ i \in 1..(n - 1)
        BY <1>13
    <2> QED
        BY <1>11, <1>13, <2>1 DEF Carries
<1>15. /\ \A h \in Games \ {g} : /\ status'[h] = status[h] /\ winner'[h] = winner[h]
                                 /\ playedBy'[h] = playedBy[h]
       /\ status'[g] = "completed" /\ winner'[g] = w /\ playedBy'[g] = side[g]
    BY <1>5, <1>6 DEF DataOK
<1>16. /\ Games' = Games /\ draw' = draw /\ Undisturbed' = Undisturbed
       /\ \A h, k : FeedOf(h, k)' = FeedOf(h, k) /\ Holds(h, k)' = Holds(h, k)
       /\ \A h \in Games \ {g} : \A k : Who(h, k)' = Who(h, k)
       /\ \A k : Who(g, k)' = IF k = 1 THEN w ELSE 3 - w
    BY <1>5, <1>15, Fixed DEF FeedOf, Holds, Who, Undisturbed
<1>17. InHalves(from)'
    BY <1>5, <1>16 DEF Carrying, InHalves
<1>18. RoutingSound(later)'
    <2>1. Source' = g
        BY <1>10, <1>11 DEF Source, Carries
    <2>2. ASSUME NEW i \in 1..(n - 1) PROVE Fits(i, later)'
        <3>1. i \in 1..n /\ i + 1 \in 1..n /\ \A j \in (i + 1)..n : j \in 1..n
            BY <1>13
        <3>2. s[i].op = "clear" /\ s[i + 1].op # "reset"
              /\ \A j \in (i + 1)..n : s[j].op \in {"clear", "sync"}
            BY <1>11, <1>13, <1>14, <3>1 DEF Carries
        <3>3. \E k \in 1..2 : /\ FeedOf(g, k) # NoFeed /\ s[i].to = FeedOf(g, k)
                              /\ s[i].from = g /\ s[i].slot = IF k = 1 THEN w ELSE 3 - w
            BY <1>11, <1>13 DEF Carries
        <3>4. \E k \in 1..2 : /\ FeedOf(Source, k)' # NoFeed /\ s[i].to = FeedOf(Source, k)'
                              /\ s[i].from = Source' /\ s[i].slot = Who(Source, k)'
            <4>1. \A k : FeedOf(Source, k)' = FeedOf(g, k)' /\ Who(Source, k)' = Who(g, k)'
                BY <2>1 DEF FeedOf, Who
            <4> QED
                BY <1>16, <2>1, <3>3, <4>1
        <3> QED
            BY <1>10, <1>13, <3>2, <3>4 DEF Fits
    <2>3. Rest'[1].op # "fill"
        <3>1. 1 \in 1..n
            BY <1>13
        <3> QED
            BY <1>10, <1>14, <3>1
    <2>4. ASSUME NEW k \in 1..2, FeedOf(Source, k)' # NoFeed
          PROVE  Pending("clear", FeedOf(Source, k))'
        <3>1. PICK f : f = FeedOf(Source, k)'
            OBVIOUS
        <3>2. f = FeedOf(g, k)
            BY <1>16, <2>1, <3>1 DEF FeedOf
        <3>3. PICK i \in 1..n : s[i].op = "clear" /\ s[i].to = f
            BY <1>11, <1>13, <2>4, <3>1, <3>2 DEF Carries
        <3> QED
            BY <1>10, <1>13, <3>1, <3>3 DEF Pending
    <2>5. g \notin routed' /\ side'[g] = playedBy'[g]
        BY <1>5, <1>15
    <2> QED
        BY <1>10, <1>13, <1>15, <2>1, <2>2, <2>3, <2>4, <2>5 DEF RoutingSound
<1>19. Sent'
    <2>1. ASSUME NEW h \in Games \ draw.byes, NEW k \in 1..2,
                 status'[h] = "completed", h \in routed', FeedOf(h, k) # NoFeed
          PROVE  Holds(h, k)' = playedBy'[h][Who(h, k)']
        <3>1. h # g /\ h \in routed
            BY <1>5, <2>1
        <3> QED
            BY <1>15, <1>16, <2>1, <3>1 DEF Carrying, Sent
    <2> QED
        BY <1>16, <2>1 DEF Sent
<1>20. Unsent'
    <2>1. \A f : ~Pending("wipe", f)
        BY <1>12 DEF Pending
    <2>2. \A h \in Games : status'[h] # "completed" => status[h] # "completed"
        BY <1>15
    <2> QED
        BY <1>16, <2>1, <2>2 DEF Carrying, Unsent
<1>21. Standing'
    <2>1. \A h : ~Refilling(h)' /\ ~Refilling(h) /\ ~Resets(h)
        <3>1. 1 \in 1..n
            BY <1>13
        <3> QED
            BY <1>10, <1>12, <1>14, <3>1 DEF Refilling, Resets
    <2>2. ASSUME Undisturbed, NEW h \in Games, status'[h] = "completed"
          PROVE  side'[h] = playedBy'[h]
        <3>1. CASE h = g
            BY <1>5, <1>15, <3>1
        <3>2. CASE h # g
            BY <1>5, <1>15, <2>1, <2>2, <3>2 DEF Carrying, Standing
        <3> QED
            BY <3>1, <3>2
    <2> QED
        BY <1>16, <2>1, <2>2 DEF Standing
<1>22. Overtaken'
    <2>1. 1 \in 1..n
        BY <1>13
    <2> QED
        BY <1>10, <1>14, <2>1 DEF Overtaken, Undone
<1> QED
    BY <1>17, <1>18, <1>19, <1>20, <1>21, <1>22 DEF Carrying

LEMMA SyncCarries ==
    ASSUME IInv, NEW later, NEW from, OneWay(draw, later, from), Carrying(later, from),
           NEW d \in Devices, Sync(d) \/ FailSync(d)
    PROVE  Carrying(later, from)'
<1>1. lock = d /\ Now(d) \in Ending /\ Tail(todo[d]) = <<>> /\ ~Idle(d)
    BY KindOf DEF Sync, FailSync, At
<1>2. PICK g \in Games : g = Now(d).game
    BY <1>1 DEF Ending
<1>3. /\ UNCHANGED <<event, side, status, winner, playedBy>>
      /\ routed' = routed \cup {g} /\ Return(d)
      /\ Undisturbed' => Undisturbed
    <2>1. CASE Sync(d)
        <3>1. <<>> \o <<>> = <<>>
            OBVIOUS
        <3> QED
            BY <1>1, <1>2, <2>1, <3>1 DEF Sync, Continue, Return, Undisturbed
    <2>2. CASE FailSync(d)
        BY <1>2, <2>2, DisturbedUndone DEF FailSync
    <2> QED
        BY <2>1, <2>2
<1>4. Rest = todo[d] /\ Len(Rest) = 1 /\ Rest[1] = Now(d) /\ Rest[1].op = "sync" /\ Source = g
      /\ Rest # <<>>
    <2>1. Routes(d) /\ Len(todo[d]) = 1
        <3>1. ~Alone(todo[d], Writing)
            <4>1. ASSUME Alone(todo[d], Writing) PROVE FALSE
                <5>1. Now(d) \in Writing
                    BY <4>1 DEF Now, Alone
                <5> QED
                    BY <1>1, <5>1 DEF Writing, Ending
            <4> QED
                BY <4>1
        <3>2. Routes(d)
            BY <1>1, <3>1 DEF IInv, RequestOK
        <3>3. todo[d] \in Seq(Work \cup Ending) /\ todo[d] # <<>>
            BY <1>1, <3>2 DEF Routes, Chain, Idle
        <3>4. Len(Tail(todo[d])) = Len(todo[d]) - 1 /\ Len(todo[d]) \in Nat
            BY <3>3
        <3>5. Len(todo[d]) = 1
            <4>1. Len(<<>>) = 0
                OBVIOUS
            <4>2. PICK n : n = Len(todo[d])
                OBVIOUS
            <4>3. 0 = n - 1 /\ n \in Nat
                BY <1>1, <3>4, <4>1, <4>2
            <4>4. n = 1
                BY <4>3
            <4> QED
                BY <4>2, <4>4
        <3> QED
            BY <3>2, <3>5
    <2>2. Rest = todo[d]
        BY <1>1, <2>1 DEF Rest
    <2>3. Rest[1] = Now(d) /\ Rest # <<>>
        BY <1>1, <2>2 DEF Now, Idle
    <2>4. Now(d).op = "sync"
        BY <1>1 DEF Ending
    <2> QED
        BY <1>2, <2>1, <2>2, <2>3, <2>4 DEF Source
<1>5. Rest' = <<>>
    <2>1. lock' = Free /\ Free \notin Devices
        BY <1>1, <1>3, LockIsOne DEF Return
    <2> QED
        BY <2>1 DEF Rest
<1>6. \A op, f : op # "sync" => ~Pending(op, f)
    BY <1>4 DEF Pending
<1>7. /\ Games' = Games /\ draw' = draw
      /\ \A h, k : /\ FeedOf(h, k)' = FeedOf(h, k) /\ Holds(h, k)' = Holds(h, k)
                   /\ Who(h, k)' = Who(h, k)
    BY <1>3, Fixed DEF FeedOf, Holds, Who
<1>8. InHalves(from)'
    BY <1>3, <1>7 DEF Carrying, InHalves
<1>9. RoutingSound(later)' /\ Overtaken'
    BY <1>5 DEF RoutingSound, Overtaken, Undone
<1>10. Sent'
    <2>1. \A k \in 1..2 : FeedOf(g, k) # NoFeed => Holds(g, k) = playedBy[g][Who(g, k)]
        <3>1. \A k \in 1..2 : FeedOf(Source, k) # NoFeed =>
                  Holds(Source, k) = playedBy[Source][Who(Source, k)]
            BY <1>4, <1>6 DEF Carrying, RoutingSound
        <3> QED
            BY <1>4, <3>1
    <2> QED
        BY <1>3, <1>7, <2>1 DEF Carrying, Sent
<1>11. Unsent'
    BY <1>3, <1>6, <1>7 DEF Carrying, Unsent
<1>12. Standing'
    <2>1. \A h : ~Refilling(h)' /\ ~Refilling(h) /\ ~Resets(h)
        BY <1>4, <1>5 DEF Refilling, Resets
    <2> QED
        BY <1>3, <1>7, <2>1 DEF Carrying, Standing
<1> QED
    BY <1>8, <1>9, <1>10, <1>11, <1>12 DEF Carrying

\* Steps that write no slot and no result, and leave what is routed alone, or
\* end it by a failure.
Quiet ==
    /\ UNCHANGED <<event, side, winner, playedBy, routed>>
    /\ \A g \in Games : status'[g] = "completed" <=> status[g] = "completed"
    /\ Undisturbed' => Undisturbed
    /\ Rest' = Rest \/ (Rest' = <<>> /\ ~Undisturbed')

LEMMA QuietCarries ==
    ASSUME IInv, NEW later, NEW from, Carrying(later, from), Quiet
    PROVE  Carrying(later, from)'
<1>1. /\ Games' = Games /\ draw' = draw
      /\ \A h, k : /\ FeedOf(h, k)' = FeedOf(h, k) /\ Holds(h, k)' = Holds(h, k)
                   /\ Who(h, k)' = Who(h, k)
    BY Fixed DEF Quiet, FeedOf, Holds, Who
<1>2. InHalves(from)' /\ Sent'
    BY <1>1 DEF Quiet, Carrying, InHalves, Sent
<1>3. CASE Rest' = <<>> /\ ~Undisturbed'
    BY <1>2, <1>3 DEF Carrying, RoutingSound, Unsent, Standing, Overtaken
<1>4. CASE Rest' = Rest
    <2>1. PICK o : o = Source
        OBVIOUS
    <2>2. /\ Source' = o
          /\ \A k : /\ FeedOf(Source, k)' = FeedOf(o, k) /\ Who(Source, k)' = Who(o, k)
                    /\ Holds(Source, k)' = Holds(o, k)
        <3>1. Source' = o
            BY <1>4, <2>1 DEF Source
        <3>2. \A k : /\ FeedOf(Source, k)' = FeedOf(o, k)' /\ Who(Source, k)' = Who(o, k)'
                     /\ Holds(Source, k)' = Holds(o, k)'
            BY <3>1 DEF FeedOf, Who, Holds
        <3> QED
            BY <1>1, <3>1, <3>2
    <2>3. /\ \A op, f : Pending(op, f)' <=> Pending(op, f)
          /\ \A g : /\ Resets(g)' <=> Resets(g)
                    /\ Refilling(g)' <=> Refilling(g)
                    /\ Undone(g)' <=> Undone(g)
        BY <1>4 DEF Pending, Resets, Refilling, Undone
    <2>4. RoutingSound(later)'
        <3>1. ASSUME Rest # <<>>
              PROVE  /\ status'[o] = "completed" /\ o \notin routed /\ side[o] = playedBy[o]
                     /\ \A i \in 1..(Len(Rest) - 1) : Fits(i, later)'
                     /\ Rest[1].op = "fill" => side[Rest[1].to.to][Rest[1].to.slot] = Nobody
            <4>1. o \in Games
                BY <2>1, <3>1, RestOK
            <4>2. ASSUME NEW i \in 1..(Len(Rest) - 1) PROVE Fits(i, later)'
                <5>1. Fits(i, later)
                    BY <3>1 DEF Carrying, RoutingSound
                <5>2. Rest[i].op \in {"clear", "fill"} =>
                          \E k \in 1..2 : /\ FeedOf(o, k) # NoFeed /\ Rest[i].to = FeedOf(o, k)
                                          /\ Rest[i].from = o /\ Rest[i].slot = Who(o, k)
                    BY <2>1, <5>1 DEF Fits
                <5>3. Rest[i].op \in {"clear", "fill"} =>
                          \E k \in 1..2 : /\ FeedOf(Source, k)' # NoFeed
                                          /\ Rest[i].to = FeedOf(Source, k)'
                                          /\ Rest[i].from = Source' /\ Rest[i].slot = Who(Source, k)'
                    BY <2>2, <5>2
                <5>4. Rest[i].op = "reset" => later[Rest[i].game] > later[Source']
                    BY <2>1, <2>2, <5>1 DEF Fits
                <5>5. Rest[i].op = "wipe" =>
                          \E h \in Games' : \E k \in 1..2 :
                              /\ FeedOf(h, k)' # NoFeed /\ Rest[i].to = FeedOf(h, k)'
                              /\ status'[h] # "completed"
                    BY <1>1, <5>1 DEF Fits, Quiet
                <5> QED
                    BY <1>4, <5>1, <5>3, <5>4, <5>5 DEF Fits
            <4> QED
                BY <2>1, <3>1, <4>1, <4>2 DEF Carrying, RoutingSound, Quiet
        <3>2. ASSUME Rest # <<>>, NEW k \in 1..2, FeedOf(o, k) # NoFeed
              PROVE  \/ Holds(o, k) = playedBy[o][Who(o, k)]
                     \/ Pending("clear", FeedOf(o, k)) \/ Pending("fill", FeedOf(o, k))
            BY <2>1, <3>2 DEF Carrying, RoutingSound
        <3>3. \A op, k : Pending(op, FeedOf(Source, k))' <=> Pending(op, FeedOf(o, k))
            BY <1>4, <2>2 DEF Pending
        <3> QED
            BY <1>4, <2>2, <3>1, <3>2, <3>3 DEF RoutingSound, Quiet
    <2>5. Unsent'
        <3>1. \A op, h, k : Pending(op, FeedOf(h, k))' <=> Pending(op, FeedOf(h, k))
            BY <1>1, <1>4 DEF Pending
        <3> QED
            BY <1>1, <3>1 DEF Carrying, Unsent, Quiet
    <2>6. Standing'
        BY <1>1, <1>4, <2>3 DEF Carrying, Standing, Quiet
    <2>7. Overtaken'
        BY <1>1, <2>3 DEF Carrying, Overtaken, Ready, Quiet
    <2> QED
        BY <1>2, <2>4, <2>5, <2>6, <2>7 DEF Carrying
<1> QED
    BY <1>3, <1>4 DEF Quiet

\* The request of one that does not hold the lock moves, if any.
LEMMA Apart ==
    ASSUME IInv, event' = event, NEW d, lock # d, lock' = lock,
           \A e \in Devices \ {d} : todo'[e] = todo[e]
    PROVE  Rest' = Rest
<1>1. PICK l : l = lock
    OBVIOUS
<1>2. l \in Devices => todo'[l] = todo[l]
    BY <1>1
<1>3. l \in Devices => (Routes(l)' <=> Routes(l))
    BY <1>2, Fixed DEF Routes
<1>4. Rest = IF l \in Devices /\ Routes(l) THEN todo[l] ELSE <<>>
    BY <1>1 DEF Rest, Routes
<1>5. Rest' = IF l \in Devices /\ Routes(l)' THEN todo'[l] ELSE <<>>
    BY <1>1 DEF Rest, Routes
<1> QED
    BY <1>2, <1>3, <1>4, <1>5

LEMMA LeftQuiet ==
    ASSUME IInv, event' = event,
           left' = left \/ \E k \in {"rescores", "marks", "faults"} : Spend(k)
    PROVE  Undisturbed' => Undisturbed
<1>1. CASE left' = left
    BY <1>1 DEF Undisturbed
<1>2. ASSUME NEW k \in {"rescores", "marks"}, Spend(k) PROVE Undisturbed' => Undisturbed
    BY <1>2, SpendOK DEF Undisturbed
<1>3. CASE Spend("faults")
    BY <1>3, DisturbedUndone
<1> QED
    BY <1>1, <1>2, <1>3

\* Requests before their write, starts and marks.
LEMMA RequestsQuiet ==
    ASSUME IInv, NEW d \in Devices, NEW g \in Games,
           \/ Check(d) \/ StartWrite(d) \/ Start(d, g) \/ \E w \in 1..2 : Score(d, g, w)
    PROVE  Quiet
<1>1. lock # d
    <2>1. ~Idle(d) /\ Now(d).op \in {"check", "start"} => lock # d
        BY KindOf
    <2>2. Idle(d) => lock # d
        BY RequestShape DEF IInv
    <2> QED
        BY <2>1, <2>2 DEF Check, StartWrite, Start, Score, At
<1>2. /\ lock' = lock /\ \A e \in Devices \ {d} : todo'[e] = todo[e]
      /\ UNCHANGED <<event, side, winner, playedBy, routed>>
      /\ left' = left \/ \E k \in {"rescores", "marks", "faults"} : Spend(k)
    BY <1>1 DEF Check, StartWrite, Start, Score, Continue, Return, IInv
<1>3. \A h \in Games : status'[h] = "completed" <=> status[h] = "completed"
    <2>1. status' = status
          \/ \E h \in Games : status[h] = "scheduled"
                                /\ status' = [status EXCEPT ![h] = "in_progress"]
        <3>1. StartWrite(d) => Now(d).game \in Games
            BY KindOf DEF StartWrite, At, Started
        <3> QED
            BY <3>1 DEF Check, StartWrite, Start, Score
    <2> QED
        BY <2>1 DEF IInv, DataOK
<1>4. Rest' = Rest /\ (Undisturbed' => Undisturbed)
    BY <1>1, <1>2, Apart, LeftQuiet
<1> QED
    BY <1>2, <1>3, <1>4 DEF Quiet

LEMMA MarksQuiet ==
    ASSUME IInv, NEW g \in Games, UnstartMatch(g) \/ CancelMatch(g) \/ RestoreMatch(g)
    PROVE  Quiet
<1>1. /\ status[g] # "completed"
      /\ \E c \in Statuses \ {"completed"} : status' = [status EXCEPT ![g] = c]
      /\ Spend("marks")
      /\ UNCHANGED <<event, side, winner, over, lock, todo, playedBy, routed>>
    BY DEF UnstartMatch, CancelMatch, RestoreMatch, Mark, Statuses
<1>2. \A h \in Games : status'[h] = "completed" <=> status[h] = "completed"
    BY <1>1 DEF IInv, DataOK
<1>3. Rest' = Rest
    BY <1>1, Fixed DEF Rest, Routes
<1>4. Undisturbed' => Undisturbed
    BY <1>1, LeftQuiet
<1> QED
    BY <1>1, <1>2, <1>3, <1>4 DEF Quiet

\* A step that changes at most how many failures there were.
LEMMA IdleQuiet ==
    ASSUME IInv, UNCHANGED <<event, side, status, winner, lock, todo, playedBy, routed>>,
           UNCHANGED left \/ Spend("faults")
    PROVE  Quiet
<1>1. Rest' = Rest
    BY Fixed DEF Rest, Routes
<1>2. Undisturbed' => Undisturbed
    BY LeftQuiet
<1> QED
    BY <1>1, <1>2 DEF Quiet

LEMMA LockQuiet ==
    ASSUME IInv, NEW d \in Devices, Lock(d)
    PROVE  Quiet
<1>1. UNCHANGED <<event, side, status, winner, left, playedBy, routed>>
    BY DEF Lock
<1>2. Rest = <<>>
    BY LockIsOne DEF Lock, Rest
<1>3. PICK next : next = [Now(d) EXCEPT !.op = "write"]
    OBVIOUS
<1>4. Alone(<<next>>, Writing)
    <2>1. Now(d) \in Asked
        BY KindOf DEF Lock, At
    <2>2. next \in Writing
        BY <1>3, <2>1 DEF Asked, Writing
    <2> QED
        BY <2>2 DEF Alone
<1>5. lock' = d /\ todo'[d] = <<next>>
    BY <1>3 DEF Lock, IInv
<1>6. ~Routes(d)'
    BY <1>1, <1>4, <1>5, WritingOnly, Fixed DEF Routes
<1>7. Rest' = <<>>
    BY <1>5, <1>6 DEF Rest, Routes
<1>8. Undisturbed' => Undisturbed
    BY <1>1 DEF Undisturbed
<1> QED
    BY <1>1, <1>2, <1>7, <1>8 DEF Quiet

LEMMA FailQuiet ==
    ASSUME IInv, NEW d \in Devices, Fail(d)
    PROVE  Quiet
<1>1. /\ UNCHANGED <<event, side, status, winner, playedBy, routed>>
      /\ lock' = Free /\ Spend("faults")
    BY DEF Fail, Return
<1>2. Rest' = <<>>
    BY <1>1, LockIsOne DEF Rest
<1>3. ~Undisturbed'
    BY <1>1, DisturbedUndone
<1> QED
    BY <1>1, <1>2, <1>3 DEF Quiet

-----------------------------------------------------------------------------
(* The invariant of such a draw.                                           *)

Carried == \E later, from : OneWay(draw, later, from) /\ Carrying(later, from)

LEMMA InitCarried ==
    ASSUME LeadsOneWay, Init
    PROVE  Carried
<1>1. PICK later, from : OneWay(draw, later, from)
    BY DEF LeadsOneWay
<1>2. /\ Rest = <<>> /\ side = draw.opens /\ playedBy = side /\ routed = draw.byes
      /\ event \in Tournaments
    BY TournamentsAssumption DEF Init, Rest
<1>3. InHalves(from)
    BY <1>1, <1>2 DEF OneWay, InHalves, Games
<1>4. RoutingSound(later) /\ Overtaken /\ Sent
    BY <1>2 DEF RoutingSound, Overtaken, Undone, Sent
<1>5. Unsent
    BY <1>1, <1>2, WayOK DEF Unsent, Holds
<1>6. Standing
    BY <1>2 DEF Standing, Refilling
<1> QED
    BY <1>1, <1>3, <1>4, <1>5, <1>6 DEF Carrying, Carried

\* The statements about a deciding game are never due.
LEMMA NoDeciding ==
    ASSUME IInv, NEW later, NEW from, OneWay(draw, later, from), NEW d \in Devices
    PROVE  ~(Decide(d) \/ Strip(d) \/ Drop(d) \/ Make(d) \/ Compare(d) \/ Copy(d))
<1>1. ASSUME ~Idle(d), Now(d).op \in DecidingOps PROVE FALSE
    <2>1. Now(d) \in Work
        BY <1>1, KindOf DEF DecidingOps
    <2>2. Now(d).op \in {"clear", "fill", "reset", "wipe"}
        BY <2>1, WorkIs
    <2> QED
        BY <1>1, <2>2 DEF DecidingOps
<1> QED
    BY <1>1 DEF Decide, Strip, Drop, Make, Compare, Copy, At, DecidingOps

LEMMA QuietCarried ==
    ASSUME IInv, Carried, Quiet
    PROVE  Carried'
<1>1. PICK later, from : OneWay(draw, later, from) /\ Carrying(later, from)
    BY DEF Carried
<1>2. Carrying(later, from)' /\ draw' = draw
    BY <1>1, QuietCarries, Fixed DEF Quiet
<1> QED
    BY <1>1, <1>2 DEF Carried

LEMMA StepCarried ==
    ASSUME IInv, Carried, NEW d \in Devices, Step(d)
    PROVE  Carried'
<1>1. PICK later, from : OneWay(draw, later, from) /\ Carrying(later, from)
    BY DEF Carried
<1>2. PICK g : g \in Games
    BY TournamentsAssumption DEF IInv, Games, draw
<1>3. CASE Check(d) \/ Lock(d) \/ StartWrite(d) \/ Fail(d)
    BY <1>2, <1>3, RequestsQuiet, LockQuiet, FailQuiet, QuietCarried
<1>4. CASE \/ Write(d) \/ Clear(d) \/ Fill(d) \/ Reset(d) \/ Wipe(d)
           \/ Sync(d) \/ FailSync(d)
    <2>1. Carrying(later, from)'
        BY <1>1, <1>4, WriteCarries, ClearCarries, FillCarries, ResetCarries, WipeCarries,
           SyncCarries
    <2>2. draw' = draw
        BY <1>4, Fixed DEF Write, Clear, Fill, Reset, Wipe, Sync, FailSync
    <2> QED
        BY <1>1, <2>1, <2>2 DEF Carried
<1> QED
    BY <1>1, <1>3, <1>4, NoDeciding DEF Step

LEMMA NextCarried ==
    ASSUME IInv, Carried, [Next]_vars
    PROVE  Carried'
<1>1. CASE UNCHANGED vars
    BY <1>1, IdleQuiet, QuietCarried DEF vars
<1>2. ASSUME NEW d \in Devices, NEW g \in Games, Start(d, g) \/ \E w \in 1..2 : Score(d, g, w)
      PROVE  Carried'
    BY <1>2, RequestsQuiet, QuietCarried
<1>3. ASSUME NEW g \in Games, UnstartMatch(g) \/ CancelMatch(g) \/ RestoreMatch(g)
      PROVE  Carried'
    BY <1>3, MarksQuiet, QuietCarried
<1> QED
    BY <1>1, <1>2, <1>3, StepCarried DEF Next

LEMMA InvCarried ==
    ASSUME IInv, Carried
    PROVE  ResultsCarried /\ PlayedByThoseInIt
<1> SUFFICES ASSUME AtRest PROVE ResultsCarried /\ PlayedByThoseInIt
    BY DEF ResultsCarried, PlayedByThoseInIt
<1>1. Rest = <<>>
    <2>1. ASSUME NEW d \in Devices PROVE ~Routes(d)
        <3>1. Routes(d) => ~Idle(d) /\ Now(d) \in Work \cup Ending
            BY ChainHead DEF Routes, Idle, Now
        <3>2. \A x \in Work \cup Ending : x.op \notin {"check", "lock", "write", "start"}
            BY DEF Work, Deciding, Ending
        <3> QED
            BY <3>1, <3>2 DEF AtRest
    <2> QED
        BY <2>1 DEF Rest
<1>2. Sent /\ Unsent /\ Standing
    BY DEF Carried, Carrying
<1>3. ResultsCarried
    <2>1. \A g \in Games \ draw.byes : \A k \in 1..2 : FeedOf(g, k) # NoFeed =>
              /\ status[g] = "completed" /\ g \in routed => Holds(g, k) = playedBy[g][Who(g, k)]
              /\ status[g] # "completed" /\ Undisturbed => Holds(g, k) = Nobody
        BY <1>1, <1>2 DEF Sent, Unsent, Pending
    <2>2. \A g : /\ FeedOf(g, 1) = WinsTo(g) /\ Who(g, 1) = winner[g]
                 /\ FeedOf(g, 2) = LosesTo(g) /\ Who(g, 2) = 3 - winner[g]
        BY DEF FeedOf, Way, WinsTo, LosesTo, Who
    <2>3. ASSUME NEW g \in Games \ draw.byes,
                 NEW out \in {<<WinsTo(g), winner[g]>>, <<LosesTo(g), 3 - winner[g]>>}
          PROVE  \E k \in 1..2 : out[1] = FeedOf(g, k) /\ out[2] = Who(g, k)
        BY <2>2
    <2> QED
        BY <2>1, <2>3 DEF ResultsCarried, Went, Holds
<1>4. PlayedByThoseInIt
    BY <1>1, <1>2 DEF PlayedByThoseInIt, Standing, Refilling, Resets
<1> QED
    BY <1>3, <1>4

\* What a step takes a result away for.
Stands ==
    \A g \in Games \ {ResetGame} :
        status[g] = "completed" /\ status'[g] # "completed" /\ Undisturbed
            => side[g] # playedBy[g] \/ ~Ready(g)

LEMMA QuietStands ==
    ASSUME Quiet
    PROVE  Stands
BY DEF Quiet, Stands

LEMMA StepStands ==
    ASSUME IInv, Carried, NEW d \in Devices, Step(d)
    PROVE  Stands
<1>1. PICK later, from : OneWay(draw, later, from) /\ Carrying(later, from)
    BY DEF Carried
<1>2. CASE Check(d) \/ Lock(d) \/ StartWrite(d) \/ Fail(d)
    <2>1. PICK g : g \in Games
        BY TournamentsAssumption DEF IInv, Games, draw
    <2> QED
        BY <1>2, <2>1, RequestsQuiet, LockQuiet, FailQuiet, QuietStands
<1>3. CASE Clear(d) \/ Fill(d) \/ Wipe(d) \/ Sync(d) \/ FailSync(d)
    BY <1>3 DEF Clear, Fill, Wipe, Sync, FailSync, Stands
<1>4. CASE Write(d)
    BY <1>4 DEF Write, Stands, IInv, DataOK
<1>5. CASE Reset(d)
    <2>1. lock = d /\ Routes(d) /\ Rest = todo[d]
        BY <1>5, KindOf DEF Reset, At, Rest
    <2>2. ASSUME NEW g \in Games, status[g] = "completed", status'[g] # "completed", Undisturbed
          PROVE  side[g] # playedBy[g] \/ ~Ready(g)
        <3>1. Now(d).op = "reset" /\ Now(d).game = g
            BY <1>5, <2>2 DEF Reset, At, IInv, DataOK
        <3>2. Rest # <<>> /\ Rest[1] = Now(d)
            BY <1>5, <2>1 DEF Reset, At, Idle, Now
        <3>3. Undone(g)
            BY <3>1, <3>2 DEF Undone
        <3> QED
            BY <1>1, <2>2, <3>3 DEF Carrying, Overtaken
    <2> QED
        BY <2>2 DEF Stands
<1> QED
    BY <1>1, <1>2, <1>3, <1>4, <1>5, NoDeciding DEF Step

LEMMA NextStands ==
    ASSUME IInv, Carried, [Next]_vars
    PROVE  Stands
<1>1. CASE UNCHANGED vars
    BY <1>1 DEF vars, Stands
<1>2. ASSUME NEW d \in Devices, NEW g \in Games, Start(d, g) \/ \E w \in 1..2 : Score(d, g, w)
      PROVE  Stands
    BY <1>2, RequestsQuiet, QuietStands
<1>3. ASSUME NEW g \in Games, UnstartMatch(g) \/ CancelMatch(g) \/ RestoreMatch(g)
      PROVE  Stands
    BY <1>3, MarksQuiet, QuietStands
<1> QED
    BY <1>1, <1>2, <1>3, StepStands DEF Next

\* In a draw that leads one way, what is carried on and undone is accounted for
\* between any two statements: the part of a routing that is left to execute
\* makes up for every slot that is not right yet (advanceTeam,
\* resetCompletedDownstream).
THEOREM CarriedInvariant == Spec /\ LeadsOneWay => [](IInv /\ Carried)
<1>1. Init /\ LeadsOneWay => IInv /\ Carried
    BY InitOK, InitCarried
<1>2. IInv /\ Carried /\ [Next]_vars => (IInv /\ Carried)'
    BY NextOK, NextCarried
<1> QED
    BY <1>1, <1>2, PTL DEF Spec

\* Whoever scores, corrects and forfeits at once, the next games end up with the
\* winners and losers of the games that feed them, and empty where a feeder has
\* no result any more (advanceTeam, resetCompletedDownstream).
THEOREM ResultsCarriedHolds == Spec /\ LeadsOneWay => []ResultsCarried
<1>1. IInv /\ Carried => ResultsCarried
    BY InvCarried
<1> QED
    BY <1>1, CarriedInvariant, PTL

\* A result is that of the sides in its game: what was played with others is
\* undone, however deep the correction's cascade (service.go:13887).
THEOREM PlayedByThoseInItHolds == Spec /\ LeadsOneWay => []PlayedByThoseInIt
<1>1. IInv /\ Carried => PlayedByThoseInIt
    BY InvCarried
<1> QED
    BY <1>1, CarriedInvariant, PTL

\* And no result is undone whose sides are still those in its game
\* (service.go:13889).
THEOREM ResultsStandHolds == Spec /\ LeadsOneWay => ResultsStand
<1>1. IInv /\ Carried /\ [Next]_vars => [Stands]_vars
    BY NextStands
<1> QED
    BY <1>1, CarriedInvariant, PTL DEF Spec, ResultsStand, Stands

-----------------------------------------------------------------------------
(* Players who report the scores themselves.                               *)

-----------------------------------------------------------------------------
(* The invariant.                                                          *)

Reports == [status : {"none", "pending", "confirmed", "disputed", "superseded"},
            won : 0..2, story : {"open", "counted", "lost"}]
Errands == {AtHand} \cup
           [op : {"insert", "record", "failed", "reopen"}, game : Games, won : 1..2]

\* Rows and errands are about games that exist: they go with their game.
ReportsTyped ==
    /\ report \in [Games -> Reports]
    /\ errand \in [Devices -> Errands]
    /\ closing \in [Devices -> SUBSET Games]
    /\ \A g \in Games : report[g] # Untold =>
           report[g].status # "none" /\ report[g].won \in 1..2 /\ status[g] # "absent"
    /\ \A d \in Devices : errand[d] # AtHand => status[errand[d].game] # "absent"

Records(d) == errand[d].op \in {"record", "failed", "reopen"}

\* Whoever records a report has claimed it, and nobody else has.
Claimed ==
    \A d \in Devices : Records(d) =>
        /\ report[errand[d].game].status = "confirmed"
        /\ \A e \in Devices : Records(e) /\ errand[e].game = errand[d].game => e = d

\* A result that comes in is the one the confirmation waits for.
ResultCounts ==
    \A g \in Games : report[g].status = "confirmed" /\ status[g] = "completed"
                        => report[g].story # "open"

\* A recording that has not written is on its way to its write.
UnderWay(d) == ~Idle(d) /\ Now(d).op \in {"check", "lock", "write"}
                        /\ Now(d).game = errand[d].game
Recorded ==
    \A d \in Devices : errand[d].op = "record" =>
        report[errand[d].game].story # "open" \/ UnderWay(d)

\* A confirmation without a result is being recorded.
Awaited ==
    \A g \in Games : report[g].status = "confirmed" /\ report[g].story = "open"
        => \E d \in Devices : Records(d) /\ errand[d].game = g

\* The inductive invariant, beside that of BracketPlay.
ReportsInv == ReportsTyped /\ Claimed /\ ResultCounts /\ Recorded /\ Awaited

-----------------------------------------------------------------------------
(* What a statement does to the games and to the requests.                 *)

\* A result that is written leaves its request with something to do.
LEMMA WriteGoesOn ==
    ASSUME IInv, NEW d \in Devices, Write(d), status[Now(d).game] # "absent"
    PROVE  todo'[d] # <<>>
<1> DEFINE more == Routing(Now(d).game, Now(d).won)
           end  == [op |-> "sync", game |-> Now(d).game]
<1>1. Now(d) \in Writing /\ Alone(todo[d], Writing)
    BY KindOf DEF Write, At
<1>2. more \in Seq(Work) /\ end \in Ending
    BY <1>1, RoutingOK DEF Writing, Ending
<1>3. todo'[d] = (more \o <<end>>) \o Tail(todo[d])
    BY DEF Write, Continue, IInv
<1> HIDE DEF more, end
<1>4. more \o <<end>> \in Seq(Work \cup Ending) /\ more \o <<end>> # <<>>
    BY <1>2, ChainEnd DEF Chain
<1>5. Tail(todo[d]) = <<>>
    <2>1. Tail(todo[d]) \in Seq(Writing) /\ Len(Tail(todo[d])) = 0
        BY <1>1, AloneSome, HeadTailProperties DEF Alone
    <2> QED
        BY <2>1, EmptySeq
<1> QED
    BY <1>3, <1>4, <1>5, ConcatEmptySeq

\* A request before its write goes on towards it or returns.
OnItsWay(d) ==
    Now(d).op \in {"check", "lock"} =>
        \/ todo'[d] = <<>>
        \/ Head(todo'[d]).op \in {"lock", "write"} /\ Head(todo'[d]).game = Now(d).game

LEMMA BeforeWrite ==
    ASSUME IInv, NEW d \in Devices, Step(d)
    PROVE  ~Idle(d) /\ OnItsWay(d)
<1>1. CASE Check(d)
    <2>1. Now(d) \in Asked /\ Alone(todo[d], Asked \cup Started)
        BY <1>1, Kinds, KindOf DEF Check, At
    <2>2. Tail(todo[d]) = <<>>
        <3>1. Tail(todo[d]) \in Seq(Asked \cup Started) /\ Len(Tail(todo[d])) = 0
            BY <2>1, AloneSome, HeadTailProperties DEF Alone
        <3> QED
            BY <3>1, EmptySeq
    <2> DEFINE next == [Now(d) EXCEPT !.op = "lock"]
    <2>3. next.op = "lock" /\ next.game = Now(d).game
        BY <2>1 DEF Asked
    <2>4. todo'[d] = <<>> \/ todo'[d] = <<next>> \o <<>>
        BY <1>1, <2>2 DEF Check, Continue, Return, IInv
    <2> HIDE DEF next
    <2>5. <<next>> \o <<>> = <<next>> /\ Head(<<next>>) = next
        OBVIOUS
    <2> QED
        BY <1>1, <2>3, <2>4, <2>5 DEF OnItsWay, Check, At
<1>2. CASE Lock(d)
    <2> DEFINE next == [Now(d) EXCEPT !.op = "write"]
    <2>1. next.op = "write" /\ next.game = Now(d).game
        BY <1>2, KindOf DEF Lock, At, Asked
    <2>2. todo'[d] = <<next>>
        BY <1>2 DEF Lock, IInv
    <2> HIDE DEF next
    <2>3. Head(<<next>>) = next
        OBVIOUS
    <2> QED
        BY <1>2, <2>1, <2>2, <2>3 DEF OnItsWay, Lock, At
<1>3. CASE Fail(d)
    <2>1. ~Idle(d)
        BY <1>3, RequestShape DEF IInv, Fail
    <2> QED
        BY <1>3, <2>1, KindOf DEF OnItsWay, Fail
<1>4. CASE ~Check(d) /\ ~Lock(d) /\ ~Fail(d)
    BY <1>4 DEF OnItsWay, Step, At, Write, Clear, Fill, Reset, Wipe, Decide, Strip, Drop, Make,
                Compare, Copy, Sync, StartWrite, FailSync
<1> QED
    BY <1>1, <1>2, <1>3, <1>4

\* The others' requests stay, or are lost with the row they are about.
LEMMA OthersStay ==
    ASSUME IInv, NEW d \in Devices, Step(d), NEW e \in Devices \ {d}
    PROVE  todo'[e] = todo[e] \/ todo'[e] = <<>>
<1>1. CASE Drop(d)
    BY <1>1 DEF Drop
<1>2. CASE ~Drop(d)
    <2>1. \E s : todo' = [todo EXCEPT ![d] = s]
        BY <1>2 DEF Step, Check, Lock, Write, Clear, Fill, Reset, Wipe, Decide, Strip, Make,
                    Compare, Copy, Sync, StartWrite, Fail, FailSync, Continue, Return
    <2> QED
        BY <2>1 DEF IInv
<1> QED
    BY <1>1, <1>2

\* Only a write completes a game.
LEMMA OnlyWritesComplete ==
    ASSUME IInv, NEW d \in Devices, Step(d), NEW g \in Games,
           status'[g] = "completed", status[g] # "completed"
    PROVE  Wrote(d) /\ Now(d).game = g
<1>1. CASE Write(d)
    <2>1. status[Now(d).game] # "absent" /\ status' = [status EXCEPT ![Now(d).game] = "completed"]
        BY <1>1 DEF Write
    <2>2. Now(d).game = g
        BY <2>1 DEF IInv, DataOK
    <2> QED
        BY <1>1, <2>1, <2>2, WriteGoesOn DEF Wrote, Write
<1>2. CASE ~Write(d)
    <2>1. \/ status' = status
          \/ Reset(d) /\ status' = [status EXCEPT ![Now(d).game] = "scheduled"]
          \/ Drop(d) /\ status' = [status EXCEPT ![ResetGame] = "absent"]
          \/ Make(d) /\ status' = [status EXCEPT ![ResetGame] = "scheduled"]
          \/ StartWrite(d) /\ status' = [status EXCEPT ![Now(d).game] = "in_progress"]
        BY <1>2 DEF Step, Check, Lock, Clear, Fill, Reset, Wipe, Decide, Strip, Drop, Make,
                    Compare, Copy, Sync, StartWrite, Fail, FailSync
    <2> QED
        BY <2>1 DEF IInv, DataOK
<1> QED
    BY <1>1, <1>2

-----------------------------------------------------------------------------
(* Every step keeps the invariant of BracketPlay: it is one of its steps,    *)
(* leaves its state alone, or is a failure.                                  *)

LEMMA FaultOK ==
    ASSUME IInv, UNCHANGED <<event, side, status, winner, over, lock, todo, playedBy, routed>>,
           UNCHANGED left \/ Spend("faults")
    PROVE  IInv'
<1>1. CASE UNCHANGED left
    <2>1. UNCHANGED vars
        BY <1>1 DEF vars
    <2> QED
        BY <2>1, NextOK
<1>2. CASE Spend("faults")
    <2>1. /\ Reconciled' /\ left' \in [{"rescores", "marks", "faults"} -> Nat]
          /\ left'["faults"] <= event.faults
        BY <1>2, DisturbedReconciled
    <2>2. DataOK'
        BY <2>1, Fixed DEF IInv, DataOK
    <2>3. \A e \in Devices : RequestOK(e)'
        BY OthersOK DEF IInv
    <2> QED
        BY <2>1, <2>2, <2>3 DEF IInv
<1> QED
    BY <1>1, <1>2

\* Next to the reports, the scoring takes its own steps or rests; what is done
\* about a report may fail.
ScoringRests ==
    /\ UNCHANGED <<event, side, status, winner, over, lock, todo, playedBy, routed>>
    /\ UNCHANGED left \/ Spend("faults")

LEMMA ScoringStep ==
    ASSUME IInv, ReportsTyped, [NextReports]_allVars
    PROVE  [Next]_vars \/ ScoringRests
<1>1. CASE Requested
    BY <1>1 DEF Requested, Next
<1>2. ASSUME NEW d \in Devices, Statements(d)
      PROVE  [Next]_vars
    BY <1>2 DEF Statements, Next
<1>3. ASSUME NEW d \in Devices, Supersede(d) \/ AfterFailure(d) \/ Reopen(d)
      PROVE  ScoringRests
    BY <1>3 DEF Supersede, AfterFailure, Reopen, ScoringRests
<1>4. ASSUME NEW d \in Devices, NEW g \in Games, Claim(d, g)
      PROVE  [Next]_vars
    <2>1. report[g] # Untold
        BY <1>4 DEF Claim, Untold
    <2>2. report[g].won \in 1..2 /\ Score(d, g, report[g].won)
        BY <1>4, <2>1 DEF Claim, Score, AtLeisure, ReportsTyped
    <2> QED
        BY <2>2 DEF Next
<1> QED
    BY <1>1, <1>2, <1>3, <1>4
    DEF NextReports, allVars, ReportInsert, ReportRead, DisputeScore

LEMMA ScoringKept ==
    ASSUME IInv, ReportsTyped, [NextReports]_allVars
    PROVE  IInv'
BY ScoringStep, NextOK, FaultOK DEF ScoringRests

\* So what is carried on is, and no more is undone.
LEMMA ScoringCarried ==
    ASSUME IInv, ReportsTyped, Carried, [NextReports]_allVars
    PROVE  Carried' /\ Stands
<1>1. CASE [Next]_vars
    BY <1>1, NextCarried, NextStands
<1>2. CASE ScoringRests
    <2>1. Quiet
        BY <1>2, IdleQuiet DEF ScoringRests
    <2> QED
        BY <2>1, QuietCarried, QuietStands
<1> QED
    BY <1>1, <1>2, ScoringStep

-----------------------------------------------------------------------------
(* What the steps do to the reports.                                         *)

\* Nothing but the games' marks and the requests of devices at hand.
LEMMA RequestedOK ==
    ASSUME IInv, ReportsInv, Requested
    PROVE  ReportsInv'
<1>1. UNCHANGED <<event, report, errand, closing>>
    BY DEF Requested, reportVars, Start, Score, UnstartMatch, CancelMatch, RestoreMatch, Mark
<1>2. Games' = Games /\ Untold' = Untold /\ AtHand' = AtHand
    BY <1>1, Fixed DEF Untold, AtHand
<1>3. \A g \in Games : /\ status'[g] = "completed" <=> status[g] = "completed"
                       /\ status'[g] = "absent" <=> status[g] = "absent"
    <2>1. \/ status' = status
          \/ \E g \in Games : UnstartMatch(g) \/ CancelMatch(g) \/ RestoreMatch(g)
        BY DEF Requested, Start, Score
    <2> QED
        BY <2>1 DEF UnstartMatch, CancelMatch, RestoreMatch, Mark, IInv, DataOK
<1>4. \A d \in Devices : errand[d] # AtHand => todo'[d] = todo[d]
    BY DEF Requested, Start, Score, UnstartMatch, CancelMatch, RestoreMatch, Mark, IInv
<1>5. ReportsTyped'
    BY <1>1, <1>2, <1>3 DEF ReportsInv, ReportsTyped, Reports, Errands
<1>6. Claimed'
    BY <1>1 DEF ReportsInv, Claimed, Records
<1>7. ResultCounts'
    BY <1>1, <1>2, <1>3 DEF ReportsInv, ResultCounts
<1>8. Recorded'
    BY <1>1, <1>4 DEF ReportsInv, Recorded, UnderWay, Idle, Now, AtHand
<1>9. Awaited'
    BY <1>1, <1>2 DEF ReportsInv, Awaited, Records
<1> QED
    BY <1>5, <1>6, <1>7, <1>8, <1>9 DEF ReportsInv

\* What changes nothing but the reports and the errands: the games, the
\* requests and the event are as they were.
LEMMA PapersOnly ==
    ASSUME IInv, ReportsInv, UNCHANGED <<event, status, todo>>, ReportsTyped', Claimed',
           ResultCounts', Awaited',
           \A d \in Devices : errand'[d].op = "record" =>
               \/ errand'[d] = errand[d] /\ report'[errand[d].game].story = report[errand[d].game].story
               \/ UnderWay(d)'
    PROVE  ReportsInv'
<1>1. Recorded'
    BY DEF ReportsInv, Recorded, UnderWay, Idle, Now
<1> QED
    BY <1>1 DEF ReportsInv

LEMMA ReadOK ==
    ASSUME IInv, ReportsInv, NEW d \in Devices, NEW g \in Games, NEW w \in 1..2,
           ReportRead(d, g, w)
    PROVE  ReportsInv'
<1> DEFINE to == [op |-> "insert", game |-> g, won |-> w]
<1>1. /\ UNCHANGED <<event, side, status, winner, over, lock, todo, left, playedBy, routed>>
      /\ UNCHANGED <<report, closing>>
      /\ errand[d] = AtHand /\ status[g] # "absent"
      /\ errand' = [errand EXCEPT ![d] = to]
    BY DEF ReportRead, AtLeisure, vars
<1>2. /\ errand'[d] = to /\ \A e \in Devices \ {d} : errand'[e] = errand[e]
      /\ errand' \in [Devices -> Errands]
    BY <1>1 DEF ReportsInv, ReportsTyped, Errands
<1>3. Games' = Games /\ Errands' = Errands
    BY <1>1, Fixed DEF Errands, AtHand
<1>4. ReportsTyped'
    BY <1>1, <1>2, <1>3 DEF ReportsInv, ReportsTyped, AtHand, Reports
<1>5. \A e \in Devices : Records(e)' <=> Records(e) /\ errand'[e] = errand[e]
    BY <1>1, <1>2 DEF Records, AtHand
<1>6. Claimed'
    BY <1>1, <1>5 DEF ReportsInv, Claimed, Records
<1>7. ResultCounts'
    BY <1>1, <1>3 DEF ReportsInv, ResultCounts
<1>8. Awaited'
    <2>1. \A e \in Devices : Records(e) => errand'[e] = errand[e] /\ Records(e)'
        BY <1>1, <1>2 DEF Records, AtHand
    <2> QED
        BY <1>1, <1>3, <2>1 DEF ReportsInv, Awaited
<1>9. \A e \in Devices : errand'[e].op = "record" => errand'[e] = errand[e]
    BY <1>2
<1> QED
    BY <1>1, <1>4, <1>6, <1>7, <1>9, <1>8, PapersOnly

\* A report that changes its row without being, or becoming, confirmed.
LEMMA RowOK ==
    ASSUME IInv, ReportsInv, NEW g \in Games, NEW r \in Reports,
           UNCHANGED <<event, status, todo>>, closing' \in [Devices -> SUBSET Games],
           report' = [report EXCEPT ![g] = r], r # report[g] => report[g].status # "confirmed",
           r # report[g] => r.status \notin {"none", "confirmed"} /\ r.won \in 1..2,
           status[g] # "absent",
           errand' \in [Devices -> Errands],
           \A e \in Devices : errand'[e] = errand[e] \/ (errand'[e] = AtHand /\ ~Records(e))
    PROVE  ReportsInv'
<1>1. Games' = Games /\ Errands' = Errands /\ Reports' = Reports
    BY Fixed DEF Errands, AtHand, Reports
<1>2. /\ report' \in [Games -> Reports] /\ report'[g] = r
      /\ \A h \in Games \ {g} : report'[h] = report[h]
    BY DEF ReportsInv, ReportsTyped
<1>3. ReportsTyped'
    BY <1>1, <1>2 DEF ReportsInv, ReportsTyped, AtHand, Untold
<1>4. \A h \in Games : report'[h] # report[h] =>
          report'[h].status # "confirmed" /\ report[h].status # "confirmed"
    BY <1>2
<1>5. \A e \in Devices : /\ Records(e) => errand'[e] = errand[e] /\ Records(e)'
                         /\ Records(e)' => errand'[e] = errand[e] /\ Records(e)
                         /\ Records(e) => errand[e].game \in Games
    BY DEF Records, AtHand, ReportsInv, ReportsTyped, Errands
<1>6. Claimed'
    BY <1>4, <1>5 DEF ReportsInv, Claimed
<1>7. ResultCounts'
    BY <1>1, <1>4 DEF ReportsInv, ResultCounts
<1>8. Awaited'
    BY <1>1, <1>4, <1>5 DEF ReportsInv, Awaited
<1>9. \A e \in Devices : errand'[e].op = "record" =>
          errand'[e] = errand[e] /\ report'[errand[e].game].story = report[errand[e].game].story
    BY <1>4, <1>5 DEF ReportsInv, Claimed, Records
<1> QED
    BY <1>3, <1>6, <1>7, <1>8, <1>9, PapersOnly

LEMMA InsertOK ==
    ASSUME IInv, ReportsInv, NEW d \in Devices, ReportInsert(d)
    PROVE  ReportsInv'
<1> DEFINE g == errand[d].game
           r == IF report[g] = Untold
                THEN [status |-> "pending", won |-> errand[d].won, story |-> "open"]
                ELSE report[g]
<1>1. /\ UNCHANGED <<event, side, status, winner, over, lock, todo, left, playedBy, routed>>
      /\ UNCHANGED closing /\ errand' = [errand EXCEPT ![d] = AtHand]
    BY DEF ReportInsert, vars
<1>2. errand[d].op = "insert" /\ errand[d] # AtHand /\ ~Records(d)
    BY DEF ReportInsert, AtHand, Records
<1>3. g \in Games /\ errand[d].won \in 1..2 /\ status[g] # "absent"
    BY <1>2 DEF ReportsInv, ReportsTyped, Errands
<1>4. report' = [report EXCEPT ![g] = r]
    BY <1>3 DEF ReportInsert, ReportsInv, ReportsTyped
<1>5. r \in Reports
    <2>1. report[g] \in Reports
        BY <1>3 DEF ReportsInv, ReportsTyped
    <2>2. [status |-> "pending", won |-> errand[d].won, story |-> "open"] \in Reports
        BY <1>3 DEF Reports
    <2> QED
        BY <2>1, <2>2
<1>6. /\ r # report[g] => report[g].status # "confirmed"
      /\ r # report[g] => r.status \notin {"none", "confirmed"} /\ r.won \in 1..2
    BY <1>3 DEF Untold
<1>7. errand' \in [Devices -> Errands]
      /\ \A e \in Devices : errand'[e] = errand[e] \/ (errand'[e] = AtHand /\ ~Records(e))
    <2>1. errand \in [Devices -> Errands] /\ AtHand \in Errands
        BY DEF ReportsInv, ReportsTyped, Errands
    <2>2. errand' \in [Devices -> Errands]
        BY <1>1, <2>1
    <2>3. \A e \in Devices : e # d => errand'[e] = errand[e]
        BY <1>1, <2>1
    <2>4. errand'[d] = AtHand
        BY <1>1, <2>1
    <2> QED
        BY <1>2, <2>2, <2>3, <2>4
<1>8. closing' \in [Devices -> SUBSET Games]
    BY <1>1 DEF ReportsInv, ReportsTyped
<1> HIDE DEF r, g
<1> QED
    BY <1>1, <1>3, <1>4, <1>5, <1>6, <1>7, <1>8, RowOK

LEMMA DisputeOK ==
    ASSUME IInv, ReportsInv, NEW g \in Games, DisputeScore(g)
    PROVE  ReportsInv'
<1> DEFINE r == [report[g] EXCEPT !.status = "disputed"]
<1>1. /\ UNCHANGED <<event, side, status, winner, over, lock, todo, left, playedBy, routed>>
      /\ UNCHANGED <<errand, closing>> /\ report[g].status = "pending"
    BY DEF DisputeScore, vars
<1>2. report' = [report EXCEPT ![g] = r]
    BY DEF DisputeScore
<1>3. r \in Reports /\ r.status = "disputed" /\ r.won \in 1..2 /\ status[g] # "absent"
    BY <1>1 DEF ReportsInv, ReportsTyped, Reports, Untold
<1>4. errand' \in [Devices -> Errands] /\ closing' \in [Devices -> SUBSET Games]
    BY <1>1 DEF ReportsInv, ReportsTyped
<1> HIDE DEF r
<1>5. /\ r # report[g] => report[g].status # "confirmed"
      /\ r # report[g] => r.status \notin {"none", "confirmed"} /\ r.won \in 1..2
      /\ \A e \in Devices : errand'[e] = errand[e] \/ (errand'[e] = AtHand /\ ~Records(e))
    BY <1>1, <1>3
<1> QED
    BY <1>1, <1>2, <1>3, <1>4, <1>5, RowOK

LEMMA SupersedeOK ==
    ASSUME IInv, ReportsInv, NEW d \in Devices, Supersede(d)
    PROVE  ReportsInv'
<1>1. /\ UNCHANGED <<event, status, todo, errand>>
      /\ closing' \in [Devices -> SUBSET Games] /\ errand' \in [Devices -> Errands]
    BY DEF Supersede, ReportsInv, ReportsTyped
<1>2. PICK g \in closing[d] :
          \/ report' = [report EXCEPT ![g].status =
                            IF @ \in {"pending", "disputed"} THEN "superseded" ELSE @]
          \/ UNCHANGED report
    BY DEF Supersede
<1>3. g \in Games
    BY DEF ReportsInv, ReportsTyped
<1>4. CASE UNCHANGED report \/ report[g].status \notin {"pending", "disputed"}
    <2>1. UNCHANGED report
        BY <1>2, <1>3, <1>4 DEF ReportsInv, ReportsTyped, Reports
    <2>2. ReportsTyped'
        <3>1. Games' = Games /\ Errands' = Errands /\ Reports' = Reports
            BY <1>1, Fixed DEF Errands, AtHand, Reports
        <3> QED
            BY <1>1, <2>1, <3>1 DEF ReportsInv, ReportsTyped, Untold, AtHand
    <2>3. Claimed' /\ ResultCounts' /\ Awaited'
        BY <1>1, <2>1, Fixed DEF ReportsInv, Claimed, ResultCounts, Awaited, Records
    <2> QED
        BY <1>1, <2>1, <2>2, <2>3, PapersOnly
<1>5. CASE ~UNCHANGED report /\ report[g].status \in {"pending", "disputed"}
    <2> DEFINE r == [report[g] EXCEPT !.status = "superseded"]
    <2>1. report' = [report EXCEPT ![g] = r]
        BY <1>2, <1>5
    <2>2. r \in Reports /\ r.status = "superseded" /\ r.won \in 1..2 /\ status[g] # "absent"
        BY <1>3, <1>5 DEF ReportsInv, ReportsTyped, Reports, Untold
    <2> HIDE DEF r
    <2>3. /\ r # report[g] => report[g].status # "confirmed"
          /\ r # report[g] => r.status \notin {"none", "confirmed"} /\ r.won \in 1..2
          /\ \A e \in Devices : errand'[e] = errand[e] \/ (errand'[e] = AtHand /\ ~Records(e))
        BY <1>1, <1>5, <2>2
    <2> QED
        BY <1>1, <1>3, <2>1, <2>2, <2>3, RowOK
<1> QED
    BY <1>4, <1>5

LEMMA ClaimOK ==
    ASSUME IInv, ReportsInv, NEW d \in Devices, NEW g \in Games, Claim(d, g)
    PROVE  ReportsInv'
<1> DEFINE r  == [status |-> "confirmed", won |-> report[g].won,
                  story |-> IF status[g] = "completed" THEN "counted" ELSE "open"]
           to == [op |-> "record", game |-> g, won |-> report[g].won]
           asked == [op |-> "check", game |-> g, won |-> report[g].won]
<1>1. /\ UNCHANGED <<event, status, closing>>
      /\ errand[d] = AtHand /\ report[g].status = "pending"
      /\ report' = [report EXCEPT ![g] = r] /\ errand' = [errand EXCEPT ![d] = to]
      /\ todo' = [todo EXCEPT ![d] = <<asked>>]
    BY DEF Claim, AtLeisure
<1>2. report[g].won \in 1..2 /\ status[g] # "absent"
    BY <1>1 DEF ReportsInv, ReportsTyped, Untold
<1>3. r \in Reports /\ to \in Errands
    BY <1>2 DEF Reports, Errands
<1>4. /\ r.status = "confirmed" /\ r.won = report[g].won
      /\ status[g] = "completed" => r.story # "open"
      /\ to.op = "record" /\ to.game = g /\ to # AtHand
      /\ ~(<<asked>> = <<>>) /\ Head(<<asked>>).op = "check" /\ Head(<<asked>>).game = g
    BY DEF AtHand
<1> HIDE DEF r, to, asked
<1>5. /\ report' \in [Games -> Reports] /\ report'[g] = r
      /\ \A h \in Games \ {g} : report'[h] = report[h]
    BY <1>1, <1>3 DEF ReportsInv, ReportsTyped
<1>6. /\ errand' \in [Devices -> Errands] /\ errand'[d] = to
      /\ \A e \in Devices \ {d} : errand'[e] = errand[e]
    BY <1>1, <1>3 DEF ReportsInv, ReportsTyped
<1>7. todo'[d] = <<asked>> /\ \A e \in Devices \ {d} : todo'[e] = todo[e]
    BY <1>1 DEF IInv
<1>8. Games' = Games /\ Errands' = Errands /\ Reports' = Reports
    BY <1>1, Fixed DEF Errands, AtHand, Reports
<1>9. ReportsTyped'
    BY <1>1, <1>2, <1>4, <1>5, <1>6, <1>8 DEF ReportsInv, ReportsTyped, AtHand, Untold
<1>10. /\ Records(d)' /\ ~Records(d)
       /\ \A e \in Devices \ {d} : Records(e)' <=> Records(e)
       /\ \A e \in Devices : Records(e) => errand[e].game \in Games \ {g}
    <2>1. Records(d)' /\ ~Records(d) /\ \A e \in Devices \ {d} : Records(e)' <=> Records(e)
        BY <1>1, <1>4, <1>6 DEF Records, AtHand
    <2>2. \A e \in Devices : Records(e) => errand[e].game \in Games
        BY DEF Records, ReportsInv, ReportsTyped, Errands, AtHand
    <2>3. \A e \in Devices : Records(e) => errand[e].game # g
        BY <1>1 DEF ReportsInv, Claimed
    <2> QED
        BY <2>1, <2>2, <2>3
<1>11. Claimed'
    BY <1>4, <1>5, <1>6, <1>10 DEF ReportsInv, Claimed
<1>12. ResultCounts'
    BY <1>1, <1>4, <1>5, <1>8 DEF ReportsInv, ResultCounts
<1>13. Recorded'
    <2>1. UnderWay(d)'
        BY <1>4, <1>6, <1>7 DEF UnderWay, Idle, Now
    <2>2. \A e \in Devices \ {d} : errand'[e].op = "record" =>
              report'[errand'[e].game].story # "open" \/ UnderWay(e)'
        BY <1>5, <1>6, <1>7, <1>10 DEF ReportsInv, Recorded, Records, UnderWay, Idle, Now
    <2> QED
        BY <2>1, <2>2 DEF Recorded
<1>14. Awaited'
    BY <1>4, <1>5, <1>6, <1>8, <1>10 DEF ReportsInv, Awaited
<1> QED
    BY <1>9, <1>11, <1>12, <1>13, <1>14 DEF ReportsInv

\* A recording that goes on, or ends, without its row being touched.
LEMMA ErrandOK ==
    ASSUME IInv, ReportsInv, NEW d \in Devices, Records(d), NEW to \in Errands,
           UNCHANGED <<event, status, todo, report, closing>>,
           errand' = [errand EXCEPT ![d] = to],
           to = AtHand => status[errand[d].game] = "completed",
           to # AtHand => to.op \in {"failed", "reopen"} /\ to.game = errand[d].game
    PROVE  ReportsInv'
<1>1. /\ errand' \in [Devices -> Errands] /\ errand'[d] = to
      /\ \A e \in Devices \ {d} : errand'[e] = errand[e]
    BY DEF ReportsInv, ReportsTyped
<1>2. Games' = Games /\ Errands' = Errands /\ Reports' = Reports
    BY Fixed DEF Errands, AtHand, Reports
<1>3. errand[d] # AtHand /\ errand[d].game \in Games
    BY DEF Records, AtHand, ReportsInv, ReportsTyped, Errands
<1>4. ReportsTyped'
    BY <1>1, <1>2, <1>3 DEF ReportsInv, ReportsTyped, AtHand, Untold
<1>5. /\ Records(d)' <=> to # AtHand
      /\ \A e \in Devices \ {d} : Records(e)' <=> Records(e)
    BY <1>1 DEF Records, AtHand
<1>6. Claimed'
    BY <1>1, <1>5 DEF ReportsInv, Claimed
<1>7. ResultCounts'
    BY <1>2 DEF ReportsInv, ResultCounts
<1>8. Awaited'
    <2> SUFFICES ASSUME NEW g \in Games, report[g].status = "confirmed", report[g].story = "open"
                 PROVE  \E e \in Devices : Records(e)' /\ errand'[e].game = g
        BY <1>2 DEF Awaited
    <2>1. PICK e \in Devices : Records(e) /\ errand[e].game = g
        BY DEF ReportsInv, Awaited
    <2>2. CASE e # d
        BY <1>1, <1>5, <2>1, <2>2
    <2>3. CASE e = d
        <3>1. status[g] # "completed"
            BY DEF ReportsInv, ResultCounts
        <3> QED
            BY <1>1, <1>5, <2>1, <2>3, <3>1
    <2> QED
        BY <2>2, <2>3
<1>9. \A e \in Devices : errand'[e].op = "record" => errand'[e] = errand[e]
    BY <1>1 DEF AtHand
<1> QED
    BY <1>4, <1>6, <1>7, <1>8, <1>9, PapersOnly

LEMMA AfterFailureOK ==
    ASSUME IInv, ReportsInv, NEW d \in Devices, AfterFailure(d)
    PROVE  ReportsInv'
<1>1. UNCHANGED <<event, status, todo, report, closing>> /\ errand[d].op = "failed" /\ Records(d)
    BY DEF AfterFailure, Records
<1>2. errand[d] \in [op : {"insert", "record", "failed", "reopen"}, game : Games, won : 1..2]
    BY <1>1 DEF ReportsInv, ReportsTyped, Errands, AtHand
<1> DEFINE again == [errand[d] EXCEPT !.op = "reopen"]
<1>3. /\ again \in Errands /\ again.op = "reopen" /\ again.game = errand[d].game
      /\ again # AtHand /\ AtHand \in Errands
    BY <1>2 DEF Errands, AtHand
<1>4. \/ errand' = [errand EXCEPT ![d] = again]
      \/ status[errand[d].game] = "completed" /\ errand' = [errand EXCEPT ![d] = AtHand]
    BY DEF AfterFailure, ReportsInv, ReportsTyped
<1> HIDE DEF again
<1>5. CASE errand' = [errand EXCEPT ![d] = again]
    BY <1>1, <1>3, <1>5, ErrandOK
<1>6. CASE status[errand[d].game] = "completed" /\ errand' = [errand EXCEPT ![d] = AtHand]
    BY <1>1, <1>3, <1>6, ErrandOK
<1> QED
    BY <1>4, <1>5, <1>6

LEMMA ReopenOK ==
    ASSUME IInv, ReportsInv, NEW d \in Devices, Reopen(d)
    PROVE  ReportsInv'
<1> DEFINE g == errand[d].game
<1>1. /\ UNCHANGED <<event, status, todo, closing>> /\ Records(d) /\ errand[d] # AtHand
      /\ errand' = [errand EXCEPT ![d] = AtHand]
    BY DEF Reopen, Records, AtHand
<1>2. g \in Games /\ report[g].status = "confirmed" /\ report[g] \in Reports
      /\ status[g] # "absent" /\ report[g].won \in 1..2
    BY <1>1 DEF ReportsInv, ReportsTyped, Claimed, Errands, Untold
<1>3. PICK r \in Reports :
          /\ report' = [report EXCEPT ![g] = r] /\ r.won \in 1..2
          /\ r.status = "pending" \/ (r.status = "confirmed" /\ r.story = "lost")
    <2>1. CASE report' = [report EXCEPT ![g].status = "pending"]
        <3> DEFINE r == [report[g] EXCEPT !.status = "pending"]
        <3>1. r \in Reports /\ r.won \in 1..2 /\ r.status = "pending"
            BY <1>2 DEF Reports
        <3> QED
            BY <2>1, <3>1
    <2>2. CASE report' = [report EXCEPT ![g].story = "lost"]
        <3> DEFINE r == [report[g] EXCEPT !.story = "lost"]
        <3>1. r \in Reports /\ r.won \in 1..2 /\ r.status = "confirmed" /\ r.story = "lost"
            BY <1>2 DEF Reports
        <3> QED
            BY <2>2, <3>1
    <2> QED
        BY <2>1, <2>2 DEF Reopen
<1> HIDE DEF g
<1>4. /\ report' \in [Games -> Reports] /\ report'[g] = r
      /\ \A h \in Games \ {g} : report'[h] = report[h]
    BY <1>2, <1>3 DEF ReportsInv, ReportsTyped
<1>5. /\ errand' \in [Devices -> Errands] /\ errand'[d] = AtHand
      /\ \A e \in Devices \ {d} : errand'[e] = errand[e]
    BY <1>1 DEF ReportsInv, ReportsTyped, Errands
<1>6. Games' = Games /\ Errands' = Errands /\ Reports' = Reports
    BY <1>1, Fixed DEF Errands, AtHand, Reports
<1>7. ReportsTyped'
    BY <1>1, <1>2, <1>3, <1>4, <1>5, <1>6 DEF ReportsInv, ReportsTyped, AtHand, Untold
<1>8. /\ \A e \in Devices : Records(e)' <=> e # d /\ Records(e)
      /\ \A e \in Devices \ {d} : Records(e) => errand[e].game \in Games \ {g}
    <2>1. \A e \in Devices : Records(e)' <=> e # d /\ Records(e)
        BY <1>5 DEF Records, AtHand
    <2>2. \A e \in Devices : Records(e) => errand[e].game \in Games
        BY DEF Records, ReportsInv, ReportsTyped, Errands, AtHand
    <2>3. \A e \in Devices \ {d} : Records(e) => errand[e].game # g
        BY <1>1 DEF ReportsInv, Claimed, g
    <2> QED
        BY <2>1, <2>2, <2>3
<1>9. Claimed'
    BY <1>4, <1>5, <1>8 DEF ReportsInv, Claimed
<1>10. ResultCounts'
    BY <1>1, <1>3, <1>4, <1>6 DEF ReportsInv, ResultCounts
<1>11. Recorded'
    <2>1. \A e \in Devices : errand'[e].op = "record" => Records(e)'
        BY DEF Records
    <2>2. \A e \in Devices \ {d} : UnderWay(e) => UnderWay(e)'
        BY <1>1, <1>5 DEF UnderWay, Idle, Now
    <2> QED
        BY <1>4, <1>5, <1>8, <2>1, <2>2 DEF ReportsInv, Recorded
<1>12. Awaited'
    <2> SUFFICES ASSUME NEW h \in Games, report'[h].status = "confirmed", report'[h].story = "open"
                 PROVE  \E e \in Devices : Records(e)' /\ errand'[e].game = h
        BY <1>6 DEF Awaited
    <2>1. h # g /\ report'[h] = report[h]
        BY <1>3, <1>4
    <2>2. PICK e \in Devices : Records(e) /\ errand[e].game = h
        BY <2>1 DEF ReportsInv, Awaited
    <2>3. e # d
        BY <2>1, <2>2 DEF g
    <2> QED
        BY <1>5, <1>8, <2>2, <2>3
<1> QED
    BY <1>7, <1>9, <1>10, <1>11, <1>12 DEF ReportsInv

LEMMA StatementsOK ==
    ASSUME IInv, ReportsInv, IInv', NEW d \in Devices, Statements(d)
    PROVE  ReportsInv'
<1>1. Step(d) /\ event' = event
    BY DEF Statements, Step, Check, Lock, Write, Clear, Fill, Reset, Wipe, Decide, Strip, Drop,
           Make, Compare, Copy, Sync, StartWrite, Fail, FailSync
<1>2. Games' = Games /\ Errands' = Errands /\ Reports' = Reports
    BY <1>1, Fixed DEF Errands, AtHand, Reports
<1>3. /\ ~Idle(d) /\ OnItsWay(d)
      /\ \A e \in Devices \ {d} : todo'[e] = todo[e] \/ todo'[e] = <<>>
      /\ \A g \in Games : status'[g] = "completed" /\ status[g] # "completed"
                              => Wrote(d) /\ Now(d).game = g
    BY <1>1, BeforeWrite, OthersStay, OnlyWritesComplete
<1>4. \A g \in Games :
          /\ status'[g] = "absent" => report'[g] = Untold
          /\ status'[g] # "absent" =>
                 /\ report'[g].status = report[g].status /\ report'[g].won = report[g].won
                 /\ report'[g].story = IF Wrote(d) /\ g = Now(d).game
                                            /\ report[g].status = "confirmed"
                                       THEN "counted" ELSE report[g].story
                 /\ report'[g] \in Reports
                 /\ report'[g] # Untold => report[g] # Untold
    <2>1. \A g \in Games : report[g] \in Reports
        BY DEF ReportsInv, ReportsTyped
    <2>2. \A g \in Games : report'[g] =
              IF status'[g] = "absent" THEN Untold
              ELSE IF Wrote(d) /\ g = Now(d).game /\ report[g].status = "confirmed"
              THEN [report[g] EXCEPT !.story = "counted"] ELSE report[g]
        BY DEF Statements
    <2>3. \A r \in Reports : /\ [r EXCEPT !.story = "counted"] \in Reports
                             /\ [r EXCEPT !.story = "counted"].status = r.status
                             /\ [r EXCEPT !.story = "counted"].won = r.won
                             /\ [r EXCEPT !.story = "counted"].story = "counted"
        BY DEF Reports
    <2>4. \A g \in Games : report[g] = Untold => report[g].status # "confirmed"
        BY DEF Untold
    <2>5. Untold.status # "confirmed"
        BY DEF Untold
    <2> TAKE g \in Games
    <2> DEFINE counted == Wrote(d) /\ g = Now(d).game /\ report[g].status = "confirmed"
    <2>6. CASE status'[g] = "absent"
        BY <2>2, <2>6
    <2>7. CASE status'[g] # "absent" /\ counted
        <3>1. report'[g] = [report[g] EXCEPT !.story = "counted"]
            BY <2>2, <2>7
        <3> QED
            BY <2>1, <2>3, <2>4, <2>7, <3>1
    <2>8. CASE status'[g] # "absent" /\ ~counted
        <3>1. report'[g] = report[g]
            BY <2>2, <2>8
        <3> QED
            BY <2>1, <2>8, <3>1
    <2> QED
        BY <2>6, <2>7, <2>8
<1>5. \A e \in Devices :
          \/ /\ errand'[e] = errand[e]
             /\ errand[e] # AtHand => status'[errand[e].game] # "absent"
             /\ errand[e].op = "record" => todo'[e] # <<>>
          \/ errand[e] # AtHand /\ errand'[e] = AtHand /\ status'[errand[e].game] = "absent"
          \/ errand[e].op = "record" /\ errand'[e] = AtHand /\ At(e, "sync")
          \/ /\ errand[e].op = "record" /\ errand'[e] = [errand[e] EXCEPT !.op = "failed"]
             /\ status'[errand[e].game] # "absent"
    BY DEF Statements, Kept, AtHand
<1>6. \A e \in Devices : errand[e] # AtHand =>
          /\ errand[e] \in [op : {"insert", "record", "failed", "reopen"}, game : Games, won : 1..2]
          /\ [errand[e] EXCEPT !.op = "failed"] \in Errands \ {AtHand}
          /\ [errand[e] EXCEPT !.op = "failed"].op = "failed"
          /\ [errand[e] EXCEPT !.op = "failed"].game = errand[e].game
    BY DEF ReportsInv, ReportsTyped, Errands, AtHand
<1>7. Untold \in Reports /\ AtHand \in Errands
    BY DEF Untold, Reports, Errands
<1>8. \A e \in Devices : errand[e].op = "record" => errand[e] # AtHand
    BY DEF AtHand
<1>9. ReportsTyped'
    <2>1. report' \in [Games -> Reports]
        <3>1. DOMAIN report' = Games /\ report' = [g \in Games |-> report'[g]]
            BY DEF Statements
        <3>2. \A g \in Games : report'[g] \in Reports
            BY <1>4, <1>7
        <3> QED
            BY <3>1, <3>2
    <2>2. errand' \in [Devices -> Errands]
        <3>1. errand' = [e \in Devices |-> errand'[e]]
            BY DEF Statements
        <3>2. \A e \in Devices : errand'[e] \in Errands
            BY <1>5, <1>6, <1>7, <1>8 DEF ReportsInv, ReportsTyped
        <3> QED
            BY <3>1, <3>2
    <2>3. closing' \in [Devices -> SUBSET Games]
        <3>1. Wrote(d) => Now(d).game \in Games
            BY KindOf DEF Wrote, At, Writing
        <3> QED
            BY <3>1 DEF Statements, ReportsInv, ReportsTyped
    <2>4. \A g \in Games : report'[g] # Untold =>
              report'[g].status # "none" /\ report'[g].won \in 1..2 /\ status'[g] # "absent"
        BY <1>4 DEF ReportsInv, ReportsTyped
    <2>5. \A e \in Devices : errand'[e] # AtHand => status'[errand'[e].game] # "absent"
        BY <1>5, <1>6, <1>8
    <2> QED
        BY <1>2, <2>1, <2>2, <2>3, <2>4, <2>5 DEF ReportsTyped, Untold, AtHand
<1>10. \A e \in Devices : Records(e)' =>
           Records(e) /\ errand'[e].game = errand[e].game /\ errand[e].game \in Games
           /\ status'[errand[e].game] # "absent"
    <2> SUFFICES ASSUME NEW e \in Devices, Records(e)'
                 PROVE  /\ Records(e) /\ errand'[e].game = errand[e].game
                        /\ errand[e].game \in Games /\ status'[errand[e].game] # "absent"
        OBVIOUS
    <2>1. errand'[e] # AtHand
        BY DEF Records, AtHand
    <2>2. CASE /\ errand'[e] = errand[e]
               /\ errand[e] # AtHand => status'[errand[e].game] # "absent"
        BY <1>6, <2>1, <2>2 DEF Records
    <2>3. CASE /\ errand[e].op = "record" /\ errand'[e] = [errand[e] EXCEPT !.op = "failed"]
               /\ status'[errand[e].game] # "absent"
        BY <1>6, <1>8, <2>3 DEF Records
    <2> QED
        BY <1>5, <2>1, <2>2, <2>3
<1>11. Claimed'
    BY <1>4, <1>10 DEF ReportsInv, Claimed
<1>12. ResultCounts'
    <2>1. \A g \in Games : report'[g].status = "confirmed" /\ status'[g] = "completed"
              => report'[g].story # "open"
        BY <1>3, <1>4 DEF ReportsInv, ResultCounts
    <2> QED
        BY <1>2, <2>1 DEF ResultCounts
<1>13. Recorded'
    <2> SUFFICES ASSUME NEW e \in Devices, errand'[e].op = "record",
                        report'[errand'[e].game].story = "open"
                 PROVE  UnderWay(e)'
        BY DEF Recorded
    <2>1. /\ errand[e].op = "record" /\ errand'[e] = errand[e] /\ todo'[e] # <<>>
          /\ errand[e].game \in Games /\ status'[errand[e].game] # "absent"
          /\ report[errand[e].game].status = "confirmed"
        <3>1. errand'[e] # AtHand /\ Records(e)'
            BY DEF AtHand, Records
        <3>2. /\ Records(e) /\ errand[e].game \in Games
              /\ status'[errand[e].game] # "absent"
            BY <1>10, <3>1
        <3>3. report[errand[e].game].status = "confirmed"
            BY <3>2 DEF ReportsInv, Claimed
        <3>4. ~(errand[e].op = "record" /\ errand'[e] = [errand[e] EXCEPT !.op = "failed"])
            BY <1>6, <1>8
        <3>5. /\ errand'[e] = errand[e]
              /\ errand[e].op = "record" => todo'[e] # <<>>
            BY <1>5, <3>1, <3>4
        <3> QED
            BY <3>2, <3>3, <3>5
    <2>2. /\ ~(Wrote(d) /\ errand[e].game = Now(d).game)
          /\ report[errand[e].game].story = "open"
        BY <1>4, <2>1
    <2>3. UnderWay(e)
        BY <2>1, <2>2 DEF ReportsInv, Recorded
    <2>4. CASE e = d
        <3>1. Now(d).op # "write"
            BY <1>3, <2>1, <2>2, <2>3, <2>4 DEF UnderWay, Wrote, At
        <3>2. Head(todo'[d]).op \in {"lock", "write"} /\ Head(todo'[d]).game = Now(d).game
            BY <1>3, <2>1, <2>3, <2>4, <3>1 DEF OnItsWay, UnderWay
        <3> QED
            BY <2>1, <2>3, <2>4, <3>2 DEF UnderWay, Idle, Now
    <2>5. CASE e # d
        BY <1>3, <2>1, <2>3, <2>5 DEF UnderWay, Idle, Now
    <2> QED
        BY <2>4, <2>5
<1>14. Awaited'
    <2> SUFFICES ASSUME NEW g \in Games, report'[g].status = "confirmed",
                        report'[g].story = "open"
                 PROVE  \E e \in Devices : Records(e)' /\ errand'[e].game = g
        BY <1>2 DEF Awaited
    <2>1. /\ status'[g] # "absent" /\ report[g].status = "confirmed" /\ report[g].story = "open"
        BY <1>4 DEF Untold
    <2>2. PICK e \in Devices : Records(e) /\ errand[e].game = g
        BY <2>1 DEF ReportsInv, Awaited
    <2>3. ~(errand[e].op = "record" /\ At(e, "sync"))
        BY <2>1, <2>2 DEF ReportsInv, Recorded, UnderWay, At
    <2> QED
        BY <1>5, <1>6, <2>1, <2>2, <2>3 DEF Records, AtHand
<1> QED
    BY <1>9, <1>11, <1>12, <1>13, <1>14 DEF ReportsInv

-----------------------------------------------------------------------------
(* The theorems.                                                             *)

LEMMA InitReportsOK ==
    ASSUME InitReports
    PROVE  IInv /\ ReportsInv
<1>1. IInv
    BY InitOK DEF InitReports
<1>2. /\ \A g \in Games : report[g] = Untold
      /\ \A d \in Devices : errand[d] = AtHand
    BY DEF InitReports
<1>3. ReportsTyped
    <2>1. Untold \in Reports /\ AtHand \in Errands
        BY DEF Untold, Reports, Errands
    <2> QED
        BY <2>1 DEF InitReports, ReportsTyped
<1>4. Claimed /\ ResultCounts /\ Recorded /\ Awaited
    BY <1>2 DEF Claimed, ResultCounts, Recorded, Awaited, Records, Untold, AtHand
<1> QED
    BY <1>1, <1>3, <1>4 DEF ReportsInv

LEMMA NextReportsOK ==
    ASSUME IInv, ReportsInv, [NextReports]_allVars
    PROVE  IInv' /\ ReportsInv'
<1>1. IInv'
    BY ScoringKept DEF ReportsInv
<1>2. CASE UNCHANGED allVars
    <2>1. UNCHANGED <<event, status, todo, report, errand, closing>>
        BY <1>2 DEF allVars, vars, reportVars
    <2>2. Games' = Games /\ Errands' = Errands /\ Reports' = Reports
        BY <2>1, Fixed DEF Errands, AtHand, Reports
    <2>3. ReportsTyped'
        BY <2>1, <2>2 DEF ReportsInv, ReportsTyped, Untold, AtHand
    <2>4. Claimed' /\ ResultCounts' /\ Awaited'
        BY <2>1, <2>2 DEF ReportsInv, Claimed, ResultCounts, Awaited, Records
    <2> QED
        BY <1>1, <2>1, <2>3, <2>4, PapersOnly
<1>3. CASE NextReports
    <2>1. ASSUME NEW d \in Devices, \/ Statements(d) \/ Supersede(d) \/ ReportInsert(d)
                                    \/ AfterFailure(d) \/ Reopen(d)
          PROVE  ReportsInv'
        BY <1>1, <2>1, StatementsOK, SupersedeOK, InsertOK, AfterFailureOK, ReopenOK
    <2>2. ASSUME NEW d \in Devices, NEW g \in Games, \/ Claim(d, g)
                                                     \/ \E w \in 1..2 : ReportRead(d, g, w)
          PROVE  ReportsInv'
        BY <2>2, ClaimOK, ReadOK
    <2> QED
        BY <1>1, <1>3, <2>1, <2>2, RequestedOK, DisputeOK DEF NextReports
<1> QED
    BY <1>1, <1>2, <1>3

\* Whatever the scoring and the reports of a bracket do to each other, no errand
\* is about a game that is gone, who records a report has claimed it alone, and
\* a confirmation whose result is missing is on its way to it (ReportScore,
\* finalizeScoreReport, supersedeScoreReport beside RecordSeries).
THEOREM ReportsInvariant == ReportsSpec => [](IInv /\ ReportsInv)
BY InitReportsOK, NextReportsOK, PTL DEF ReportsSpec

\* The scoring of a bracket is what it was, with the players' reports beside
\* it: games, slots and requests keep to their kinds (finalizeScoreReport calls
\* RecordScore and changes nothing else of the games).
THEOREM ReportsKeepTypes == ReportsSpec => []TypeOK
BY ReportsInvariant, InvTyped, PTL

\* A report that is recorded excludes every other result, as an organizer's
\* score does: it takes the same lock (RecordSeries).
THEOREM ReportsKeepOrder == ReportsSpec => []OneAtATime
BY ReportsInvariant, InvOneAtATime, PTL

\* The event is over exactly when every game has its result, those that come
\* in by reports included (syncEventStatus).
THEOREM ReportsKeepEventOver == ReportsSpec => []EventOver
BY ReportsInvariant, InvEventOver, PTL

\* However confirmations, the timer, disputes and organizers' scores race for
\* the report of a game, at most one of them is recording it, and then the
\* report is confirmed (finalizeScoreReport's claim, DisputeScore's
\* condition).
THEOREM OneOutcomeHolds == ReportsSpec => []OneOutcome
<1>1. ASSUME ReportsInv, NEW g \in Games, Recording(g) # {}
      PROVE  Cardinality(Recording(g)) = 1 /\ report[g].status = "confirmed"
    <2>1. PICK d \in Devices : Records(d) /\ errand[d].game = g
        BY <1>1 DEF Recording, Records
    <2>2. report[g].status = "confirmed"
        BY <1>1, <2>1 DEF ReportsInv, Claimed
    <2>3. Recording(g) = {d}
        BY <1>1, <2>1 DEF ReportsInv, Claimed, Recording, Records
    <2> QED
        BY <2>2, <2>3, FS_Singleton
<1>2. ReportsInv => OneOutcome
    BY <1>1 DEF OneOutcome
<1> QED
    BY <1>2, ReportsInvariant, PTL

\* A confirmed score is being recorded, or the game has had a result since, or
\* the report is open again, or opening it again failed; whatever failed, was
\* corrected or was dropped meanwhile (finalizeScoreReport, RecordSeries).
THEOREM ConfirmedScoreCountsHolds == ReportsSpec => []ConfirmedScoreCounts
<1>1. ReportsInv => ConfirmedScoreCounts
    BY DEF ReportsInv, Awaited, ConfirmedScoreCounts, Recording, Records
<1> QED
    BY <1>1, ReportsInvariant, PTL

\* In a draw that leads one way, reported results are carried on like any
\* other, and between any two statements what is not right yet is made up for
\* by what is left to execute (finalizeScoreReport calls RecordScore).
THEOREM ReportsCarriedInvariant ==
    ReportsSpec /\ LeadsOneWay => [](IInv /\ ReportsInv /\ Carried)
<1>1. InitReports /\ LeadsOneWay => IInv /\ ReportsInv /\ Carried
    BY InitReportsOK, InitCarried DEF InitReports
<1>2. IInv /\ ReportsInv /\ Carried /\ [NextReports]_allVars => (IInv /\ ReportsInv /\ Carried)'
    BY NextReportsOK, ScoringCarried DEF ReportsInv
<1> QED
    BY <1>1, <1>2, PTL DEF ReportsSpec

\* Players' reports, organizers' scores, corrections and forfeits together leave
\* the winners and losers in the games they lead to (advanceTeam,
\* resetCompletedDownstream).
THEOREM ReportsCarryResults == ReportsSpec /\ LeadsOneWay => []ResultsCarried
<1>1. IInv /\ Carried => ResultsCarried
    BY InvCarried
<1> QED
    BY <1>1, ReportsCarriedInvariant, PTL

\* And a result, reported or not, belongs to the sides in its game
\* (service.go:13887).
THEOREM ReportsKeepPlayers == ReportsSpec /\ LeadsOneWay => []PlayedByThoseInIt
<1>1. IInv /\ Carried => PlayedByThoseInIt
    BY InvCarried
<1> QED
    BY <1>1, ReportsCarriedInvariant, PTL

\* And is not undone while it does (service.go:13889).
THEOREM ReportsLetStand == ReportsSpec /\ LeadsOneWay => ResultsStand
<1>1. IInv /\ ReportsInv /\ Carried /\ [NextReports]_allVars => [Stands]_vars
    BY ScoringCarried DEF ReportsInv
<1> QED
    BY <1>1, ReportsCarriedInvariant, PTL DEF ReportsSpec, ResultsStand, Stands
===============================================================================
