----------------------------- MODULE RotationRoster ----------------------------
(***************************************************************************)
(* Who is in the room of a night that has started: arrivals, sit-outs,     *)
(* returns and substitutions.  AddRotationPlayer,                          *)
(* ImportLadderEntrantsToSession, SetRotationPlayerActive and              *)
(* SubstituteRotationPlayer of internal/service/ladder_rotation.go.        *)
(***************************************************************************)
EXTENDS RotationSession

Arrive(p) == roster' = [roster EXCEPT ![p] = "active"]

\* A new roster row; a sync from the ladder inserts several.
JoinInsert(q) ==
    /\ Newcomers # {}
    /\ \/ /\ Call(q, "join")
          /\ Step(q, [at |-> "join", ids |-> <<NextNewcomer>>])
       \/ /\ At(q, "join")
          /\ Use("join")
          /\ Step(q, [req[q] EXCEPT !.ids = Append(@, NextNewcomer)])
    /\ Arrive(NextNewcomer)
    /\ UNCHANGED <<session, record, subs, tally>>

\* rotation_join_bench appends the arrivals to the queue as it is by then.
JoinBench(q) ==
    /\ At(q, "join")
    /\ bench' = IF status \in {"live", "paused"} THEN bench \o req[q].ids ELSE bench
    /\ Done(q)
    /\ UNCHANGED <<status, round, due, record, people, tally, left>>

-----------------------------------------------------------------------------
(* SetRotationPlayerActive.                                                 *)

Running == status \in {"live", "paused"}

OutCheck(q, p) ==
    /\ Call(q, "out")
    /\ roster[p] = "active"
    /\ Running => Len(ActiveRow) > 4
    /\ Step(q, [at |-> "roster.write", player |-> p, now |-> "left"])
    /\ UNCHANGED <<session, record, people, tally>>

\* Whoever was substituted out does not come back.
BackCheck(q, p) ==
    /\ Call(q, "back")
    /\ roster[p] = "left"
    /\ Running => p \notin DOMAIN subs
    /\ Step(q, [at |-> "roster.write", player |-> p, now |-> "active"])
    /\ UNCHANGED <<session, record, people, tally>>
\* Slip: whoever comes back joins the queue at once.
RosterWriteQueue(q) ==
    /\ At(q, "roster.write")
    /\ roster' = [roster EXCEPT ![req[q].player] = req[q].now]
    /\ bench' = IF req[q].now = "active" THEN Append(bench, req[q].player) ELSE bench
    /\ Done(q)
    /\ UNCHANGED <<status, round, due, record, subs, tally, left>>

RosterWrite(q) ==
    /\ At(q, "roster.write")
    /\ roster' = [roster EXCEPT ![req[q].player] = req[q].now]
    /\ Done(q)
    /\ UNCHANGED <<session, record, subs, tally, left>>

-----------------------------------------------------------------------------
(* rotation_substitute: one transaction.                                    *)

\* Slips: a round that has been counted handed over too; the seat handed over
\* although it has a score.
EffectiveRoundEarly(out)  == IF scores[round][out] # NoScore THEN round ELSE round - 1
EffectiveRoundAtOnce(out) == round

\* The round the substitute's record starts with.
EffectiveRound(out) == IF scores[round][out] # NoScore THEN round + 1 ELSE round

Swap(s, out, in) == [i \in DOMAIN s |-> IF s[i] = out THEN in ELSE s[i]] \o <<>>

Substitute(out) ==
    LET in   == NextNewcomer
        from == EffectiveRound(out)
    IN  /\ Instant("sub")
        /\ Newcomers # {}
        /\ Running
        /\ roster[out] = "active"
        /\ out \notin DOMAIN subs
        /\ courts' = [r \in Rounds |->
                         IF r < from THEN courts[r]
                         ELSE [k \in DOMAIN courts[r] |-> Swap(courts[r][k], out, in)] \o <<>>]
        /\ bench' = Swap(bench, out, in)
        /\ subs' = [p \in (DOMAIN subs) \cup {out} |->
                       IF p = out THEN [by |-> in, from |-> from] ELSE subs[p]]
        /\ roster' = [roster EXCEPT ![in] = "active", ![out] = "left"]
        /\ UNCHANGED <<status, round, due, winner, scores, tally, req>>

Roster(q) ==
    \/ JoinInsert(q) \/ JoinBench(q) \/ RosterWrite(q)
    \/ \E p \in Players : OutCheck(q, p) \/ BackCheck(q, p)
=============================================================================
