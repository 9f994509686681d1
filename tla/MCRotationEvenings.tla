-------------------------- MODULE MCRotationEvenings --------------------------
(* Several evenings in one run: each has its own calls, number of requests  *)
(* at a time, planned rounds and buzzer.                                    *)
EXTENDS MCRotationLive

VARIABLE evening

MostOf(evenings) ==
    [k \in Kinds |-> CHOOSE n \in {e.calls[k] : e \in evenings} :
                         \A e \in evenings : e.calls[k] <= n]

\* What must be left over of each kind of call, and who stays away.
Evening(e) == [least |-> [k \in Kinds |-> Budget[k] - e.calls[k]],
               away  |-> Slots \ e.requests]
Kept ==
    /\ \A k \in Kinds : left[k] >= evening.least[k]
    /\ \A q \in evening.away : req[q] = Idle

Tonight(evenings) == Init /\ evening \in {Evening(e) : e \in evenings}
Goes == UNCHANGED evening /\ Next /\ Kept'

\* Everything that moves the clock, from every side; a resume overtaken by
\* another, an advance and a pause; the hourly sweep beside the buzzers; a
\* sit-out and a return while rounds are closed; and something of everything
\* that touches the record, with a statement that fails or a process that
\* stops.
Racing    == [advance |-> 3, end |-> 1, pause |-> 1, resume |-> 1] @@ None
Overtaken == [advance |-> 1, pause |-> 2, resume |-> 2] @@ None
Forgotten == [advance |-> 1, pause |-> 1, abandon |-> 1] @@ None
Leaving   == [advance |-> 2, out |-> 1, back |-> 1] @@ None
Faults    == [advance |-> 1, report |-> 1, correct |-> 1, score |-> 1, end |-> 1,
              reopen |-> 1, fault |-> 1] @@ None
RacingEvenings == {[calls |-> Racing,    requests |-> Slots],
                   [calls |-> Overtaken, requests |-> Two],
                   [calls |-> Forgotten, requests |-> Slots],
                   [calls |-> Leaving,   requests |-> Two],
                   [calls |-> Faults,    requests |-> One]}
RacingMost     == MostOf(RacingEvenings)
RacingSpec     == Tonight(RacingEvenings) /\ [][Goes]_<<vars, evening>>

\* One request at a time: people come and go; who played and who won.
Coming   == [advance |-> 2, sub |-> 1, out |-> 2, back |-> 1, join |-> 1] @@ None
HandOver == [advance |-> 2, sub |-> 2, score |-> 2, end |-> 1] @@ None
RecordEvenings == {[calls |-> c, requests |-> Slots] : c \in {Coming, HandOver}}
RecordMost     == MostOf(RecordEvenings)
RecordSpec     == Tonight(RecordEvenings) /\ [][Goes]_<<vars, evening>>

\* Nobody rings the buzzer: the tickers alone.
Nobody         == [pause |-> 1, abandon |-> 1, fault |-> 1, score |-> 1] @@ None
NobodyEvenings == {[calls |-> Nobody, requests |-> Slots]}
NobodyMost     == MostOf(NobodyEvenings)
NobodySpec     == Tonight(NobodyEvenings) /\ [][Goes]_<<vars, evening>> /\ Tickers
=============================================================================
