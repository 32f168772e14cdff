---------------------------- MODULE AtomicProxy ----------------------------
(***************************************************************************)
(* What the proxy promises its users: every call behaves as if it were     *)
(* carried out in one step between its arrival and its answer.  In that    *)
(* step it is authorised against the record as it is then, and changes     *)
(* it; a call that is refused, or that failed, never has an effect, not    *)
(* even later.                                                             *)
(***************************************************************************)
EXTENDS Authorizer

VARIABLES
    records,  \* the upstream records
    req,      \* request -> its call, None before it arrives
    took,     \* the requests that have taken effect
    answer    \* request -> the answer its client got, None before

vars == <<records, req, took, answer>>

Refusals == {"notfound", "forbidden", "upstream_error", "unavailable", "error"}

Init ==
    /\ records \in [RecordIds -> Images \cup {Free, Gone}]
    /\ req = [q \in Requests |-> None]
    /\ took = {}
    /\ answer = [q \in Requests |-> None]

Arrive(q) ==
    /\ req[q] = None
    /\ \E c \in Calls : req' = [req EXCEPT ![q] = c]
    /\ UNCHANGED <<records, took, answer>>

\* The call is authorised and carried out, at once.
TakeEffect(q) ==
    /\ req[q] # None /\ answer[q] = None /\ q \notin took
    /\ Permitted(req[q], records)
    /\ Effect(req[q], q, records, records')
    /\ took' = took \cup {q}
    /\ UNCHANGED <<req, answer>>

\* A mutation is confirmed if and only if it took effect.
Answer(q) ==
    /\ req[q] # None /\ answer[q] = None
    /\ \E a \in IF q \in took THEN {"ok"}
                ELSE IF req[q].method = "GET" THEN Refusals \cup {"ok"} ELSE Refusals :
          answer' = [answer EXCEPT ![q] = a]
    /\ UNCHANGED <<records, req, took>>

Next == \E q \in Requests : Arrive(q) \/ TakeEffect(q) \/ Answer(q)

Spec == Init /\ [][Next]_vars
=============================================================================
