----------------------------- MODULE AuditTrail -----------------------------
(***************************************************************************)
(* What the audit broker promises: each target's file is a log that only     *)
(* grows, by one record at a time and by none twice; of one exchange the      *)
(* response never precedes the request; a record counts as accepted only     *)
(* once it is in some file, and a request is served only when its record was *)
(* accepted, or there was no target to record it.  A refused record may      *)
(* still reach a file, late.                                                *)
(***************************************************************************)
EXTENDS Naturals, Sequences

CONSTANTS Sinks, Requests

VARIABLES
    trail,      \* [Sinks -> Seq(Records)]
    verdict,    \* [Records -> what the broker answered]
    served      \* requests handed to their handler

vars == <<trail, verdict, served>>

Records == Requests \X {"request", "response"}
In(r, s) == \E i \in DOMAIN trail[s] : trail[s][i] = r

Init ==
    /\ trail = [s \in Sinks |-> <<>>]
    /\ verdict = [r \in Records |-> "none"]
    /\ served = {}

Land(s, r) ==
    /\ ~ In(r, s)
    /\ r[2] = "request" => ~ In(<<r[1], "response">>, s)
    /\ trail' = [trail EXCEPT ![s] = Append(@, r)]
    /\ UNCHANGED <<verdict, served>>

Answer(r, answer) ==
    /\ verdict[r] = "none"
    /\ answer = "accepted" => \E s \in Sinks : In(r, s)
    /\ verdict' = [verdict EXCEPT ![r] = answer]
    /\ UNCHANGED <<trail, served>>

Serve(q) ==
    /\ q \notin served
    /\ verdict[<<q, "request">>] \in {"accepted", "untargeted"}
    /\ served' = served \cup {q}
    /\ UNCHANGED <<trail, verdict>>

Next ==
    \/ \E s \in Sinks, r \in Records : Land(s, r)
    \/ \E r \in Records, answer \in {"accepted", "refused", "untargeted"} : Answer(r, answer)
    \/ \E q \in Requests : Serve(q)

Spec == Init /\ [][Next]_vars
=============================================================================
