----------------------------- MODULE MCIdentity -----------------------------
(***************************************************************************)
(* Identity on two platform roots: a, with two permanent secrets and one that *)
(* expires, and b, with one permanent secret; two requests, two replicas.     *)
(* Bounds keeps the requests that race.                                     *)
(***************************************************************************)
EXTENDS Identity, TLC
CONSTANTS a, b, a1, a2, ax, b1, q1, q2, r1, r2
Owners == (a1 :> a) @@ (a2 :> a) @@ (ax :> a) @@ (b1 :> b)
Looks(q) == request[q].at \in OfCaller \cup {"target", "readTarget", "loadTarget"}
Begins(q, stage) == request[q].at = "idle" /\ request'[q].at = stage
Resting == \A q \in Requests : request[q] = Idle

\* A request that begins: changes are asked of r1 for what can be changed, one
\* of them creates and issues, and r2 only lets a's first secret in.
Asked(q) ==
    LET r == request'[q] IN
    /\ \A o \in Requests : ~ Looks(o) /\ request[o].at # "serve"
    /\ r.by \in {a1, b1}
    /\ r.op # "use" => secret[r.by] = "stored" /\ r.on = r1
    /\ r.op = "use" => q = q1 /\ r.by = a1
    /\ r.op = "create" => q = q1 /\ Resting /\ r.arg = b /\ principal[b] = "none"
    /\ r.op = "issue" => /\ q = q1 /\ Resting
                         /\ secret[r.arg] = "unissued" /\ principal[Owner[r.arg]] = "there"
    /\ r.op = "revoke" => secret[r.arg] = "stored"
    /\ r.op = "delete" => principal[r.arg] = "there"

Bounds ==
    /\ \A q \in Requests : Begins(q, "caller") => Asked(q)
    /\ \A q \in Requests : Begins(q, "claim") => claims = 0 \/ RootsThere = {}
    /\ (Begins(q2, "caller") \/ Begins(q2, "claim")) => request[q1] # Idle
    \* Minutes pass between requests,
    /\ cache' = cache \/ Resting \/ request' # request
    \* secrets expire then or under a transaction, never both of a's spare ones
    \* are issued, and a fault strikes a transaction, with no secret expired.
    /\ expired' # expired => \A q \in Requests : ~ Looks(q)
    /\ secret'[a2] = "unissued" \/ secret'[ax] = "unissued"
    /\ faults' # faults => expired = {} /\ \E q \in Requests : request[q].at \in {"decide", "evict"}
    /\ faults' > 0 => /\ expired' = {} /\ secret'[ax] = secret[ax]
                      /\ \A p \in Principals : cache'[r2][p] = NoEntry
                      /\ \A q \in Requests : request'[q].on # r2
=============================================================================
