------------------------------ MODULE Identity ------------------------------
(***************************************************************************)
(* Principals, their secrets, and who is let in: claiming and recovering the  *)
(* instance (platform/v1/handler.go, instance_repository.go), creating and    *)
(* deleting principals, issuing and revoking secrets                         *)
(* (principal_repository.go, domain/identity/principal.go), and the cache     *)
(* through which every replica resolves the bearer of a token                *)
(* (principal_cache.go, platform/v1/auth.go).                               *)
(*                                                                         *)
(* A request is a sequence of steps: resolve the caller, resolve the target,  *)
(* then a transaction under the target's row lock, then the eviction of the   *)
(* target from the cache of the replica that served it.  Other replicas find  *)
(* out when their own entry is a minute old.                                *)
(***************************************************************************)
EXTENDS Naturals, FiniteSets

CONSTANTS
    Principals,     \* identifiers, each used for one principal
    Roots,          \* those of platform roots; the others are of one organization's maintainers
    Secrets,        \* identifiers, each used for one secret
    Owner,          \* [Secrets -> Principals]
    Permanent,      \* the secrets that never expire
    Replicas, Requests,
    None,
    MaxActiveSecrets,
    MaxFaults       \* crashes and commits whose answer is lost

ASSUME IdentityAssumption ==
    /\ Roots \subseteq Principals
    /\ Owner \in [Secrets -> Principals]
    /\ Permanent \subseteq Secrets
    /\ Principals \cap Secrets = {}
    /\ None \notin Principals \cup Secrets \cup Replicas
    /\ MaxActiveSecrets \in Nat \ {0} /\ MaxFaults \in Nat

VARIABLES
    principal,  \* [Principals -> "none", "there" or "gone"]
    secret,     \* [Secrets -> "unissued", "stored" or "gone"]
    expired,    \* the secrets whose time is over
    claims,     \* how often the instance has been claimed
    cache,      \* [Replicas -> [Principals -> the entry]]
    request,    \* [Requests -> what a request has got to]
    answered,   \* [Replicas -> the secrets whose end was answered there]
    faults

rows == <<principal, secret, claims>>
vars == <<rows, expired, cache, request, answered, faults>>

SecretsOf(p) == {s \in Secrets : Owner[s] = p}
Stored(p) == {s \in SecretsOf(p) : secret[s] = "stored"}
Usable(held) == held \ expired
RootsThere == {p \in Roots : principal[p] = "there"}

\* What a cached principal is asked for: whether it resolves, and its secrets.
Entry == [fresh : BOOLEAN, holds : SUBSET Secrets]
NoEntry == [fresh |-> FALSE, holds |-> {}]

Operations == {"use", "create", "issue", "revoke", "delete"}
Stages == {"idle", "caller", "readCaller", "loadCaller", "target", "readTarget", "loadTarget",
           "serve", "lock", "count", "decide", "evict", "claim"}
Request == [at : Stages, on : Replicas \cup {None}, by : Secrets \cup {None},
            op : Operations \cup {None}, arg : Principals \cup Secrets \cup {None},
            found : BOOLEAN, seen : SUBSET Secrets, known : BOOLEAN]
Idle == [at |-> "idle", on |-> None, by |-> None, op |-> None, arg |-> None,
         found |-> FALSE, seen |-> {}, known |-> FALSE]

TypeOK ==
    /\ principal \in [Principals -> {"none", "there", "gone"}]
    /\ secret \in [Secrets -> {"unissued", "stored", "gone"}]
    /\ expired \subseteq Secrets \ Permanent
    /\ claims \in Nat
    /\ cache \in [Replicas -> [Principals -> Entry]]
    /\ request \in [Requests -> Request]
    /\ answered \in [Replicas -> SUBSET Secrets]
    /\ faults \in 0 .. MaxFaults

Init ==
    /\ principal = [p \in Principals |-> "none"]
    /\ secret = [s \in Secrets |-> "unissued"]
    /\ claims = 0
    /\ expired = {}
    /\ cache = [r \in Replicas |-> [p \in Principals |-> NoEntry]]
    /\ request = [q \in Requests |-> Idle]
    /\ answered = [r \in Replicas |-> {}]
    /\ faults = 0

Fault == faults < MaxFaults /\ faults' = faults + 1
At(q, stage) == request[q].at = stage
Goes(q, stage) == request' = [request EXCEPT ![q].at = stage]
Ends(q) == request' = [request EXCEPT ![q] = Idle]
Caller(q) == Owner[request[q].by]
Target(q) == IF request[q].arg \in Secrets THEN Owner[request[q].arg] ELSE request[q].arg

-----------------------------------------------------------------------------
\* Claiming the instance, and recovering it.

\* A root created with its first secret.
Bootstraps(p, s) ==
    /\ p \in Roots /\ principal[p] = "none"
    /\ s \in SecretsOf(p) \cap Permanent
    /\ principal' = [principal EXCEPT ![p] = "there"]
    /\ secret' = [secret EXCEPT ![s] = "stored"]

\* InitializeInstance: the table lock, then the predicate.  (A claim rolled back
\* is one that never began.)
ClaimBegin(q) ==
    /\ At(q, "idle")
    /\ \A o \in Requests : ~ At(o, "claim")
    /\ request' = [request EXCEPT ![q].at = "claim", ![q].found = RootsThere # {}]
    /\ UNCHANGED <<rows, expired, cache, answered, faults>>

ClaimEnd(q) ==
    /\ At(q, "claim")
    /\ IF request[q].found THEN UNCHANGED rows
       ELSE /\ \E p \in Principals, s \in Secrets : Bootstraps(p, s)
            /\ claims' = claims + 1
    /\ Ends(q)
    /\ UNCHANGED <<expired, cache, answered, faults>>

\* Recover: the shares stay valid for as long as the instance row is there.
Recover ==
    /\ claims > 0
    /\ \E p \in Principals, s \in Secrets : Bootstraps(p, s)
    /\ UNCHANGED <<claims, expired, cache, request, answered, faults>>

-----------------------------------------------------------------------------
\* Resolving a principal (cachedPrincipalByID, authenticate).

\* A request bears a token minted from secret s, whatever has become of s.
Asks(q, r, s, op, arg) ==
    /\ At(q, "idle")
    /\ secret[s] # "unissued"
    /\ request' = [request EXCEPT ![q] =
           [Idle EXCEPT !.at = "caller", !.on = r, !.by = s, !.op = op, !.arg = arg,
                        !.known = s \in answered[r]]]
    /\ UNCHANGED <<rows, expired, cache, answered, faults>>

Looking == {"caller", "target"}
OfCaller == {"caller", "readCaller", "loadCaller"}
ReadOf(stage) == IF stage \in OfCaller THEN "readCaller" ELSE "readTarget"
LoadOf(stage) == IF stage \in OfCaller THEN "loadCaller" ELSE "loadTarget"
Subject(q) == IF request[q].at \in OfCaller THEN Caller(q) ELSE Target(q)

\* principalCacheMu is held throughout a load.
Loading(r) == \E q \in Requests :
    request[q].on = r /\ request[q].at \in {"readCaller", "readTarget", "loadCaller", "loadTarget"}

\* Root outranks the question; a platform principal is a root's to modify, and
\* nobody deletes itself.
Permitted(q) ==
    /\ Caller(q) \in Roots \/ Target(q) \notin Roots
    /\ request[q].op = "delete" => Caller(q) # Target(q)

\* HasActiveSecret of the caller, then the handler; principalForModification
\* of the target, then the transaction.
Resolved(q, found, holds) ==
    IF request[q].at \in OfCaller
    THEN IF ~ (found /\ request[q].by \in Usable(holds)) THEN Ends(q)
         ELSE Goes(q, CASE request[q].op = "use" -> "serve"
                        [] request[q].op = "create" -> "decide"
                        [] OTHER -> "target")
    ELSE IF found /\ Permitted(q) THEN Goes(q, "lock") ELSE Ends(q)

Hit(q) ==
    /\ request[q].at \in Looking
    /\ ~ Loading(request[q].on)
    /\ LET entry == cache[request[q].on][Subject(q)] IN
       entry.fresh /\ Resolved(q, TRUE, entry.holds)
    /\ UNCHANGED <<rows, expired, cache, answered, faults>>

\* GetPrincipalByID reads the principal's row,
LoadBegin(q) ==
    /\ request[q].at \in Looking
    /\ ~ Loading(request[q].on)
    /\ ~ cache[request[q].on][Subject(q)].fresh
    /\ LET there == principal[Subject(q)] = "there" IN
       request' = [request EXCEPT ![q].at = IF there THEN ReadOf(@) ELSE LoadOf(@),
                                  ![q].found = there, ![q].seen = {}]
    /\ UNCHANGED <<rows, expired, cache, answered, faults>>

\* then, in a statement of its own, the secrets that are there by now,
LoadSecrets(q) ==
    /\ request[q].at \in {"readCaller", "readTarget"}
    /\ request' = [request EXCEPT ![q].at = LoadOf(@), ![q].seen = Stored(Subject(q))]
    /\ UNCHANGED <<rows, expired, cache, answered, faults>>

\* and the cache keeps what it found.
LoadEnd(q) ==
    /\ request[q].at \in {"loadCaller", "loadTarget"}
    /\ Resolved(q, request[q].found, request[q].seen)
    /\ cache' = IF request[q].found
                THEN [cache EXCEPT ![request[q].on][Subject(q)] =
                          [fresh |-> TRUE, holds |-> request[q].seen]]
                ELSE cache
    /\ UNCHANGED <<rows, expired, answered, faults>>

\* Mutant: an entry is kept until it is evicted.
Kept(r, p) == FALSE

\* principalCacheTTL.
Outlived(r, p) == cache[r][p].fresh
Age(r, p) ==
    /\ Outlived(r, p)
    /\ cache' = [cache EXCEPT ![r][p] = NoEntry]
    /\ UNCHANGED <<rows, expired, request, answered, faults>>

Serve(q) ==
    /\ At(q, "serve")
    /\ Ends(q)
    /\ UNCHANGED <<rows, expired, cache, answered, faults>>

-----------------------------------------------------------------------------
\* The transactions.

\* GetPrincipalByIDForUpdate, and the secrets read under the lock.
RowLocked(p) == \E q \in Requests : /\ request[q].at \in {"count", "decide"}
                                    /\ request[q].op # "create" /\ Target(q) = p

\* Mutant: the row is read without FOR UPDATE.
LockUnheld(q) ==
    /\ At(q, "lock")
    /\ IF principal[Target(q)] # "there" THEN Ends(q)
       ELSE request' = [request EXCEPT
                ![q].at = IF request[q].op = "delete" /\ Target(q) \in Roots THEN "count" ELSE "decide",
                ![q].seen = Stored(Target(q)), ![q].found = TRUE]
    /\ UNCHANGED <<rows, expired, cache, answered, faults>>

Lock(q) ==
    /\ At(q, "lock")
    /\ ~ RowLocked(Target(q))
    /\ IF principal[Target(q)] # "there" THEN Ends(q)
       ELSE request' = [request EXCEPT
                ![q].at = IF request[q].op = "delete" /\ Target(q) \in Roots THEN "count" ELSE "decide",
                ![q].seen = Stored(Target(q)), ![q].found = TRUE]
    /\ UNCHANGED <<rows, expired, cache, answered, faults>>

\* LockRootPrincipalDeletion, CountRootPrincipals.
Deleting == \E q \in Requests : At(q, "decide") /\ request[q].op = "delete" /\ Target(q) \in Roots

\* Mutant: the roots are counted without the advisory lock.
CountUnlocked(q) ==
    /\ At(q, "count")
    /\ request' = [request EXCEPT ![q].at = "decide", ![q].found = Cardinality(RootsThere) > 1]
    /\ UNCHANGED <<rows, expired, cache, answered, faults>>

Count(q) ==
    /\ At(q, "count")
    /\ ~ Deleting
    /\ request' = [request EXCEPT ![q].at = "decide", ![q].found = Cardinality(RootsThere) > 1]
    /\ UNCHANGED <<rows, expired, cache, answered, faults>>

\* Principal.IssueSecret, on what the transaction read.
MayIssue(q) ==
    LET s == request[q].arg IN
    /\ secret[s] = "unissued"
    /\ s \notin Permanent /\ Target(q) \in Roots => request[q].seen \cap Permanent # {}
    /\ Cardinality(Usable(request[q].seen)) < MaxActiveSecrets

\* Principal.RevokeSecret, on what the transaction read.
MayRevoke(q) ==
    /\ request[q].arg \in request[q].seen
    /\ Target(q) \in Roots => (request[q].seen \ {request[q].arg}) \cap Permanent # {}

Applies(q) ==
    LET r == request[q] IN
    CASE r.op = "create" -> principal[r.arg] = "none" /\ (Caller(q) \in Roots \/ r.arg \notin Roots)
      [] r.op = "issue" -> MayIssue(q)
      [] r.op = "revoke" -> MayRevoke(q)
      [] r.op = "delete" -> r.found

\* CreatePrincipal makes a principal without secrets; a deletion cascades to them.
Writes(q) ==
    LET r == request[q] IN
    /\ principal' = CASE r.op = "create" -> [principal EXCEPT ![r.arg] = "there"]
                      [] r.op = "delete" -> [principal EXCEPT ![r.arg] = "gone"]
                      [] OTHER -> principal
    /\ secret' = CASE r.op = "issue" -> [secret EXCEPT ![r.arg] = "stored"]
                   [] r.op = "revoke" -> [secret EXCEPT ![r.arg] = "gone"]
                   [] r.op = "delete" -> [s \in Secrets |-> IF s \in Stored(r.arg) THEN "gone" ELSE secret[s]]
                   [] OTHER -> secret
    /\ UNCHANGED claims

Decide(q) ==
    /\ At(q, "decide")
    /\ IF Applies(q)
       THEN /\ Writes(q)
            /\ \/ UNCHANGED faults
                  /\ IF request[q].op = "create" THEN Ends(q) ELSE Goes(q, "evict")
               \/ Fault /\ Ends(q)      \* committed, and the answer of the commit lost
       ELSE Ends(q) /\ UNCHANGED <<rows, faults>>
    /\ UNCHANGED <<expired, cache, answered>>

\* Mutant: the eviction does not take principalCacheMu.
EvictUnwaiting(q) ==
    /\ At(q, "evict")
    /\ cache' = [cache EXCEPT ![request[q].on][Target(q)] = NoEntry]
    /\ answered' = [answered EXCEPT ![request[q].on] =
           @ \cup {s \in SecretsOf(Target(q)) : secret[s] = "gone"}]
    /\ Ends(q)
    /\ UNCHANGED <<rows, expired, faults>>

\* evictPrincipal, then the answer.
Evict(q) ==
    /\ At(q, "evict")
    /\ ~ Loading(request[q].on)
    /\ cache' = [cache EXCEPT ![request[q].on][Target(q)] = NoEntry]
    /\ answered' = [answered EXCEPT ![request[q].on] =
           @ \cup {s \in SecretsOf(Target(q)) : secret[s] = "gone"}]
    /\ Ends(q)
    /\ UNCHANGED <<rows, expired, faults>>

-----------------------------------------------------------------------------
Expire(s) ==
    /\ s \notin Permanent \cup expired /\ secret[s] = "stored"
    /\ expired' = expired \cup {s}
    /\ UNCHANGED <<rows, cache, request, answered, faults>>

\* A replica stops; the database rolls back what it had open.
Crash(r) ==
    /\ Fault
    /\ cache' = [cache EXCEPT ![r] = [p \in Principals |-> NoEntry]]
    /\ request' = [q \in Requests |-> IF request[q].on = r THEN Idle ELSE request[q]]
    /\ UNCHANGED <<rows, expired, answered>>

Ask(q, r, s) ==
    \/ Asks(q, r, s, "use", None)
    \/ \E p \in Principals : Asks(q, r, s, "create", p) \/ Asks(q, r, s, "delete", p)
    \/ \E x \in Secrets : Asks(q, r, s, "issue", x) \/ Asks(q, r, s, "revoke", x)

Step(q) ==
    \/ ClaimEnd(q) \/ Hit(q) \/ LoadBegin(q) \/ LoadSecrets(q) \/ LoadEnd(q) \/ Serve(q)
    \/ Lock(q) \/ Count(q) \/ Decide(q) \/ Evict(q)

Next ==
    \/ \E q \in Requests :
          \/ ClaimBegin(q)
          \/ Step(q)
          \/ \E r \in Replicas, s \in Secrets : Ask(q, r, s)
    \/ Recover
    \/ \E r \in Replicas : Crash(r) \/ \E p \in Principals : Age(r, p)
    \/ \E s \in Secrets : Expire(s)

\* Requests in progress go on, and minutes pass.
Fairness ==
    /\ \A q \in Requests : WF_vars(Step(q))
    /\ \A r \in Replicas, p \in Principals : WF_vars(Age(r, p))

Spec == Init /\ [][Next]_vars /\ Fairness

-----------------------------------------------------------------------------
\* Properties

\* The claim is a one-way door: two callers cannot both claim the instance,
\* and no order of deletions takes the last root away, which would open it again
\* (InitializeInstance, DeletePrincipal).
ClaimedOnce == claims <= 1 /\ (claims > 0 => RootsThere # {})

\* A root that was ever given a secret keeps one that never expires, through
\* concurrent issues, revocations and expiries (IssueSecret, RevokeSecret).
RootsKeepKey ==
    \A p \in RootsThere : (\E s \in SecretsOf(p) : secret[s] # "unissued") =>
        Stored(p) \cap Permanent # {}

\* No principal can be authenticated by more than two secrets at a time.
CapHolds == \A p \in Principals : Cardinality(Usable(Stored(p))) <= MaxActiveSecrets

\* A secret whose revocation, or whose principal's deletion, a replica has
\* answered lets in no request that reaches that replica afterwards, whatever
\* loads of the principal were under way (cachedPrincipalByID, evictPrincipal).
RevokedHere ==
    \A q \in Requests : request[q].at \in Stages \ (OfCaller \cup {"idle", "claim"}) =>
        ~ request[q].known

\* On every replica the entries that hold a secret that is gone are gone for
\* good in the end, evicted or not (principalCacheTTL).
RefusedEverywhere ==
    <>[](\A s \in Secrets : secret[s] = "gone" =>
            \A r \in Replicas : s \notin cache[r][Owner[s]].holds)
=============================================================================
