---------------------------- MODULE Identity_proofs ----------------------------
(***************************************************************************)
(* The claim is a one-way door, roots keep a key, no principal exceeds its     *)
(* secrets, and a replica that answered a revocation honours it, for any       *)
(* number of principals, secrets, replicas and requests.                    *)
(***************************************************************************)
EXTENDS Identity, FiniteSetTheorems, TLAPS

-----------------------------------------------------------------------------
(* The inductive invariant *)

\* What a request asks fits the stage it has reached.
Staged ==
    \A q \in Requests :
        LET r == request[q] IN
        /\ r.at \notin {"idle", "claim"} =>
              /\ r.on \in Replicas /\ r.by \in Secrets /\ r.op \in Operations
              /\ r.op \in {"create", "delete"} => r.arg \in Principals
              /\ r.op \in {"issue", "revoke"} => r.arg \in Secrets
        /\ r.at \in {"target", "readTarget", "loadTarget", "lock", "count", "evict"} =>
              r.op \in {"issue", "revoke", "delete"}
        /\ r.at = "decide" => r.op # "use"
        /\ r.at = "count" => r.op = "delete"

\* A request that holds its target's row knows what is stored there, alone.
Holding(q) == request[q].at \in {"count", "decide"} /\ request[q].op # "create"

Held ==
    /\ \A q \in Requests : Holding(q) =>
          principal[Target(q)] = "there" /\ request[q].seen = Stored(Target(q))
    /\ \A q, o \in Requests : Holding(q) /\ Holding(o) /\ Target(q) = Target(o) => q = o

\* A principal that is not there yet was never given a secret.
Unissued ==
    \A p \in Principals : principal[p] = "none" =>
        \A s \in SecretsOf(p) : secret[s] = "unissued"

\* No principal can be authenticated by more than its share of secrets.
Capped ==
    \A p \in Principals : /\ IsFiniteSet(Stored(p))
                          /\ Cardinality(Usable(Stored(p))) <= MaxActiveSecrets

\* One root is removed at a time, and another stays; one claim is made at a
\* time, and one that found no root is the first.
Removing(q) == At(q, "decide") /\ request[q].op = "delete" /\ Target(q) \in Roots

Doors ==
    /\ \A q, o \in Requests : Removing(q) /\ Removing(o) => q = o
    /\ \A q \in Requests : Removing(q) /\ request[q].found =>
          \E p \in RootsThere : p # Target(q)
    /\ \A q, o \in Requests : At(q, "claim") /\ At(o, "claim") => q = o
    /\ \A q \in Requests : At(q, "claim") /\ ~ request[q].found => claims = 0

\* What a replica has answered for is gone, from its cache and from what its
\* loads have read; a request knows of it from there.
Refusing ==
    /\ \A r \in Replicas : \A s \in answered[r] :
          secret[s] = "gone" /\ s \notin cache[r][Owner[s]].holds
    /\ \A q \in Requests :
          /\ request[q].known => request[q].on \in Replicas /\ request[q].by \in answered[request[q].on]
          /\ request[q].at \in {"loadCaller", "loadTarget"} =>
                request[q].seen \cap answered[request[q].on] = {}

Rows == Held /\ Unissued /\ RootsKeepKey /\ Capped /\ Doors /\ ClaimedOnce
IInv == TypeOK /\ Staged /\ Rows /\ Refusing /\ RevokedHere

-----------------------------------------------------------------------------
(* What the steps do to the requests *)

LEMMA IdleFacts ==
    Idle \in Request /\ Idle.at = "idle" /\ ~ Idle.known
  BY DEF Idle, Request, Stages

\* Requests but one stand.
Others(q) == \A x \in Requests : x # q => request'[x] = request[x]

\* A request with another stage has the rest as it was.
LEMMA GoesEffect ==
    ASSUME TypeOK, NEW q \in Requests, NEW stage \in Stages, Goes(q, stage)
    PROVE  /\ request' \in [Requests -> Request] /\ Others(q)
           /\ request'[q].at = stage /\ request'[q].on = request[q].on
           /\ request'[q].by = request[q].by /\ request'[q].op = request[q].op
           /\ request'[q].arg = request[q].arg /\ request'[q].found = request[q].found
           /\ request'[q].seen = request[q].seen /\ request'[q].known = request[q].known
<1>1. request \in [Requests -> Request]
  BY DEF TypeOK
<1>2. request' = [request EXCEPT ![q].at = stage]
  BY DEF Goes
<1>3. QED
  BY <1>1, <1>2 DEF Request, Others

LEMMA EndsEffect ==
    ASSUME TypeOK, NEW q \in Requests, Ends(q)
    PROVE  request' \in [Requests -> Request] /\ Others(q) /\ request'[q] = Idle
  BY IdleFacts DEF TypeOK, Ends, Others

\* A request whose principal was resolved goes on only when the principal was
\* found, and its caller only when its secret is among those held.
LEMMA ResolvedEffect ==
    ASSUME TypeOK, Staged, NEW q \in Requests,
           request[q].at \in {"caller", "loadCaller", "target", "loadTarget"},
           NEW found \in BOOLEAN, NEW holds, Resolved(q, found, holds)
    PROVE  \/ Ends(q)
           \/ \E stage \in {"serve", "decide", "target", "lock"} :
                 /\ Goes(q, stage)
                 /\ request[q].at \in OfCaller => request[q].by \in holds
                 /\ stage = "decide" => request[q].op = "create"
                 /\ stage \in {"target", "lock"} => request[q].op \in {"issue", "revoke", "delete"}
<1>1. request[q].op \in Operations
  BY DEF Staged
<1>2. CASE request[q].at \in OfCaller
  <2>1. CASE request[q].by \in holds /\ ~ Ends(q)
    <3>1. Goes(q, CASE request[q].op = "use" -> "serve"
                    [] request[q].op = "create" -> "decide"
                    [] OTHER -> "target")
      BY <1>2, <2>1 DEF Resolved
    <3>2. CASE request[q].op = "use"
      BY <2>1, <3>1, <3>2
    <3>3. CASE request[q].op = "create"
      BY <2>1, <3>1, <3>3
    <3>4. CASE request[q].op \notin {"use", "create"}
      BY <1>1, <2>1, <3>1, <3>4 DEF Operations
    <3>5. QED
      BY <3>2, <3>3, <3>4
  <2>2. CASE request[q].by \notin holds
    BY <1>2, <2>2 DEF Resolved, Usable
  <2>3. QED
    BY <2>1, <2>2
<1>3. CASE request[q].at \in {"target", "loadTarget"}
  <2>1. Goes(q, "lock") \/ Ends(q)
    BY <1>3 DEF Resolved, OfCaller
  <2>2. request[q].op \in {"issue", "revoke", "delete"}
    BY <1>3 DEF Staged
  <2>3. QED
    BY <1>3, <2>1, <2>2 DEF OfCaller
<1>4. QED
  BY <1>2, <1>3 DEF OfCaller

\* Whom a request is about.
LEMMA SubjectFacts ==
    ASSUME TypeOK, Staged, NEW q \in Requests, request[q].at \notin {"idle", "claim"}
    PROVE  /\ Caller(q) \in Principals
           /\ request[q].op # "use" => Target(q) \in Principals
           /\ request[q].op \in {"create", "delete"} => Target(q) = request[q].arg
           /\ request[q].op \in {"issue", "revoke"} => Target(q) = Owner[request[q].arg]
           /\ request[q].at \in OfCaller \cup {"target", "readTarget", "loadTarget"} =>
                 Subject(q) \in Principals
<1>1. /\ request[q].by \in Secrets /\ request[q].op \in Operations
      /\ request[q].op \in {"create", "delete"} => request[q].arg \in Principals
      /\ request[q].op \in {"issue", "revoke"} => request[q].arg \in Secrets
      /\ request[q].at \in {"target", "readTarget", "loadTarget"} =>
            request[q].op \in {"issue", "revoke", "delete"}
  BY DEF Staged
<1>2. Owner \in [Secrets -> Principals] /\ Principals \cap Secrets = {}
  BY IdentityAssumption
<1>3. /\ Caller(q) \in Principals
      /\ request[q].op # "use" => Target(q) \in Principals
      /\ request[q].op \in {"create", "delete"} => Target(q) = request[q].arg
      /\ request[q].op \in {"issue", "revoke"} => Target(q) = Owner[request[q].arg]
  BY <1>1, <1>2 DEF Caller, Target, Operations
<1>4. QED
  BY <1>1, <1>3 DEF Subject, OfCaller

-----------------------------------------------------------------------------
(* Types and stages *)

\* A request that begins, ends or goes on keeps to the stages.
LEMMA IdleStaged ==
    ASSUME TypeOK, Staged, NEW q \in Requests, Ends(q)
    PROVE  request' \in [Requests -> Request] /\ Staged'
<1>1. request' \in [Requests -> Request] /\ Others(q) /\ request'[q] = Idle
  BY EndsEffect
<1>2. Idle.at = "idle"
  BY IdleFacts
<1>3. QED
  BY <1>1, <1>2 DEF Staged, Others

LEMMA GoneStaged ==
    ASSUME TypeOK, Staged, NEW q \in Requests, NEW stage \in Stages, Goes(q, stage),
           request[q].at \notin {"idle", "claim"},
           stage \in {"target", "readTarget", "loadTarget", "lock", "count", "evict"} =>
              request[q].op \in {"issue", "revoke", "delete"},
           stage = "decide" => request[q].op # "use",
           stage = "count" => request[q].op = "delete"
    PROVE  request' \in [Requests -> Request] /\ Staged'
<1>1. /\ request' \in [Requests -> Request] /\ Others(q)
      /\ request'[q].at = stage /\ request'[q].on = request[q].on
      /\ request'[q].by = request[q].by /\ request'[q].op = request[q].op
      /\ request'[q].arg = request[q].arg
  BY GoesEffect
<1>2. QED
  BY <1>1 DEF Staged, Others

\* A caller or a target is resolved from what the cache holds or the rows held.
LEMMA ResolvedSomehow ==
    ASSUME TypeOK, NEW q \in Requests, Hit(q) \/ LoadEnd(q)
    PROVE  \E found \in BOOLEAN : \E holds :
              /\ Resolved(q, found, holds)
              /\ request[q].at \in {"caller", "loadCaller", "target", "loadTarget"}
<1>1. CASE Hit(q)
  <2>1. Resolved(q, TRUE, cache[request[q].on][Subject(q)].holds)
    BY <1>1 DEF Hit
  <2>2. request[q].at \in {"caller", "loadCaller", "target", "loadTarget"}
    BY <1>1 DEF Hit, Looking
  <2>3. QED
    BY <2>1, <2>2
<1>2. CASE LoadEnd(q)
  <2>1. request[q].found \in BOOLEAN
    BY DEF TypeOK, Request
  <2>2. Resolved(q, request[q].found, request[q].seen)
    BY <1>2 DEF LoadEnd
  <2>3. request[q].at \in {"caller", "loadCaller", "target", "loadTarget"}
    BY <1>2 DEF LoadEnd
  <2>4. QED
    BY <2>1, <2>2, <2>3
<1>3. QED
  BY <1>1, <1>2

\* The callers' and targets' resolution.
LEMMA ResolvedTypes ==
    ASSUME TypeOK, Staged, NEW q \in Requests, Hit(q) \/ LoadEnd(q)
    PROVE  request' \in [Requests -> Request] /\ Staged'
<1>1. PICK found, holds : /\ found \in BOOLEAN
                          /\ Resolved(q, found, holds)
                          /\ request[q].at \in {"caller", "loadCaller", "target", "loadTarget"}
  BY ResolvedSomehow
<1>2. CASE Ends(q)
  BY <1>2, IdleStaged
<1>3. CASE \E stage \in {"serve", "decide", "target", "lock"} :
             /\ Goes(q, stage)
             /\ stage = "decide" => request[q].op = "create"
             /\ stage \in {"target", "lock"} => request[q].op \in {"issue", "revoke", "delete"}
  <2>1. {"serve", "decide", "target", "lock"} \subseteq Stages
    BY DEF Stages
  <2>2. QED
    BY <1>1, <1>3, <2>1, GoneStaged
<1>4. QED
  BY <1>1, <1>2, <1>3, ResolvedEffect

\* What a load reads: the row of the principal, and then its secrets.
LEMMA LoadBeginEffect ==
    ASSUME TypeOK, Staged, NEW q \in Requests, LoadBegin(q)
    PROVE  /\ request' \in [Requests -> Request] /\ Others(q) /\ Staged'
           /\ \/ request[q].at = "caller" /\ request'[q].at \in {"readCaller", "loadCaller"}
              \/ request[q].at = "target" /\ request'[q].at \in {"readTarget", "loadTarget"}
           /\ request'[q].on = request[q].on /\ request'[q].by = request[q].by
           /\ request'[q].known = request[q].known
           /\ request'[q].seen = {}
<1> DEFINE there == principal[Subject(q)] = "there"
           stage == IF there THEN ReadOf(request[q].at) ELSE LoadOf(request[q].at)
<1>1. /\ \/ request[q].at = "caller" /\ stage \in {"readCaller", "loadCaller"}
         \/ request[q].at = "target" /\ stage \in {"readTarget", "loadTarget"}
      /\ stage \in Stages
  BY DEF LoadBegin, Looking, ReadOf, LoadOf, OfCaller, Stages
<1>2. there \in BOOLEAN
  OBVIOUS
<1>3. request' = [request EXCEPT ![q].at = IF there THEN ReadOf(@) ELSE LoadOf(@),
                                 ![q].found = there, ![q].seen = {}]
  BY DEF LoadBegin
<1> HIDE DEF there
<1>4. request' = [request EXCEPT ![q] = [request[q] EXCEPT !.at = stage, !.found = there, !.seen = {}]]
  BY <1>3 DEF TypeOK, Request
<1> HIDE DEF stage
<1>5. /\ request' \in [Requests -> Request] /\ Others(q)
      /\ request'[q].at = stage /\ request'[q].on = request[q].on /\ request'[q].by = request[q].by
      /\ request'[q].op = request[q].op /\ request'[q].arg = request[q].arg
      /\ request'[q].known = request[q].known /\ request'[q].seen = {}
  BY <1>1, <1>2, <1>4 DEF TypeOK, Request, Others
<1>6. Staged'
  BY <1>1, <1>5 DEF Staged, Others
<1>7. QED
  BY <1>1, <1>5, <1>6

LEMMA LoadSecretsEffect ==
    ASSUME TypeOK, Staged, NEW q \in Requests, LoadSecrets(q)
    PROVE  /\ request' \in [Requests -> Request] /\ Others(q) /\ Staged'
           /\ \/ request[q].at = "readCaller" /\ request'[q].at = "loadCaller"
              \/ request[q].at = "readTarget" /\ request'[q].at = "loadTarget"
           /\ request'[q].on = request[q].on /\ request'[q].by = request[q].by
           /\ request'[q].known = request[q].known
           /\ request'[q].seen = Stored(Subject(q))
<1> DEFINE seen == Stored(Subject(q))  stage == LoadOf(request[q].at)
<1>1. /\ \/ request[q].at = "readCaller" /\ stage = "loadCaller"
         \/ request[q].at = "readTarget" /\ stage = "loadTarget"
      /\ stage \in Stages
  BY DEF LoadSecrets, LoadOf, OfCaller, Stages
<1>2. seen \in SUBSET Secrets
  BY DEF Stored, SecretsOf
<1>3. request' = [request EXCEPT ![q].at = LoadOf(@), ![q].seen = seen]
  BY DEF LoadSecrets
<1> HIDE DEF seen
<1>4. request' = [request EXCEPT ![q] = [request[q] EXCEPT !.at = stage, !.seen = seen]]
  BY <1>3 DEF TypeOK, Request
<1> HIDE DEF stage
<1>5. /\ request' \in [Requests -> Request] /\ Others(q)
      /\ request'[q].at = stage /\ request'[q].on = request[q].on /\ request'[q].by = request[q].by
      /\ request'[q].op = request[q].op /\ request'[q].arg = request[q].arg
      /\ request'[q].known = request[q].known /\ request'[q].seen = seen
  BY <1>1, <1>2, <1>4 DEF TypeOK, Request, Others
<1>6. Staged'
  BY <1>1, <1>5 DEF Staged, Others
<1>7. QED
  BY <1>1, <1>5, <1>6 DEF seen

LEMMA AsksEffect ==
    ASSUME TypeOK, Staged, NEW q \in Requests, NEW r \in Replicas, NEW s \in Secrets, Ask(q, r, s)
    PROVE  /\ request' \in [Requests -> Request] /\ Others(q) /\ Staged'
           /\ request'[q].at = "caller" /\ request'[q].on = r /\ request'[q].by = s
           /\ request'[q].known <=> s \in answered[r]
           /\ request[q].at = "idle"
           /\ UNCHANGED <<rows, expired, cache, answered, faults>>
<1>1. PICK op \in Operations, arg \in Principals \cup Secrets \cup {None} :
        /\ Asks(q, r, s, op, arg)
        /\ op \in {"create", "delete"} => arg \in Principals
        /\ op \in {"issue", "revoke"} => arg \in Secrets
  BY DEF Ask, Operations
<1> DEFINE f == [Idle EXCEPT !.at = "caller", !.on = r, !.by = s, !.op = op, !.arg = arg,
                            !.known = s \in answered[r]]
<1>2. (s \in answered[r]) \in BOOLEAN
  OBVIOUS
<1>3. /\ f \in Request /\ f.at = "caller" /\ f.on = r /\ f.by = s /\ f.op = op /\ f.arg = arg
      /\ f.known <=> s \in answered[r]
  BY <1>2 DEF Idle, Request, Stages
<1>4. request' = [request EXCEPT ![q] = f]
  BY <1>1 DEF Asks
<1> HIDE DEF f
<1>5. request' \in [Requests -> Request] /\ Others(q) /\ request'[q] = f
  BY <1>3, <1>4 DEF TypeOK, Others
<1>6. request[q].at = "idle" /\ UNCHANGED <<rows, expired, cache, answered, faults>>
  BY <1>1 DEF Asks, At
<1>7. Staged'
  BY <1>1, <1>3, <1>5 DEF Staged, Others
<1>8. QED
  BY <1>3, <1>5, <1>6, <1>7

LEMMA ClaimBeginEffect ==
    ASSUME TypeOK, Staged, NEW q \in Requests, ClaimBegin(q)
    PROVE  /\ request' \in [Requests -> Request] /\ Others(q) /\ Staged'
           /\ request'[q].at = "claim" /\ request'[q].known = request[q].known
           /\ request'[q].on = request[q].on /\ request'[q].by = request[q].by
           /\ request'[q].found <=> RootsThere # {}
           /\ request[q].at = "idle" /\ \A o \in Requests : request[o].at # "claim"
           /\ UNCHANGED <<rows, expired, cache, answered, faults>>
<1> DEFINE found == RootsThere # {}
<1>1. request' = [request EXCEPT ![q].at = "claim", ![q].found = found]
  BY DEF ClaimBegin
<1>2. found \in BOOLEAN
  OBVIOUS
<1> HIDE DEF found
<1>3. /\ request' \in [Requests -> Request] /\ Others(q)
      /\ request'[q].at = "claim" /\ request'[q].known = request[q].known
      /\ request'[q].on = request[q].on /\ request'[q].by = request[q].by
      /\ request'[q].found = found
  <2>1. request' = [request EXCEPT ![q] = [request[q] EXCEPT !.at = "claim", !.found = found]]
    BY <1>1 DEF TypeOK, Request
  <2>2. "claim" \in Stages
    BY DEF Stages
  <2> DEFINE k == request[q]  f == [k EXCEPT !.at = "claim", !.found = found]
  <2>3. k \in Request
    BY DEF TypeOK
  <2>4. /\ f \in Request /\ f.at = "claim" /\ f.known = k.known
        /\ f.on = k.on /\ f.by = k.by /\ f.found = found
    BY <1>2, <2>2, <2>3 DEF Request
  <2> HIDE DEF f
  <2>5. QED
    BY <2>1, <2>4 DEF TypeOK, Others, f
<1>4. /\ request[q].at = "idle" /\ \A o \in Requests : request[o].at # "claim"
      /\ UNCHANGED <<rows, expired, cache, answered, faults>>
  BY DEF ClaimBegin, At
<1>5. Staged'
  BY <1>3 DEF Staged, Others
<1>6. QED
  BY <1>3, <1>4, <1>5 DEF found

\* The row is locked, and read, or the target is not there.
LEMMA LockEffect ==
    ASSUME TypeOK, Staged, NEW q \in Requests, Lock(q)
    PROVE  /\ request' \in [Requests -> Request] /\ Others(q) /\ Staged'
           /\ request[q].at = "lock" /\ ~ RowLocked(Target(q))
           /\ UNCHANGED <<rows, expired, cache, answered, faults>>
           /\ \/ request'[q] = Idle
              \/ /\ principal[Target(q)] = "there"
                 /\ request'[q].at \in {"count", "decide"}
                 /\ request'[q].at = "decide" => ~ (request[q].op = "delete" /\ Target(q) \in Roots)
                 /\ request'[q].op = request[q].op /\ request'[q].arg = request[q].arg
                 /\ request'[q].on = request[q].on /\ request'[q].by = request[q].by
                 /\ request'[q].known = request[q].known
                 /\ request'[q].seen = Stored(Target(q))
<1>1. /\ request[q].at = "lock" /\ ~ RowLocked(Target(q))
      /\ UNCHANGED <<rows, expired, cache, answered, faults>>
  BY DEF Lock, At
<1>2. request[q].op \in {"issue", "revoke", "delete"}
  BY <1>1 DEF Staged
<1>3. CASE principal[Target(q)] # "there"
  <2>1. Ends(q)
    BY <1>3 DEF Lock
  <2>2. QED
    BY <1>1, <2>1, IdleStaged, EndsEffect
<1>4. CASE principal[Target(q)] = "there"
  <2> DEFINE stage == IF request[q].op = "delete" /\ Target(q) \in Roots THEN "count" ELSE "decide"
             seen == Stored(Target(q))
  <2>1. request' = [request EXCEPT ![q].at = stage, ![q].seen = seen, ![q].found = TRUE]
    BY <1>4 DEF Lock
  <2>2. /\ stage \in {"count", "decide"} /\ stage \in Stages
        /\ stage = "count" => request[q].op = "delete"
        /\ stage = "decide" => ~ (request[q].op = "delete" /\ Target(q) \in Roots)
        /\ seen \in SUBSET Secrets
    BY DEF Stages, Stored, SecretsOf
  <2> HIDE DEF stage, seen
  <2>3. /\ request' \in [Requests -> Request] /\ Others(q)
        /\ request'[q].at = stage /\ request'[q].seen = seen
        /\ request'[q].op = request[q].op /\ request'[q].arg = request[q].arg
        /\ request'[q].on = request[q].on /\ request'[q].by = request[q].by
        /\ request'[q].known = request[q].known
    <3>1. request' = [request EXCEPT ![q] = [request[q] EXCEPT !.at = stage, !.seen = seen, !.found = TRUE]]
      BY <2>1 DEF TypeOK, Request
    <3>2. QED
      BY <2>2, <3>1 DEF TypeOK, Request, Others
  <2>4. Staged'
    BY <1>1, <1>2, <2>2, <2>3 DEF Staged, Others
  <2>5. QED
    BY <1>1, <1>4, <2>2, <2>3, <2>4 DEF seen
<1>5. QED
  BY <1>3, <1>4

LEMMA CountEffect ==
    ASSUME TypeOK, Staged, NEW q \in Requests, Count(q)
    PROVE  /\ request' \in [Requests -> Request] /\ Others(q) /\ Staged'
           /\ request[q].at = "count" /\ ~ Deleting
           /\ UNCHANGED <<rows, expired, cache, answered, faults>>
           /\ request'[q].at = "decide"
           /\ request'[q].op = request[q].op /\ request'[q].arg = request[q].arg
           /\ request'[q].on = request[q].on /\ request'[q].by = request[q].by
           /\ request'[q].known = request[q].known /\ request'[q].seen = request[q].seen
           /\ request'[q].found <=> Cardinality(RootsThere) > 1
<1> DEFINE found == Cardinality(RootsThere) > 1
<1>1. /\ request[q].at = "count" /\ ~ Deleting
      /\ UNCHANGED <<rows, expired, cache, answered, faults>>
      /\ request' = [request EXCEPT ![q].at = "decide", ![q].found = found]
  BY DEF Count, At
<1>2. found \in BOOLEAN
  OBVIOUS
<1> HIDE DEF found
<1>3. /\ request' \in [Requests -> Request] /\ Others(q)
      /\ request'[q].at = "decide"
      /\ request'[q].op = request[q].op /\ request'[q].arg = request[q].arg
      /\ request'[q].on = request[q].on /\ request'[q].by = request[q].by
      /\ request'[q].known = request[q].known /\ request'[q].seen = request[q].seen
      /\ request'[q].found = found
  BY <1>1, <1>2 DEF TypeOK, Request, Stages, Others
<1>4. Staged'
  BY <1>1, <1>3 DEF Staged, Others
<1>5. QED
  BY <1>1, <1>3, <1>4 DEF found
\* A transaction that is refused changes nothing; one that commits goes on to
\* the eviction, or its answer is lost.
LEMMA DecideEffect ==
    ASSUME TypeOK, Staged, NEW q \in Requests, Decide(q)
    PROVE  /\ request' \in [Requests -> Request] /\ Others(q) /\ Staged'
           /\ request[q].at = "decide" /\ request[q].op \in {"create", "issue", "revoke", "delete"}
           /\ UNCHANGED <<expired, cache, answered>> /\ faults' \in 0 .. MaxFaults
           /\ \/ request'[q] = Idle
              \/ request'[q].at = "evict" /\ request'[q].known = request[q].known
                 /\ request'[q].on = request[q].on /\ request'[q].by = request[q].by
           /\ UNCHANGED rows \/ (Applies(q) /\ Writes(q))
<1>1. request[q].at = "decide" /\ UNCHANGED <<expired, cache, answered>>
  BY DEF Decide, At
<1>2. request[q].op \in {"create", "issue", "revoke", "delete"}
  BY <1>1 DEF Staged, Operations
<1>3. UNCHANGED rows \/ (Applies(q) /\ Writes(q))
  BY DEF Decide
<1>4. faults' \in 0 .. MaxFaults
  BY IdentityAssumption DEF Decide, Fault, TypeOK
<1>5. CASE Ends(q)
  BY <1>1, <1>2, <1>3, <1>4, <1>5, IdleStaged, EndsEffect
<1>6. CASE Goes(q, "evict") /\ request[q].op # "create"
  <2>1. "evict" \in Stages
    BY DEF Stages
  <2>2. request' \in [Requests -> Request] /\ Staged'
    BY <1>1, <1>2, <1>6, <2>1, GoneStaged
  <2>3. Others(q) /\ request'[q].at = "evict" /\ request'[q].known = request[q].known
        /\ request'[q].on = request[q].on /\ request'[q].by = request[q].by
    BY <1>6, <2>1, GoesEffect
  <2>4. QED
    BY <1>1, <1>2, <1>3, <1>4, <2>2, <2>3
<1>7. QED
  BY <1>5, <1>6 DEF Decide

\* What each transaction writes.
LEMMA WritesEffect ==
    ASSUME TypeOK, NEW q \in Requests, Applies(q), Writes(q),
           request[q].op \in {"create", "issue", "revoke", "delete"}
    PROVE  LET arg == request[q].arg IN
           /\ UNCHANGED claims
           /\ \/ /\ request[q].op = "create" /\ principal[arg] = "none"
                 /\ principal' = [principal EXCEPT ![arg] = "there"] /\ UNCHANGED secret
              \/ /\ request[q].op = "issue" /\ MayIssue(q) /\ UNCHANGED principal
                 /\ secret' = [secret EXCEPT ![arg] = "stored"]
              \/ /\ request[q].op = "revoke" /\ MayRevoke(q) /\ UNCHANGED principal
                 /\ secret' = [secret EXCEPT ![arg] = "gone"]
              \/ /\ request[q].op = "delete" /\ request[q].found
                 /\ principal' = [principal EXCEPT ![arg] = "gone"]
                 /\ secret' = [s \in Secrets |-> IF s \in Stored(arg) THEN "gone" ELSE secret[s]]
<1>1. CASE request[q].op = "create"
  BY <1>1 DEF Applies, Writes
<1>2. CASE request[q].op = "issue"
  BY <1>2 DEF Applies, Writes
<1>3. CASE request[q].op = "revoke"
  BY <1>3 DEF Applies, Writes
<1>4. CASE request[q].op = "delete"
  BY <1>4 DEF Applies, Writes
<1>5. QED
  BY <1>1, <1>2, <1>3, <1>4

\* A root begins with a permanent secret of its own.
LEMMA BootstrapsEffect ==
    ASSUME TypeOK, NEW p \in Principals, NEW s \in Secrets, Bootstraps(p, s)
    PROVE  /\ p \in Roots /\ principal[p] = "none" /\ Owner[s] = p /\ s \in Permanent
           /\ principal' = [principal EXCEPT ![p] = "there"]
           /\ secret' = [secret EXCEPT ![s] = "stored"]
  BY DEF Bootstraps, SecretsOf

LEMMA ClaimEndEffect ==
    ASSUME TypeOK, Staged, NEW q \in Requests, ClaimEnd(q)
    PROVE  /\ request' \in [Requests -> Request] /\ Others(q) /\ Staged'
           /\ request[q].at = "claim" /\ request'[q] = Idle
           /\ UNCHANGED <<expired, cache, answered, faults>>
           /\ \/ UNCHANGED rows
              \/ /\ ~ request[q].found /\ claims' = claims + 1
                 /\ \E p \in Principals, s \in Secrets : Bootstraps(p, s)
  BY IdleStaged, EndsEffect DEF ClaimEnd, At

LEMMA EvictEffect ==
    ASSUME TypeOK, Staged, NEW q \in Requests, Evict(q)
    PROVE  /\ request' \in [Requests -> Request] /\ Others(q) /\ Staged'
           /\ request[q].at = "evict" /\ request'[q] = Idle
           /\ request[q].on \in Replicas /\ Target(q) \in Principals
           /\ ~ Loading(request[q].on)
           /\ UNCHANGED <<rows, expired, faults>>
           /\ cache' = [cache EXCEPT ![request[q].on][Target(q)] = NoEntry]
           /\ answered' = [answered EXCEPT ![request[q].on] =
                  answered[request[q].on] \cup {s \in SecretsOf(Target(q)) : secret[s] = "gone"}]
<1>1. request[q].at = "evict" /\ Ends(q)
  BY DEF Evict, At
<1>2. request[q].on \in Replicas /\ request[q].op # "use"
  BY <1>1 DEF Staged
<1>3. Target(q) \in Principals
  BY <1>1, <1>2, SubjectFacts
<1>4. QED
  BY <1>1, <1>2, <1>3, IdleStaged, EndsEffect DEF Evict

LEMMA CrashEffect ==
    ASSUME TypeOK, Staged, NEW r \in Replicas, Crash(r)
    PROVE  /\ request' \in [Requests -> Request] /\ Staged' /\ faults' \in 0 .. MaxFaults
           /\ \A q \in Requests : request'[q] = Idle \/ request'[q] = request[q]
           /\ \A q \in Requests : request[q].on # r => request'[q] = request[q]
           /\ cache' = [cache EXCEPT ![r] = [p \in Principals |-> NoEntry]]
           /\ UNCHANGED <<rows, expired, answered>>
<1>1. request' = [q \in Requests |-> IF request[q].on = r THEN Idle ELSE request[q]]
  BY DEF Crash
<1>2. request' \in [Requests -> Request]
  BY <1>1, IdleFacts DEF TypeOK
<1>3. Staged'
  BY <1>1, IdleFacts DEF Staged
<1>4. QED
  BY <1>1, <1>2, <1>3, IdentityAssumption DEF Crash, Fault, TypeOK

\* One entry of one cache is replaced.
LEMMA CacheEffect ==
    ASSUME TypeOK, NEW r \in Replicas, NEW p \in Principals, NEW entry \in Entry,
           cache' = [cache EXCEPT ![r][p] = entry]
    PROVE  /\ cache' \in [Replicas -> [Principals -> Entry]]
           /\ \A t \in Replicas, x \in Principals :
                 cache'[t][x] = IF t = r /\ x = p THEN entry ELSE cache[t][x]
<1>1. cache \in [Replicas -> [Principals -> Entry]]
  BY DEF TypeOK
<1> DEFINE row == [cache[r] EXCEPT ![p] = entry]
<1>2. row \in [Principals -> Entry] /\ \A x \in Principals : row[x] = IF x = p THEN entry ELSE cache[r][x]
  BY <1>1
<1>3. cache' = [cache EXCEPT ![r] = row]
  OBVIOUS
<1> HIDE DEF row
<1>4. QED
  BY <1>1, <1>2, <1>3

\* Every step keeps the types and the stages.
LEMMA NextTypes ==
    ASSUME TypeOK, Staged, [Next]_vars
    PROVE  TypeOK' /\ Staged'
<1>0. NoEntry \in Entry
  BY DEF NoEntry, Entry
<1>1. ASSUME UNCHANGED <<rows, expired, cache, answered, faults>>, request' \in [Requests -> Request]
      PROVE  TypeOK'
  BY <1>1 DEF TypeOK, rows
<1>2. ASSUME NEW q \in Requests,
             \/ ClaimBegin(q) \/ LoadBegin(q) \/ LoadSecrets(q) \/ Lock(q) \/ Count(q)
             \/ \E r \in Replicas, s \in Secrets : Ask(q, r, s)
      PROVE  TypeOK' /\ Staged'
  BY <1>1, <1>2, ClaimBeginEffect, LoadBeginEffect, LoadSecretsEffect, LockEffect, CountEffect,
     AsksEffect DEF LoadBegin, LoadSecrets
<1>3. ASSUME NEW q \in Requests, Hit(q) PROVE TypeOK' /\ Staged'
  BY <1>1, <1>3, ResolvedTypes DEF Hit
<1>4. ASSUME NEW q \in Requests, LoadEnd(q) PROVE TypeOK' /\ Staged'
  <2>1. request[q].at \notin {"idle", "claim"} /\ request[q].at \in {"loadCaller", "loadTarget"}
    BY <1>4 DEF LoadEnd
  <2>2. Subject(q) \in Principals /\ request[q].on \in Replicas
    BY <2>1, SubjectFacts DEF Staged, OfCaller
  <2> DEFINE entry == [fresh |-> TRUE, holds |-> request[q].seen]
  <2>3. entry \in Entry
    BY DEF TypeOK, Request, Entry
  <2>4. \/ cache' = cache
        \/ cache' = [cache EXCEPT ![request[q].on][Subject(q)] = entry]
    BY <1>4 DEF LoadEnd
  <2> HIDE DEF entry
  <2>5. cache' \in [Replicas -> [Principals -> Entry]]
    BY <2>2, <2>3, <2>4, CacheEffect DEF TypeOK
  <2>6. QED
    BY <1>4, <2>5, ResolvedTypes DEF LoadEnd, TypeOK, rows
<1>5. ASSUME NEW q \in Requests, Serve(q) PROVE TypeOK' /\ Staged'
  BY <1>1, <1>5, IdleStaged DEF Serve
<1>6. ASSUME NEW p \in Principals, NEW s \in Secrets, Bootstraps(p, s)
      PROVE  principal' \in [Principals -> {"none", "there", "gone"}]
             /\ secret' \in [Secrets -> {"unissued", "stored", "gone"}]
  <2>1. /\ principal \in [Principals -> {"none", "there", "gone"}]
        /\ secret \in [Secrets -> {"unissued", "stored", "gone"}]
    BY DEF TypeOK
  <2>2. /\ principal' = [principal EXCEPT ![p] = "there"]
        /\ secret' = [secret EXCEPT ![s] = "stored"]
    BY <1>6, BootstrapsEffect
  <2>3. QED
    BY <2>1, <2>2
<1>7. ASSUME NEW q \in Requests, ClaimEnd(q) PROVE TypeOK' /\ Staged'
  BY <1>6, <1>7, ClaimEndEffect DEF TypeOK, rows
<1>8. CASE Recover
  BY <1>6, <1>8 DEF Recover, TypeOK, Staged
<1>9. ASSUME NEW q \in Requests, Decide(q) PROVE TypeOK' /\ Staged'
  <2>1. CASE UNCHANGED rows
    BY <1>9, <2>1, DecideEffect DEF TypeOK, rows
  <2>2. CASE Applies(q) /\ Writes(q)
    <3>1. request[q].op \in {"create", "issue", "revoke", "delete"}
      BY <1>9, DecideEffect
    <3>2. /\ principal' \in [Principals -> {"none", "there", "gone"}]
          /\ secret' \in [Secrets -> {"unissued", "stored", "gone"}] /\ UNCHANGED claims
      BY <2>2, <3>1, WritesEffect DEF TypeOK
    <3>3. QED
      BY <1>9, <3>2, DecideEffect DEF TypeOK
  <2>3. QED
    BY <1>9, <2>1, <2>2, DecideEffect
<1>10. ASSUME NEW q \in Requests, Evict(q) PROVE TypeOK' /\ Staged'
  <2>1. cache' \in [Replicas -> [Principals -> Entry]] /\ answered' \in [Replicas -> SUBSET Secrets]
    <3>1. cache' \in [Replicas -> [Principals -> Entry]]
      BY <1>0, <1>10, EvictEffect, CacheEffect
    <3>2. answered \in [Replicas -> SUBSET Secrets] /\ request[q].on \in Replicas
      BY <1>10, EvictEffect DEF TypeOK
    <3>3. answered' = [answered EXCEPT ![request[q].on] =
                  answered[request[q].on] \cup {s \in SecretsOf(Target(q)) : secret[s] = "gone"}]
      BY <1>10, EvictEffect
    <3>4. {s \in SecretsOf(Target(q)) : secret[s] = "gone"} \subseteq Secrets
      BY DEF SecretsOf
    <3>5. answered' \in [Replicas -> SUBSET Secrets]
      BY <3>2, <3>3, <3>4
    <3>6. QED
      BY <3>1, <3>5
  <2>2. QED
    BY <1>10, <2>1, EvictEffect DEF TypeOK, rows
<1>11. ASSUME NEW r \in Replicas, Crash(r) PROVE TypeOK' /\ Staged'
  <2>1. cache' \in [Replicas -> [Principals -> Entry]]
    BY <1>0, <1>11, CrashEffect DEF TypeOK
  <2>2. QED
    BY <1>11, <2>1, CrashEffect DEF TypeOK, rows
<1>12. ASSUME NEW r \in Replicas, NEW p \in Principals, Age(r, p) PROVE TypeOK' /\ Staged'
  <2>1. cache' \in [Replicas -> [Principals -> Entry]]
    BY <1>0, <1>12, CacheEffect DEF Age
  <2>2. QED
    BY <1>12, <2>1 DEF Age, TypeOK, Staged, rows
<1>13. ASSUME NEW s \in Secrets, Expire(s) PROVE TypeOK' /\ Staged'
  BY <1>13 DEF Expire, TypeOK, Staged, rows
<1>14. CASE UNCHANGED vars
  BY <1>14 DEF vars, TypeOK, Staged, rows
<1>15. QED
  BY <1>2, <1>3, <1>4, <1>5, <1>7, <1>8, <1>9, <1>10, <1>11, <1>12, <1>13, <1>14 DEF Next, Step
-----------------------------------------------------------------------------
(* The rows *)

\* A request that holds no row and claims nothing.
Calm(q) == /\ request[q].at \notin {"count", "claim"}
           /\ request[q].at = "decide" => request[q].op = "create"

LEMMA HoldingFacts ==
    ASSUME TypeOK, Staged, NEW q \in Requests, Holding(q)
    PROVE  Target(q) \in Principals
<1>1. request[q].at \notin {"idle", "claim"} /\ request[q].op # "use"
  BY DEF Holding, Staged
<1>2. QED
  BY <1>1, SubjectFacts

\* Those who hold a row still know it when another one is written.
LEMMA HeldKept ==
    ASSUME TypeOK, Staged, Held, NEW t,
           \A x \in Principals : x # t => principal'[x] = principal[x] /\ Stored(x)' = Stored(x),
           \A q \in Requests : \/ request'[q] = request[q] /\ (Holding(q) => Target(q) # t)
                               \/ Calm(q)'
    PROVE  Held'
<1>1. ASSUME NEW q \in Requests, Holding(q)'
      PROVE  /\ request'[q] = request[q] /\ Holding(q) /\ Target(q) # t
             /\ Target(q)' = Target(q) /\ Target(q) \in Principals
  <2>1. ~ Calm(q)'
    BY <1>1 DEF Holding, Calm
  <2>2. request'[q] = request[q] /\ (Holding(q) => Target(q) # t)
    BY <2>1
  <2>3. Holding(q) /\ Target(q)' = Target(q)
    BY <1>1, <2>2 DEF Holding, Target
  <2>4. QED
    BY <2>2, <2>3, HoldingFacts
<1>2. ASSUME NEW q \in Requests, Holding(q)'
      PROVE  principal'[Target(q)'] = "there" /\ request'[q].seen = Stored(Target(q))'
  <2> DEFINE x == Target(q)
  <2>1. /\ request'[q] = request[q] /\ Holding(q) /\ x # t /\ Target(q)' = x /\ x \in Principals
    BY <1>1, <1>2
  <2>2. principal[x] = "there" /\ request[q].seen = Stored(x)
    BY <2>1 DEF Held
  <2>3. Stored(Target(q))' = {s \in {u \in Secrets : Owner[u] = Target(q)'} : secret'[s] = "stored"}
    BY DEF Stored, SecretsOf
  <2> HIDE DEF x
  <2>4. principal'[x] = principal[x] /\ {s \in {u \in Secrets : Owner[u] = x} : secret'[s] = "stored"} = Stored(x)
    BY <2>1 DEF Stored, SecretsOf
  <2>5. QED
    BY <2>1, <2>2, <2>3, <2>4
<1>3. ASSUME NEW q \in Requests, NEW o \in Requests, Holding(q)', Holding(o)', Target(q)' = Target(o)'
      PROVE  q = o
  BY <1>1, <1>3 DEF Held
<1>4. QED
  BY <1>2, <1>3 DEF Held

\* A step that writes no row, where no secret comes back to life.
LEMMA QuietRows ==
    ASSUME TypeOK, Staged, Rows, UNCHANGED rows, expired \subseteq expired',
           \A q \in Requests : request'[q] = request[q] \/ Calm(q)'
    PROVE  Rows'
<1>1. UNCHANGED <<principal, secret, claims>>
  BY DEF rows
<1>2. \A p \in Principals : Stored(p)' = Stored(p)
  BY <1>1 DEF Stored, SecretsOf
<1>3. RootsThere' = RootsThere
  BY <1>1 DEF RootsThere
<1>4. Held'
  <2> DEFINE t == CHOOSE x : x \notin Principals
  <2>1. t \notin Principals
    BY NoSetContainsEverything
  <2> HIDE DEF t
  <2>2. QED
    BY <1>1, <1>2, <2>1, HeldKept, HoldingFacts DEF Rows
<1>5. Unissued' /\ RootsKeepKey' /\ ClaimedOnce'
  BY <1>1, <1>2, <1>3 DEF Rows, Unissued, RootsKeepKey, ClaimedOnce, SecretsOf, Stored
<1>6. Capped'
  <2>1. SUFFICES ASSUME NEW p \in Principals
                 PROVE  IsFiniteSet(Stored(p)') /\ Cardinality(Usable(Stored(p))') <= MaxActiveSecrets
    BY DEF Capped
  <2> DEFINE old == Usable(Stored(p))  new == Stored(p) \ expired'
  <2>2. IsFiniteSet(Stored(p)) /\ Cardinality(old) <= MaxActiveSecrets
    BY DEF Rows, Capped
  <2>3. Usable(Stored(p))' = new
    BY <1>2 DEF Usable
  <2>4. new \subseteq old /\ old \subseteq Stored(p)
    BY DEF Usable
  <2> HIDE DEF old, new
  <2>5. /\ IsFiniteSet(old) /\ IsFiniteSet(new) /\ Cardinality(new) <= Cardinality(old)
        /\ Cardinality(old) \in Nat /\ Cardinality(new) \in Nat
    BY <2>2, <2>4, FS_Subset, FS_CardinalityType
  <2>6. QED
    BY <1>2, <2>2, <2>3, <2>5, IdentityAssumption
<1>7. Doors'
  <2>1. ASSUME NEW q \in Requests
        PROVE  /\ Removing(q)' => request'[q] = request[q] /\ Removing(q) /\ Target(q)' = Target(q)
               /\ At(q, "claim")' => request'[q] = request[q] /\ At(q, "claim")
    <3>1. Removing(q)' \/ At(q, "claim")' => ~ Calm(q)'
      BY DEF Removing, Calm, At
    <3>2. request'[q] = request[q] => /\ (Removing(q)' => Removing(q)) /\ Target(q)' = Target(q)
                                      /\ (At(q, "claim")' => At(q, "claim"))
      BY DEF Removing, At, Target
    <3>3. QED
      BY <3>1, <3>2
  <2>2. QED
    BY <1>1, <1>3, <2>1 DEF Rows, Doors
<1>8. QED
  BY <1>4, <1>5, <1>6, <1>7 DEF Rows
\* One more secret of a principal, as many as there were at most.
LEMMA OneMore ==
    ASSUME NEW S, IsFiniteSet(S), NEW e, NEW N \in Nat, NEW T,
           Cardinality(S) < N, T \subseteq S \cup {e}
    PROVE  IsFiniteSet(T) /\ Cardinality(T) <= N
<1>1. IsFiniteSet(S \cup {e}) /\ Cardinality(S \cup {e}) <= Cardinality(S) + 1
  <2>1. /\ IsFiniteSet(S \cup {e})
        /\ Cardinality(S \cup {e}) = IF e \in S THEN Cardinality(S) ELSE Cardinality(S) + 1
    BY FS_AddElement
  <2>2. Cardinality(S) \in Nat
    BY FS_CardinalityType
  <2>3. QED
    BY <2>1, <2>2
<1>2. IsFiniteSet(T) /\ Cardinality(T) <= Cardinality(S \cup {e})
  BY <1>1, FS_Subset
<1>3. Cardinality(S) \in Nat /\ Cardinality(T) \in Nat /\ Cardinality(S \cup {e}) \in Nat
  BY <1>1, <1>2, FS_CardinalityType
<1>4. QED
  BY <1>1, <1>2, <1>3

\* The first root of a claim, or another one of a recovery.
LEMMA BootRows ==
    ASSUME TypeOK, Staged, Rows, NEW p \in Principals, NEW s \in Secrets, Bootstraps(p, s),
           UNCHANGED expired,
           \A q \in Requests : request'[q] = request[q] \/ Calm(q)',
           \/ claims' = claims /\ claims > 0
           \/ claims' = claims + 1 /\ claims = 0 /\ \A q \in Requests : ~ At(q, "claim")'
    PROVE  Rows'
<1>1. /\ p \in Roots /\ principal[p] = "none" /\ Owner[s] = p /\ s \in Permanent
      /\ \A x \in Principals : principal'[x] = IF x = p THEN "there" ELSE principal[x]
      /\ \A x \in Secrets : secret'[x] = IF x = s THEN "stored" ELSE secret[x]
  BY BootstrapsEffect DEF TypeOK
<1>2. \A x \in Secrets : Owner[x] = p => secret[x] = "unissued"
  BY <1>1 DEF Rows, Unissued, SecretsOf
<1>3. /\ \A x \in Principals : x # p => Stored(x)' = Stored(x)
      /\ Stored(p)' = {s} /\ Stored(p) = {}
  BY <1>1, <1>2 DEF Stored, SecretsOf
<1>4. RootsThere' = RootsThere \cup {p}
  BY <1>1, IdentityAssumption DEF RootsThere
<1>5. Held'
  <2>1. \A q \in Requests : Holding(q) => Target(q) # p
    BY <1>1 DEF Rows, Held
  <2>2. QED
    BY <1>1, <1>3, <2>1, HeldKept DEF Rows
<1>6. Unissued'
  BY <1>1 DEF Rows, Unissued, SecretsOf
<1>7. RootsKeepKey'
  <2>1. SUFFICES ASSUME NEW x \in RootsThere', \E u \in SecretsOf(x) : secret'[u] # "unissued"
                 PROVE  Stored(x)' \cap Permanent # {}
    BY DEF RootsKeepKey, SecretsOf
  <2>2. CASE x = p
    BY <1>1, <1>3, <2>2
  <2>3. CASE x # p
    <3>1. x \in RootsThere /\ x \in Principals
      BY <1>4, <2>1, <2>3, IdentityAssumption DEF RootsThere
    <3>2. \E u \in SecretsOf(x) : secret[u] # "unissued"
      BY <1>1, <2>1, <2>3 DEF SecretsOf
    <3>3. QED
      BY <1>3, <2>3, <3>1, <3>2 DEF Rows, RootsKeepKey
  <2>4. QED
    BY <2>2, <2>3
<1>8. Capped'
  <2>1. ASSUME NEW x \in Principals
        PROVE  IsFiniteSet(Stored(x)') /\ Cardinality(Stored(x)' \ expired) <= MaxActiveSecrets
    <3>1. CASE x # p
      BY <1>3, <3>1 DEF Rows, Capped, Usable
    <3>2. CASE x = p
      <4>1. IsFiniteSet({}) /\ Cardinality({}) = 0
        BY FS_EmptySet
      <4>2. /\ IsFiniteSet({s}) /\ Cardinality({s} \ expired) <= MaxActiveSecrets
        BY <4>1, OneMore, FS_Singleton, IdentityAssumption
      <4>3. QED
        BY <1>3, <3>2, <4>2
    <3>3. QED
      BY <3>1, <3>2
  <2>2. QED
    BY <2>1 DEF Capped, Usable
<1>9. Doors' /\ ClaimedOnce'
  <2>1. ASSUME NEW q \in Requests
        PROVE  /\ Removing(q)' => request'[q] = request[q] /\ Removing(q) /\ Target(q)' = Target(q)
               /\ At(q, "claim")' => request'[q] = request[q] /\ At(q, "claim")
    <3>1. Removing(q)' \/ At(q, "claim")' => ~ Calm(q)'
      BY DEF Removing, Calm, At
    <3>2. request'[q] = request[q] => /\ (Removing(q)' => Removing(q)) /\ Target(q)' = Target(q)
                                      /\ (At(q, "claim")' => At(q, "claim"))
      BY DEF Removing, At, Target
    <3>3. QED
      BY <3>1, <3>2
  <2>2. Doors'
    BY <1>4, <2>1 DEF Rows, Doors
  <2>3. ClaimedOnce'
    BY <1>4 DEF Rows, ClaimedOnce
  <2>4. QED
    BY <2>2, <2>3
<1>10. QED
  BY <1>5, <1>6, <1>7, <1>8, <1>9 DEF Rows

\* A claim is decided under the table lock, before any other.
LEMMA ClaimBeginRows ==
    ASSUME TypeOK, Staged, Rows, NEW q \in Requests, ClaimBegin(q)
    PROVE  Rows'
<1>1. /\ Others(q) /\ request'[q].at = "claim" /\ request[q].at = "idle"
      /\ request'[q].found <=> RootsThere # {}
      /\ \A o \in Requests : request[o].at # "claim"
      /\ UNCHANGED <<principal, secret, claims, expired>>
  BY ClaimBeginEffect DEF rows
<1>2. ~ Holding(q) /\ ~ Holding(q)' /\ ~ Removing(q)'
  BY <1>1 DEF Holding, Removing, At
<1>3. \A x \in Principals : Stored(x)' = Stored(x)
  BY <1>1 DEF Stored, SecretsOf
<1>4. RootsThere' = RootsThere
  BY <1>1 DEF RootsThere
<1>5. \A o \in Requests : o # q => /\ request'[o] = request[o] /\ Target(o)' = Target(o)
                                   /\ (Holding(o)' <=> Holding(o)) /\ (Removing(o)' <=> Removing(o))
  BY <1>1 DEF Others, Holding, Target, Removing, At
<1>6. Held'
  <2>1. \A o \in Requests : Holding(o)' =>
            principal'[Target(o)'] = "there" /\ request'[o].seen = {s \in {u \in Secrets : Owner[u] = Target(o)'} : secret'[s] = "stored"}
    BY <1>1, <1>2, <1>5 DEF Rows, Held, Stored, SecretsOf
  <2>2. \A o, x \in Requests : Holding(o)' /\ Holding(x)' /\ Target(o)' = Target(x)' => o = x
    BY <1>2, <1>5 DEF Rows, Held
  <2>3. QED
    BY <2>1, <2>2 DEF Held, Stored, SecretsOf
<1>7. Unissued' /\ RootsKeepKey' /\ Capped' /\ ClaimedOnce'
  BY <1>1, <1>3, <1>4 DEF Rows, Unissued, RootsKeepKey, Capped, ClaimedOnce, SecretsOf, Stored, Usable
<1>8. Doors'
  <2>1. ~ request'[q].found => claims = 0
    BY <1>1 DEF Rows, ClaimedOnce, TypeOK
  <2>2. \A o \in Requests : At(o, "claim")' => o = q
    BY <1>1, <1>5 DEF At
  <2>3. QED
    BY <1>1, <1>2, <1>4, <1>5, <2>1, <2>2 DEF Rows, Doors
<1>9. QED
  BY <1>6, <1>7, <1>8 DEF Rows
\* The row is locked by one request at a time.
LEMMA LockRows ==
    ASSUME TypeOK, Staged, Rows, NEW q \in Requests, Lock(q)
    PROVE  Rows'
<1>1. /\ Others(q) /\ request[q].at = "lock" /\ ~ RowLocked(Target(q))
      /\ UNCHANGED <<rows, expired>>
  BY LockEffect
<1>2. CASE request'[q] = Idle
  BY <1>1, <1>2, IdleFacts, QuietRows DEF Others, Calm
<1>3. CASE /\ principal[Target(q)] = "there"
           /\ request'[q].at \in {"count", "decide"}
           /\ request'[q].at = "decide" => ~ (request[q].op = "delete" /\ Target(q) \in Roots)
           /\ request'[q].op = request[q].op /\ request'[q].arg = request[q].arg
           /\ request'[q].seen = Stored(Target(q))
  <2>1. UNCHANGED <<principal, secret, claims, expired>>
    BY <1>1 DEF rows
  <2>2. Target(q)' = Target(q) /\ ~ Removing(q)' /\ ~ At(q, "claim")'
    BY <1>3 DEF Target, Removing, At
  <2>3. \A o \in Requests : o # q =>
            /\ request'[o] = request[o] /\ Target(o)' = Target(o)
            /\ (Holding(o)' <=> Holding(o)) /\ (Removing(o)' <=> Removing(o))
            /\ (At(o, "claim")' <=> At(o, "claim"))
    BY <1>1 DEF Others, Holding, Target, Removing, At
  <2>4. \A o \in Requests : o # q => ~ (Holding(o) /\ Target(o) = Target(q))
    BY <1>1 DEF RowLocked, Holding
  <2>5. Held'
    <3>1. \A o \in Requests : Holding(o)' =>
              principal'[Target(o)'] = "there" /\ request'[o].seen = {s \in {u \in Secrets : Owner[u] = Target(o)'} : secret'[s] = "stored"}
      BY <1>3, <2>1, <2>2, <2>3 DEF Rows, Held, Stored, SecretsOf
    <3>2. \A o, x \in Requests : Holding(o)' /\ Holding(x)' /\ Target(o)' = Target(x)' => o = x
      BY <2>2, <2>3, <2>4 DEF Rows, Held
    <3>3. QED
      BY <3>1, <3>2 DEF Held, Stored, SecretsOf
  <2>6. Unissued' /\ RootsKeepKey' /\ Capped' /\ ClaimedOnce'
    BY <2>1 DEF Rows, Unissued, RootsKeepKey, Capped, ClaimedOnce, SecretsOf, Stored, Usable, RootsThere
  <2>7. RootsThere' = RootsThere
    BY <2>1 DEF RootsThere
  <2>8. Doors'
    BY <2>1, <2>2, <2>3, <2>7 DEF Rows, Doors
  <2>9. QED
    BY <2>5, <2>6, <2>8 DEF Rows
<1>4. QED
  BY <1>2, <1>3, LockEffect

\* Where there are two roots another one stays.
LEMMA AnotherRoot ==
    ASSUME NEW t, Cardinality(RootsThere) > 1
    PROVE  \E p \in RootsThere : p # t
<1>1. SUFFICES ASSUME \A p \in RootsThere : p = t PROVE FALSE
  OBVIOUS
<1>2. RootsThere = {} \/ RootsThere = {t}
  BY <1>1
<1>3. Cardinality({}) = 0
  BY FS_EmptySet
<1>4. Cardinality({t}) = 1
  BY FS_Singleton
<1>5. QED
  BY <1>2, <1>3, <1>4

\* Roots are counted by one request at a time, which removes one before the next.
LEMMA CountRows ==
    ASSUME TypeOK, Staged, Rows, NEW q \in Requests, Count(q)
    PROVE  Rows'
<1>1. /\ Others(q) /\ request[q].at = "count" /\ ~ Deleting
      /\ UNCHANGED <<rows, expired>>
      /\ request'[q].at = "decide"
      /\ request'[q].op = request[q].op /\ request'[q].arg = request[q].arg
      /\ request'[q].seen = request[q].seen
      /\ request'[q].found <=> Cardinality(RootsThere) > 1
  BY CountEffect
<1>2. UNCHANGED <<principal, secret, claims, expired>>
  BY <1>1 DEF rows
<1>3. Target(q)' = Target(q) /\ ~ At(q, "claim")' /\ (Holding(q)' <=> Holding(q))
  BY <1>1 DEF Target, At, Holding
<1>4. \A o \in Requests : o # q =>
          /\ request'[o] = request[o] /\ Target(o)' = Target(o)
          /\ (Holding(o)' <=> Holding(o)) /\ (Removing(o)' <=> Removing(o))
          /\ (At(o, "claim")' <=> At(o, "claim"))
  BY <1>1 DEF Others, Holding, Target, Removing, At
<1>5. \A o \in Requests : ~ Removing(o)
  BY <1>1 DEF Deleting, Removing
<1>6. Held'
  <2>1. \A o \in Requests : /\ Holding(o)' <=> Holding(o)
                            /\ Target(o)' = Target(o) /\ request'[o].seen = request[o].seen
    BY <1>1, <1>3, <1>4
  <2>2. \A o \in Requests : Holding(o)' =>
            principal'[Target(o)'] = "there" /\ request'[o].seen = {s \in {u \in Secrets : Owner[u] = Target(o)'} : secret'[s] = "stored"}
    BY <1>2, <2>1 DEF Rows, Held, Stored, SecretsOf
  <2>3. \A o, x \in Requests : Holding(o)' /\ Holding(x)' /\ Target(o)' = Target(x)' => o = x
    BY <2>1 DEF Rows, Held
  <2>4. QED
    BY <2>2, <2>3 DEF Held, Stored, SecretsOf
<1>7. Unissued' /\ RootsKeepKey' /\ Capped' /\ ClaimedOnce'
  BY <1>2 DEF Rows, Unissued, RootsKeepKey, Capped, ClaimedOnce, SecretsOf, Stored, Usable, RootsThere
<1>8. RootsThere' = RootsThere
  BY <1>2 DEF RootsThere
<1>9. Doors'
  <2>1. request'[q].found => \E p \in RootsThere : p # Target(q)
    BY <1>1, AnotherRoot
  <2>2. \A o \in Requests : Removing(o)' => o = q
    BY <1>4, <1>5
  <2>3. QED
    BY <1>2, <1>3, <1>4, <1>8, <2>1, <2>2 DEF Rows, Doors
<1>10. QED
  BY <1>6, <1>7, <1>9 DEF Rows
\* A transaction writes the row its request holds, or makes a new one.
LEMMA CreateRows ==
    ASSUME TypeOK, Staged, Rows, NEW p \in Principals, principal[p] = "none",
           principal' = [principal EXCEPT ![p] = "there"], UNCHANGED <<secret, claims, expired>>,
           \A o \in Requests : request'[o] = request[o] \/ Calm(o)'
    PROVE  Rows'
<1>1. \A x \in Principals : principal'[x] = IF x = p THEN "there" ELSE principal[x]
  BY DEF TypeOK
<1>2. \A x \in Principals : Stored(x)' = Stored(x)
  BY DEF Stored, SecretsOf
<1>3. /\ RootsThere \subseteq RootsThere'
      /\ \A x \in RootsThere' : x \in RootsThere \/ x = p
  BY <1>1, IdentityAssumption DEF RootsThere
<1>4. Held'
  <2>1. \A o \in Requests : Holding(o) => Target(o) # p
    BY DEF Rows, Held
  <2>2. QED
    BY <1>1, <1>2, <2>1, HeldKept DEF Rows
<1>5. Unissued' /\ Capped'
  BY <1>1, <1>2 DEF Rows, Unissued, Capped, SecretsOf, Stored, Usable
<1>6. RootsKeepKey'
  <2>1. \A s \in SecretsOf(p) : secret[s] = "unissued"
    BY DEF Rows, Unissued
  <2>2. QED
    BY <1>3, <2>1 DEF Rows, RootsKeepKey, SecretsOf, Stored
<1>7. Doors' /\ ClaimedOnce'
  <2>1. ASSUME NEW o \in Requests
        PROVE  /\ Removing(o)' => request'[o] = request[o] /\ Removing(o) /\ Target(o)' = Target(o)
               /\ At(o, "claim")' => request'[o] = request[o] /\ At(o, "claim")
    <3>1. Removing(o)' \/ At(o, "claim")' => ~ Calm(o)'
      BY DEF Removing, Calm, At
    <3>2. request'[o] = request[o] => /\ (Removing(o)' => Removing(o)) /\ Target(o)' = Target(o)
                                      /\ (At(o, "claim")' => At(o, "claim"))
      BY DEF Removing, At, Target
    <3>3. QED
      BY <3>1, <3>2
  <2>2. Doors'
    BY <1>3, <2>1 DEF Rows, Doors
  <2>3. ClaimedOnce'
    BY <1>3 DEF Rows, ClaimedOnce
  <2>4. QED
    BY <2>2, <2>3
<1>8. QED
  BY <1>4, <1>5, <1>6, <1>7 DEF Rows

\* An issue, or a revocation, of one secret of a principal that is there.
LEMMA SecretRows ==
    ASSUME TypeOK, Staged, Rows, NEW t \in Principals, principal[t] = "there",
           UNCHANGED <<principal, claims, expired>>,
           \A o \in Requests : \/ request'[o] = request[o] /\ (Holding(o) => Target(o) # t)
                               \/ Calm(o)',
           \A x \in Principals : x # t => Stored(x)' = Stored(x),
           \A s \in Secrets : Owner[s] # t => secret'[s] = secret[s],
           t \in Roots => Stored(t)' \cap Permanent # {},
           IsFiniteSet(Stored(t)'), Cardinality(Stored(t)' \ expired) <= MaxActiveSecrets
    PROVE  Rows'
<1>1. RootsThere' = RootsThere
  BY DEF RootsThere
<1>2. Held'
  BY HeldKept DEF Rows
<1>3. Unissued'
  BY DEF Rows, Unissued, SecretsOf
<1>4. RootsKeepKey'
  <2>1. SUFFICES ASSUME NEW x \in RootsThere, \E u \in SecretsOf(x) : secret'[u] # "unissued"
                 PROVE  Stored(x)' \cap Permanent # {}
    BY <1>1 DEF RootsKeepKey, SecretsOf
  <2>2. x \in Roots /\ x \in Principals
    BY IdentityAssumption DEF RootsThere
  <2>3. CASE x = t
    BY <2>2, <2>3
  <2>4. CASE x # t
    <3>1. \E u \in SecretsOf(x) : secret[u] # "unissued"
      BY <2>1, <2>4 DEF SecretsOf
    <3>2. QED
      BY <2>2, <2>4, <3>1 DEF Rows, RootsKeepKey
  <2>5. QED
    BY <2>3, <2>4
<1>5. Capped'
  <2>1. ASSUME NEW x \in Principals
        PROVE  IsFiniteSet(Stored(x)') /\ Cardinality(Stored(x)' \ expired) <= MaxActiveSecrets
    BY DEF Rows, Capped, Usable
  <2>2. QED
    BY <2>1 DEF Capped, Usable
<1>6. Doors' /\ ClaimedOnce'
  <2>1. ASSUME NEW o \in Requests
        PROVE  /\ Removing(o)' => request'[o] = request[o] /\ Removing(o) /\ Target(o)' = Target(o)
               /\ At(o, "claim")' => request'[o] = request[o] /\ At(o, "claim")
    <3>1. Removing(o)' \/ At(o, "claim")' => ~ Calm(o)'
      BY DEF Removing, Calm, At
    <3>2. request'[o] = request[o] => /\ (Removing(o)' => Removing(o)) /\ Target(o)' = Target(o)
                                      /\ (At(o, "claim")' => At(o, "claim"))
      BY DEF Removing, At, Target
    <3>3. QED
      BY <3>1, <3>2
  <2>2. QED
    BY <1>1, <2>1 DEF Rows, Doors, ClaimedOnce
<1>7. QED
  BY <1>2, <1>3, <1>4, <1>5, <1>6 DEF Rows
\* A deletion takes a principal's secrets with it, and never the last root.
LEMMA DeleteRows ==
    ASSUME TypeOK, Staged, Rows, NEW q \in Requests, request[q].at = "decide",
           request[q].op = "delete", request[q].found, NEW t, request[q].arg = t,
           principal' = [principal EXCEPT ![t] = "gone"],
           secret' = [s \in Secrets |-> IF s \in Stored(t) THEN "gone" ELSE secret[s]],
           UNCHANGED <<claims, expired>>,
           Others(q), Calm(q)'
    PROVE  Rows'
<1>1. t \in Principals /\ Target(q) = t
  BY SubjectFacts DEF Staged
<1>2. Holding(q) /\ (t \in Roots => Removing(q))
  BY <1>1 DEF Holding, Removing, At
<1>3. /\ \A x \in Principals : principal'[x] = IF x = t THEN "gone" ELSE principal[x]
      /\ \A s \in Secrets : secret'[s] = IF Owner[s] = t /\ secret[s] = "stored" THEN "gone" ELSE secret[s]
  BY DEF TypeOK, Stored, SecretsOf
<1>4. /\ \A x \in Principals : x # t => Stored(x)' = Stored(x)
      /\ Stored(t)' = {}
  BY <1>3 DEF Stored, SecretsOf
<1>5. /\ RootsThere' \subseteq RootsThere /\ t \notin RootsThere'
      /\ \A x \in RootsThere : x # t => x \in RootsThere'
      /\ \A x \in RootsThere' : x \in Principals /\ x # t
  BY <1>1, <1>3, IdentityAssumption DEF RootsThere
<1>6. Held'
  <2>1. \A o \in Requests : o # q => request'[o] = request[o] /\ (Holding(o) => Target(o) # t)
    BY <1>1, <1>2 DEF Others, Rows, Held
  <2>2. \A x \in Principals : x # t => principal'[x] = principal[x] /\ Stored(x)' = Stored(x)
    BY <1>3, <1>4
  <2>3. QED
    BY <2>1, <2>2, HeldKept DEF Rows
<1>7. Unissued'
  <2>1. SUFFICES ASSUME NEW x \in Principals, principal'[x] = "none", NEW s \in Secrets, Owner[s] = x
                 PROVE  secret'[s] = "unissued"
    BY DEF Unissued, SecretsOf
  <2>2. x # t /\ secret[s] = "unissued"
    BY <1>3, <2>1 DEF Rows, Unissued, SecretsOf
  <2>3. QED
    BY <1>3, <2>1, <2>2
<1>8. RootsKeepKey'
  <2>1. SUFFICES ASSUME NEW x \in RootsThere', NEW u \in Secrets, Owner[u] = x, secret'[u] # "unissued"
                 PROVE  Stored(x)' \cap Permanent # {}
    BY DEF RootsKeepKey, SecretsOf
  <2>2. x \in RootsThere /\ x # t /\ x \in Principals
    BY <1>5
  <2>3. secret[u] # "unissued" /\ u \in SecretsOf(x)
    BY <1>3, <2>1, <2>2 DEF SecretsOf
  <2>4. QED
    BY <1>4, <2>2, <2>3 DEF Rows, RootsKeepKey
<1>9. Capped'
  <2>1. IsFiniteSet({}) /\ Cardinality({}) = 0 /\ {} \ expired = {}
    BY FS_EmptySet
  <2>2. ASSUME NEW x \in Principals
        PROVE  IsFiniteSet(Stored(x)') /\ Cardinality(Stored(x)' \ expired) <= MaxActiveSecrets
    <3>1. CASE x = t
      BY <1>4, <2>1, <3>1, IdentityAssumption
    <3>2. CASE x # t
      BY <1>4, <3>2 DEF Rows, Capped, Usable
    <3>3. QED
      BY <3>1, <3>2
  <2>3. QED
    BY <2>2 DEF Capped, Usable
<1>10. Doors' /\ ClaimedOnce'
  <2>1. ~ Removing(q)' /\ ~ At(q, "claim")'
    BY DEF Removing, Calm, At
  <2>2. \A o \in Requests : o # q => /\ request'[o] = request[o] /\ Target(o)' = Target(o)
                                     /\ (Removing(o)' <=> Removing(o))
                                     /\ (At(o, "claim")' <=> At(o, "claim"))
    BY DEF Others, Removing, At, Target
  <2>3. CASE t \in Roots
    <3>1. \E p \in RootsThere : p # t
      BY <1>1, <1>2, <2>3 DEF Rows, Doors
    <3>2. \A o \in Requests : ~ Removing(o)'
      BY <1>2, <2>1, <2>2, <2>3 DEF Rows, Doors
    <3>3. QED
      BY <1>5, <2>1, <2>2, <3>1, <3>2 DEF Rows, Doors, ClaimedOnce
  <2>4. CASE t \notin Roots
    <3>1. RootsThere' = RootsThere
      BY <1>5, <2>4 DEF RootsThere
    <3>2. QED
      BY <2>1, <2>2, <3>1 DEF Rows, Doors, ClaimedOnce
  <2>5. QED
    BY <2>3, <2>4
<1>11. QED
  BY <1>6, <1>7, <1>8, <1>9, <1>10 DEF Rows

LEMMA DecideRows ==
    ASSUME TypeOK, Staged, Rows, NEW q \in Requests, Decide(q)
    PROVE  Rows'
<1>1. /\ Others(q) /\ request[q].at = "decide" /\ request[q].op \in {"create", "issue", "revoke", "delete"}
      /\ UNCHANGED expired /\ (UNCHANGED rows \/ (Applies(q) /\ Writes(q)))
      /\ request'[q] = Idle \/ request'[q].at = "evict"
  BY DecideEffect
<1>2. Calm(q)'
  BY <1>1, IdleFacts DEF Calm
<1>3. \A o \in Requests : request'[o] = request[o] \/ Calm(o)'
  BY <1>1, <1>2 DEF Others
<1>a. PICK arg, t : arg = request[q].arg /\ t = Target(q)
  OBVIOUS
<1>4. CASE UNCHANGED rows
  BY <1>1, <1>3, <1>4, QuietRows
<1>5. CASE /\ request[q].op = "create" /\ principal[arg] = "none" /\ UNCHANGED <<secret, claims>>
           /\ principal' = [principal EXCEPT ![arg] = "there"]
  <2>1. arg \in Principals
    BY <1>a, <1>1, <1>5 DEF Staged
  <2>2. QED
    BY <1>1, <1>3, <1>5, <2>1, CreateRows
<1>6. ASSUME request[q].op \in {"issue", "revoke"}
      PROVE  /\ arg \in Secrets /\ t = Owner[arg] /\ t \in Principals /\ principal[t] = "there"
             /\ request[q].seen = Stored(t)
             /\ \A o \in Requests : \/ request'[o] = request[o] /\ (Holding(o) => Target(o) # t)
                                    \/ Calm(o)'
  <2>1. arg \in Secrets /\ t = Owner[arg] /\ t \in Principals
    BY <1>a, <1>1, <1>6, SubjectFacts DEF Staged
  <2>2. Holding(q)
    BY <1>1, <1>6 DEF Holding
  <2>3. QED
    BY <1>a, <1>1, <1>2, <2>1, <2>2 DEF Rows, Held, Others
<1>7. CASE /\ request[q].op = "issue" /\ MayIssue(q) /\ UNCHANGED <<principal, claims>>
           /\ secret' = [secret EXCEPT ![arg] = "stored"]
  <2>1. /\ secret[arg] = "unissued"
        /\ arg \notin Permanent /\ t \in Roots => Stored(t) \cap Permanent # {}
        /\ Cardinality(Usable(Stored(t))) < MaxActiveSecrets
    BY <1>a, <1>6, <1>7 DEF MayIssue
  <2>2. /\ arg \in Secrets /\ t = Owner[arg] /\ t \in Principals /\ principal[t] = "there"
        /\ \A s \in Secrets : secret'[s] = IF s = arg THEN "stored" ELSE secret[s]
        /\ \A o \in Requests : \/ request'[o] = request[o] /\ (Holding(o) => Target(o) # t)
                               \/ Calm(o)'
    BY <1>6, <1>7 DEF TypeOK
  <2>3. /\ \A x \in Principals : x # t => Stored(x)' = Stored(x)
        /\ Stored(t)' = Stored(t) \cup {arg}
        /\ \A s \in Secrets : Owner[s] # t => secret'[s] = secret[s]
    BY <2>2 DEF Stored, SecretsOf
  <2>4. t \in Roots => Stored(t)' \cap Permanent # {}
    BY <2>1, <2>3
  <2>5. IsFiniteSet(Stored(t)') /\ Cardinality(Stored(t)' \ expired) <= MaxActiveSecrets
    <3>1. IsFiniteSet(Stored(t))
      BY <2>2 DEF Rows, Capped
    <3>2. IsFiniteSet(Stored(t)')
      BY <2>3, <3>1, FS_AddElement
    <3>3. IsFiniteSet(Usable(Stored(t)))
      BY <3>1, FS_Subset DEF Usable
    <3>4. Stored(t)' \ expired \subseteq Usable(Stored(t)) \cup {arg}
      BY <2>3 DEF Usable
    <3>5. QED
      BY <2>1, <3>2, <3>3, <3>4, OneMore, IdentityAssumption
  <2>6. QED
    BY <1>1, <1>7, <2>2, <2>3, <2>4, <2>5, SecretRows
<1>8. CASE /\ request[q].op = "revoke" /\ MayRevoke(q) /\ UNCHANGED <<principal, claims>>
           /\ secret' = [secret EXCEPT ![arg] = "gone"]
  <2>1. t \in Roots => (Stored(t) \ {arg}) \cap Permanent # {}
    BY <1>a, <1>6, <1>8 DEF MayRevoke
  <2>2. /\ arg \in Secrets /\ t = Owner[arg] /\ t \in Principals /\ principal[t] = "there"
        /\ \A s \in Secrets : secret'[s] = IF s = arg THEN "gone" ELSE secret[s]
        /\ \A o \in Requests : \/ request'[o] = request[o] /\ (Holding(o) => Target(o) # t)
                               \/ Calm(o)'
    BY <1>6, <1>8 DEF TypeOK
  <2>3. /\ \A x \in Principals : x # t => Stored(x)' = Stored(x)
        /\ Stored(t)' = Stored(t) \ {arg}
        /\ \A s \in Secrets : Owner[s] # t => secret'[s] = secret[s]
    BY <2>2 DEF Stored, SecretsOf
  <2>4. IsFiniteSet(Stored(t)') /\ Cardinality(Stored(t)' \ expired) <= MaxActiveSecrets
    <3> DEFINE old == Usable(Stored(t))  new == Stored(t)' \ expired
    <3>1. IsFiniteSet(Stored(t)) /\ Cardinality(old) <= MaxActiveSecrets
      BY <2>2 DEF Rows, Capped
    <3>2. Stored(t)' \subseteq Stored(t) /\ new \subseteq old /\ old \subseteq Stored(t)
      BY <2>3 DEF Usable
    <3> HIDE DEF old, new
    <3>3. /\ IsFiniteSet(Stored(t)') /\ IsFiniteSet(old)
      BY <3>1, <3>2, FS_Subset
    <3>4. IsFiniteSet(new) /\ Cardinality(new) <= Cardinality(old)
      BY <3>2, <3>3, FS_Subset
    <3>5. Cardinality(new) \in Nat /\ Cardinality(old) \in Nat
      BY <3>3, <3>4, FS_CardinalityType
    <3>6. Cardinality(new) <= MaxActiveSecrets
      BY <3>1, <3>4, <3>5, IdentityAssumption
    <3>7. QED
      BY <3>3, <3>6 DEF new
  <2>5. QED
    BY <1>1, <1>8, <2>1, <2>2, <2>3, <2>4, SecretRows
<1>9. CASE /\ request[q].op = "delete" /\ request[q].found /\ UNCHANGED claims
           /\ principal' = [principal EXCEPT ![arg] = "gone"]
           /\ secret' = [s \in Secrets |-> IF s \in Stored(arg) THEN "gone" ELSE secret[s]]
  BY <1>a, <1>1, <1>2, <1>9, DeleteRows
<1>10. CASE Applies(q) /\ Writes(q)
  BY <1>a, <1>1, <1>5, <1>7, <1>8, <1>9, <1>10, WritesEffect
<1>11. QED
  BY <1>1, <1>4, <1>10
\* A resolution goes on, unless it ends, with a caller that is let in by what was
\* found, and then only to what holds nothing yet.
LEMMA ResolvedStep ==
    ASSUME TypeOK, Staged, NEW q \in Requests, NEW found \in BOOLEAN, NEW holds,
           request[q].at \in {"caller", "loadCaller", "target", "loadTarget"},
           Resolved(q, found, holds)
    PROVE  /\ Others(q) /\ Calm(q)' /\ request'[q].at \notin {"loadCaller", "loadTarget"}
           /\ \/ request'[q] = Idle
              \/ /\ request'[q].known = request[q].known
                 /\ request'[q].on = request[q].on /\ request'[q].by = request[q].by
                 /\ request[q].at \in OfCaller => request[q].by \in holds
<1>1. CASE Ends(q)
  BY <1>1, EndsEffect, IdleFacts DEF Calm
<1>2. CASE \E stage \in {"serve", "decide", "target", "lock"} :
             /\ Goes(q, stage)
             /\ request[q].at \in OfCaller => request[q].by \in holds
             /\ stage = "decide" => request[q].op = "create"
  <2>1. {"serve", "decide", "target", "lock"} \subseteq Stages
    BY DEF Stages
  <2>2. QED
    BY <1>2, <2>1, GoesEffect DEF Calm
<1>3. QED
  BY <1>1, <1>2, ResolvedEffect

LEMMA NextRows ==
    ASSUME TypeOK, Staged, Rows, [Next]_vars
    PROVE  Rows'
<1>1. ASSUME NEW q \in Requests, Others(q), Calm(q)', UNCHANGED <<rows, expired>> PROVE Rows'
  BY <1>1, QuietRows DEF Others
<1>2. ASSUME NEW q \in Requests, ClaimBegin(q) \/ Lock(q) \/ Count(q) \/ Decide(q) PROVE Rows'
  BY <1>2, ClaimBeginRows, LockRows, CountRows, DecideRows
<1>3. ASSUME NEW q \in Requests, NEW r \in Replicas, NEW s \in Secrets, Ask(q, r, s) PROVE Rows'
  BY <1>1, <1>3, AsksEffect DEF Calm
<1>4. ASSUME NEW q \in Requests, Hit(q) \/ LoadEnd(q) PROVE Rows'
  <2>1. PICK found, holds : /\ found \in BOOLEAN
                            /\ Resolved(q, found, holds)
                            /\ request[q].at \in {"caller", "loadCaller", "target", "loadTarget"}
    BY <1>4, ResolvedSomehow
  <2>2. UNCHANGED <<rows, expired>>
    BY <1>4 DEF Hit, LoadEnd
  <2>3. QED
    BY <1>1, <2>1, <2>2, ResolvedStep
<1>5. ASSUME NEW q \in Requests, LoadBegin(q) \/ LoadSecrets(q) PROVE Rows'
  <2>1. Others(q) /\ request'[q].at \in {"readCaller", "readTarget", "loadCaller", "loadTarget"}
    BY <1>5, LoadBeginEffect, LoadSecretsEffect
  <2>2. UNCHANGED <<rows, expired>>
    BY <1>5 DEF LoadBegin, LoadSecrets
  <2>3. Calm(q)'
    BY <2>1 DEF Calm
  <2>4. QED
    BY <1>1, <2>1, <2>2, <2>3
<1>6. ASSUME NEW q \in Requests, Serve(q) \/ Evict(q) PROVE Rows'
  <2>1. Ends(q) /\ UNCHANGED <<rows, expired>>
    BY <1>6 DEF Serve, Evict
  <2>2. QED
    BY <1>1, <2>1, EndsEffect, IdleFacts DEF Calm
<1>7. ASSUME NEW q \in Requests, ClaimEnd(q) PROVE Rows'
  <2>1. /\ Others(q) /\ request'[q] = Idle /\ request[q].at = "claim" /\ UNCHANGED expired
        /\ \/ UNCHANGED rows
           \/ /\ ~ request[q].found /\ claims' = claims + 1
              /\ \E p \in Principals, s \in Secrets : Bootstraps(p, s)
    BY <1>7, ClaimEndEffect
  <2>2. Calm(q)' /\ ~ At(q, "claim")'
    BY <2>1, IdleFacts DEF Calm, At
  <2>3. CASE UNCHANGED rows
    BY <1>1, <2>1, <2>2, <2>3
  <2>4. CASE ~ request[q].found /\ claims' = claims + 1
    <3>1. claims = 0
      BY <2>1, <2>4 DEF Rows, Doors, At
    <3>2. \A o \in Requests : ~ At(o, "claim")'
      BY <2>1, <2>2 DEF Rows, Doors, At, Others
    <3>3. \A o \in Requests : request'[o] = request[o] \/ Calm(o)'
      BY <2>1, <2>2 DEF Others
    <3>4. CASE \E p \in Principals, s \in Secrets : Bootstraps(p, s)
      BY <2>1, <2>4, <3>1, <3>2, <3>3, <3>4, BootRows
    <3>5. QED
      BY <2>1, <2>3, <3>4
  <2>5. QED
    BY <2>1, <2>3, <2>4
<1>8. CASE Recover
  BY <1>8, BootRows DEF Recover
<1>9. ASSUME NEW r \in Replicas, Crash(r) PROVE Rows'
  <2>1. \A q \in Requests : request'[q] = request[q] \/ Calm(q)'
    BY <1>9, CrashEffect, IdleFacts DEF Calm
  <2>2. UNCHANGED <<rows, expired>>
    BY <1>9, CrashEffect
  <2>3. QED
    BY <2>1, <2>2, QuietRows
<1>10. CASE \/ \E r \in Replicas, p \in Principals : Age(r, p)
            \/ \E s \in Secrets : Expire(s)
            \/ UNCHANGED vars
  <2>1. UNCHANGED <<rows, request>> /\ expired \subseteq expired'
    BY <1>10 DEF Age, Expire, vars
  <2>2. QED
    BY <2>1, QuietRows
<1>11. QED
  BY <1>2, <1>3, <1>4, <1>5, <1>6, <1>7, <1>8, <1>9, <1>10 DEF Next, Step

-----------------------------------------------------------------------------
(* Refusals *)

\* A secret that is gone is never issued again.
LEMMA GoneStays ==
    ASSUME TypeOK, Staged, Rows, [Next]_vars, NEW s \in Secrets, secret[s] = "gone"
    PROVE  secret'[s] = "gone"
<1>1. CASE UNCHANGED rows
  BY <1>1 DEF rows
<1>2. ASSUME NEW p \in Principals, NEW u \in Secrets, Bootstraps(p, u) PROVE secret'[s] = "gone"
  <2>1. Owner[u] = p /\ principal[p] = "none" /\ secret' = [secret EXCEPT ![u] = "stored"]
    BY <1>2, BootstrapsEffect
  <2>2. secret[u] = "unissued"
    BY <2>1 DEF Rows, Unissued, SecretsOf
  <2>3. QED
    BY <2>1, <2>2 DEF TypeOK
<1>3. ASSUME NEW q \in Requests, Decide(q) PROVE secret'[s] = "gone"
  <2>1. CASE Applies(q) /\ Writes(q)
    <3>1. request[q].op \in {"create", "issue", "revoke", "delete"}
      BY <1>3, DecideEffect
    <3>2. PICK arg : arg = request[q].arg
      OBVIOUS
    <3>3. \/ UNCHANGED secret
          \/ secret[arg] = "unissued" /\ secret' = [secret EXCEPT ![arg] = "stored"]
          \/ secret' = [secret EXCEPT ![arg] = "gone"]
          \/ secret' = [u \in Secrets |-> IF u \in Stored(arg) THEN "gone" ELSE secret[u]]
      BY <2>1, <3>1, <3>2, WritesEffect DEF MayIssue
    <3>4. QED
      BY <3>3 DEF TypeOK
  <2>2. QED
    BY <1>1, <1>3, <2>1, DecideEffect
<1>4. \/ UNCHANGED rows
      \/ \E p \in Principals, u \in Secrets : Bootstraps(p, u)
      \/ \E q \in Requests : Decide(q)
  <2>1. ASSUME NEW q \in Requests,
               \/ ClaimBegin(q) \/ Hit(q) \/ LoadBegin(q) \/ LoadSecrets(q) \/ LoadEnd(q) \/ Serve(q)
               \/ Lock(q) \/ Count(q) \/ Evict(q)
        PROVE  UNCHANGED rows
    BY <2>1 DEF ClaimBegin, Hit, LoadBegin, LoadSecrets, LoadEnd, Serve, Lock, Count, Evict
  <2>2. ASSUME NEW q \in Requests, NEW r \in Replicas, NEW u \in Secrets, Ask(q, r, u)
        PROVE  UNCHANGED rows
    BY <2>2 DEF Ask, Asks
  <2>3. ASSUME NEW r \in Replicas, Crash(r) \/ \E p \in Principals : Age(r, p) PROVE UNCHANGED rows
    BY <2>3 DEF Crash, Age
  <2>4. CASE (\E u \in Secrets : Expire(u)) \/ UNCHANGED vars
    BY <2>4 DEF Expire, vars
  <2>5. CASE Recover \/ \E q \in Requests : ClaimEnd(q)
    BY <2>5 DEF Recover, ClaimEnd
  <2>6. QED
    BY <2>1, <2>2, <2>3, <2>4, <2>5 DEF Next, Step
<1>5. QED
  BY <1>1, <1>2, <1>3, <1>4
\* Whoever has learnt nothing new, or is at an earlier stage, may be let in.
Early == OfCaller \cup {"idle", "claim"}

LEMMA StillRevoked ==
    ASSUME TypeOK, request' \in [Requests -> Request], RevokedHere,
           \A q \in Requests : request'[q] = request[q] \/ request'[q].at \in Early \/ ~ request'[q].known
    PROVE  RevokedHere'
  BY DEF RevokedHere, Early

\* A request keeps what it knows where it is, or knows nothing, and loads nothing.
Plain(q) ==
    /\ request'[q].at \notin {"loadCaller", "loadTarget"}
    /\ request'[q].known => /\ request[q].known
                            /\ request'[q].on = request[q].on /\ request'[q].by = request[q].by

\* A step that leaves the caches' entries, or drops some, and answers nothing.
LEMMA StillRefusing ==
    ASSUME TypeOK, Staged, Rows, [Next]_vars, Refusing, UNCHANGED answered,
           \A r \in Replicas, p \in Principals : cache'[r][p].holds \subseteq cache[r][p].holds,
           \A q \in Requests : request'[q] = request[q] \/ Plain(q)
    PROVE  Refusing'
<1>1. ASSUME NEW r \in Replicas, NEW s \in answered[r]
      PROVE  secret'[s] = "gone" /\ s \notin cache'[r][Owner[s]].holds
  <2>1. s \in Secrets /\ Owner[s] \in Principals
    BY IdentityAssumption DEF TypeOK
  <2>2. secret[s] = "gone" /\ s \notin cache[r][Owner[s]].holds
    BY DEF Refusing
  <2>3. QED
    BY <2>1, <2>2, GoneStays
<1>2. \A q \in Requests :
          /\ request'[q].known => request'[q].on \in Replicas /\ request'[q].by \in answered[request'[q].on]
          /\ request'[q].at \in {"loadCaller", "loadTarget"} =>
                request'[q].seen \cap answered[request'[q].on] = {}
  BY DEF Refusing, Plain
<1>3. QED
  BY <1>1, <1>2 DEF Refusing

\* What a load reads was not answered for on its replica.
LEMMA LoadRefusing ==
    ASSUME TypeOK, Staged, Rows, [Next]_vars, Refusing, RevokedHere, NEW q \in Requests,
           LoadBegin(q) \/ LoadSecrets(q)
    PROVE  Refusing' /\ RevokedHere'
<1>1. /\ request' \in [Requests -> Request] /\ Others(q)
      /\ \/ request[q].at \in OfCaller /\ request'[q].at \in OfCaller
         \/ request[q].at \in {"target", "readTarget"}
      /\ request[q].at \notin {"idle", "claim"}
      /\ request'[q].on = request[q].on /\ request'[q].by = request[q].by
      /\ request'[q].known = request[q].known
      /\ request'[q].seen = {} \/ request'[q].seen = Stored(Subject(q))
  BY LoadBeginEffect, LoadSecretsEffect DEF OfCaller
<1>2. UNCHANGED <<secret, cache, answered>>
  BY DEF LoadBegin, LoadSecrets, rows
<1>3. request[q].on \in Replicas
  BY <1>1 DEF Staged
<1>4. \A s \in answered[request[q].on] : s \notin Stored(Subject(q))
  BY <1>3 DEF Refusing, Stored
<1>5. Refusing'
  BY <1>1, <1>2, <1>4 DEF Refusing, Others
<1>6. request'[q].at \in Early \/ ~ request'[q].known
  BY <1>1 DEF OfCaller, Early, RevokedHere, Stages
<1>7. RevokedHere'
  BY <1>1, <1>6, StillRevoked DEF Others
<1>8. QED
  BY <1>5, <1>7

\* Whoever is let in is known by a secret found there.
LEMMA ResolvedRefusing ==
    ASSUME TypeOK, Staged, Rows, [Next]_vars, Refusing, RevokedHere, NEW q \in Requests,
           Hit(q) \/ LoadEnd(q)
    PROVE  Refusing' /\ RevokedHere'
<1>1. PICK found \in BOOLEAN, holds \in SUBSET Secrets :
        /\ Resolved(q, found, holds)
        /\ request[q].at \in {"caller", "loadCaller", "target", "loadTarget"}
        /\ UNCHANGED answered /\ holds \cap answered[request[q].on] \cap SecretsOf(Subject(q)) = {}
        /\ \A r \in Replicas, p \in Principals :
              \/ cache'[r][p] = cache[r][p]
              \/ r = request[q].on /\ cache'[r][p].holds = holds /\ holds \cap answered[r] = {}
  <2>1. CASE Hit(q)
    <3> DEFINE entry == cache[request[q].on][Subject(q)]
    <3>1. /\ request[q].at \in {"caller", "target"} /\ Resolved(q, TRUE, entry.holds)
          /\ UNCHANGED <<cache, answered>>
      BY <2>1 DEF Hit, Looking
    <3>2. Subject(q) \in Principals /\ request[q].on \in Replicas
      BY <3>1, SubjectFacts DEF Staged, OfCaller
    <3>3. entry.holds \in SUBSET Secrets
      BY <3>2 DEF TypeOK, Entry
    <3>4. entry.holds \cap answered[request[q].on] \cap SecretsOf(Subject(q)) = {}
      BY <3>2 DEF Refusing, SecretsOf
    <3>5. QED
      BY <3>1, <3>3, <3>4
  <2>2. CASE LoadEnd(q)
    <3>1. /\ request[q].at \in {"loadCaller", "loadTarget"}
          /\ Resolved(q, request[q].found, request[q].seen) /\ UNCHANGED answered
      BY <2>2 DEF LoadEnd
    <3>2. /\ Subject(q) \in Principals /\ request[q].on \in Replicas
      BY <3>1, SubjectFacts DEF Staged, OfCaller
    <3>3. request[q].seen \in SUBSET Secrets /\ request[q].found \in BOOLEAN
      BY DEF TypeOK, Request
    <3>4. request[q].seen \cap answered[request[q].on] = {}
      BY <3>1 DEF Refusing
    <3> DEFINE entry == [fresh |-> TRUE, holds |-> request[q].seen]
    <3>5. entry \in Entry /\ entry.holds = request[q].seen
      BY <3>3 DEF Entry
    <3>6. cache' = cache \/ cache' = [cache EXCEPT ![request[q].on][Subject(q)] = entry]
      BY <2>2 DEF LoadEnd
    <3> HIDE DEF entry
    <3>7. \A r \in Replicas, p \in Principals :
              \/ cache'[r][p] = cache[r][p]
              \/ r = request[q].on /\ cache'[r][p] = entry
      BY <3>2, <3>5, <3>6, CacheEffect
    <3>8. QED
      BY <3>1, <3>3, <3>4, <3>5, <3>7
  <2>3. QED
    BY <2>1, <2>2
<1>2. /\ Others(q) /\ request'[q].at \notin {"loadCaller", "loadTarget"}
      /\ \/ request'[q] = Idle
         \/ /\ request'[q].known = request[q].known
            /\ request'[q].on = request[q].on /\ request'[q].by = request[q].by
            /\ request[q].at \in OfCaller => request[q].by \in holds
  BY <1>1, ResolvedStep
<1>3. request' \in [Requests -> Request]
  BY ResolvedTypes
<1>4. request[q].at \in OfCaller /\ request[q].known => request[q].by \notin holds
  <2>1. SUFFICES ASSUME request[q].at \in OfCaller, request[q].known,
                        request[q].by \in holds
                 PROVE  FALSE
    OBVIOUS
  <2>2. request[q].by \in answered[request[q].on]
    BY <2>1 DEF Refusing
  <2>3. request[q].by \in SecretsOf(Subject(q))
    BY <2>1 DEF OfCaller, Subject, Caller, SecretsOf, Staged
  <2>4. QED
    BY <1>1, <2>1, <2>2, <2>3
<1>5. request'[q] = Idle \/ ~ request'[q].known
  BY <1>1, <1>2, <1>4 DEF OfCaller, RevokedHere, Stages
<1>6. RevokedHere'
  <2>1. Idle.at \in Early
    BY IdleFacts DEF Early, OfCaller
  <2>2. QED
    BY <1>2, <1>3, <1>5, <2>1, StillRevoked DEF Others
<1>7. Refusing'
  <2>1. ASSUME NEW r \in Replicas, NEW s \in answered[r]
        PROVE  secret'[s] = "gone" /\ s \notin cache'[r][Owner[s]].holds
    <3>1. s \in Secrets /\ Owner[s] \in Principals
      BY IdentityAssumption DEF TypeOK
    <3>2. secret[s] = "gone" /\ s \notin cache[r][Owner[s]].holds
      BY DEF Refusing
    <3>3. s \notin cache'[r][Owner[s]].holds
      BY <1>1, <3>1, <3>2
    <3>4. QED
      BY <3>1, <3>2, <3>3, GoneStays
  <2>2. ~ request'[q].known
    BY <1>5, IdleFacts
  <2>3. QED
    BY <1>1, <1>2, <2>1, <2>2 DEF Refusing, Others
<1>8. QED
  BY <1>6, <1>7
LEMMA EvictRefusing ==
    ASSUME TypeOK, Staged, Rows, [Next]_vars, Refusing, RevokedHere, NEW q \in Requests, Evict(q)
    PROVE  Refusing' /\ RevokedHere'
<1>1. PICK r \in Replicas, t \in Principals : r = request[q].on /\ t = Target(q)
  BY EvictEffect
<1>2. /\ request' \in [Requests -> Request] /\ Others(q) /\ request'[q] = Idle
      /\ ~ Loading(r) /\ UNCHANGED rows
      /\ cache' = [cache EXCEPT ![r][t] = NoEntry]
      /\ answered' = [answered EXCEPT ![r] = answered[r] \cup {s \in SecretsOf(t) : secret[s] = "gone"}]
  BY <1>1, EvictEffect
<1>3. /\ NoEntry \in Entry /\ NoEntry.holds = {}
  BY DEF NoEntry, Entry
<1>4. \A o \in Replicas, p \in Principals :
          cache'[o][p] = IF o = r /\ p = t THEN NoEntry ELSE cache[o][p]
  BY <1>2, <1>3, CacheEffect
<1>5. /\ \A o \in Replicas : o # r => answered'[o] = answered[o]
      /\ answered'[r] = answered[r] \cup {s \in SecretsOf(t) : secret[s] = "gone"}
  BY <1>2 DEF TypeOK
<1>6. ASSUME NEW o \in Replicas, NEW s \in answered'[o]
      PROVE  secret'[s] = "gone" /\ s \notin cache'[o][Owner[s]].holds
  <2>1. UNCHANGED secret
    BY <1>2 DEF rows
  <2>2. CASE s \in answered[o]
    <3>1. s \in Secrets /\ Owner[s] \in Principals
      BY <2>2, IdentityAssumption DEF TypeOK
    <3>2. secret[s] = "gone" /\ s \notin cache[o][Owner[s]].holds
      BY <2>2 DEF Refusing
    <3>3. QED
      BY <1>3, <1>4, <2>1, <3>1, <3>2
  <2>3. CASE o = r /\ s \in SecretsOf(t) /\ secret[s] = "gone"
    BY <1>3, <1>4, <2>1, <2>3 DEF SecretsOf
  <2>4. QED
    BY <1>5, <1>6, <2>2, <2>3
<1>7. ~ Idle.known /\ Idle.at = "idle"
  BY IdleFacts
<1>8. ASSUME NEW o \in Requests
      PROVE  /\ request'[o].known => request'[o].on \in Replicas /\ request'[o].by \in answered'[request'[o].on]
             /\ request'[o].at \in {"loadCaller", "loadTarget"} =>
                   request'[o].seen \cap answered'[request'[o].on] = {}
  <2>1. CASE o = q
    BY <1>2, <1>7, <2>1
  <2>2. CASE o # q
    <3>1. request'[o] = request[o]
      BY <1>2, <2>2 DEF Others
    <3>2. request[o].known => request[o].on \in Replicas /\ request[o].by \in answered'[request[o].on]
      BY <1>5 DEF Refusing
    <3>3. request[o].at \in {"loadCaller", "loadTarget"} =>
              request[o].on \in Replicas /\ request[o].on # r /\ request[o].seen \cap answered[request[o].on] = {}
      BY <1>2 DEF Refusing, Loading, Staged
    <3>4. QED
      BY <1>5, <3>1, <3>2, <3>3
  <2>3. QED
    BY <2>1, <2>2
<1>9. Refusing'
  BY <1>6, <1>8 DEF Refusing
<1>10. RevokedHere'
  BY <1>2, <1>7, StillRevoked DEF Others
<1>11. QED
  BY <1>9, <1>10

LEMMA NextRefusing ==
    ASSUME TypeOK, Staged, Rows, Refusing, RevokedHere, [Next]_vars
    PROVE  Refusing' /\ RevokedHere'
<1>0. ~ Idle.known /\ Idle.at = "idle" /\ "idle" \in Early
  BY IdleFacts DEF Early, OfCaller
<1>1. ASSUME request' \in [Requests -> Request], UNCHANGED answered,
             \A r \in Replicas, p \in Principals : cache'[r][p].holds \subseteq cache[r][p].holds,
             \A q \in Requests : \/ request'[q] = request[q]
                                 \/ Plain(q) /\ (request'[q].at \in Early \/ ~ request'[q].known)
      PROVE  Refusing' /\ RevokedHere'
  BY <1>1, StillRefusing, StillRevoked
<1>2. ASSUME NEW q \in Requests, request' \in [Requests -> Request], Others(q), request'[q] = Idle,
             UNCHANGED <<cache, answered>>
      PROVE  Refusing' /\ RevokedHere'
  BY <1>0, <1>1, <1>2 DEF Others, Plain
<1>3. ASSUME NEW q \in Requests, request' \in [Requests -> Request], Others(q),
             UNCHANGED <<cache, answered>>,
             request'[q].known = request[q].known,
             request'[q].on = request[q].on, request'[q].by = request[q].by,
             request'[q].at \notin {"loadCaller", "loadTarget"},
             request[q].at \in Stages \ Early \/ request'[q].at \in Early
      PROVE  Refusing' /\ RevokedHere'
  <2>1. Plain(q) /\ (request'[q].at \in Early \/ ~ request'[q].known)
    BY <1>3 DEF Plain, RevokedHere, Early
  <2>2. QED
    BY <1>1, <1>3, <2>1 DEF Others
<1>4. {"lock", "count", "decide"} \subseteq Stages \ Early /\ "claim" \in Early
  BY DEF Stages, Early, OfCaller
<1>5. ASSUME NEW q \in Requests, ClaimBegin(q) PROVE Refusing' /\ RevokedHere'
  BY <1>3, <1>4, <1>5, ClaimBeginEffect
<1>6. ASSUME NEW q \in Requests, ClaimEnd(q) PROVE Refusing' /\ RevokedHere'
  BY <1>2, <1>6, ClaimEndEffect
<1>7. ASSUME NEW q \in Requests, Lock(q) PROVE Refusing' /\ RevokedHere'
  <2>1. /\ request' \in [Requests -> Request] /\ Others(q) /\ request[q].at = "lock"
        /\ UNCHANGED <<cache, answered>>
        /\ \/ request'[q] = Idle
           \/ /\ request'[q].at \in {"count", "decide"} /\ request'[q].known = request[q].known
              /\ request'[q].on = request[q].on /\ request'[q].by = request[q].by
    BY <1>7, LockEffect
  <2>2. QED
    BY <1>2, <1>3, <1>4, <2>1
<1>8. ASSUME NEW q \in Requests, Count(q) PROVE Refusing' /\ RevokedHere'
  BY <1>3, <1>4, <1>8, CountEffect
<1>9. ASSUME NEW q \in Requests, Decide(q) PROVE Refusing' /\ RevokedHere'
  <2>1. /\ request' \in [Requests -> Request] /\ Others(q) /\ request[q].at = "decide"
        /\ UNCHANGED <<cache, answered>>
        /\ \/ request'[q] = Idle
           \/ /\ request'[q].at = "evict" /\ request'[q].known = request[q].known
              /\ request'[q].on = request[q].on /\ request'[q].by = request[q].by
    BY <1>9, DecideEffect
  <2>2. QED
    BY <1>2, <1>3, <1>4, <2>1
<1>10. ASSUME NEW q \in Requests, Serve(q) PROVE Refusing' /\ RevokedHere'
  <2>1. Ends(q) /\ UNCHANGED <<cache, answered>>
    BY <1>10 DEF Serve
  <2>2. QED
    BY <1>2, <2>1, EndsEffect
<1>11. ASSUME NEW q \in Requests, NEW r \in Replicas, NEW s \in Secrets, Ask(q, r, s)
       PROVE  Refusing' /\ RevokedHere'
  <2>1. /\ request' \in [Requests -> Request] /\ Others(q)
        /\ request'[q].at = "caller" /\ request'[q].on = r /\ request'[q].by = s
        /\ request'[q].known <=> s \in answered[r]
        /\ UNCHANGED <<secret, cache, answered>>
    BY <1>11, AsksEffect DEF rows
  <2>2. Refusing'
    BY <2>1 DEF Refusing, Others
  <2>3. RevokedHere'
    BY <2>1, StillRevoked DEF Others, Early, OfCaller
  <2>4. QED
    BY <2>2, <2>3
<1>12. ASSUME NEW r \in Replicas, Crash(r) PROVE Refusing' /\ RevokedHere'
  <2>1. /\ request' \in [Requests -> Request] /\ UNCHANGED answered
        /\ \A q \in Requests : request'[q] = Idle \/ request'[q] = request[q]
        /\ cache' = [cache EXCEPT ![r] = [p \in Principals |-> NoEntry]]
    BY <1>12, CrashEffect
  <2>2. NoEntry.holds = {}
    BY DEF NoEntry
  <2>3. \A o \in Replicas, p \in Principals : cache'[o][p].holds \subseteq cache[o][p].holds
    BY <2>1, <2>2 DEF TypeOK
  <2>4. QED
    BY <1>0, <1>1, <2>1, <2>3 DEF Plain
<1>13. ASSUME NEW r \in Replicas, NEW p \in Principals, Age(r, p) PROVE Refusing' /\ RevokedHere'
  <2>1. NoEntry \in Entry /\ NoEntry.holds = {}
    BY DEF NoEntry, Entry
  <2>2. UNCHANGED <<request, answered>> /\ cache' = [cache EXCEPT ![r][p] = NoEntry]
    BY <1>13 DEF Age
  <2>3. \A o \in Replicas, x \in Principals : cache'[o][x].holds \subseteq cache[o][x].holds
    BY <2>1, <2>2, CacheEffect
  <2>4. request' \in [Requests -> Request]
    BY <2>2 DEF TypeOK
  <2>5. QED
    BY <1>1, <2>2, <2>3, <2>4
<1>14. CASE Recover \/ (\E s \in Secrets : Expire(s)) \/ UNCHANGED vars
  <2>1. UNCHANGED <<request, cache, answered>>
    BY <1>14 DEF Recover, Expire, vars
  <2>2. request' \in [Requests -> Request]
    BY <2>1 DEF TypeOK
  <2>3. QED
    BY <1>1, <2>1, <2>2
<1>15. QED
  BY <1>5, <1>6, <1>7, <1>8, <1>9, <1>10, <1>11, <1>12, <1>13, <1>14,
     LoadRefusing, ResolvedRefusing, EvictRefusing DEF Next, Step

-----------------------------------------------------------------------------
(* The theorems *)

LEMMA Initially ==
    ASSUME Init
    PROVE  IInv
<1>1. NoEntry \in Entry
  BY DEF NoEntry, Entry
<1>2. TypeOK
  BY <1>1, IdleFacts, IdentityAssumption DEF Init, TypeOK
<1>3. \A q \in Requests : request[q].at = "idle" /\ ~ request[q].known
  BY IdleFacts DEF Init
<1>4. Staged
  BY <1>3 DEF Staged
<1>5. RootsThere = {} /\ \A p \in Principals : Stored(p) = {}
  BY IdentityAssumption DEF Init, RootsThere, Stored, SecretsOf
<1>6. Capped
  <2>1. IsFiniteSet({}) /\ Cardinality({}) = 0 /\ {} \ expired = {}
    BY FS_EmptySet
  <2>2. QED
    BY <1>5, <2>1, IdentityAssumption DEF Capped, Usable
<1>7. Held /\ Doors
  BY <1>3 DEF Held, Doors, Holding, Removing, At
<1>8. Unissued /\ RootsKeepKey /\ ClaimedOnce
  BY <1>5 DEF Init, Unissued, RootsKeepKey, ClaimedOnce, SecretsOf
<1>9. Refusing /\ RevokedHere
  BY <1>3 DEF Init, Refusing, RevokedHere
<1>10. QED
  BY <1>2, <1>4, <1>6, <1>7, <1>8, <1>9 DEF IInv, Rows

\* The inductive invariant holds throughout.
THEOREM Invariance == Spec => []IInv
<1>1. Init => IInv
  BY Initially
<1>2. IInv /\ [Next]_vars => IInv'
  BY NextTypes, NextRows, NextRefusing DEF IInv
<1>3. QED
  BY <1>1, <1>2, PTL DEF Spec

\* Rows, caches and requests keep their types.
THEOREM TypeCorrect == Spec => []TypeOK
<1>1. IInv => TypeOK
  BY DEF IInv
<1>2. QED
  BY <1>1, Invariance, PTL

\* One claim ever takes the instance, and a root stays from then on
\* (InitializeInstance, DeletePrincipal).
THEOREM ClaimedOnceHolds == Spec => []ClaimedOnce
<1>1. IInv => ClaimedOnce
  BY DEF IInv, Rows
<1>2. QED
  BY <1>1, Invariance, PTL

\* A root that was given a secret keeps a permanent one (IssueSecret,
\* RevokeSecret).
THEOREM RootsKeepKeyHolds == Spec => []RootsKeepKey
<1>1. IInv => RootsKeepKey
  BY DEF IInv, Rows
<1>2. QED
  BY <1>1, Invariance, PTL

\* No principal has more usable secrets than it may (IssueSecret under the
\* principal's row lock).
THEOREM CapHoldsAlways == Spec => []CapHolds
<1>1. IInv => CapHolds
  BY DEF IInv, Rows, Capped, CapHolds
<1>2. QED
  BY <1>1, Invariance, PTL

\* A revocation is honoured at once by the replica that answered it
\* (cachedPrincipalByID, evictPrincipal).
THEOREM RevokedHereHolds == Spec => []RevokedHere
<1>1. IInv => RevokedHere
  BY DEF IInv
<1>2. QED
  BY <1>1, Invariance, PTL
=============================================================================
