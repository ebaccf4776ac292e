---------------------------- MODULE Audit_proofs ----------------------------
(***************************************************************************)
(* The broker keeps the audit trail, and a removal spares the calls under     *)
(* way, for any number of targets, requests and rotations and any depth of    *)
(* the queues.                                                             *)
(***************************************************************************)
EXTENDS Audit, TLAPS

-----------------------------------------------------------------------------
(* Sequences *)

\* No place of a sequence holds what another one holds.
Once(q) == \A i, j \in DOMAIN q : q[i] = q[j] => i = j

\* What is left of a sequence without one of its places.
LEMMA PlaceRemoved ==
    ASSUME NEW S, NEW s \in Seq(S), NEW i \in DOMAIN s
    PROVE  /\ RemoveAt(s, i) \in Seq(S)
           /\ DOMAIN RemoveAt(s, i) = 1 .. Len(s) - 1
           /\ \A k \in 1 .. Len(s) - 1 :
                 RemoveAt(s, i)[k] = s[IF k < i THEN k ELSE k + 1]
<1> DEFINE a == SubSeq(s, 1, i - 1)  b == SubSeq(s, i + 1, Len(s))
<1>1. /\ a \in Seq(S) /\ Len(a) = i - 1 /\ \A k \in 1 .. i - 1 : a[k] = s[k]
      /\ b \in Seq(S) /\ Len(b) = Len(s) - i /\ \A k \in 1 .. Len(s) - i : b[k] = s[k + i]
      /\ i \in 1 .. Len(s) /\ Len(s) \in Nat
  OBVIOUS
<1> HIDE DEF a, b
<1>2. /\ a \o b \in Seq(S) /\ Len(a \o b) = Len(s) - 1
      /\ \A k \in 1 .. Len(s) - 1 : (a \o b)[k] = IF k < i THEN a[k] ELSE b[k - (i - 1)]
  BY <1>1
<1>3. ASSUME NEW k \in 1 .. Len(s) - 1
      PROVE  (a \o b)[k] = s[IF k < i THEN k ELSE k + 1]
  <2>1. CASE k < i
    BY <1>1, <1>2, <2>1
  <2>2. CASE ~ k < i
    <3> DEFINE m == k - (i - 1)
    <3>1. m \in 1 .. Len(s) - i /\ m + i = k + 1
      BY <1>1, <2>2
    <3>2. (a \o b)[k] = b[m]
      BY <1>2, <2>2
    <3> HIDE DEF m
    <3>3. QED
      BY <1>1, <2>2, <3>1, <3>2
  <2>3. QED
    BY <2>1, <2>2
<1>4. RemoveAt(s, i) = a \o b
  BY DEF RemoveAt, a, b
<1>5. DOMAIN (a \o b) = 1 .. Len(s) - 1
  BY <1>2
<1>6. QED
  BY <1>2, <1>3, <1>4, <1>5

\* A sequence that names everything once does so without one of its places,
\* and no longer names what stood there.
LEMMA RemovedOnce ==
    ASSUME NEW S, NEW s \in Seq(S), NEW i \in DOMAIN s, Once(s)
    PROVE  /\ RemoveAt(s, i) \in Seq(S)
           /\ Once(RemoveAt(s, i))
           /\ \A k \in DOMAIN RemoveAt(s, i) :
                 \E m \in DOMAIN s : m # i /\ RemoveAt(s, i)[k] = s[m]
<1> DEFINE r == RemoveAt(s, i)  at(k) == IF k < i THEN k ELSE k + 1
<1>1. /\ r \in Seq(S) /\ DOMAIN r = 1 .. Len(s) - 1
      /\ \A k \in 1 .. Len(s) - 1 : r[k] = s[at(k)]
  BY PlaceRemoved
<1>2. DOMAIN s = 1 .. Len(s) /\ Len(s) \in Nat
  OBVIOUS
<1>3. \A k \in 1 .. Len(s) - 1 : at(k) \in 1 .. Len(s) /\ at(k) # i
  BY <1>2
<1>4. \A k, l \in 1 .. Len(s) - 1 : at(k) = at(l) => k = l
  BY <1>2
<1> HIDE DEF r, at
<1>5. Once(r)
  BY <1>1, <1>2, <1>3, <1>4 DEF Once
<1>6. \A k \in DOMAIN r : \E m \in DOMAIN s : m # i /\ r[k] = s[m]
  BY <1>1, <1>2, <1>3
<1>7. QED
  BY <1>1, <1>5, <1>6 DEF r

\* All but the first of a sequence.
LEMMA TailFacts ==
    ASSUME NEW S, NEW s \in Seq(S), s # <<>>
    PROVE  /\ Tail(s) \in Seq(S) /\ Head(s) \in S
           /\ 1 \in DOMAIN s /\ Head(s) = s[1]
           /\ \A i \in DOMAIN Tail(s) : i \in Nat \ {0} /\ i + 1 \in DOMAIN s /\ Tail(s)[i] = s[i + 1]
           /\ \A i \in DOMAIN s : i \in Nat /\ (i = 1 \/ (i - 1 \in DOMAIN Tail(s) /\ Tail(s)[i - 1] = s[i]))
           /\ Once(s) => Once(Tail(s)) /\ \A i \in DOMAIN Tail(s) : Tail(s)[i] # Head(s)
<1>1. /\ Tail(s) \in Seq(S) /\ Head(s) \in S
      /\ 1 \in DOMAIN s /\ Head(s) = s[1]
      /\ \A i \in DOMAIN Tail(s) : i \in Nat \ {0} /\ i + 1 \in DOMAIN s /\ Tail(s)[i] = s[i + 1]
      /\ \A i \in DOMAIN s : i \in Nat /\ (i = 1 \/ (i - 1 \in DOMAIN Tail(s) /\ Tail(s)[i - 1] = s[i]))
  OBVIOUS
<1> DEFINE t == Tail(s)  h == Head(s)
<1> HIDE DEF t, h
<1>2. /\ 1 \in DOMAIN s /\ h = s[1]
      /\ \A i \in DOMAIN t : i \in Nat \ {0} /\ i + 1 \in DOMAIN s /\ t[i] = s[i + 1]
  BY <1>1 DEF t, h
<1>3. ASSUME Once(s) PROVE Once(t) /\ \A i \in DOMAIN t : t[i] # h
  <2>1. ASSUME NEW i \in DOMAIN t, NEW j \in DOMAIN t, t[i] = t[j] PROVE i = j
    <3>1. i + 1 \in DOMAIN s /\ j + 1 \in DOMAIN s /\ s[i + 1] = s[j + 1] /\ i \in Nat /\ j \in Nat
      BY <1>2, <2>1
    <3>2. i + 1 = j + 1
      BY <1>3, <3>1 DEF Once
    <3>3. QED
      BY <3>1, <3>2
  <2>2. ASSUME NEW i \in DOMAIN t, t[i] = h PROVE FALSE
    <3>1. i + 1 \in DOMAIN s /\ s[i + 1] = s[1] /\ i \in Nat \ {0} /\ 1 \in DOMAIN s
      BY <1>2, <2>2
    <3>2. i + 1 = 1
      BY <1>3, <3>1 DEF Once
    <3>3. QED
      BY <3>1, <3>2
  <2>3. QED
    BY <2>1, <2>2 DEF Once
<1>4. QED
  BY <1>1, <1>3 DEF t, h

\* A sequence with one more place.
LEMMA AppendFacts ==
    ASSUME NEW S, NEW s \in Seq(S), NEW e \in S
    PROVE  /\ Append(s, e) \in Seq(S)
           /\ DOMAIN Append(s, e) = DOMAIN s \cup {Len(s) + 1}
           /\ Append(s, e)[Len(s) + 1] = e /\ Len(s) + 1 \notin DOMAIN s
           /\ \A i \in DOMAIN s : i \in Nat /\ i < Len(s) + 1 /\ Append(s, e)[i] = s[i]
  OBVIOUS

-----------------------------------------------------------------------------
(* The inductive invariant *)

\* A caller's phase tells a request from a rotation, and it waits for a target
\* only while it has one to visit.
Phased ==
    \A w \in Callers :
        /\ w \in Rotations => caller[w].at \in {"idle", "reopen", "done"}
        /\ w \in Requests => caller[w].at # "reopen"
        /\ caller[w].waiting => Sending(w) /\ caller[w].left # <<>>

\* Targets are listed once, and a caller is counted at each target it still has
\* to visit; a close waits only in the queue of a sink that takes nothing more.
Targeted ==
    /\ Once(targets)
    /\ \A i \in DOMAIN targets :
          /\ status[targets[i]] # "fresh"
          /\ up = "serving" => status[targets[i]] = "attached"
    /\ \A w \in Callers : /\ Once(caller[w].left)
                          /\ \A i \in DOMAIN caller[w].left : w \in holders[caller[w].left[i]]
    /\ \A s \in Sinks : \A i \in DOMAIN queue[s] :
          queue[s][i] = Close => status[s] \in {"sealed", "closed"}
    /\ RemovalSpares

Lands(r, s) == \E i \in DOMAIN trail[s] : trail[s][i] = r
Queued(r, s) == \E i \in DOMAIN queue[s] : queue[s][i] = r

\* The phases in which the record of a phase can have been offered.
Offered(phase) == IF phase = "request"
                  THEN {"request", "handler", "unavailable", "response", "done"}
                  ELSE {"response", "done"}

\* A record that is on its way to a sink, or there, was sent by a caller that
\* has left the target or waits at it.
Sent ==
    \A s \in Sinks : \A r \in Records : Queued(r, s) \/ Lands(r, s) =>
        /\ caller[r[1]].at \in Offered(r[2])
        /\ caller[r[1]].at = r[2] =>
              \A i \in DOMAIN caller[r[1]].left :
                  caller[r[1]].left[i] = s => i = 1 /\ caller[r[1]].waiting

\* It is there once, or on its way once, and a response is behind its request.
Ordered ==
    \A s \in Sinks :
        /\ \A r \in Records : ~ (Queued(r, s) /\ Lands(r, s))
        /\ \A i, j \in DOMAIN queue[s] :
              queue[s][i] = queue[s][j] /\ queue[s][i] \in Records => i = j
        /\ \A q \in Requests : \A i, j \in DOMAIN queue[s] :
              queue[s][i] = <<q, "request">> /\ queue[s][j] = <<q, "response">> => i < j
        /\ \A q \in Requests : ~ (Queued(<<q, "request">>, s) /\ Lands(<<q, "response">>, s))

\* What a caller counts as taken is in a file; what is not yet answered has no
\* verdict, and a handler is entered with one that lets it run.
Settled(w) ==
    /\ Sending(w) /\ caller[w].took => \E s \in Sinks : Lands(<<w, caller[w].at>>, s)
    /\ caller[w].reply # "none" => caller[w].waiting
    /\ caller[w].reply = "ok" => Lands(<<w, caller[w].at>>, Head(caller[w].left))
    /\ caller[w].at \in {"idle", "request"} => verdict[<<w, "request">>] = "none"
    /\ caller[w].at # "done" => verdict[<<w, "response">>] = "none"
    /\ caller[w].at = "handler" => verdict[<<w, "request">>] \in {"accepted", "untargeted"}
    /\ caller[w].at \in {"idle", "request", "handler"} => w \notin served

Answered == \A w \in Requests : Settled(w)

IInv == TypeOK /\ Phased /\ Targeted /\ Sent /\ Ordered /\ Answered

-----------------------------------------------------------------------------
(* What the steps do to the callers *)

LEMMA FreeFacts ==
    /\ Free \in Caller /\ Free.at = "idle" /\ Free.left = <<>> /\ ~ Free.waiting
    /\ ~ Free.took /\ Free.reply = "none"
  BY DEF Free, Caller

LEMMA FreeAt ==
    ASSUME NEW phase \in {"handler", "unavailable", "done"},
           NEW f, f = [Free EXCEPT !.at = phase]
    PROVE  f \in Caller /\ f.at = phase /\ f.left = <<>> /\ ~ f.waiting /\ ~ f.took /\ f.reply = "none"
  BY FreeFacts DEF Caller

\* A call that begins visits the targets there are, and is counted at each.
LEMMA AcquireEffect ==
    ASSUME TypeOK, NEW w \in Callers, NEW phase \in {"request", "response", "reopen"},
           Acquire(w, phase)
    PROVE  /\ caller' \in [Callers -> Caller] /\ holders' \in [Sinks -> SUBSET Callers]
           /\ caller'[w].at = phase /\ caller'[w].left = targets
           /\ ~ caller'[w].waiting /\ ~ caller'[w].took /\ caller'[w].reply = "none"
           /\ \A x \in Callers : x # w => caller'[x] = caller[x]
           /\ \A s \in Sinks : holders[s] \subseteq holders'[s]
           /\ \A i \in DOMAIN targets : w \in holders'[targets[i]]
<1> DEFINE f == [Free EXCEPT !.at = phase, !.left = targets, !.acquired = targets # <<>>]
<1>1. targets \in Seq(Sinks) /\ (targets # <<>>) \in BOOLEAN
  BY DEF TypeOK
<1>2. /\ f \in Caller /\ f.at = phase /\ f.left = targets
      /\ ~ f.waiting /\ ~ f.took /\ f.reply = "none"
  BY <1>1 DEF Free, Caller
<1>3. caller' = [caller EXCEPT ![w] = f]
  BY DEF Acquire
<1> HIDE DEF f
<1>4. holders' = [s \in Sinks |-> IF Contains(targets, s) THEN holders[s] \cup {w} ELSE holders[s]]
  BY DEF Acquire
<1>5. \A i \in DOMAIN targets : targets[i] \in Sinks /\ Contains(targets, targets[i])
  BY <1>1 DEF Contains
<1>6. QED
  BY <1>2, <1>3, <1>4, <1>5 DEF TypeOK

\* A call that leaves a target has the rest before it.
LEMMA ReleaseEffect ==
    ASSUME TypeOK, NEW w \in Callers, caller[w].left # <<>>, NEW took \in BOOLEAN,
           Release(w, took)
    PROVE  /\ caller' \in [Callers -> Caller] /\ holders' \in [Sinks -> SUBSET Callers]
           /\ caller'[w].at = caller[w].at /\ caller'[w].left = Tail(caller[w].left)
           /\ ~ caller'[w].waiting /\ caller'[w].reply = "none"
           /\ caller'[w].took <=> (caller[w].took \/ took)
           /\ \A x \in Callers : x # w => caller'[x] = caller[x]
           /\ \A s \in Sinks : s # Head(caller[w].left) => holders'[s] = holders[s]
           /\ \A s \in Sinks, x \in Callers : x # w => (x \in holders'[s] <=> x \in holders[s])
<1> DEFINE k == caller[w]
           f == [k EXCEPT !.left = Tail(k.left), !.took = k.took \/ took,
                          !.waiting = FALSE, !.reply = "none"]
<1>1. k \in Caller /\ k.left \in Seq(Sinks)
  BY DEF TypeOK, Caller
<1>2. Tail(k.left) \in Seq(Sinks) /\ Head(k.left) \in Sinks
  BY <1>1, TailFacts
<1>3. /\ f \in Caller /\ f.at = k.at /\ f.left = Tail(k.left)
      /\ ~ f.waiting /\ f.reply = "none" /\ (f.took <=> (k.took \/ took))
  BY <1>1, <1>2 DEF Caller
<1>4. caller' = [caller EXCEPT ![w] = f]
  BY DEF Release
<1>5. holders' = [holders EXCEPT ![Head(k.left)] = holders[Head(k.left)] \ {w}]
  BY DEF Release
<1> HIDE DEF f
<1>6. caller' \in [Callers -> Caller] /\ caller'[w] = f /\ \A x \in Callers : x # w => caller'[x] = caller[x]
  BY <1>3, <1>4 DEF TypeOK
<1>7. /\ holders' \in [Sinks -> SUBSET Callers]
      /\ \A s \in Sinks : s # Head(k.left) => holders'[s] = holders[s]
      /\ \A s \in Sinks, x \in Callers : x # w => (x \in holders'[s] <=> x \in holders[s])
  BY <1>2, <1>5 DEF TypeOK
<1>8. QED
  BY <1>3, <1>6, <1>7

\* A call that has visited its targets holds none.
LEMMA EndedEffect ==
    ASSUME TypeOK, NEW w \in Callers,
           NEW phase \in {"handler", "unavailable", "done"},
           caller' = [caller EXCEPT ![w] = [Free EXCEPT !.at = phase]]
    PROVE  /\ caller' \in [Callers -> Caller]
           /\ caller'[w].at = phase /\ caller'[w].left = <<>> /\ ~ caller'[w].waiting
           /\ ~ caller'[w].took /\ caller'[w].reply = "none"
           /\ \A x \in Callers : x # w => caller'[x] = caller[x]
<1> DEFINE f == [Free EXCEPT !.at = phase]
<1>1. /\ f \in Caller /\ f.at = phase /\ f.left = <<>>
      /\ ~ f.waiting /\ ~ f.took /\ f.reply = "none"
  BY FreeAt
<1> HIDE DEF f
<1>2. caller' = [caller EXCEPT ![w] = f]
  BY DEF f
<1>3. QED
  BY <1>1, <1>2 DEF TypeOK

\* An offer puts the caller's record, or its reopen, behind what is queued.
LEMMA OfferEffect ==
    ASSUME TypeOK, Phased, NEW w \in Callers, NEW s \in Sinks, Offer(w, s)
    PROVE  /\ caller' \in [Callers -> Caller]
           /\ caller'[w].waiting /\ caller'[w].at = caller[w].at /\ caller'[w].left = caller[w].left
           /\ caller'[w].took = caller[w].took /\ caller'[w].reply = caller[w].reply
           /\ \A x \in Callers : x # w => caller'[x] = caller[x]
           /\ <<w, caller[w].at>> \in Commands \ {Close}
           /\ queue' = [queue EXCEPT ![s] = Append(queue[s], <<w, caller[w].at>>)]
           /\ queue' \in [Sinks -> Seq(Commands)]
           /\ Sending(w) /\ ~ caller[w].waiting /\ caller[w].left # <<>> /\ s = Head(caller[w].left)
           /\ Accepting(s)
<1>1. /\ Sending(w) /\ ~ caller[w].waiting /\ caller[w].left # <<>> /\ s = Head(caller[w].left)
      /\ Accepting(s)
  BY DEF Offer, ToOffer
<1>2. caller' = [caller EXCEPT ![w].waiting = TRUE]
  BY DEF Offer
<1>3. [caller[w] EXCEPT !.waiting = TRUE] \in Caller
  BY DEF TypeOK, Caller
<1>4. /\ caller' \in [Callers -> Caller]
      /\ caller'[w].waiting /\ caller'[w].at = caller[w].at /\ caller'[w].left = caller[w].left
      /\ caller'[w].took = caller[w].took /\ caller'[w].reply = caller[w].reply
      /\ \A x \in Callers : x # w => caller'[x] = caller[x]
  BY <1>2, <1>3 DEF TypeOK, Caller
<1>5. /\ w \in Requests => caller[w].at \in {"request", "response"}
      /\ w \in Rotations => caller[w].at = "reopen"
  BY <1>1 DEF Phased, Sending
<1>6. <<w, caller[w].at>> \in Commands \ {Close}
  BY <1>5, AuditAssumption DEF Commands, Records, Callers
<1>7. queue' = [queue EXCEPT ![s] = Append(queue[s], <<w, caller[w].at>>)]
  BY DEF Offer
<1>8. Append(queue[s], <<w, caller[w].at>>) \in Seq(Commands)
  BY <1>6 DEF TypeOK
<1>9. QED
  BY <1>1, <1>4, <1>6, <1>7, <1>8 DEF TypeOK

\* A worker takes the first command; only the caller that waits for it hears.
LEMMA WorkEffect ==
    ASSUME TypeOK, NEW s \in Sinks, Work(s)
    PROVE  /\ queue[s] \in Seq(Commands) /\ queue[s] # <<>>
           /\ queue' = [queue EXCEPT ![s] = Tail(queue[s])] /\ queue' \in [Sinks -> Seq(Commands)]
           /\ \/ trail' = trail
              \/ /\ Head(queue[s]) \in Records /\ trail[s] \in Seq(Records)
                 /\ trail' = [trail EXCEPT ![s] = Append(trail[s], Head(queue[s]))]
           /\ \/ status' = status
              \/ Head(queue[s]) = Close /\ status' = [status EXCEPT ![s] = "closed"]
           /\ caller' \in [Callers -> Caller]
           /\ \A w \in Callers :
                 /\ caller'[w].at = caller[w].at /\ caller'[w].left = caller[w].left
                 /\ caller'[w].took = caller[w].took /\ caller'[w].waiting = caller[w].waiting
                 /\ \/ caller'[w] = caller[w]
                    \/ /\ Awaits(w, s, Head(queue[s]))
                       /\ caller'[w].reply = "ok" /\ Head(queue[s]) \in Records =>
                             trail' = [trail EXCEPT ![s] = Append(trail[s], Head(queue[s]))]
           /\ UNCHANGED <<targets, holders, verdict, served, up>>
<1> DEFINE c == Head(queue[s])
<1>1. PICK ok \in BOOLEAN :
        /\ trail' = IF ok /\ c \in Records THEN [trail EXCEPT ![s] = Append(@, c)] ELSE trail
        /\ status' = IF c = Close THEN [status EXCEPT ![s] = "closed"] ELSE status
        /\ caller' = [w \in Callers |->
                         IF Awaits(w, s, c)
                         THEN [caller[w] EXCEPT !.reply = IF ok THEN "ok" ELSE "error"]
                         ELSE caller[w]]
  BY DEF Work
<1>2. queue[s] # <<>> /\ queue' = [queue EXCEPT ![s] = Tail(queue[s])]
  BY DEF Work
<1>3. queue[s] \in Seq(Commands) /\ trail[s] \in Seq(Records)
  BY DEF TypeOK
<1>4. Tail(queue[s]) \in Seq(Commands)
  BY <1>2, <1>3, TailFacts
<1>5. queue' \in [Sinks -> Seq(Commands)]
  BY <1>2, <1>4 DEF TypeOK
<1>6. \A w \in Callers : [caller[w] EXCEPT !.reply = IF ok THEN "ok" ELSE "error"] \in Caller
  BY DEF TypeOK, Caller
<1> HIDE DEF c
<1>7. caller' \in [Callers -> Caller]
  BY <1>1, <1>6 DEF TypeOK
<1>8. ASSUME NEW w \in Callers
      PROVE  /\ caller'[w].at = caller[w].at /\ caller'[w].left = caller[w].left
             /\ caller'[w].took = caller[w].took /\ caller'[w].waiting = caller[w].waiting
             /\ \/ caller'[w] = caller[w]
                \/ Awaits(w, s, c) /\ (caller'[w].reply = "ok" => ok)
  BY <1>1 DEF TypeOK, Caller
<1>9. UNCHANGED <<targets, holders, verdict, served, up>>
  BY DEF Work
<1>10. QED
  BY <1>1, <1>2, <1>3, <1>5, <1>7, <1>8, <1>9 DEF c

-----------------------------------------------------------------------------
(* The kinds of step *)

Enters(w) == Begin(w) \/ Handle(w) \/ Unavailable(w)
Leaves(w) == (\E s \in Sinks : Refused(w, s)) \/ Replied(w) \/ TimeOut(w)
Finishes(w) == EndWrite(w) \/ EndReopen(w)

\* Where a call that begins comes from, and what it leaves alone.
LEMMA EntersEffect ==
    ASSUME TypeOK, Phased, NEW w \in Callers, Enters(w)
    PROVE  \E phase \in {"request", "response", "reopen"} :
              /\ Acquire(w, phase)
              /\ phase = "request" => w \in Requests /\ caller[w].at = "idle"
              /\ phase = "reopen" => w \in Rotations /\ w \notin Requests /\ caller[w].at = "idle"
              /\ phase = "response" => w \in Requests /\ caller[w].at \in {"handler", "unavailable"}
              /\ \/ served' = served
                 \/ /\ served' = served \cup {w} /\ caller[w].at = "handler"
                    /\ phase = "response"
              /\ UNCHANGED <<targets, status, queue, trail, verdict, up>>
<1>1. CASE Begin(w)
  BY <1>1, AuditAssumption DEF Begin, sinks, Callers
<1>2. CASE Handle(w)
  <2>1. w \in Requests
    BY <1>2 DEF Handle, Phased, Callers
  <2>2. QED
    BY <1>2, <2>1 DEF Handle, sinks
<1>3. CASE Unavailable(w)
  <2>1. w \in Requests
    BY <1>3 DEF Unavailable, Phased, Callers
  <2>2. QED
    BY <1>3, <2>1 DEF Unavailable, sinks
<1>4. QED
  BY <1>1, <1>2, <1>3 DEF Enters

\* A call leaves a target with what it was told there.
LEMMA LeavesEffect ==
    ASSUME TypeOK, Phased, NEW w \in Callers, Leaves(w)
    PROVE  /\ caller[w].left # <<>> /\ Sending(w)
           /\ \E took \in BOOLEAN :
                 Release(w, took) /\ (took => caller[w].waiting /\ caller[w].reply = "ok")
           /\ UNCHANGED <<targets, status, queue, trail, verdict, served, up>>
<1>1. CASE \E s \in Sinks : Refused(w, s)
  BY <1>1 DEF Refused, ToOffer, sinks
<1>2. CASE Replied(w)
  <2>1. Release(w, caller[w].reply = "ok") /\ caller[w].waiting
    BY <1>2 DEF Replied
  <2>2. (caller[w].reply = "ok") \in BOOLEAN
    OBVIOUS
  <2>3. QED
    BY <1>2, <2>1, <2>2 DEF Replied, Phased, sinks
<1>3. CASE TimeOut(w)
  BY <1>3 DEF TimeOut, Phased, sinks
<1>4. QED
  BY <1>1, <1>2, <1>3 DEF Leaves

\* A call ends when it has no target left.
LEMMA FinishesEffect ==
    ASSUME TypeOK, Phased, NEW w \in Callers, Finishes(w)
    PROVE  /\ caller[w].left = <<>> /\ Sending(w)
           /\ \E phase \in {"handler", "unavailable", "done"} :
                 /\ caller' = [caller EXCEPT ![w] = [Free EXCEPT !.at = phase]]
                 /\ w \in Rotations => phase = "done"
                 /\ w \in Requests /\ caller[w].at = "request" =>
                       phase = IF Outcome(w) = "refused" THEN "unavailable" ELSE "handler"
                 /\ w \in Requests /\ caller[w].at = "response" => phase = "done"
           /\ UNCHANGED <<targets, status, queue, trail, holders, served, up>>
           /\ w \in Requests => verdict' = [verdict EXCEPT ![<<w, caller[w].at>>] = Outcome(w)]
           /\ w \notin Requests => verdict' = verdict
<1>1. CASE EndWrite(w)
  <2>1. w \in Requests /\ w \notin Rotations /\ caller[w].at \in {"request", "response"}
    BY <1>1, AuditAssumption DEF EndWrite, Sending, Phased
  <2>2. QED
    BY <1>1, <2>1 DEF EndWrite, sinks
<1>2. CASE EndReopen(w)
  <2>1. w \in Rotations /\ w \notin Requests
    BY <1>2, AuditAssumption DEF EndReopen
  <2>2. QED
    BY <1>2, <2>1 DEF EndReopen, sinks
<1>3. QED
  BY <1>1, <1>2 DEF Finishes

-----------------------------------------------------------------------------
(* Types and phases *)

LEMMA CallTypes ==
    ASSUME TypeOK, Phased, NEW w \in Callers, Enters(w) \/ Leaves(w) \/ Finishes(w)
    PROVE  TypeOK' /\ Phased'
<1>1. CASE Enters(w)
  <2>1. PICK phase \in {"request", "response", "reopen"} :
              /\ Acquire(w, phase)
              /\ phase = "request" => w \in Requests /\ caller[w].at = "idle"
              /\ phase = "reopen" => w \in Rotations /\ w \notin Requests /\ caller[w].at = "idle"
              /\ phase = "response" => w \in Requests /\ caller[w].at \in {"handler", "unavailable"}
              /\ \/ served' = served
                 \/ served' = served \cup {w} /\ caller[w].at = "handler" /\ phase = "response"
              /\ UNCHANGED <<targets, status, queue, trail, verdict, up>>
    BY <1>1, EntersEffect
  <2>2. /\ caller' \in [Callers -> Caller] /\ holders' \in [Sinks -> SUBSET Callers]
        /\ caller'[w].at = phase /\ ~ caller'[w].waiting
        /\ \A x \in Callers : x # w => caller'[x] = caller[x]
    BY <2>1, AcquireEffect
  <2>3. served' \subseteq Requests
    BY <2>1 DEF TypeOK
  <2>4. w \in Requests => w \notin Rotations
    BY AuditAssumption
  <2>5. QED
    BY <2>1, <2>2, <2>3, <2>4 DEF TypeOK, Phased, Sending
<1>2. CASE Leaves(w)
  <2>1. /\ caller' \in [Callers -> Caller] /\ holders' \in [Sinks -> SUBSET Callers]
        /\ caller'[w].at = caller[w].at /\ ~ caller'[w].waiting
        /\ \A x \in Callers : x # w => caller'[x] = caller[x]
        /\ UNCHANGED <<targets, status, queue, trail, verdict, served, up>>
    BY <1>2, LeavesEffect, ReleaseEffect
  <2>2. QED
    BY <2>1 DEF TypeOK, Phased, Sending
<1>3. CASE Finishes(w)
  <2>1. PICK phase \in {"handler", "unavailable", "done"} :
              /\ caller' = [caller EXCEPT ![w] = [Free EXCEPT !.at = phase]]
              /\ w \in Rotations => phase = "done"
    BY <1>3, FinishesEffect
  <2>2. /\ caller' \in [Callers -> Caller] /\ caller'[w].at = phase /\ ~ caller'[w].waiting
        /\ \A x \in Callers : x # w => caller'[x] = caller[x]
    BY <2>1, EndedEffect
  <2>3. /\ UNCHANGED <<targets, status, queue, trail, holders, served, up>>
        /\ w \in Requests => verdict' = [verdict EXCEPT ![<<w, caller[w].at>>] = Outcome(w)]
        /\ w \notin Requests => verdict' = verdict
    BY <1>3, FinishesEffect
  <2>4. Outcome(w) \in {"accepted", "refused", "untargeted"}
    BY DEF Outcome
  <2>5. verdict' \in [Records -> {"none", "accepted", "refused", "untargeted"}]
    BY <2>3, <2>4 DEF TypeOK
  <2>6. QED
    BY <2>1, <2>2, <2>3, <2>5 DEF TypeOK, Phased, Sending
<1>4. QED
  BY <1>1, <1>2, <1>3

LEMMA OfferTypes ==
    ASSUME TypeOK, Phased, NEW w \in Callers, NEW s \in Sinks, Offer(w, s)
    PROVE  TypeOK' /\ Phased'
<1>1. UNCHANGED <<targets, status, trail, holders, verdict, served, up>>
  BY DEF Offer
<1>2. QED
  BY <1>1, OfferEffect DEF TypeOK, Phased, Sending

LEMMA WorkTypes ==
    ASSUME TypeOK, Phased, NEW s \in Sinks, Work(s)
    PROVE  TypeOK' /\ Phased'
<1>1. trail' \in [Sinks -> Seq(Records)]
  <2>1. CASE trail' = trail
    BY <2>1 DEF TypeOK
  <2>2. CASE /\ Head(queue[s]) \in Records /\ trail[s] \in Seq(Records)
             /\ trail' = [trail EXCEPT ![s] = Append(trail[s], Head(queue[s]))]
    <3>1. Append(trail[s], Head(queue[s])) \in Seq(Records)
      BY <2>2, AppendFacts
    <3>2. QED
      BY <2>2, <3>1 DEF TypeOK
  <2>3. QED
    BY <2>1, <2>2, WorkEffect
<1>2. status' \in [Sinks -> {"fresh", "attached", "draining", "closing", "sealed", "closed"}]
  BY WorkEffect DEF TypeOK
<1>3. /\ caller' \in [Callers -> Caller] /\ queue' \in [Sinks -> Seq(Commands)]
      /\ UNCHANGED <<targets, holders, verdict, served, up>>
      /\ \A w \in Callers : /\ caller'[w].at = caller[w].at /\ caller'[w].left = caller[w].left
                            /\ caller'[w].waiting = caller[w].waiting
  BY WorkEffect
<1>4. QED
  BY <1>1, <1>2, <1>3 DEF TypeOK, Phased, Sending

\* What the targets' administration changes.
Administers(s) == Add(s) \/ Detach(s) \/ CloseDrained(s) \/ CloseNow(s) \/ SendClose(s)

LEMMA AdministersTypes ==
    ASSUME TypeOK, Phased, NEW s \in Sinks, Administers(s)
    PROVE  TypeOK' /\ Phased'
<1>1. UNCHANGED <<trail, holders, caller, verdict, served, up>>
  BY DEF Administers, Add, Detach, CloseDrained, CloseNow, SendClose
<1>2. status' \in [Sinks -> {"fresh", "attached", "draining", "closing", "sealed", "closed"}]
  BY DEF Administers, Add, Detach, CloseDrained, CloseNow, SendClose, TypeOK
<1>3. targets' \in Seq(Sinks)
  <2>1. CASE Add(s)
    BY <2>1 DEF Add, TypeOK
  <2>2. CASE Detach(s)
    BY <2>2, PlaceRemoved DEF Detach, TypeOK
  <2>3. CASE UNCHANGED targets
    BY <2>3 DEF TypeOK
  <2>4. QED
    BY <2>1, <2>2, <2>3 DEF Administers, CloseDrained, CloseNow, SendClose
<1>4. queue' \in [Sinks -> Seq(Commands)]
  <2>1. CASE SendClose(s)
    <3>1. Append(queue[s], Close) \in Seq(Commands)
      BY DEF TypeOK, Commands
    <3>2. QED
      BY <2>1, <3>1 DEF SendClose, TypeOK
  <2>2. CASE UNCHANGED queue
    BY <2>2 DEF TypeOK
  <2>3. QED
    BY <2>1, <2>2 DEF Administers, Add, Detach, CloseDrained, CloseNow
<1>5. QED
  BY <1>1, <1>2, <1>3, <1>4 DEF TypeOK, Phased, Sending

LEMMA LastTypes ==
    ASSUME TypeOK, Phased, Shutdown \/ Exit \/ UNCHANGED vars
    PROVE  TypeOK' /\ Phased'
<1>1. CASE Exit
  <2>1. /\ targets' = <<>> /\ up' = "exited" /\ UNCHANGED <<trail, verdict, served>>
        /\ queue' = [s \in Sinks |-> <<>>] /\ status' = [s \in Sinks |-> "closed"]
        /\ holders' = [s \in Sinks |-> {}]
        /\ caller' = [w \in Callers |-> [Free EXCEPT !.at = "done"]]
    BY <1>1 DEF Exit
  <2> DEFINE f == [Free EXCEPT !.at = "done"]
  <2>2. f \in Caller /\ f.at = "done" /\ ~ f.waiting
    BY FreeAt
  <2> HIDE DEF f
  <2>3. caller' = [w \in Callers |-> f]
    BY <2>1 DEF f
  <2>4. queue' \in [Sinks -> Seq(Commands)] /\ targets' \in Seq(Sinks)
    BY <2>1
  <2>5. QED
    BY <2>1, <2>2, <2>3, <2>4 DEF TypeOK, Phased
<1>2. CASE Shutdown
  BY <1>2 DEF Shutdown, TypeOK, Phased, Sending, sinks
<1>3. CASE UNCHANGED vars
  BY <1>3 DEF vars, TypeOK, Phased, Sending, sinks
<1>4. QED
  BY <1>1, <1>2, <1>3

-----------------------------------------------------------------------------
(* Targets and those who hold them *)

\* The targets of a call are sinks, none of them fresh or taken away before
\* shutdown.
LEMMA LeftSinks ==
    ASSUME TypeOK
    PROVE  /\ \A w \in Callers : caller[w].left \in Seq(Sinks)
           /\ \A w \in Callers : \A i \in DOMAIN caller[w].left : caller[w].left[i] \in Sinks
           /\ \A i \in DOMAIN targets : targets[i] \in Sinks
<1>1. \A w \in Callers : caller[w].left \in Seq(Sinks)
  BY DEF TypeOK, Caller
<1>2. targets \in Seq(Sinks)
  BY DEF TypeOK
<1>3. QED
  BY <1>1, <1>2

LEMMA EntersTargeted ==
    ASSUME TypeOK, Phased, Targeted, NEW w \in Callers, Enters(w)
    PROVE  Targeted'
<1>1. PICK phase \in {"request", "response", "reopen"} :
        Acquire(w, phase) /\ UNCHANGED <<targets, status, queue, up>>
  BY EntersEffect
<1>2. /\ caller'[w].left = targets
      /\ \A x \in Callers : x # w => caller'[x] = caller[x]
      /\ \A s \in Sinks : holders[s] \subseteq holders'[s]
      /\ \A i \in DOMAIN targets : w \in holders'[targets[i]]
  BY <1>1, AcquireEffect
<1>3. ASSUME NEW x \in Callers
      PROVE  Once(caller'[x].left) /\ \A i \in DOMAIN caller'[x].left : x \in holders'[caller'[x].left[i]]
  <2>1. CASE x = w
    BY <1>2, <2>1 DEF Targeted
  <2>2. CASE x # w
    BY <1>2, <2>2, LeftSinks DEF Targeted
  <2>3. QED
    BY <2>1, <2>2
<1>4. ASSUME up' = "serving", NEW x \in Callers, NEW i \in DOMAIN caller'[x].left
      PROVE  status'[caller'[x].left[i]] \in {"attached", "draining"}
  <2>1. CASE x = w
    BY <1>1, <1>2, <1>4, <2>1 DEF Targeted
  <2>2. CASE x # w
    BY <1>1, <1>2, <1>4, <2>2 DEF Targeted, RemovalSpares
  <2>3. QED
    BY <2>1, <2>2
<1>5. QED
  BY <1>1, <1>3, <1>4 DEF Targeted, RemovalSpares

LEMMA LeavesTargeted ==
    ASSUME TypeOK, Phased, Targeted, NEW w \in Callers, Leaves(w)
    PROVE  Targeted'
<1>1. PICK took \in BOOLEAN :
        Release(w, took) /\ caller[w].left # <<>> /\ UNCHANGED <<targets, status, queue, up>>
  BY LeavesEffect
<1>2. /\ caller'[w].left = Tail(caller[w].left)
      /\ \A x \in Callers : x # w => caller'[x] = caller[x]
      /\ \A s \in Sinks : s # Head(caller[w].left) => holders'[s] = holders[s]
      /\ \A s \in Sinks, x \in Callers : x # w => (x \in holders'[s] <=> x \in holders[s])
  BY <1>1, ReleaseEffect
<1> DEFINE q == caller[w].left
<1>3. /\ Once(Tail(q)) /\ \A i \in DOMAIN Tail(q) : Tail(q)[i] # Head(q)
      /\ \A i \in DOMAIN Tail(q) : i + 1 \in DOMAIN q /\ Tail(q)[i] = q[i + 1]
  BY <1>1, LeftSinks, TailFacts DEF Targeted
<1>4. ASSUME NEW i \in DOMAIN Tail(q) PROVE w \in holders'[Tail(q)[i]]
  <2>1. w \in holders[Tail(q)[i]] /\ Tail(q)[i] \in Sinks
    BY <1>3, LeftSinks DEF Targeted
  <2>2. QED
    BY <1>2, <1>3, <2>1
<1>5. ASSUME NEW x \in Callers
      PROVE  Once(caller'[x].left) /\ \A i \in DOMAIN caller'[x].left : x \in holders'[caller'[x].left[i]]
  <2>1. CASE x = w
    BY <1>2, <1>3, <1>4, <2>1
  <2>2. CASE x # w
    BY <1>2, <2>2, LeftSinks DEF Targeted
  <2>3. QED
    BY <2>1, <2>2
<1>6. ASSUME up' = "serving", NEW x \in Callers, NEW i \in DOMAIN caller'[x].left
      PROVE  status'[caller'[x].left[i]] \in {"attached", "draining"}
  <2>1. CASE x = w
    <3>1. i + 1 \in DOMAIN q /\ caller'[x].left[i] = q[i + 1]
      BY <1>2, <1>3, <1>6, <2>1
    <3>2. status[q[i + 1]] \in {"attached", "draining"}
      BY <1>1, <1>6, <3>1 DEF Targeted, RemovalSpares
    <3>3. QED
      BY <1>1, <3>1, <3>2
  <2>2. CASE x # w
    BY <1>1, <1>2, <1>6, <2>2 DEF Targeted, RemovalSpares
  <2>3. QED
    BY <2>1, <2>2
<1>7. QED
  BY <1>1, <1>5, <1>6 DEF Targeted, RemovalSpares

LEMMA FinishesTargeted ==
    ASSUME TypeOK, Phased, Targeted, NEW w \in Callers, Finishes(w)
    PROVE  Targeted'
<1>1. PICK phase \in {"handler", "unavailable", "done"} :
        caller' = [caller EXCEPT ![w] = [Free EXCEPT !.at = phase]]
  BY FinishesEffect
<1>2. caller'[w].left = <<>> /\ \A x \in Callers : x # w => caller'[x] = caller[x]
  BY <1>1, EndedEffect
<1>3. UNCHANGED <<targets, status, queue, holders, up>>
  BY FinishesEffect
<1>4. DOMAIN <<>> = {} /\ Once(<<>>)
  BY DEF Once
<1>5. \A x \in Callers : Once(caller'[x].left) /\ \A i \in DOMAIN caller'[x].left :
          x # w /\ caller'[x].left[i] = caller[x].left[i] /\ i \in DOMAIN caller[x].left
  BY <1>2, <1>4 DEF Targeted
<1>6. QED
  BY <1>3, <1>5 DEF Targeted, RemovalSpares

LEMMA OfferTargeted ==
    ASSUME TypeOK, Phased, Targeted, NEW w \in Callers, NEW s \in Sinks, Offer(w, s)
    PROVE  Targeted'
<1> DEFINE c == <<w, caller[w].at>>
<1>1. /\ UNCHANGED <<targets, status, holders, up>>
      /\ \A x \in Callers : caller'[x].left = caller[x].left
      /\ c \in Commands \ {Close} /\ queue' = [queue EXCEPT ![s] = Append(queue[s], c)]
  BY OfferEffect DEF Offer
<1>2. queue[s] \in Seq(Commands)
  BY DEF TypeOK
<1> HIDE DEF c
<1>3. ASSUME NEW t \in Sinks, NEW i \in DOMAIN queue'[t], queue'[t][i] = Close
      PROVE  status[t] \in {"sealed", "closed"}
  <2>1. CASE t = s
    <3>1. i \in DOMAIN queue[s] /\ queue'[s][i] = queue[s][i]
      BY <1>1, <1>2, <1>3, <2>1, AppendFacts DEF TypeOK
    <3>2. QED
      BY <1>3, <2>1, <3>1 DEF Targeted
  <2>2. CASE t # s
    BY <1>1, <1>3, <2>2 DEF Targeted, TypeOK
  <2>3. QED
    BY <2>1, <2>2
<1>4. QED
  BY <1>1, <1>3 DEF Targeted, RemovalSpares

LEMMA WorkTargeted ==
    ASSUME TypeOK, Phased, Targeted, NEW s \in Sinks, Work(s)
    PROVE  Targeted'
<1>1. /\ UNCHANGED <<targets, holders, up>>
      /\ \A x \in Callers : caller'[x].left = caller[x].left
      /\ queue[s] \in Seq(Commands) /\ queue[s] # <<>>
      /\ queue' = [queue EXCEPT ![s] = Tail(queue[s])]
      /\ \/ status' = status
         \/ Head(queue[s]) = Close /\ status' = [status EXCEPT ![s] = "closed"]
  BY WorkEffect
<1>2. /\ 1 \in DOMAIN queue[s] /\ Head(queue[s]) = queue[s][1]
      /\ \A i \in DOMAIN Tail(queue[s]) : i + 1 \in DOMAIN queue[s] /\ Tail(queue[s])[i] = queue[s][i + 1]
  BY <1>1, TailFacts
<1>3. Head(queue[s]) = Close => status[s] \in {"sealed", "closed"}
  BY <1>2 DEF Targeted
<1>4. \A t \in Sinks : \/ status'[t] = status[t]
                      \/ (status[t] \in {"sealed", "closed"} /\ status'[t] = "closed")
  BY <1>1, <1>3 DEF TypeOK
<1>5. ASSUME NEW t \in Sinks, NEW i \in DOMAIN queue'[t], queue'[t][i] = Close
      PROVE  status[t] \in {"sealed", "closed"}
  <2>1. CASE t = s
    BY <1>1, <1>2, <1>5, <2>1 DEF Targeted, TypeOK
  <2>2. CASE t # s
    BY <1>1, <1>5, <2>2 DEF Targeted, TypeOK
  <2>3. QED
    BY <2>1, <2>2
<1>6. \A i \in DOMAIN targets : status'[targets[i]] # "fresh" /\
          (up = "serving" => status'[targets[i]] = "attached")
  BY <1>4, LeftSinks DEF Targeted
<1>7. up = "serving" => \A x \in Callers : \A i \in DOMAIN caller[x].left :
          status'[caller[x].left[i]] \in {"attached", "draining"}
  BY <1>4, LeftSinks DEF Targeted, RemovalSpares
<1>8. \A t \in Sinks : \A i \in DOMAIN queue'[t] :
          queue'[t][i] = Close => status'[t] \in {"sealed", "closed"}
  BY <1>4, <1>5
<1>9. QED
  BY <1>1, <1>6, <1>7, <1>8 DEF Targeted, RemovalSpares

\* Who administers a target touches no call and no other target.
LEMMA AdministersTargeted ==
    ASSUME TypeOK, Phased, Targeted, NEW s \in Sinks, Administers(s)
    PROVE  Targeted'
<1>0. UNCHANGED <<holders, caller, up>>
  BY DEF Administers, Add, Detach, CloseDrained, CloseNow, SendClose
<1>1. CASE Add(s)
  <2>1. /\ status[s] = "fresh" /\ targets' = Append(targets, s) /\ UNCHANGED queue
        /\ status' = [status EXCEPT ![s] = "attached"]
    BY <1>1 DEF Add
  <2>2. \A t \in Sinks : status'[t] = IF t = s THEN "attached" ELSE status[t]
    BY <2>1 DEF TypeOK
  <2>3. targets \in Seq(Sinks) /\ \A i \in DOMAIN targets : targets[i] # s
    BY <2>1 DEF Targeted, TypeOK
  <2>4. /\ DOMAIN targets' = DOMAIN targets \cup {Len(targets) + 1}
        /\ targets'[Len(targets) + 1] = s /\ \A i \in DOMAIN targets : targets'[i] = targets[i]
    BY <2>1, <2>3, AppendFacts
  <2>5. Once(targets')
    BY <2>3, <2>4 DEF Targeted, Once
  <2>6. \A i \in DOMAIN targets' : status'[targets'[i]] # "fresh" /\
            (up = "serving" => status'[targets'[i]] = "attached")
    BY <2>2, <2>4, LeftSinks DEF Targeted
  <2>7. \A t \in Sinks : \A i \in DOMAIN queue[t] :
            queue[t][i] = Close => status'[t] \in {"sealed", "closed"}
    BY <2>1, <2>2 DEF Targeted
  <2>8. QED
    BY <1>0, <2>1, <2>2, <2>5, <2>6, <2>7, LeftSinks DEF Targeted, RemovalSpares
<1>2. CASE Detach(s)
  <2>1. PICK i \in DOMAIN targets : targets[i] = s /\ targets' = RemoveAt(targets, i)
    BY <1>2 DEF Detach
  <2>2. UNCHANGED queue /\ \A t \in Sinks :
            status'[t] = IF t = s /\ status[t] = "attached" THEN "draining" ELSE status[t]
    BY <1>2 DEF Detach, TypeOK
  <2>3. Once(targets') /\ \A k \in DOMAIN targets' : \E m \in DOMAIN targets : m # i /\ targets'[k] = targets[m]
    BY <2>1, RemovedOnce DEF Targeted, TypeOK
  <2>4. \A k \in DOMAIN targets' : targets'[k] # s /\ \E m \in DOMAIN targets : targets'[k] = targets[m]
    BY <2>1, <2>3 DEF Targeted, Once
  <2>5. \A k \in DOMAIN targets' : status'[targets'[k]] # "fresh" /\
            (up = "serving" => status'[targets'[k]] = "attached")
    BY <2>2, <2>4, LeftSinks DEF Targeted
  <2>6. \A t \in Sinks : \A k \in DOMAIN queue[t] :
            queue[t][k] = Close => status'[t] \in {"sealed", "closed"}
    BY <2>2 DEF Targeted
  <2>7. QED
    BY <1>0, <2>2, <2>3, <2>5, <2>6, LeftSinks DEF Targeted, RemovalSpares
<1>3. CASE CloseDrained(s) \/ CloseNow(s) \/ SendClose(s)
  <2>1. UNCHANGED targets
    BY <1>3 DEF CloseDrained, CloseNow, SendClose
  <2>2. PICK now \in {"closing", "sealed"} : status' = [status EXCEPT ![s] = now] /\ status[s] # "fresh"
    BY <1>3 DEF CloseDrained, CloseNow, SendClose
  <2>3. \A t \in Sinks : status'[t] = IF t = s THEN now ELSE status[t]
    BY <2>2 DEF TypeOK
  <2>4. up = "serving" => status[s] # "attached"
    BY <1>3 DEF CloseDrained, CloseNow, SendClose
  <2>5. up = "serving" => \A w \in Callers : \A i \in DOMAIN caller[w].left : caller[w].left[i] # s
    <3>1. SUFFICES ASSUME up = "serving", NEW w \in Callers, NEW i \in DOMAIN caller[w].left,
                          caller[w].left[i] = s
                   PROVE  FALSE
      OBVIOUS
    <3>2. w \in holders[s] /\ status[s] \in {"attached", "draining"}
      BY <3>1 DEF Targeted, RemovalSpares
    <3>3. QED
      BY <1>3, <3>1, <3>2 DEF CloseDrained, CloseNow, SendClose, Drained
  <2>6. \A i \in DOMAIN targets : status'[targets[i]] # "fresh" /\
            (up = "serving" => status'[targets[i]] = "attached")
    BY <2>3, <2>4, LeftSinks DEF Targeted
  <2>7. up = "serving" => \A w \in Callers : \A i \in DOMAIN caller[w].left :
            status'[caller[w].left[i]] \in {"attached", "draining"}
    BY <2>3, <2>5, LeftSinks DEF Targeted, RemovalSpares
  <2>8. \A t \in Sinks : \A i \in DOMAIN queue'[t] :
            queue'[t][i] = Close => status'[t] \in {"sealed", "closed"}
    <3>1. CASE SendClose(s)
      <4>1. now = "sealed" /\ \A t \in Sinks : t # s => queue'[t] = queue[t]
        BY <2>2, <3>1 DEF SendClose, TypeOK
      <4>2. QED
        BY <2>3, <4>1 DEF Targeted
    <3>2. CASE UNCHANGED queue /\ status[s] \in {"draining", "attached"}
      BY <2>3, <3>2 DEF Targeted
    <3>3. QED
      BY <1>3, <3>1, <3>2 DEF CloseDrained, CloseNow
  <2>9. QED
    BY <1>0, <2>1, <2>6, <2>7, <2>8 DEF Targeted, RemovalSpares
<1>4. QED
  BY <1>1, <1>2, <1>3 DEF Administers

LEMMA LastTargeted ==
    ASSUME TypeOK, Targeted, Shutdown \/ Exit \/ UNCHANGED vars
    PROVE  Targeted'
<1>1. CASE Exit
  <2> DEFINE f == [Free EXCEPT !.at = "done"]
  <2>1. f.left = <<>>
    BY FreeAt
  <2> HIDE DEF f
  <2>2. /\ targets' = <<>> /\ up' = "exited"
        /\ queue' = [s \in Sinks |-> <<>>] /\ caller' = [w \in Callers |-> f]
    BY <1>1 DEF Exit, f
  <2>3. DOMAIN <<>> = {} /\ Once(<<>>)
    BY DEF Once
  <2>4. (\A s \in Sinks : queue'[s] = <<>>) /\ \A w \in Callers : caller'[w].left = <<>>
    BY <2>1, <2>2
  <2>5. QED
    BY <2>2, <2>3, <2>4 DEF Targeted, RemovalSpares
<1>2. CASE Shutdown \/ UNCHANGED vars
  <2>1. UNCHANGED <<targets, status, queue, holders, caller>> /\ (up' = "serving" => up = "serving")
    BY <1>2 DEF Shutdown, vars, sinks
  <2>2. QED
    BY <2>1 DEF Targeted, RemovalSpares
<1>3. QED
  BY <1>1, <1>2

-----------------------------------------------------------------------------
(* Records on their way *)

\* A record is a request's.
LEMMA RecordFacts ==
    /\ \A r \in Records : /\ r[1] \in Requests /\ r[1] \in Callers
                          /\ r[2] \in {"request", "response"} /\ r = <<r[1], r[2]>>
    /\ \A q \in Requests : <<q, "request">> \in Records /\ <<q, "response">> \in Records
    /\ Close \notin Records
    /\ \A w \in Rotations : \A phase : <<w, phase>> \notin Records
  BY AuditAssumption DEF Records, Callers

LEMMA EntersSent ==
    ASSUME TypeOK, Phased, Sent, NEW w \in Callers, Enters(w)
    PROVE  Sent'
<1>1. PICK phase \in {"request", "response", "reopen"} :
        /\ Acquire(w, phase) /\ UNCHANGED <<queue, trail>>
        /\ phase \in {"request", "reopen"} => caller[w].at = "idle"
        /\ phase = "response" => caller[w].at \in {"handler", "unavailable"}
  BY EntersEffect
<1>2. caller'[w].at = phase /\ \A x \in Callers : x # w => caller'[x] = caller[x]
  BY <1>1, AcquireEffect
<1>3. ASSUME NEW s \in Sinks, NEW r \in Records, Queued(r, s) \/ Lands(r, s)
      PROVE  /\ caller'[r[1]].at \in Offered(r[2])
             /\ caller'[r[1]].at = r[2] =>
                   \A i \in DOMAIN caller'[r[1]].left :
                       caller'[r[1]].left[i] = s => i = 1 /\ caller'[r[1]].waiting
  <2>1. r[1] \in Callers /\ r[2] \in {"request", "response"} /\ caller[r[1]].at \in Offered(r[2])
    BY <1>3, RecordFacts DEF Sent
  <2>2. CASE r[1] # w
    BY <1>2, <1>3, <2>1, <2>2 DEF Sent
  <2>3. CASE r[1] = w
    <3>1. r[2] = "request" /\ phase = "response"
      BY <1>1, <2>1, <2>3 DEF Offered
    <3>2. QED
      BY <1>2, <2>3, <3>1 DEF Offered
  <2>4. QED
    BY <2>2, <2>3
<1>4. QED
  BY <1>1, <1>3 DEF Sent, Queued, Lands

LEMMA LeavesSent ==
    ASSUME TypeOK, Phased, Sent, NEW w \in Callers, Leaves(w)
    PROVE  Sent'
<1>1. PICK took \in BOOLEAN :
        Release(w, took) /\ caller[w].left # <<>> /\ UNCHANGED <<queue, trail>>
  BY LeavesEffect
<1>2. /\ caller'[w].at = caller[w].at /\ caller'[w].left = Tail(caller[w].left)
      /\ \A x \in Callers : x # w => caller'[x] = caller[x]
  BY <1>1, ReleaseEffect
<1> DEFINE q == caller[w].left
<1>3. \A i \in DOMAIN Tail(q) : i \in Nat \ {0} /\ i + 1 \in DOMAIN q /\ Tail(q)[i] = q[i + 1]
  BY <1>1, LeftSinks, TailFacts
<1>4. ASSUME NEW s \in Sinks, NEW r \in Records, Queued(r, s) \/ Lands(r, s)
      PROVE  /\ caller'[r[1]].at \in Offered(r[2])
             /\ caller'[r[1]].at = r[2] =>
                   \A i \in DOMAIN caller'[r[1]].left :
                       caller'[r[1]].left[i] = s => i = 1 /\ caller'[r[1]].waiting
  <2>1. r[1] \in Callers /\ caller[r[1]].at \in Offered(r[2])
    BY <1>4, RecordFacts DEF Sent
  <2>2. CASE r[1] # w
    BY <1>2, <1>4, <2>1, <2>2 DEF Sent
  <2>3. CASE r[1] = w
    <3>1. ASSUME caller'[w].at = r[2], NEW i \in DOMAIN Tail(q), Tail(q)[i] = s PROVE FALSE
      <4>1. i + 1 \in DOMAIN q /\ q[i + 1] = s /\ i \in Nat \ {0}
        BY <1>3, <3>1
      <4>2. caller[w].at = r[2]
        BY <1>2, <3>1
      <4>3. i + 1 = 1
        BY <1>4, <2>3, <4>1, <4>2 DEF Sent
      <4>4. QED
        BY <4>1, <4>3
    <3>2. QED
      BY <1>2, <2>1, <2>3, <3>1
  <2>4. QED
    BY <2>2, <2>3
<1>5. QED
  BY <1>1, <1>4 DEF Sent, Queued, Lands

LEMMA FinishesSent ==
    ASSUME TypeOK, Phased, Sent, NEW w \in Callers, Finishes(w)
    PROVE  Sent'
<1>1. PICK phase \in {"handler", "unavailable", "done"} :
        /\ caller' = [caller EXCEPT ![w] = [Free EXCEPT !.at = phase]]
        /\ w \in Requests /\ caller[w].at = "response" => phase = "done"
  BY FinishesEffect
<1>2. /\ caller'[w].at = phase /\ \A x \in Callers : x # w => caller'[x] = caller[x]
      /\ UNCHANGED <<queue, trail>> /\ Sending(w)
  BY <1>1, EndedEffect, FinishesEffect
<1>3. ASSUME NEW s \in Sinks, NEW r \in Records, Queued(r, s) \/ Lands(r, s)
      PROVE  /\ caller'[r[1]].at \in Offered(r[2])
             /\ caller'[r[1]].at = r[2] =>
                   \A i \in DOMAIN caller'[r[1]].left :
                       caller'[r[1]].left[i] = s => i = 1 /\ caller'[r[1]].waiting
  <2>1. /\ r[1] \in Callers /\ r[1] \in Requests /\ r[2] \in {"request", "response"}
        /\ caller[r[1]].at \in Offered(r[2])
    BY <1>3, RecordFacts DEF Sent
  <2>2. CASE r[1] # w
    BY <1>2, <1>3, <2>1, <2>2 DEF Sent
  <2>3. CASE r[1] = w
    BY <1>1, <1>2, <2>1, <2>3 DEF Offered, Sending
  <2>4. QED
    BY <2>2, <2>3
<1>4. QED
  BY <1>2, <1>3 DEF Sent, Queued, Lands

\* An offer is of a record that is neither on its way to the sink nor there; and
\* before a response nothing of it can be.
LEMMA OfferFresh ==
    ASSUME TypeOK, Phased, Sent, NEW w \in Requests, NEW s \in Sinks, Offer(w, s)
    PROVE  /\ <<w, caller[w].at>> \in Records
           /\ ~ Queued(<<w, caller[w].at>>, s) /\ ~ Lands(<<w, caller[w].at>>, s)
           /\ caller[w].at = "request" =>
                 ~ Queued(<<w, "response">>, s) /\ ~ Lands(<<w, "response">>, s)
<1>1. /\ Sending(w) /\ ~ caller[w].waiting /\ caller[w].left # <<>> /\ s = Head(caller[w].left)
      /\ w \in Callers
  BY OfferEffect DEF Callers
<1>2. caller[w].at \in {"request", "response"} /\ <<w, caller[w].at>> \in Records
  BY <1>1, RecordFacts DEF Sending, Phased
<1>3. 1 \in DOMAIN caller[w].left /\ caller[w].left[1] = s
  BY <1>1, LeftSinks, TailFacts
<1>4. ASSUME Queued(<<w, caller[w].at>>, s) \/ Lands(<<w, caller[w].at>>, s) PROVE FALSE
  <2> DEFINE r == <<w, caller[w].at>>
  <2>1. r \in Records /\ r[1] = w /\ r[2] = caller[w].at
    BY <1>2
  <2>2. caller[w].waiting
    BY <1>3, <1>4, <2>1 DEF Sent
  <2>3. QED
    BY <1>1, <2>2
<1>5. ASSUME caller[w].at = "request", Queued(<<w, "response">>, s) \/ Lands(<<w, "response">>, s)
      PROVE  FALSE
  <2> DEFINE r == <<w, "response">>
  <2>1. r \in Records /\ r[1] = w /\ r[2] = "response"
    BY RecordFacts
  <2>2. caller[w].at \in Offered("response")
    BY <1>5, <2>1 DEF Sent
  <2>3. QED
    BY <1>5, <2>2 DEF Offered
<1>6. QED
  BY <1>2, <1>4, <1>5
\* What an offer puts on its way.
LEMMA OfferQueued ==
    ASSUME TypeOK, Phased, NEW w \in Callers, NEW s \in Sinks, Offer(w, s)
    PROVE  /\ UNCHANGED trail
           /\ \A t \in Sinks : t # s => queue'[t] = queue[t]
           /\ DOMAIN queue'[s] = DOMAIN queue[s] \cup {Len(queue[s]) + 1}
           /\ queue'[s][Len(queue[s]) + 1] = <<w, caller[w].at>> /\ Len(queue[s]) + 1 \notin DOMAIN queue[s]
           /\ \A i \in DOMAIN queue[s] : i \in Nat /\ i < Len(queue[s]) + 1 /\ queue'[s][i] = queue[s][i]
           /\ \A t \in Sinks, r \in Records :
                 Queued(r, t)' => Queued(r, t) \/ (t = s /\ r = <<w, caller[w].at>> /\ w \in Requests)
<1> DEFINE c == <<w, caller[w].at>>
<1>1. /\ queue' = [queue EXCEPT ![s] = Append(queue[s], c)] /\ c \in Commands
      /\ w \notin Requests => c \notin Records
  BY OfferEffect, RecordFacts DEF Callers
<1>2. queue[s] \in Seq(Commands)
  BY DEF TypeOK
<1> HIDE DEF c
<1>3. (\A t \in Sinks : t # s => queue'[t] = queue[t]) /\ queue'[s] = Append(queue[s], c)
  BY <1>1 DEF TypeOK
<1>4. /\ DOMAIN queue'[s] = DOMAIN queue[s] \cup {Len(queue[s]) + 1}
      /\ queue'[s][Len(queue[s]) + 1] = c /\ Len(queue[s]) + 1 \notin DOMAIN queue[s]
      /\ \A i \in DOMAIN queue[s] : i \in Nat /\ i < Len(queue[s]) + 1 /\ queue'[s][i] = queue[s][i]
  BY <1>1, <1>2, <1>3, AppendFacts
<1>5. \A t \in Sinks, r \in Records : Queued(r, t)' => Queued(r, t) \/ (t = s /\ r = c)
  BY <1>3, <1>4 DEF Queued
<1>6. UNCHANGED trail
  BY DEF Offer
<1>7. QED
  BY <1>1, <1>3, <1>4, <1>5, <1>6 DEF c

LEMMA OfferSent ==
    ASSUME TypeOK, Phased, Targeted, Sent, NEW w \in Callers, NEW s \in Sinks, Offer(w, s)
    PROVE  Sent'
<1>1. /\ \A x \in Callers : caller'[x].at = caller[x].at /\ caller'[x].left = caller[x].left
      /\ \A x \in Callers : caller[x].waiting => caller'[x].waiting
      /\ caller'[w].waiting /\ Sending(w) /\ caller[w].left # <<>> /\ s = Head(caller[w].left)
  BY OfferEffect
<1>2. /\ \A t \in Sinks, r \in Records : Lands(r, t)' <=> Lands(r, t)
      /\ \A t \in Sinks, r \in Records :
            Queued(r, t)' => Queued(r, t) \/ (t = s /\ r = <<w, caller[w].at>> /\ w \in Requests)
  BY OfferQueued DEF Lands
<1>3. 1 \in DOMAIN caller[w].left /\ caller[w].left[1] = s /\ Once(caller[w].left)
  BY <1>1, LeftSinks, TailFacts DEF Targeted
<1>4. ASSUME NEW t \in Sinks, NEW r \in Records, Queued(r, t)' \/ Lands(r, t)'
      PROVE  /\ caller'[r[1]].at \in Offered(r[2])
             /\ caller'[r[1]].at = r[2] =>
                   \A i \in DOMAIN caller'[r[1]].left :
                       caller'[r[1]].left[i] = t => i = 1 /\ caller'[r[1]].waiting
  <2>1. r[1] \in Callers /\ r[2] \in {"request", "response"}
    BY RecordFacts
  <2>2. CASE Queued(r, t) \/ Lands(r, t)
    BY <1>1, <2>1, <2>2 DEF Sent
  <2>3. CASE t = s /\ r = <<w, caller[w].at>> /\ w \in Requests
    <3>1. r[1] = w /\ r[2] = caller[w].at /\ caller[w].at \in Offered(r[2])
      BY <2>1, <2>3 DEF Offered
    <3>2. \A i \in DOMAIN caller[w].left : caller[w].left[i] = s => i = 1
      BY <1>3 DEF Once
    <3>3. QED
      BY <1>1, <2>3, <3>1, <3>2
  <2>4. QED
    BY <1>2, <1>4, <2>2, <2>3
<1>5. QED
  BY <1>4 DEF Sent

\* What a worker moves from the queue to the file.
LEMMA WorkQueued ==
    ASSUME TypeOK, NEW s \in Sinks, Work(s)
    PROVE  /\ \A t \in Sinks : t # s => queue'[t] = queue[t]
           /\ 1 \in DOMAIN queue[s] /\ Head(queue[s]) = queue[s][1]
           /\ \A i \in DOMAIN queue'[s] : /\ i \in Nat \ {0} /\ i + 1 \in DOMAIN queue[s]
                                          /\ queue'[s][i] = queue[s][i + 1]
           /\ \A t \in Sinks, r \in Records : Queued(r, t)' => Queued(r, t)
           /\ \A t \in Sinks, r \in Records : Lands(r, t) => Lands(r, t)'
           /\ \A t \in Sinks, r \in Records :
                 Lands(r, t)' => Lands(r, t) \/ (t = s /\ r = queue[s][1] /\ Queued(r, s))
<1> DEFINE c == Head(queue[s])
<1>1. /\ queue[s] \in Seq(Commands) /\ queue[s] # <<>>
      /\ queue' = [queue EXCEPT ![s] = Tail(queue[s])]
      /\ \/ trail' = trail
         \/ /\ c \in Records /\ trail[s] \in Seq(Records)
            /\ trail' = [trail EXCEPT ![s] = Append(trail[s], c)]
  BY WorkEffect
<1>2. (\A t \in Sinks : t # s => queue'[t] = queue[t]) /\ queue'[s] = Tail(queue[s])
  BY <1>1 DEF TypeOK
<1>3. /\ 1 \in DOMAIN queue[s] /\ c = queue[s][1]
      /\ \A i \in DOMAIN queue'[s] : /\ i \in Nat \ {0} /\ i + 1 \in DOMAIN queue[s]
                                     /\ queue'[s][i] = queue[s][i + 1]
  <2>1. /\ 1 \in DOMAIN queue[s] /\ Head(queue[s]) = queue[s][1]
        /\ \A i \in DOMAIN Tail(queue[s]) : /\ i \in Nat \ {0} /\ i + 1 \in DOMAIN queue[s]
                                            /\ Tail(queue[s])[i] = queue[s][i + 1]
    BY <1>1, TailFacts
  <2>2. QED
    BY <1>2, <2>1
<1> HIDE DEF c
<1>4. \A t \in Sinks, r \in Records : Queued(r, t)' => Queued(r, t)
  BY <1>2, <1>3 DEF Queued
<1>5. Queued(c, s)
  BY <1>3 DEF Queued
<1>6. \A t \in Sinks, r \in Records : /\ Lands(r, t) => Lands(r, t)'
                                      /\ Lands(r, t)' => Lands(r, t) \/ (t = s /\ r = c)
  <2>1. CASE trail' = trail
    BY <2>1 DEF Lands
  <2>2. CASE /\ c \in Records /\ trail[s] \in Seq(Records)
             /\ trail' = [trail EXCEPT ![s] = Append(trail[s], c)]
    <3>1. (\A t \in Sinks : t # s => trail'[t] = trail[t]) /\ trail'[s] = Append(trail[s], c)
      BY <2>2 DEF TypeOK
    <3>2. /\ DOMAIN trail'[s] = DOMAIN trail[s] \cup {Len(trail[s]) + 1}
          /\ trail'[s][Len(trail[s]) + 1] = c
          /\ \A i \in DOMAIN trail[s] : trail'[s][i] = trail[s][i]
      BY <2>2, <3>1, AppendFacts
    <3>3. QED
      BY <3>1, <3>2 DEF Lands
  <2>3. QED
    BY <1>1, <2>1, <2>2
<1>7. QED
  BY <1>2, <1>3, <1>4, <1>5, <1>6 DEF c

LEMMA WorkSent ==
    ASSUME TypeOK, Phased, Sent, NEW s \in Sinks, Work(s)
    PROVE  Sent'
<1>1. \A x \in Callers : /\ caller'[x].at = caller[x].at /\ caller'[x].left = caller[x].left
                         /\ caller'[x].waiting = caller[x].waiting
  BY WorkEffect
<1>2. \A t \in Sinks, r \in Records :
          Queued(r, t)' \/ Lands(r, t)' => Queued(r, t) \/ Lands(r, t)
  BY WorkQueued
<1>3. \A r \in Records : r[1] \in Callers
  BY RecordFacts
<1>4. QED
  BY <1>1, <1>2, <1>3 DEF Sent

\* The administration of targets sends no record.
LEMMA AdministersQueued ==
    ASSUME TypeOK, NEW s \in Sinks, Administers(s)
    PROVE  /\ UNCHANGED <<trail, caller, verdict, served>>
           /\ \A t \in Sinks : \A i \in DOMAIN queue'[t] :
                 queue'[t][i] \in Records => i \in DOMAIN queue[t] /\ queue'[t][i] = queue[t][i]
<1>1. UNCHANGED <<trail, caller, verdict, served>>
  BY DEF Administers, Add, Detach, CloseDrained, CloseNow, SendClose
<1>2. CASE UNCHANGED queue
  BY <1>1, <1>2
<1>3. CASE queue' = [queue EXCEPT ![s] = Append(queue[s], Close)]
  <2>1. queue[s] \in Seq(Commands) /\ Close \in Commands /\ Close \notin Records
    BY RecordFacts DEF TypeOK, Commands
  <2>2. (\A t \in Sinks : t # s => queue'[t] = queue[t]) /\ queue'[s] = Append(queue[s], Close)
    BY <1>3 DEF TypeOK
  <2>3. /\ DOMAIN queue'[s] = DOMAIN queue[s] \cup {Len(queue[s]) + 1}
        /\ queue'[s][Len(queue[s]) + 1] = Close
        /\ \A i \in DOMAIN queue[s] : queue'[s][i] = queue[s][i]
    BY <2>1, <2>2, AppendFacts
  <2>4. QED
    BY <1>1, <2>1, <2>2, <2>3
<1>4. QED
  BY <1>2, <1>3 DEF Administers, Add, Detach, CloseDrained, CloseNow, SendClose

LEMMA AdministersSent ==
    ASSUME TypeOK, Sent, NEW s \in Sinks, Administers(s)
    PROVE  Sent'
<1>1. UNCHANGED caller
  BY AdministersQueued
<1>2. \A t \in Sinks, r \in Records :
          Queued(r, t)' \/ Lands(r, t)' => Queued(r, t) \/ Lands(r, t)
  BY AdministersQueued DEF Queued, Lands
<1>3. QED
  BY <1>1, <1>2 DEF Sent

LEMMA LastSent ==
    ASSUME TypeOK, Sent, Shutdown \/ Exit \/ UNCHANGED vars
    PROVE  Sent'
<1>1. CASE Exit
  <2> DEFINE f == [Free EXCEPT !.at = "done"]
  <2>1. f.left = <<>> /\ f.at = "done"
    BY FreeAt
  <2> HIDE DEF f
  <2>2. caller' = [w \in Callers |-> f]
    BY <1>1 DEF Exit, f
  <2>3. \A r \in Records : /\ caller'[r[1]].at = "done" /\ caller'[r[1]].left = <<>>
                           /\ "done" \in Offered(r[2])
    BY <2>1, <2>2, RecordFacts DEF Offered
  <2>4. DOMAIN <<>> = {}
    OBVIOUS
  <2>5. QED
    BY <2>3, <2>4 DEF Sent
<1>2. CASE Shutdown \/ UNCHANGED vars
  <2>1. UNCHANGED <<queue, trail, caller>>
    BY <1>2 DEF Shutdown, vars, sinks
  <2>2. QED
    BY <2>1 DEF Sent, Queued, Lands
<1>3. QED
  BY <1>1, <1>2
-----------------------------------------------------------------------------
(* Order *)

LEMMA OfferOrdered ==
    ASSUME TypeOK, Phased, Sent, Ordered, NEW w \in Callers, NEW s \in Sinks, Offer(w, s)
    PROVE  Ordered'
<1> DEFINE c == <<w, caller[w].at>>  last == Len(queue[s]) + 1
<1>1. /\ UNCHANGED trail
      /\ \A t \in Sinks : t # s => queue'[t] = queue[t]
      /\ DOMAIN queue'[s] = DOMAIN queue[s] \cup {last}
      /\ queue'[s][last] = c /\ last \notin DOMAIN queue[s]
      /\ \A i \in DOMAIN queue[s] : i \in Nat /\ i < last /\ queue'[s][i] = queue[s][i]
      /\ \A t \in Sinks, r \in Records :
            Queued(r, t)' => Queued(r, t) \/ (t = s /\ r = c /\ w \in Requests)
  BY OfferQueued
<1>2. \A t \in Sinks, r \in Records : Lands(r, t)' <=> Lands(r, t)
  BY <1>1 DEF Lands
<1>3. w \in Requests => /\ c \in Records /\ ~ Queued(c, s) /\ ~ Lands(c, s)
                        /\ c = <<w, "request">> => /\ ~ Queued(<<w, "response">>, s)
                                                   /\ ~ Lands(<<w, "response">>, s)
  BY OfferFresh
<1>4. w \notin Requests => c \notin Records
  BY RecordFacts DEF Callers
<1>5. \A q \in Requests : <<q, "request">> \in Records /\ <<q, "response">> \in Records
  BY RecordFacts
<1>6. \A q \in Requests : c = <<q, "request">> => q = w
  OBVIOUS
<1> HIDE DEF c, last
<1>7. \A t \in Sinks : \A r \in Records : ~ (Queued(r, t)' /\ Lands(r, t)')
  BY <1>1, <1>2, <1>3 DEF Ordered
<1>8. \A i \in DOMAIN queue[s] : queue[s][i] \in Records => queue[s][i] # c
  BY <1>3, <1>4 DEF Queued
<1>9. ASSUME NEW t \in Sinks, NEW i \in DOMAIN queue'[t], NEW j \in DOMAIN queue'[t],
             queue'[t][i] = queue'[t][j], queue'[t][i] \in Records
      PROVE  i = j
  <2>1. CASE t # s
    BY <1>1, <1>9, <2>1 DEF Ordered
  <2>2. CASE t = s /\ i # last /\ j # last
    BY <1>1, <1>9, <2>2 DEF Ordered
  <2>3. CASE t = s /\ (i = last \/ j = last)
    BY <1>1, <1>8, <1>9, <2>3
  <2>4. QED
    BY <2>1, <2>2, <2>3
<1>10. ASSUME NEW t \in Sinks, NEW q \in Requests,
              NEW i \in DOMAIN queue'[t], NEW j \in DOMAIN queue'[t],
              queue'[t][i] = <<q, "request">>, queue'[t][j] = <<q, "response">>
       PROVE  i < j
  <2>1. CASE t # s \/ (i # last /\ j # last)
    BY <1>1, <1>10, <2>1 DEF Ordered
  <2>2. CASE t = s /\ i # last /\ j = last
    BY <1>1, <2>2
  <2>3. CASE t = s /\ i = last
    <3>1. c = <<q, "request">> /\ q = w /\ w \in Requests
      BY <1>1, <1>6, <1>10, <2>3
    <3>2. j \in DOMAIN queue[s] /\ queue[s][j] = <<q, "response">>
      BY <1>1, <1>10, <2>3, <3>1
    <3>3. Queued(<<w, "response">>, s)
      BY <3>1, <3>2 DEF Queued
    <3>4. QED
      BY <1>3, <3>1, <3>3
  <2>4. QED
    BY <2>1, <2>2, <2>3
<1>11. ASSUME NEW t \in Sinks, NEW q \in Requests,
              Queued(<<q, "request">>, t)', Lands(<<q, "response">>, t)'
       PROVE  FALSE
  BY <1>1, <1>2, <1>3, <1>5, <1>6, <1>11 DEF Ordered
<1>12. QED
  BY <1>7, <1>9, <1>10, <1>11 DEF Ordered

LEMMA WorkOrdered ==
    ASSUME TypeOK, Ordered, NEW s \in Sinks, Work(s)
    PROVE  Ordered'
<1>1. /\ \A t \in Sinks : t # s => queue'[t] = queue[t]
      /\ 1 \in DOMAIN queue[s]
      /\ \A i \in DOMAIN queue'[s] : /\ i \in Nat \ {0} /\ i + 1 \in DOMAIN queue[s]
                                     /\ queue'[s][i] = queue[s][i + 1]
      /\ \A t \in Sinks, r \in Records : Queued(r, t)' => Queued(r, t)
      /\ \A t \in Sinks, r \in Records :
            Lands(r, t)' => Lands(r, t) \/ (t = s /\ r = queue[s][1] /\ Queued(r, s))
  BY WorkQueued
<1>2. \A q \in Requests : <<q, "request">> \in Records /\ <<q, "response">> \in Records
  BY RecordFacts
<1>3. \A r \in Records : r = queue[s][1] => ~ Queued(r, s)'
  <2>1. SUFFICES ASSUME queue[s][1] \in Records, NEW i \in DOMAIN queue'[s],
                        queue'[s][i] = queue[s][1]
                 PROVE  FALSE
    BY DEF Queued
  <2>2. /\ i + 1 \in DOMAIN queue[s] /\ queue[s][i + 1] = queue[s][1]
        /\ i \in Nat \ {0} /\ 1 \in DOMAIN queue[s]
    BY <1>1, <2>1
  <2>3. 1 = i + 1
    BY <2>1, <2>2 DEF Ordered
  <2>4. QED
    BY <2>2, <2>3
<1>4. \A t \in Sinks : \A r \in Records : ~ (Queued(r, t)' /\ Lands(r, t)')
  BY <1>1, <1>3 DEF Ordered
<1>5. ASSUME NEW t \in Sinks, NEW i \in DOMAIN queue'[t], NEW j \in DOMAIN queue'[t],
             queue'[t][i] = queue'[t][j], queue'[t][i] \in Records
      PROVE  i = j
  <2>1. CASE t # s
    BY <1>1, <1>5, <2>1 DEF Ordered
  <2>2. CASE t = s
    <3>1. /\ i + 1 \in DOMAIN queue[s] /\ j + 1 \in DOMAIN queue[s] /\ i \in Nat /\ j \in Nat
          /\ queue[s][i + 1] = queue[s][j + 1] /\ queue[s][i + 1] \in Records
      BY <1>1, <1>5, <2>2
    <3>2. i + 1 = j + 1
      BY <3>1 DEF Ordered
    <3>3. QED
      BY <3>1, <3>2
  <2>3. QED
    BY <2>1, <2>2
<1>6. ASSUME NEW t \in Sinks, NEW q \in Requests,
             NEW i \in DOMAIN queue'[t], NEW j \in DOMAIN queue'[t],
             queue'[t][i] = <<q, "request">>, queue'[t][j] = <<q, "response">>
      PROVE  i < j
  <2>1. CASE t # s
    BY <1>1, <1>6, <2>1 DEF Ordered
  <2>2. CASE t = s
    <3>1. /\ i + 1 \in DOMAIN queue[s] /\ j + 1 \in DOMAIN queue[s] /\ i \in Nat /\ j \in Nat
          /\ queue[s][i + 1] = <<q, "request">> /\ queue[s][j + 1] = <<q, "response">>
      BY <1>1, <1>6, <2>2
    <3>2. i + 1 < j + 1
      BY <3>1 DEF Ordered
    <3>3. QED
      BY <3>1, <3>2
  <2>3. QED
    BY <2>1, <2>2
<1>7. ASSUME NEW t \in Sinks, NEW q \in Requests,
             Queued(<<q, "request">>, t)', Lands(<<q, "response">>, t)'
      PROVE  FALSE
  <2>1. ~ Lands(<<q, "response">>, t)
    BY <1>1, <1>2, <1>7 DEF Ordered
  <2>2. t = s /\ queue[s][1] = <<q, "response">>
    BY <1>1, <1>2, <1>7, <2>1
  <2>3. PICK i \in DOMAIN queue'[s] : queue'[s][i] = <<q, "request">>
    BY <1>7, <2>2 DEF Queued
  <2>4. /\ i + 1 \in DOMAIN queue[s] /\ queue[s][i + 1] = <<q, "request">>
        /\ i \in Nat \ {0} /\ 1 \in DOMAIN queue[s]
    BY <1>1, <2>3
  <2>5. i + 1 < 1
    BY <2>2, <2>4 DEF Ordered
  <2>6. QED
    BY <2>4, <2>5
<1>8. QED
  BY <1>4, <1>5, <1>6, <1>7 DEF Ordered

\* Every other step leaves the records where they are, or loses what is queued.
LEMMA OtherOrdered ==
    ASSUME TypeOK, Phased, Ordered,
           \/ \E w \in Callers : Enters(w) \/ Leaves(w) \/ Finishes(w)
           \/ \E s \in Sinks : Administers(s)
           \/ Shutdown \/ Exit \/ UNCHANGED vars
    PROVE  Ordered'
<1>1. /\ UNCHANGED trail
      /\ \A t \in Sinks : \A i \in DOMAIN queue'[t] :
            queue'[t][i] \in Records => i \in DOMAIN queue[t] /\ queue'[t][i] = queue[t][i]
  <2>1. CASE UNCHANGED <<queue, trail>>
    BY <2>1
  <2>2. CASE \E w \in Callers : Enters(w) \/ Leaves(w) \/ Finishes(w)
    BY <2>1, <2>2, EntersEffect, LeavesEffect, FinishesEffect
  <2>3. CASE \E s \in Sinks : Administers(s)
    BY <2>3, AdministersQueued
  <2>4. CASE Exit
    <3>1. UNCHANGED trail /\ \A t \in Sinks : queue'[t] = <<>>
      BY <2>4 DEF Exit
    <3>2. QED
      BY <3>1
  <2>5. QED
    BY <2>1, <2>2, <2>3, <2>4 DEF Shutdown, vars, sinks
<1>2. \A q \in Requests : <<q, "request">> \in Records /\ <<q, "response">> \in Records
  BY RecordFacts
<1>3. \A t \in Sinks, r \in Records : /\ Queued(r, t)' => Queued(r, t)
                                      /\ Lands(r, t)' <=> Lands(r, t)
  BY <1>1 DEF Queued, Lands
<1>4. \A t \in Sinks : \A r \in Records : ~ (Queued(r, t)' /\ Lands(r, t)')
  BY <1>3 DEF Ordered
<1>5. ASSUME NEW t \in Sinks, NEW i \in DOMAIN queue'[t], NEW j \in DOMAIN queue'[t],
             queue'[t][i] = queue'[t][j], queue'[t][i] \in Records
      PROVE  i = j
  BY <1>1, <1>5 DEF Ordered
<1>6. ASSUME NEW t \in Sinks, NEW q \in Requests,
             NEW i \in DOMAIN queue'[t], NEW j \in DOMAIN queue'[t],
             queue'[t][i] = <<q, "request">>, queue'[t][j] = <<q, "response">>
      PROVE  i < j
  <2>1. /\ i \in DOMAIN queue[t] /\ queue[t][i] = <<q, "request">>
        /\ j \in DOMAIN queue[t] /\ queue[t][j] = <<q, "response">>
    BY <1>1, <1>2, <1>6
  <2>2. QED
    BY <2>1 DEF Ordered
<1>7. ASSUME NEW t \in Sinks, NEW q \in Requests,
             Queued(<<q, "request">>, t)', Lands(<<q, "response">>, t)'
      PROVE  FALSE
  BY <1>2, <1>3, <1>7 DEF Ordered
<1>8. QED
  BY <1>4, <1>5, <1>6, <1>7 DEF Ordered
-----------------------------------------------------------------------------
(* Answers *)

\* A request stays settled while its call and its answers stand.
LEMMA StillSettled ==
    ASSUME TypeOK, NEW w \in Requests, Settled(w),
           UNCHANGED <<caller[w], verdict[<<w, "request">>], verdict[<<w, "response">>]>>,
           w \in served' => w \in served,
           \A s \in Sinks : \A r \in Records : Lands(r, s) => Lands(r, s)',
           Phased
    PROVE  Settled(w)'
<1>1. caller[w].reply = "ok" => /\ Lands(<<w, caller[w].at>>, Head(caller[w].left))
                                /\ Head(caller[w].left) \in Sinks
                                /\ <<w, caller[w].at>> \in Records
  <2>1. SUFFICES ASSUME caller[w].reply = "ok"
                 PROVE  /\ Lands(<<w, caller[w].at>>, Head(caller[w].left))
                        /\ Head(caller[w].left) \in Sinks
                        /\ <<w, caller[w].at>> \in Records
    OBVIOUS
  <2>2. w \in Callers /\ caller[w].waiting
    BY <2>1 DEF Settled, Callers
  <2>3. caller[w].left # <<>> /\ caller[w].at \in {"request", "response"}
    BY <2>2 DEF Phased, Sending
  <2>4. QED
    BY <2>1, <2>2, <2>3, LeftSinks, TailFacts, RecordFacts DEF Settled
<1>2. Sending(w) => <<w, caller[w].at>> \in Records
  BY RecordFacts DEF Sending, Phased, Callers
<1>3. \A s \in Sinks : \A r \in Records : Lands(r, s) => \E i \in DOMAIN trail'[s] : trail'[s][i] = r
  BY DEF Lands
<1> DEFINE k == caller[w]  c == <<w, k.at>>  h == Head(k.left)
<1>4. caller'[w] = k
  OBVIOUS
<1>5. /\ k.reply = "ok" => \E i \in DOMAIN trail'[h] : trail'[h][i] = c
      /\ Sending(w) /\ k.took => \E s \in Sinks : \E i \in DOMAIN trail'[s] : trail'[s][i] = c
  BY <1>1, <1>2, <1>3 DEF Settled
<1>6. (Sending(w)' <=> Sending(w))
  BY <1>4 DEF Sending
<1> HIDE DEF c, h
<1>7. /\ Sending(w)' /\ caller'[w].took => \E s \in Sinks : \E i \in DOMAIN trail'[s] : trail'[s][i] = <<w, caller'[w].at>>
      /\ caller'[w].reply = "ok" =>
            \E i \in DOMAIN trail'[Head(caller'[w].left)] : trail'[Head(caller'[w].left)][i] = <<w, caller'[w].at>>
  BY <1>4, <1>5, <1>6 DEF c, h
<1>8. QED
  BY <1>4, <1>7 DEF Settled, Lands

LEMMA EntersAnswered ==
    ASSUME TypeOK, Phased, Answered, NEW w \in Callers, Enters(w)
    PROVE  Answered'
<1>1. PICK phase \in {"request", "response", "reopen"} :
        /\ Acquire(w, phase)
        /\ phase = "request" => w \in Requests /\ caller[w].at = "idle"
        /\ phase = "reopen" => w \in Rotations /\ w \notin Requests /\ caller[w].at = "idle"
        /\ phase = "response" => w \in Requests /\ caller[w].at \in {"handler", "unavailable"}
        /\ \/ served' = served
           \/ served' = served \cup {w} /\ caller[w].at = "handler" /\ phase = "response"
        /\ UNCHANGED <<trail, verdict>>
  BY EntersEffect
<1>2. /\ caller'[w].at = phase /\ ~ caller'[w].took /\ caller'[w].reply = "none"
      /\ \A x \in Callers : x # w => caller'[x] = caller[x]
  BY <1>1, AcquireEffect
<1>3. \A s \in Sinks : \A r \in Records : Lands(r, s) => Lands(r, s)'
  BY <1>1 DEF Lands
<1>4. ASSUME NEW x \in Requests PROVE Settled(x)'
  <2>1. CASE x # w
    BY <1>1, <1>2, <1>3, <2>1, StillSettled DEF Answered, Callers
  <2>2. CASE x = w
    BY <1>1, <1>2, <2>2 DEF Answered, Settled
  <2>3. QED
    BY <2>1, <2>2
<1>5. QED
  BY <1>4 DEF Answered

LEMMA LeavesAnswered ==
    ASSUME TypeOK, Phased, Answered, NEW w \in Callers, Leaves(w)
    PROVE  Answered'
<1>1. PICK took \in BOOLEAN :
        Release(w, took) /\ (took => caller[w].waiting /\ caller[w].reply = "ok")
  BY LeavesEffect
<1>2. caller[w].left # <<>> /\ UNCHANGED <<trail, verdict, served>>
  BY LeavesEffect
<1>3. /\ caller'[w].at = caller[w].at /\ caller'[w].reply = "none"
      /\ caller'[w].took <=> (caller[w].took \/ took)
      /\ \A x \in Callers : x # w => caller'[x] = caller[x]
  BY <1>1, <1>2, ReleaseEffect
<1>4. \A s \in Sinks : \A r \in Records : Lands(r, s) => Lands(r, s)'
  BY <1>2 DEF Lands
<1>5. Head(caller[w].left) \in Sinks
  BY <1>2, LeftSinks, TailFacts
<1>6. ASSUME NEW x \in Requests PROVE Settled(x)'
  <2>1. CASE x # w
    BY <1>2, <1>3, <1>4, <2>1, StillSettled DEF Answered, Callers
  <2>2. CASE x = w
    <3>1. /\ Sending(w) /\ caller[w].took => \E s \in Sinks : Lands(<<w, caller[w].at>>, s)
          /\ took => Lands(<<w, caller[w].at>>, Head(caller[w].left))
      BY <1>1, <2>2 DEF Answered, Settled
    <3>2. Sending(w) /\ caller'[w].took => \E s \in Sinks : Lands(<<w, caller[w].at>>, s)
      BY <1>3, <1>5, <3>1
    <3>3. QED
      BY <1>2, <1>3, <2>2, <3>2 DEF Answered, Settled, Sending, Lands
  <2>3. QED
    BY <2>1, <2>2
<1>7. QED
  BY <1>6 DEF Answered

LEMMA FinishesAnswered ==
    ASSUME TypeOK, Phased, Answered, NEW w \in Callers, Finishes(w)
    PROVE  Answered'
<1>1. PICK phase \in {"handler", "unavailable", "done"} :
        /\ caller' = [caller EXCEPT ![w] = [Free EXCEPT !.at = phase]]
        /\ w \in Requests /\ caller[w].at = "request" =>
              phase = IF Outcome(w) = "refused" THEN "unavailable" ELSE "handler"
        /\ w \in Requests /\ caller[w].at = "response" => phase = "done"
  BY FinishesEffect
<1>2. /\ UNCHANGED <<trail, served>>
      /\ w \in Requests => verdict' = [verdict EXCEPT ![<<w, caller[w].at>>] = Outcome(w)]
      /\ w \notin Requests => verdict' = verdict
      /\ Sending(w)
  BY FinishesEffect
<1>3. /\ caller'[w].at = phase /\ ~ caller'[w].took /\ caller'[w].reply = "none"
      /\ \A x \in Callers : x # w => caller'[x] = caller[x]
  BY <1>1, EndedEffect
<1>4. \A s \in Sinks : \A r \in Records : Lands(r, s) => Lands(r, s)'
  BY <1>2 DEF Lands
<1>5. ASSUME NEW x \in Requests PROVE Settled(x)'
  <2>1. CASE x # w
    <3>1. UNCHANGED <<verdict[<<x, "request">>], verdict[<<x, "response">>]>>
      <4> DEFINE c == <<w, caller[w].at>>  a == <<x, "request">>  b == <<x, "response">>
      <4>1. a \in Records /\ b \in Records /\ a # c /\ b # c
        BY <2>1, RecordFacts
      <4>2. verdict' = verdict \/ verdict' = [verdict EXCEPT ![c] = Outcome(w)]
        BY <1>2
      <4> HIDE DEF a, b, c
      <4>3. verdict'[a] = verdict[a] /\ verdict'[b] = verdict[b]
        BY <4>1, <4>2 DEF TypeOK
      <4>4. QED
        BY <4>3 DEF a, b
    <3>2. QED
      BY <1>2, <1>3, <1>4, <2>1, <3>1, StillSettled DEF Answered, Callers
  <2>2. CASE x = w
    <3>1. caller[w].at \in {"request", "response"}
      BY <1>2, <2>2 DEF Sending, Phased
    <3>2. \A r \in Records : verdict'[r] = IF r = <<w, caller[w].at>> THEN Outcome(w) ELSE verdict[r]
      BY <1>2, <2>2 DEF TypeOK
    <3>3. <<w, "request">> \in Records /\ <<w, "response">> \in Records
      BY <2>2, RecordFacts
    <3>4. CASE caller[w].at = "response"
      BY <1>1, <1>3, <2>2, <3>4 DEF Settled
    <3>5. CASE caller[w].at = "request"
      <4>1. phase = IF Outcome(w) = "refused" THEN "unavailable" ELSE "handler"
        BY <1>1, <2>2, <3>5
      <4>2. Outcome(w) \in {"accepted", "refused", "untargeted"}
        BY DEF Outcome
      <4>3. /\ verdict'[<<w, "request">>] = Outcome(w)
            /\ verdict'[<<w, "response">>] = "none" /\ w \notin served
        BY <2>2, <3>2, <3>3, <3>5 DEF Answered, Settled
      <4>4. QED
        BY <1>2, <1>3, <2>2, <4>1, <4>2, <4>3 DEF Settled, Sending
    <3>6. QED
      BY <3>1, <3>4, <3>5
  <2>3. QED
    BY <2>1, <2>2
<1>6. QED
  BY <1>5 DEF Answered
LEMMA OfferAnswered ==
    ASSUME TypeOK, Phased, Answered, NEW w \in Callers, NEW s \in Sinks, Offer(w, s)
    PROVE  Answered'
<1>1. /\ caller'[w].at = caller[w].at /\ caller'[w].left = caller[w].left
      /\ caller'[w].took = caller[w].took /\ caller'[w].reply = caller[w].reply
      /\ caller'[w].waiting /\ ~ caller[w].waiting
      /\ \A x \in Callers : x # w => caller'[x] = caller[x]
  BY OfferEffect
<1>2. UNCHANGED <<trail, verdict, served>>
  BY DEF Offer
<1>3. \A t \in Sinks : \A r \in Records : Lands(r, t) => Lands(r, t)'
  BY <1>2 DEF Lands
<1>4. ASSUME NEW x \in Requests PROVE Settled(x)'
  <2>1. CASE x # w
    BY <1>1, <1>2, <1>3, <2>1, StillSettled DEF Answered, Callers
  <2>2. CASE x = w
    BY <1>1, <1>2, <2>2 DEF Answered, Settled, Sending, Lands
  <2>3. QED
    BY <2>1, <2>2
<1>5. QED
  BY <1>4 DEF Answered

LEMMA WorkAnswered ==
    ASSUME TypeOK, Phased, Answered, NEW s \in Sinks, Work(s)
    PROVE  Answered'
<1> DEFINE c == Head(queue[s])
<1>1. /\ UNCHANGED <<verdict, served>>
      /\ \A w \in Callers :
            /\ caller'[w].at = caller[w].at /\ caller'[w].left = caller[w].left
            /\ caller'[w].took = caller[w].took /\ caller'[w].waiting = caller[w].waiting
            /\ \/ caller'[w] = caller[w]
               \/ /\ Awaits(w, s, c)
                  /\ caller'[w].reply = "ok" /\ c \in Records =>
                        trail' = [trail EXCEPT ![s] = Append(trail[s], c)]
  BY WorkEffect
<1>2. \A t \in Sinks : \A r \in Records : Lands(r, t) => Lands(r, t)'
  BY WorkQueued
<1> HIDE DEF c
<1>3. ASSUME c \in Records, trail' = [trail EXCEPT ![s] = Append(trail[s], c)]
      PROVE  \E i \in DOMAIN trail'[s] : trail'[s][i] = c
  <2>1. trail[s] \in Seq(Records) /\ trail'[s] = Append(trail[s], c)
    BY <1>3 DEF TypeOK
  <2>2. Len(trail[s]) + 1 \in DOMAIN trail'[s] /\ trail'[s][Len(trail[s]) + 1] = c
    BY <1>3, <2>1, AppendFacts
  <2>3. QED
    BY <2>2
<1>4. ASSUME NEW x \in Requests PROVE Settled(x)'
  <2>0. x \in Callers
    BY DEF Callers
  <2>1. CASE caller'[x] = caller[x]
    BY <1>1, <1>2, <2>1, StillSettled DEF Answered
  <2>2. CASE /\ Awaits(x, s, c)
             /\ caller'[x].reply = "ok" /\ c \in Records =>
                   trail' = [trail EXCEPT ![s] = Append(trail[s], c)]
    <3>1. /\ caller[x].waiting /\ Head(caller[x].left) = s /\ c = <<x, caller[x].at>>
          /\ caller[x].at \in {"request", "response"} /\ c \in Records
      BY <2>0, <2>2, RecordFacts DEF Awaits, Phased, Sending
    <3>2. caller'[x].reply = "ok" => \E i \in DOMAIN trail'[s] : trail'[s][i] = c
      BY <1>3, <2>2, <3>1
    <3>3. caller[x].took => \E t \in Sinks : Lands(c, t)
      BY <3>1 DEF Answered, Settled, Sending
    <3>4. caller[x].took => \E t \in Sinks : \E i \in DOMAIN trail'[t] : trail'[t][i] = c
      BY <1>2, <3>1, <3>3 DEF Lands
    <3>5. /\ caller'[x].at = caller[x].at /\ Head(caller'[x].left) = s /\ caller'[x].waiting
          /\ caller'[x].took <=> caller[x].took
      BY <1>1, <2>0, <3>1
    <3>6. /\ caller'[x].took => \E t \in Sinks : \E i \in DOMAIN trail'[t] : trail'[t][i] = <<x, caller'[x].at>>
          /\ caller'[x].reply = "ok" =>
                \E i \in DOMAIN trail'[Head(caller'[x].left)] :
                    trail'[Head(caller'[x].left)][i] = <<x, caller'[x].at>>
      BY <3>1, <3>2, <3>4, <3>5
    <3>7. QED
      BY <1>1, <3>1, <3>5, <3>6 DEF Answered, Settled, Lands
  <2>3. QED
    BY <1>1, <2>0, <2>1, <2>2
<1>5. QED
  BY <1>4 DEF Answered

LEMMA RestAnswered ==
    ASSUME TypeOK, Phased, Answered,
           (\E s \in Sinks : Administers(s)) \/ Shutdown \/ UNCHANGED vars
    PROVE  Answered'
<1>1. UNCHANGED <<trail, caller, verdict, served>>
  BY AdministersQueued DEF Shutdown, vars, sinks
<1>2. QED
  BY <1>1 DEF Answered, Settled, Sending, Lands

LEMMA ExitAnswered ==
    ASSUME TypeOK, Phased, Answered, Exit
    PROVE  Answered'
<1> DEFINE f == [Free EXCEPT !.at = "done"]
<1>1. f.at = "done" /\ ~ f.took /\ f.reply = "none"
  BY FreeAt
<1> HIDE DEF f
<1>2. caller' = [w \in Callers |-> f]
  BY DEF Exit, f
<1>3. \A w \in Requests : caller'[w].at = "done" /\ ~ caller'[w].took /\ caller'[w].reply = "none"
  BY <1>1, <1>2 DEF Callers
<1>4. QED
  BY <1>3 DEF Answered, Settled

-----------------------------------------------------------------------------
(* The theorems *)

\* One step keeps everything.
LEMMA NextKeeps ==
    ASSUME IInv, [Next]_vars
    PROVE  IInv'
<1> USE DEF IInv
<1>1. ASSUME NEW w \in Callers, Enters(w) PROVE IInv'
  BY <1>1, CallTypes, EntersTargeted, EntersSent, OtherOrdered, EntersAnswered
<1>2. ASSUME NEW w \in Callers, Leaves(w) PROVE IInv'
  BY <1>2, CallTypes, LeavesTargeted, LeavesSent, OtherOrdered, LeavesAnswered
<1>3. ASSUME NEW w \in Callers, Finishes(w) PROVE IInv'
  BY <1>3, CallTypes, FinishesTargeted, FinishesSent, OtherOrdered, FinishesAnswered
<1>4. ASSUME NEW w \in Callers, NEW s \in Sinks, Offer(w, s) PROVE IInv'
  BY <1>4, OfferTypes, OfferTargeted, OfferSent, OfferOrdered, OfferAnswered
<1>5. ASSUME NEW s \in Sinks, Work(s) PROVE IInv'
  BY <1>5, WorkTypes, WorkTargeted, WorkSent, WorkOrdered, WorkAnswered
<1>6. ASSUME NEW s \in Sinks, Administers(s) PROVE IInv'
  BY <1>6, AdministersTypes, AdministersTargeted, AdministersSent, OtherOrdered, RestAnswered
<1>7. CASE Shutdown \/ UNCHANGED vars
  BY <1>7, LastTypes, LastTargeted, LastSent, OtherOrdered, RestAnswered
<1>8. CASE Exit
  BY <1>8, LastTypes, LastTargeted, LastSent, OtherOrdered, ExitAnswered
<1>9. \/ \E w \in Callers : Enters(w) \/ Leaves(w) \/ Finishes(w)
      \/ \E w \in Callers, s \in Sinks : Offer(w, s)
      \/ \E s \in Sinks : Work(s) \/ Administers(s)
      \/ Shutdown \/ UNCHANGED vars \/ Exit
  BY DEF Next, CallStep, Call, Worker, Closer, Closing, Enters, Leaves, Finishes, Administers
<1>10. QED
  BY <1>1, <1>2, <1>3, <1>4, <1>5, <1>6, <1>7, <1>8, <1>9

LEMMA Initially ==
    ASSUME Init
    PROVE  IInv
<1>1. TypeOK
  <2>1. /\ caller \in [Callers -> Caller] /\ queue \in [Sinks -> Seq(Commands)]
        /\ trail \in [Sinks -> Seq(Records)] /\ targets \in Seq(Sinks)
    BY FreeFacts DEF Init
  <2>2. QED
    BY <2>1 DEF Init, TypeOK
<1>2. \A w \in Callers : /\ caller[w].at = "idle" /\ caller[w].left = <<>> /\ ~ caller[w].waiting
                         /\ ~ caller[w].took /\ caller[w].reply = "none"
  BY FreeFacts DEF Init
<1>3. /\ targets = <<>> /\ DOMAIN <<>> = {} /\ Once(<<>>)
      /\ \A s \in Sinks : queue[s] = <<>> /\ trail[s] = <<>>
  BY DEF Init, Once
<1>4. Phased
  BY <1>2 DEF Phased
<1>5. Targeted
  BY <1>2, <1>3 DEF Targeted, RemovalSpares
<1>6. Sent /\ Ordered
  BY <1>3 DEF Sent, Ordered, Queued, Lands
<1>7. Answered
  BY <1>2, RecordFacts DEF Init, Answered, Settled, Callers, Sending
<1>8. QED
  BY <1>1, <1>4, <1>5, <1>6, <1>7 DEF IInv
\* The inductive invariant holds throughout.
THEOREM Invariance == Spec => []IInv
<1>1. Init => IInv
  BY Initially
<1>2. IInv /\ [Next]_vars => IInv'
  BY NextKeeps
<1>3. QED
  BY <1>1, <1>2, PTL DEF Spec

\* Calls, queues and files keep their types.
THEOREM TypeCorrect == Spec => []TypeOK
<1>1. IInv => TypeOK
  BY DEF IInv
<1>2. QED
  BY <1>1, Invariance, PTL

\* Until shutdown no call is left with a target that a removal has closed
\* (Broker.Remove waits for drained).
THEOREM RemovalSparesHolds == Spec => []RemovalSpares
<1>1. IInv => RemovalSpares
  BY DEF IInv, Targeted
<1>2. QED
  BY <1>1, Invariance, PTL

\* A worker writes no record twice, and none before what precedes it.
LEMMA WorkLands ==
    ASSUME IInv, NEW s \in Sinks, Work(s)
    PROVE  [Promise!Next]_(Promise!vars)
<1> DEFINE c == Head(queue[s])
<1>1. /\ \/ trail' = trail
         \/ c \in Records /\ trail' = [trail EXCEPT ![s] = Append(trail[s], c)]
      /\ UNCHANGED <<verdict, served>>
  BY WorkEffect DEF IInv
<1>2. 1 \in DOMAIN queue[s] /\ c = queue[s][1]
  BY WorkQueued DEF IInv
<1> HIDE DEF c
<1>3. CASE trail' = trail
  BY <1>1, <1>3 DEF Promise!vars
<1>4. CASE c \in Records /\ trail' = [trail EXCEPT ![s] = Append(trail[s], c)]
  <2>1. Queued(c, s) /\ ~ Lands(c, s)
    BY <1>2, <1>4 DEF IInv, Ordered, Queued
  <2>2. ASSUME c[2] = "request", Lands(<<c[1], "response">>, s) PROVE FALSE
    <3>1. c = <<c[1], "request">> /\ c[1] \in Requests
      BY <1>4, <2>2, RecordFacts
    <3>2. Queued(<<c[1], "request">>, s)
      BY <2>1, <3>1
    <3>3. QED
      BY <2>2, <3>1, <3>2 DEF IInv, Ordered
  <2>3. Promise!Land(s, c)
    BY <1>1, <1>4, <2>1, <2>2 DEF Promise!Land, Promise!In, Lands
  <2>4. c \in Promise!Records
    BY <1>4 DEF Promise!Records, Records
  <2>5. QED
    BY <2>3, <2>4 DEF Promise!Next
<1>5. QED
  BY <1>1, <1>3, <1>4

\* The end of a write answers for its record, once.
LEMMA EndWriteAnswers ==
    ASSUME IInv, NEW w \in Callers, EndWrite(w)
    PROVE  [Promise!Next]_(Promise!vars)
<1> DEFINE c == <<w, caller[w].at>>
<1>1. /\ Sending(w) /\ w \in Requests /\ UNCHANGED <<trail, served>>
      /\ verdict' = [verdict EXCEPT ![c] = Outcome(w)]
  BY DEF EndWrite, sinks
<1>2. caller[w].at \in {"request", "response"} /\ c \in Records
  BY <1>1, RecordFacts DEF IInv, Phased, Sending
<1>3. verdict[c] = "none"
  BY <1>1, <1>2 DEF IInv, Answered, Settled
<1>4. Outcome(w) \in {"accepted", "refused", "untargeted"}
  BY DEF Outcome
<1>5. Outcome(w) = "accepted" => \E s \in Sinks : Lands(c, s)
  BY <1>1 DEF Outcome, IInv, Answered, Settled
<1> HIDE DEF c
<1>6. Promise!Answer(c, Outcome(w))
  BY <1>1, <1>3, <1>5 DEF Promise!Answer, Promise!In, Lands
<1>7. c \in Promise!Records
  BY <1>2 DEF Promise!Records, Records
<1>8. QED
  BY <1>4, <1>6, <1>7 DEF Promise!Next

\* A handler runs once, behind an answer that lets it.
LEMMA HandleServes ==
    ASSUME IInv, NEW w \in Callers, Handle(w)
    PROVE  [Promise!Next]_(Promise!vars)
<1>1. /\ caller[w].at = "handler" /\ served' = served \cup {w}
      /\ UNCHANGED <<trail, verdict>>
  BY DEF Handle, sinks
<1>2. w \in Requests
  BY <1>1 DEF IInv, Phased, Callers
<1>3. Promise!Serve(w)
  BY <1>1, <1>2 DEF Promise!Serve, IInv, Answered, Settled
<1>4. QED
  BY <1>2, <1>3 DEF Promise!Next

\* Files, answers and handlers behave as AuditTrail says.
THEOREM KeepsTrailHolds == Spec => KeepsTrail
<1>1. Init => Promise!Init
  BY DEF Init, Promise!Init, Promise!Records, Records
<1>2. IInv /\ [Next]_vars => [Promise!Next]_(Promise!vars)
  <2>1. SUFFICES ASSUME IInv, [Next]_vars PROVE [Promise!Next]_(Promise!vars)
    OBVIOUS
  <2>2. ASSUME NEW s \in Sinks, Work(s) PROVE [Promise!Next]_(Promise!vars)
    BY <2>1, <2>2, WorkLands
  <2>3. ASSUME NEW w \in Callers, EndWrite(w) PROVE [Promise!Next]_(Promise!vars)
    BY <2>1, <2>3, EndWriteAnswers
  <2>4. ASSUME NEW w \in Callers, Handle(w) PROVE [Promise!Next]_(Promise!vars)
    BY <2>1, <2>4, HandleServes
  <2>5. ASSUME NEW w \in Callers,
               \/ Begin(w) \/ Unavailable(w) \/ EndReopen(w) \/ Replied(w) \/ TimeOut(w)
               \/ \E s \in Sinks : Offer(w, s) \/ Refused(w, s)
        PROVE  UNCHANGED <<trail, verdict, served>>
    BY <2>5 DEF Begin, Unavailable, EndReopen, Replied, TimeOut, Offer, Refused, sinks
  <2>6. ASSUME NEW s \in Sinks, Administers(s) PROVE UNCHANGED <<trail, verdict, served>>
    BY <2>1, <2>6, AdministersQueued DEF IInv
  <2>7. ASSUME Shutdown \/ Exit \/ UNCHANGED vars PROVE UNCHANGED <<trail, verdict, served>>
    BY <2>7 DEF Shutdown, Exit, vars, sinks
  <2>8. \/ \E s \in Sinks : Work(s) \/ Administers(s)
        \/ \E w \in Callers : \/ EndWrite(w) \/ Handle(w)
                              \/ Begin(w) \/ Unavailable(w) \/ EndReopen(w) \/ Replied(w) \/ TimeOut(w)
                              \/ \E s \in Sinks : Offer(w, s) \/ Refused(w, s)
        \/ Shutdown \/ Exit \/ UNCHANGED vars
    BY <2>1 DEF Next, CallStep, Call, Worker, Closer, Closing, Administers
  <2>9. QED
    BY <2>2, <2>3, <2>4, <2>5, <2>6, <2>7, <2>8 DEF Promise!vars
<1>3. QED
  BY <1>1, <1>2, Invariance, PTL DEF Spec, KeepsTrail, Promise!Spec
=============================================================================
