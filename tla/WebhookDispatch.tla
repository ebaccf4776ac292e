--------------------------- MODULE WebhookDispatch ---------------------------
(***************************************************************************)
(* Webhooks of one project: the endpoints and their activation handshake   *)
(* (internal/webhook/service.go), the transactional outbox that domain     *)
(* writes fill (EnqueueWebhookEvent) and the dispatcher that empties it     *)
(* (internal/webhook/dispatcher.go), over the rows of query.sql.            *)
(*                                                                         *)
(* Every database call is a transaction of its own, HTTP happens between    *)
(* two of them, and a pass may be abandoned at any point by an error, a     *)
(* shutdown or a crash.  Ids stand for ULIDs and grow with creation time.   *)
(* Time is a pair of marks: a row backs off until its next_attempt_at has    *)
(* elapsed, an event waits until its available_at has.                      *)
(***************************************************************************)
EXTENDS Naturals, FiniteSets

CONSTANTS
    Replicas,       \* processes running a dispatcher on this database
    Hooks, URLs,
    None,
    MaxAttempts,    \* MaxAttempts of model.go
    Ring,           \* delivery rows kept per webhook (100)
    MaxId,          \* bound: events and verifications
    MaxCalls,       \* bound: management calls in flight
    MaxAborts       \* bound: passes abandoned by an error or a crash

ASSUME WebhookAssumption ==
    /\ IsFiniteSet(Replicas)
    /\ None \notin Hooks \cup URLs
    /\ MaxAttempts \in Nat \ {0} /\ Ring \in Nat \ {0}
    /\ MaxId \in Nat /\ MaxCalls \in Nat /\ MaxAborts \in Nat

Ids == 1..MaxId

VARIABLES
    hooks,      \* webhooks: [Hooks -> Hook, or None before it is created]
    rows,       \* webhook_deliveries: [Hooks -> [Ids -> Row, or None]]
    outbox,     \* ids in webhook_outbox
    waiting,    \* those whose available_at is still ahead
    lastId,     \* the last id drawn
    calls,      \* management calls between two of their transactions
    pass,       \* [Replicas -> the event being dispatched]
    sent,       \* [Hooks -> [Ids -> requests an endpoint received]]
    aborts      \* passes abandoned so far

stored == <<hooks, rows, outbox, waiting>>
vars == <<stored, lastId, calls, pass, sent, aborts>>

Terminal == {"delivered", "failed", "refused"}
Hook == [url : URLs, state : {"pending", "active", "deleted"}]
Row == [status : {"pending", "retrying"} \cup Terminal,
        attempts : 0..MaxAttempts, backingOff : BOOLEAN]
Outcomes == {"acknowledged", "rejected", "private"}
Call == [op : {"update", "verify", "record"}, hook : Hooks, url : URLs,
         from : Hook, outcome : Outcomes \cup {None}]
Unlisted == [h \in Hooks |-> None]
Idle == [at |-> "idle", event |-> None, list |-> Unlisted, all |-> TRUE,
         hook |-> None, outcome |-> None]
Pass == [at : {"idle", "list", "next", "send", "record"}, event : Ids \cup {None},
         list : [Hooks -> Row \cup {None}], all : BOOLEAN,
         hook : Hooks \cup {None}, outcome : Outcomes \cup {None}]

TypeOK ==
    /\ hooks \in [Hooks -> Hook \cup {None}]
    /\ rows \in [Hooks -> [Ids -> Row \cup {None}]]
    /\ outbox \subseteq Ids /\ waiting \subseteq outbox
    /\ lastId \in 0..MaxId
    /\ calls \subseteq Call
    /\ pass \in [Replicas -> Pass]
    /\ sent \in [Hooks -> [Ids -> Nat]]
    /\ aborts \in 0..MaxAborts

-----------------------------------------------------------------------------
(* The delivery ring *)

Live(h) == hooks[h] # None /\ hooks[h].state # "deleted"
Active == {h \in Hooks : hooks[h] # None /\ hooks[h].state = "active"}

RowIds(h) == {i \in Ids : rows[h][i] # None}
\* The newest n ids of a set, ORDER BY created_at DESC.
NewestOf(ids, n) == {i \in ids : Cardinality({j \in ids : i < j}) < n}
Keep(ring, ids) == [i \in Ids |-> IF i \in ids THEN ring[i] ELSE None]

RoomInRing(h) == Keep(rows[h], NewestOf(RowIds(h), Ring - 1))

Fresh == [status |-> "pending", attempts |-> 0, backingOff |-> FALSE]

\* EnqueueWebhookEvent, in the transaction of the domain write; nothing when
\* nobody is subscribed.  The row pruned may be one still to be delivered.
Enqueue ==
    LET id == lastId + 1
    IN  /\ lastId < MaxId
        /\ Active # {}
        /\ lastId' = id
        /\ outbox' = outbox \cup {id}
        /\ rows' = [h \in Hooks |-> IF h \in Active
                                    THEN [RoomInRing(h) EXCEPT ![id] = Fresh]
                                    ELSE rows[h]]
        /\ UNCHANGED <<hooks, waiting, calls, pass, sent, aborts>>

-----------------------------------------------------------------------------
(* Management calls *)

Verification(h, hook) ==
    [op |-> "verify", hook |-> h, url |-> hook.url, from |-> hook, outcome |-> None]
CanCall == Cardinality(calls) < MaxCalls
Calls == UNCHANGED <<outbox, waiting, pass, sent, aborts>>

\* Service.Create: the row is stored pending and verified in the same request.
CreateWebhook(h, url) ==
    LET hook == [url |-> url, state |-> "pending"]
    IN  /\ hooks[h] = None /\ CanCall
        /\ hooks' = [hooks EXCEPT ![h] = hook]
        /\ calls' = calls \cup {Verification(h, hook)}
        /\ UNCHANGED <<rows, lastId>> /\ Calls

\* Service.Update reads the record in one transaction ...
UpdateWebhook(h, url) ==
    /\ Live(h) /\ CanCall
    /\ calls' = calls \cup {[op |-> "update", hook |-> h, url |-> url,
                             from |-> hooks[h], outcome |-> None]}
    /\ UNCHANGED <<hooks, rows, lastId>> /\ Calls

\* ... and writes every column in another; a changed URL is verified anew.
WriteUpdate(c) ==
    LET changed == c.url # c.from.url
        hook == [url |-> c.url,
                 state |-> IF changed THEN "pending" ELSE c.from.state]
    IN  /\ c \in calls /\ c.op = "update"
        /\ IF Live(c.hook)
           THEN /\ hooks' = [hooks EXCEPT ![c.hook] = hook]
                /\ calls' = (calls \ {c}) \cup
                      IF changed THEN {Verification(c.hook, hook)} ELSE {}
           ELSE /\ calls' = calls \ {c}
                /\ UNCHANGED hooks
        /\ UNCHANGED <<rows, lastId>> /\ Calls

Verify(h) ==
    /\ Live(h) /\ CanCall
    /\ calls' = calls \cup {Verification(h, hooks[h])}
    /\ UNCHANGED <<hooks, rows, lastId>> /\ Calls

\* The challenge goes out between two transactions.
SendVerification(c, outcome) ==
    /\ c \in calls /\ c.op = "verify"
    /\ calls' = (calls \ {c}) \cup {[c EXCEPT !.op = "record", !.outcome = outcome]}
    /\ UNCHANGED <<hooks, rows, lastId>> /\ Calls

Verdict(outcome) == CASE outcome = "acknowledged" -> "delivered"
                      [] outcome = "rejected" -> "failed"
                      [] outcome = "private" -> "refused"

\* RecordWebhookVerification sets the state by id, whatever URL the row now has,
\* and adds a finished row to the ring.
RecordVerification(c) ==
    LET id == lastId + 1
        row == [status |-> Verdict(c.outcome), attempts |-> 1, backingOff |-> FALSE]
        state == IF c.outcome = "acknowledged" THEN "active" ELSE "pending"
    IN  /\ c \in calls /\ c.op = "record"
        /\ Live(c.hook) => lastId < MaxId
        /\ calls' = calls \ {c}
        /\ IF Live(c.hook)
           THEN /\ hooks' = [hooks EXCEPT ![c.hook].state = state]
                /\ lastId' = id
                /\ rows' = [rows EXCEPT ![c.hook] =
                      Keep([@ EXCEPT ![id] = row],
                           NewestOf(RowIds(c.hook) \cup {id}, Ring))]
           ELSE UNCHANGED <<hooks, rows, lastId>>
        /\ Calls

\* Deliveries go by cascade; outbox events stay.
DeleteWebhook(h) ==
    /\ Live(h)
    /\ hooks' = [hooks EXCEPT ![h].state = "deleted"]
    /\ rows' = [rows EXCEPT ![h] = [i \in Ids |-> None]]
    /\ UNCHANGED <<calls, lastId>> /\ Calls

-----------------------------------------------------------------------------
(* The dispatcher: a pass over one event *)

Pauses(r, p) == pass' = [pass EXCEPT ![r] = p]
Dispatches == UNCHANGED <<hooks, lastId, calls, aborts>>

GetNextEvent(r, id) ==
    /\ pass[r].at = "idle"
    /\ id \in outbox \ waiting
    /\ Pauses(r, [Idle EXCEPT !.at = "list", !.event = id])
    /\ UNCHANGED <<rows, outbox, waiting, sent>> /\ Dispatches

\* Mutant: a row still backing off does not keep its event queued.
NothingLeft(id) == TRUE
\* Mutant: the event is never found to have nothing left.
SomethingLeft(id) == FALSE
NoneBackingOff(id) == \A h \in Hooks : rows[h][id] # None => ~rows[h][id].backingOff
\* Mutant: a finished row is attempted again.
Attemptable(row) == row # None /\ ~row.backingOff
Due(row) == row # None /\ ~row.backingOff /\ row.status \notin Terminal

\* dispatchEvent lists the rows once and works from what it read.
ListDeliveries(r) ==
    LET id == pass[r].event
        due == [h \in Hooks |-> IF Due(rows[h][id]) THEN rows[h][id] ELSE None]
    IN  /\ pass[r].at = "list"
        /\ Pauses(r, [pass[r] EXCEPT !.at = "next", !.list = due,
                                     !.all = NoneBackingOff(id)])
        /\ UNCHANGED <<rows, outbox, waiting, sent>> /\ Dispatches

\* attempt reads the webhook afresh; a missing or a pending one is an error.
Attempt(r, h) ==
    /\ pass[r].at = "next" /\ pass[r].list[h] # None
    /\ IF h \in Active
       THEN Pauses(r, [pass[r] EXCEPT !.at = "send", !.hook = h])
       ELSE Pauses(r, [pass[r] EXCEPT !.at = "record", !.hook = h,
                                      !.outcome = "rejected"])
    /\ UNCHANGED <<rows, outbox, waiting, sent>> /\ Dispatches

\* The endpoint answers, fails to within the timeout, or resolves to a private
\* address and is never reached.
Send(r, outcome) ==
    LET p == pass[r]
    IN  /\ p.at = "send"
        /\ Pauses(r, [p EXCEPT !.at = "record", !.outcome = outcome])
        /\ sent' = IF outcome = "private" THEN sent
                   ELSE [sent EXCEPT ![p.hook][p.event] = @ + 1]
        /\ UNCHANGED <<rows, outbox, waiting>> /\ Dispatches

Exhausted(attempts) == attempts >= MaxAttempts
\* Mutant: the count of a retried row is not stored.
NotCounted(row) == row.attempts
Counted(row) == row.attempts + 1
Settled(row, h, outcome) ==
    LET attempts == Counted(row)
        status == IF outcome = "rejected" /\ ~Exhausted(attempts)
                  THEN "retrying" ELSE Verdict(outcome)
    IN  [status |-> status, attempts |-> attempts,
         backingOff |-> status = "retrying"]

\* RecordWebhookDeliveryAttempt; a row pruned or cascaded away meanwhile is an
\* error that ends the pass.
RecordAttempt(r) ==
    LET p == pass[r]
        row == Settled(p.list[p.hook], p.hook, p.outcome)
    IN  /\ p.at = "record"
        /\ IF rows[p.hook][p.event] # None
           THEN /\ rows' = [rows EXCEPT ![p.hook] =
                      Keep([@ EXCEPT ![p.event] = row], NewestOf(RowIds(p.hook), Ring))]
                /\ Pauses(r, [p EXCEPT !.at = "next", !.list[p.hook] = None,
                                       !.all = @ /\ row.status \in Terminal,
                                       !.hook = None, !.outcome = None])
           ELSE /\ Pauses(r, Idle)
                /\ UNCHANGED rows
        /\ UNCHANGED <<outbox, waiting, sent>> /\ Dispatches

\* The event goes when every row listed is finished, or there was none;
\* otherwise it waits for the earliest retry.
FinishEvent(r) ==
    LET p == pass[r]
    IN  /\ p.at = "next" /\ p.list = Unlisted
        /\ Pauses(r, Idle)
        /\ IF p.all
           THEN outbox' = outbox \ {p.event} /\ waiting' = waiting \ {p.event}
           ELSE waiting' = waiting \cup ({p.event} \cap outbox) /\ UNCHANGED outbox
        /\ UNCHANGED <<rows, sent>> /\ Dispatches

\* A database error, a shutdown or a crash ends the pass; a request already made
\* is then not recorded.
Abort(r) ==
    /\ pass[r].at # "idle" /\ aborts < MaxAborts
    /\ aborts' = aborts + 1
    /\ Pauses(r, Idle)
    /\ UNCHANGED <<stored, lastId, calls, sent>>

Dispatch(r) ==
    \/ \E id \in Ids : GetNextEvent(r, id)
    \/ ListDeliveries(r)
    \/ \E h \in Hooks : Attempt(r, h)
    \/ \E outcome \in Outcomes : Send(r, outcome)
    \/ RecordAttempt(r)
    \/ FinishEvent(r)

\* Time passes.
BackoffElapses(h, id) ==
    /\ rows[h][id] # None /\ rows[h][id].backingOff
    /\ rows' = [rows EXCEPT ![h][id].backingOff = FALSE]
    /\ UNCHANGED <<hooks, outbox, waiting, lastId, calls, pass, sent, aborts>>
EventElapses(id) ==
    /\ id \in waiting
    /\ waiting' = waiting \ {id}
    /\ UNCHANGED <<hooks, rows, outbox, lastId, calls, pass, sent, aborts>>

-----------------------------------------------------------------------------

Init ==
    /\ hooks = [h \in Hooks |-> None]
    /\ rows = [h \in Hooks |-> [i \in Ids |-> None]]
    /\ outbox = {} /\ waiting = {}
    /\ lastId = 0
    /\ calls = {}
    /\ pass = [r \in Replicas |-> Idle]
    /\ sent = [h \in Hooks |-> [i \in Ids |-> 0]]
    /\ aborts = 0

Manage ==
    \/ \E h \in Hooks, url \in URLs : CreateWebhook(h, url) \/ UpdateWebhook(h, url)
    \/ \E h \in Hooks : Verify(h) \/ DeleteWebhook(h)
    \/ \E c \in calls : \/ WriteUpdate(c) \/ RecordVerification(c)
                        \/ \E outcome \in Outcomes : SendVerification(c, outcome)

Next ==
    \/ Enqueue
    \/ Manage
    \/ \E r \in Replicas : Dispatch(r) \/ Abort(r)
    \/ \E h \in Hooks, id \in Ids : BackoffElapses(h, id)
    \/ \E id \in Ids : EventElapses(id)

\* Run starts a pass every second for as long as the process lives, a request
\* times out after ten seconds, and backoffs are finite.
Fairness ==
    /\ \A r \in Replicas : WF_vars(Dispatch(r))
    /\ \A h \in Hooks, id \in Ids : WF_vars(BackoffElapses(h, id))
    /\ \A id \in Ids : WF_vars(EventElapses(id))

Spec == Init /\ [][Next]_vars /\ Fairness

-----------------------------------------------------------------------------
(* Properties *)

Alone == Cardinality(Replicas) = 1

\* With one dispatcher, a delivery that is there and not finished is still queued,
\* whatever passes were abandoned: the event is deleted only on a list with every
\* row done.  Rows that Enqueue pruned are not spoken of.
QueuedUntilFinished ==
    Alone => \A h \in Hooks, id \in Ids :
        rows[h][id] # None /\ rows[h][id].status \notin Terminal => id \in outbox

\* With one dispatcher, a finished delivery stays as it is.
FinishedStands ==
    [][Alone => \A h \in Hooks, id \in Ids :
          /\ rows[h][id] # None /\ rows[h][id].status \in Terminal
          /\ rows'[h][id] # None
          => rows'[h][id] = rows[h][id]]_vars

\* docs-site/administration/webhooks.md: a failed request is retried up to
\* MaxAttempts times; only a pass abandoned between the request and its record
\* repeats one beyond that (RecordAttempt).
SentAtMost ==
    Alone => \A h \in Hooks, id \in Ids : sent[h][id] <= MaxAttempts + aborts

\* Every queued event leaves the outbox: delivered, failed, refused or pruned,
\* whatever the endpoints answer and the managers do meanwhile.
OutboxDrains == \A id \in Ids : id \in outbox ~> id \notin outbox
=============================================================================
