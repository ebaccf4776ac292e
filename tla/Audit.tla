------------------------------- MODULE Audit -------------------------------
(***************************************************************************)
(* The audit broker (audit/broker.go), its file sinks (audit/file.go) and    *)
(* the handler that brackets every request with two records (audit/http.go). *)
(*                                                                         *)
(* A request is a caller that writes its request record, runs its handler    *)
(* when that was accepted, and writes its response record; a rotation is a   *)
(* caller that sends a reopen to every target.  A caller offers its command   *)
(* to the targets it acquired, one after the other, and waits for each; the  *)
(* sink's worker takes commands off the queue in order, whether or not       *)
(* someone still waits.  Targets are added and removed while calls are under *)
(* way, and the process may be shut down or stop.                            *)
(***************************************************************************)
EXTENDS Naturals, Sequences, SequencesExt

CONSTANTS
    Sinks,          \* sink handles: a target added again is another one
    Requests, Rotations,
    Close,
    QueueDepth,     \* fileSinkQueueDepth
    MaxSinks        \* maxSinks

ASSUME AuditAssumption ==
    /\ Requests \cap Rotations = {}
    /\ Close \notin (Requests \cup Rotations) \X {"request", "response", "reopen"}
    /\ QueueDepth \in Nat \ {0}
    /\ MaxSinks \in Nat

Callers == Requests \cup Rotations
Records == Requests \X {"request", "response"}
Commands == Records \cup (Rotations \X {"reopen"}) \cup {Close}

VARIABLES
    targets,    \* Broker.targets, in order
    status,     \* [Sinks -> how far the handle has come]
    holders,    \* [Sinks -> the callers counted in refs]
    queue,      \* [Sinks -> FileSink.commands]
    trail,      \* [Sinks -> the records in the file]
    caller,     \* [Callers -> its call of the broker]
    verdict,    \* [Records -> what Broker.Write answered]
    served,     \* requests whose handler ran
    up          \* "serving", "stopping" or "exited"

sinks == <<status, queue, trail>>
vars == <<targets, sinks, holders, caller, verdict, served, up>>

\* The command a caller is sending, by its phase.
Caller == [at : {"idle", "request", "handler", "unavailable",
                  "response", "reopen", "done"},
           left : Seq(Sinks), acquired : BOOLEAN, took : BOOLEAN,
           waiting : BOOLEAN, reply : {"none", "ok", "error"}]
Free == [at |-> "idle", left |-> <<>>, acquired |-> FALSE, took |-> FALSE,
         waiting |-> FALSE, reply |-> "none"]

TypeOK ==
    /\ targets \in Seq(Sinks)
    /\ status \in [Sinks -> {"fresh", "attached", "draining", "closing", "sealed", "closed"}]
    /\ holders \in [Sinks -> SUBSET Callers]
    /\ queue \in [Sinks -> Seq(Commands)]
    /\ trail \in [Sinks -> Seq(Records)]
    /\ caller \in [Callers -> Caller]
    /\ verdict \in [Records -> {"none", "accepted", "refused", "untargeted"}]
    /\ served \subseteq Requests
    /\ up \in {"serving", "stopping", "exited"}

Init ==
    /\ targets = <<>>
    /\ status = [s \in Sinks |-> "fresh"]
    /\ holders = [s \in Sinks |-> {}]
    /\ queue = [s \in Sinks |-> <<>>]
    /\ trail = [s \in Sinks |-> <<>>]
    /\ caller = [w \in Callers |-> Free]
    /\ verdict = [r \in Records |-> "none"]
    /\ served = {}
    /\ up = "serving"

-----------------------------------------------------------------------------
\* The broker's writes and reopens.

Sending(w) == caller[w].at \in {"request", "response", "reopen"}

\* acquireTargets.
Acquire(w, phase) ==
    /\ caller' = [caller EXCEPT ![w] = [Free EXCEPT !.at = phase, !.left = targets,
                                                    !.acquired = targets # <<>>]]
    /\ holders' = [s \in Sinks |-> IF Contains(targets, s) THEN holders[s] \cup {w}
                                   ELSE holders[s]]

Begin(w) ==
    /\ up = "serving"
    /\ caller[w].at = "idle"
    /\ Acquire(w, IF w \in Requests THEN "request" ELSE "reopen")
    /\ UNCHANGED <<targets, sinks, verdict, served, up>>

\* The next target's turn, and releaseTarget of this one.
Release(w, took) ==
    /\ caller' = [caller EXCEPT ![w].left = Tail(@), ![w].took = @ \/ took,
                                ![w].waiting = FALSE, ![w].reply = "none"]
    /\ holders' = [holders EXCEPT ![Head(caller[w].left)] = @ \ {w}]

ToOffer(w, s) ==
    /\ Sending(w) /\ ~ caller[w].waiting
    /\ caller[w].left # <<>> /\ s = Head(caller[w].left)

Accepting(s) == status[s] \in {"attached", "draining"} /\ Len(queue[s]) < QueueDepth

\* submitWrite and submit, under the sink's mutex.
Offer(w, s) ==
    /\ ToOffer(w, s)
    /\ Accepting(s)
    /\ queue' = [queue EXCEPT ![s] = Append(@, <<w, caller[w].at>>)]
    /\ caller' = [caller EXCEPT ![w].waiting = TRUE]
    /\ UNCHANGED <<targets, status, trail, holders, verdict, served, up>>

\* Mutant: the target that refused stays acquired.
RefusedHeld(w, s) ==
    /\ ToOffer(w, s)
    /\ ~ Accepting(s)
    /\ caller' = [caller EXCEPT ![w].left = Tail(@)]
    /\ UNCHANGED <<targets, sinks, holders, verdict, served, up>>

\* ErrSinkClosed or ErrSinkQueueFull.
Refused(w, s) ==
    /\ ToOffer(w, s)
    /\ ~ Accepting(s)
    /\ Release(w, FALSE)
    /\ UNCHANGED <<targets, sinks, verdict, served, up>>

Replied(w) ==
    /\ caller[w].waiting /\ caller[w].reply # "none"
    /\ Release(w, caller[w].reply = "ok")
    /\ UNCHANGED <<targets, sinks, verdict, served, up>>

\* Mutant: what the worker will still write counts as taken.
TimeOutTaken(w) ==
    /\ caller[w].waiting
    /\ Release(w, TRUE)
    /\ UNCHANGED <<targets, sinks, verdict, served, up>>

\* ErrSinkTimeout: the command stays with the worker.  A reply that arrives
\* with the timer may lose to it.
TimeOut(w) ==
    /\ caller[w].waiting
    /\ Release(w, FALSE)
    /\ UNCHANGED <<targets, sinks, verdict, served, up>>

Outcome(w) == IF caller[w].took THEN "accepted"
              ELSE IF caller[w].acquired THEN "refused" ELSE "untargeted"

\* The end of Write, and what ServeHTTP makes of it: a refused request record
\* keeps the handler from running, and the exchange still gets its response
\* record; what becomes of that one changes nothing.
EndWrite(w) ==
    /\ Sending(w) /\ caller[w].left = <<>>
    /\ w \in Requests
    /\ verdict' = [verdict EXCEPT ![<<w, caller[w].at>>] = Outcome(w)]
    /\ caller' = [caller EXCEPT ![w] = [Free EXCEPT !.at =
                    IF caller[w].at = "response" THEN "done"
                    ELSE IF Outcome(w) = "refused" THEN "unavailable" ELSE "handler"]]
    /\ UNCHANGED <<targets, sinks, holders, served, up>>

EndReopen(w) ==
    /\ Sending(w) /\ caller[w].left = <<>>
    /\ w \in Rotations
    /\ caller' = [caller EXCEPT ![w] = [Free EXCEPT !.at = "done"]]
    /\ UNCHANGED <<targets, sinks, holders, verdict, served, up>>

Handle(w) ==
    /\ caller[w].at = "handler"
    /\ served' = served \cup {w}
    /\ Acquire(w, "response")
    /\ UNCHANGED <<targets, sinks, verdict, up>>

Unavailable(w) ==
    /\ caller[w].at = "unavailable"
    /\ Acquire(w, "response")
    /\ UNCHANGED <<targets, sinks, verdict, served, up>>

-----------------------------------------------------------------------------
\* The sink's worker.

Awaits(w, s, c) == /\ caller[w].waiting /\ Head(caller[w].left) = s
                   /\ c = <<w, caller[w].at>>

\* One command.  A failed write leaves no whole record; a reopen goes on in the
\* file it had or in a new one; a measurement changes nothing and is left out.
Work(s) ==
    /\ queue[s] # <<>>
    /\ queue' = [queue EXCEPT ![s] = Tail(@)]
    /\ LET c == Head(queue[s]) IN
       \E ok \in BOOLEAN :
           /\ trail' = IF ok /\ c \in Records THEN [trail EXCEPT ![s] = Append(@, c)] ELSE trail
           /\ status' = IF c = Close THEN [status EXCEPT ![s] = "closed"] ELSE status
           /\ caller' = [w \in Callers |->
                            IF Awaits(w, s, c)
                            THEN [caller[w] EXCEPT !.reply = IF ok THEN "ok" ELSE "error"]
                            ELSE caller[w]]
    /\ UNCHANGED <<targets, holders, verdict, served, up>>

-----------------------------------------------------------------------------
\* Targets come and go, each change under Broker.mu; the requests that ask for
\* them are among those not told apart here.

Add(s) ==
    /\ status[s] = "fresh" /\ Len(targets) < MaxSinks
    /\ targets' = Append(targets, s)
    /\ status' = [status EXCEPT ![s] = "attached"]
    /\ UNCHANGED <<queue, trail, holders, caller, verdict, served, up>>

\* Remove: out of the list first, then the wait for those who hold it, then
\* the sink's Close.
Detach(s) ==
    /\ \E i \in DOMAIN targets : targets[i] = s /\ targets' = RemoveAt(targets, i)
    /\ status' = IF status[s] = "attached" THEN [status EXCEPT ![s] = "draining"] ELSE status
    /\ UNCHANGED <<queue, trail, holders, caller, verdict, served, up>>

\* Mutant: a removal closes at once.
DrainedAtOnce(s) == TRUE

Drained(s) == holders[s] = {}

CloseDrained(s) ==
    /\ status[s] = "draining" /\ Drained(s)
    /\ status' = [status EXCEPT ![s] = "closing"]
    /\ UNCHANGED <<targets, queue, trail, holders, caller, verdict, served, up>>

\* Broker.Close at shutdown: each target in turn, whoever still holds it.
CloseNow(s) ==
    /\ up = "stopping"
    /\ status[s] = "attached"
    /\ \E i \in DOMAIN targets :
          /\ targets[i] = s
          /\ \A j \in 1 .. i - 1 : status[targets[j]] # "attached"
    /\ status' = [status EXCEPT ![s] = "closing"]
    /\ UNCHANGED <<targets, queue, trail, holders, caller, verdict, served, up>>

\* The close command waits for room, behind the commands already accepted.
SendClose(s) ==
    /\ status[s] = "closing" /\ Len(queue[s]) < QueueDepth
    /\ queue' = [queue EXCEPT ![s] = Append(@, Close)]
    /\ status' = [status EXCEPT ![s] = "sealed"]
    /\ UNCHANGED <<targets, trail, holders, caller, verdict, served, up>>

\* The listener closes first; requests under way get the grace period.
Shutdown ==
    /\ up = "serving"
    /\ up' = "stopping"
    /\ UNCHANGED <<targets, sinks, holders, caller, verdict, served>>

\* The end of the grace period, or a crash: what was in memory is gone.
Exit ==
    /\ up' = "exited"
    /\ targets' = <<>>
    /\ queue' = [s \in Sinks |-> <<>>]
    /\ status' = [s \in Sinks |-> "closed"]
    /\ holders' = [s \in Sinks |-> {}]
    /\ caller' = [w \in Callers |-> [Free EXCEPT !.at = "done"]]
    /\ UNCHANGED <<trail, verdict, served>>

-----------------------------------------------------------------------------
Call(w) ==
    \/ EndWrite(w) \/ EndReopen(w) \/ Handle(w) \/ Unavailable(w)
    \/ \E s \in Sinks : Offer(w, s) \/ Refused(w, s)
    \/ Replied(w) \/ TimeOut(w)

Closing(s) == CloseDrained(s) \/ SendClose(s)

Running == up # "exited"
CallStep(w) == Running /\ Call(w)
Worker(s) == Running /\ Work(s)
Closer(s) == Running /\ Closing(s)

Next ==
    \/ \E w \in Callers : (Running /\ Begin(w)) \/ CallStep(w)
    \/ \E s \in Sinks : Worker(s) \/ Closer(s)
    \/ \E s \in Sinks : Running /\ (Add(s) \/ Detach(s) \/ CloseNow(s))
    \/ Running /\ (Shutdown \/ Exit)

\* Goroutines run and timers fire.  Nothing says that the disk answers.
Fairness ==
    /\ \A w \in Callers : WF_vars(CallStep(w))
    /\ \A s \in Sinks : WF_vars(Closer(s))

Spec == Init /\ [][Next]_vars /\ Fairness

-----------------------------------------------------------------------------
\* Properties

Promise == INSTANCE AuditTrail

\* The files and the answers behave as AuditTrail says: no record is written
\* twice or its response before its request, whatever timed out, none is
\* accepted on the word of a queue, and nothing unrecorded is served while
\* there is a target (Broker.Write, FileSink.run, HTTPHandler.ServeHTTP).
KeepsTrail == Promise!Spec

\* A removal never takes a sink from a call that acquired it: until shutdown,
\* every target a call still has to visit takes commands (Broker.Remove waits
\* for drained, which the last releaseTarget closes).
RemovalSpares ==
    up = "serving" =>
        \A w \in Callers : \A i \in DOMAIN caller[w].left :
            status[caller[w].left[i]] \in {"attached", "draining"}

\* A removal whose own worker goes on is carried through to the closed file,
\* though the disk of another target may never answer: every call lets go of
\* the target on every path, at the latest when its timer fires (submitWrite,
\* submit, releaseTarget).
RemovalEnds ==
    \A s \in Sinks :
        WF_vars(Worker(s)) => (status[s] = "draining" ~> (status[s] = "closed" \/ ~ Running))
=============================================================================
