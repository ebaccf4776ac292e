------------------------------- MODULE BagDrop -------------------------------
(***************************************************************************)
(* The one-way mirror of one project: its configuration and associations    *)
(* (bagdrop/service.go, bagdrop_repository.go), the reconciler's loop and    *)
(* its pass (bagdrop/reconcile.go) and the buckets at the destination.       *)
(*                                                                         *)
(* Every repository call of a handler or of the pass is a transaction of     *)
(* its own, and so a step; every call to the destination is a step that may  *)
(* fail with or without its effect, or meet an audit broker that refuses the *)
(* record before or after it.  The process may restart between any two.      *)
(* One process reconciles, as in the deployment the repository ships; the    *)
(* destination is the same throughout, and someone else may edit it while no *)
(* pass is under way.  A bucket has one ordinary channel.                    *)
(***************************************************************************)
EXTENDS Naturals, FiniteSetsExt

CONSTANTS
    Buckets, Components,
    Gone, Unread, NoChannel, Unassigned,
    Ancestry,       \* pairs of buckets: the second is built, in some steps, from the first
    Associated,     \* buckets associated at the start, nothing sent yet
    MaxVersions,    \* bound: versions of a bucket, numbered in their order
    Contents,       \* what a local bucket may hold: a set of Content for each bucket
    MaxCalls,       \* bound: requests to the service
    MaxEdits,       \* bound: changes of the local registry, and by others at the destination
    MaxFaults       \* bound: failed calls, refused records, restarts

ASSUME BagDropAssumption ==
    /\ Gone \notin Buckets
    /\ Ancestry \subseteq Buckets \X Buckets
    /\ Associated \subseteq Buckets
    /\ NoChannel \notin 1..MaxVersions
    /\ MaxVersions \in Nat
    /\ MaxCalls \in Nat /\ MaxEdits \in Nat /\ MaxFaults \in Nat

VARIABLES
    config,     \* bagdrop_configs: "absent", "disabled" or "enabled"
    assoc,      \* bagdrop_associations: [Buckets -> Association]
    local,      \* the registry's buckets: [Buckets -> Content, or Gone]
    remote,     \* the destination's: [Buckets -> Mirror, or Gone]
    asked,      \* requests between their first read and their write
    pass,       \* the pass under way, or Idle
    loop,       \* Run's paused flag, the queued trigger and the backoff
    spent       \* what of each bound has been used

store == <<config, assoc, asked>>
vars == <<store, local, remote, pass, loop, spent>>

Versions == 1..MaxVersions
Content == [versions : SUBSET Versions, builds : [Versions -> SUBSET Components],
            sboms : [Versions -> SUBSET Components], revoked : SUBSET Versions,
            pointer : Versions \cup {NoChannel, Unassigned}]

\* A revocation is of a version that is there, an SBOM of a build that is there.
ASSUME ContentsAssumption ==
    \A b \in Buckets : \A held \in Contents[b] :
        /\ held \in Content
        /\ held.revoked \subseteq held.versions
        /\ \A v \in Versions : held.sboms[v] \subseteq held.builds[v]

Status == {"absent", "pending", "running", "done"}
Mirror == [versions : SUBSET Versions, builds : [Versions -> [Components -> Status]],
           sboms : [Versions -> SUBSET Components], revoked : SUBSET Versions,
           pointer : Versions \cup {NoChannel, Unassigned}]
Association == [state : {"none", "active", "pending_removal"},
                attempted : BOOLEAN, synced : {"never", "synced", "error"}]
None == [state |-> "none", attempted |-> FALSE, synced |-> "never"]
Pass == [at : {"idle", "list", "read", "next", "mirror", "drift", "unlink", "record"},
         bucket : Buckets \cup {Gone}, todo : SUBSET Buckets,
         listed : [Buckets -> {"none", "active", "pending_removal"}],
         snapshot : [Buckets -> Content \cup {Gone, Unread}],
         half : Buckets \cup {Gone}, begun : {"no", "yes", "failed"},
         skipped : SUBSET (Versions \X Components), failed : BOOLEAN]
Idle == [at |-> "idle", bucket |-> Gone, todo |-> {},
         listed |-> [b \in Buckets |-> "none"],
         snapshot |-> [b \in Buckets |-> Unread], half |-> Gone,
         begun |-> "no", skipped |-> {}, failed |-> FALSE]
Request == [op : {"associate"}, bucket : Buckets] \cup
           [op : {"delete"}, bucket : {Gone}]

TypeOK ==
    /\ config \in {"absent", "disabled", "enabled"}
    /\ assoc \in [Buckets -> Association]
    /\ local \in [Buckets -> Content \cup {Gone}]
    /\ remote \in [Buckets -> Mirror \cup {Gone}]
    /\ asked \subseteq Request
    /\ pass \in Pass
    /\ loop \in [paused : BOOLEAN, pending : BOOLEAN, backoff : BOOLEAN]
    /\ spent \in [calls : 0..MaxCalls, edits : 0..MaxEdits, faults : 0..MaxFaults]

Init ==
    /\ config \in {"enabled", "disabled"}
    /\ assoc = [b \in Buckets |->
                    IF b \in Associated THEN [None EXCEPT !.state = "active"] ELSE None]
    /\ local \in {held \in [Buckets -> UNION {Contents[b] : b \in Buckets}] :
                     \A b \in Buckets : held[b] \in Contents[b]}
    /\ remote = [b \in Buckets |-> Gone]
    /\ asked = {}
    /\ pass = Idle
    /\ loop = [paused |-> FALSE, pending |-> FALSE, backoff |-> FALSE]
    /\ spent = [calls |-> 0, edits |-> 0, faults |-> 0]

Spend(what, max) ==
    /\ spent[what] < max
    /\ spent' = [spent EXCEPT ![what] = @ + 1]
Call == Spend("calls", MaxCalls)
Fault == Spend("faults", MaxFaults)

Trigger == loop' = [loop EXCEPT !.pending = TRUE]

-----------------------------------------------------------------------------
\* The service.

\* The destination resolved: the configuration is stored enabled.
Enable ==
    /\ Call
    /\ config' = "enabled"
    /\ Trigger
    /\ UNCHANGED <<assoc, asked, local, remote, pass>>

\* A pass under way carries on.
Disable ==
    /\ Call
    /\ config # "absent"
    /\ config' = "disabled"
    /\ UNCHANGED <<assoc, asked, local, remote, pass, loop>>

\* Two reads that refuse, and the upsert of another transaction.
AssociateRead(b) ==
    /\ Call
    /\ config # "absent"
    /\ local[b] # Gone
    /\ asked' = asked \cup {[op |-> "associate", bucket |-> b]}
    /\ UNCHANGED <<config, assoc, local, remote, pass, loop>>

\* ON CONFLICT keeps first_attempted_at and last_synced_at and clears the
\* error; a configuration deleted meanwhile fails the foreign key.
AssociatePut(b) ==
    /\ [op |-> "associate", bucket |-> b] \in asked
    /\ asked' = asked \ {[op |-> "associate", bucket |-> b]}
    /\ IF config = "absent" THEN UNCHANGED <<assoc, loop>>
       ELSE /\ assoc' = [assoc EXCEPT ![b].state = "active",
                                      ![b].synced = IF @ = "error" THEN "never" ELSE @]
            /\ Trigger
    /\ UNCHANGED <<config, local, remote, pass, spent>>

\* Nothing was ever sent: the row goes.  Otherwise the destination owes a
\* deletion.
Unassociate(b) ==
    /\ Call
    /\ assoc[b].state # "none"
    /\ assoc' = [assoc EXCEPT ![b] =
                    IF @.attempted THEN [@ EXCEPT !.state = "pending_removal"] ELSE None]
    /\ Trigger
    /\ UNCHANGED <<config, asked, local, remote, pass>>

\* Mutant: what was sent is forgotten.
BlockingIfPending(b) == assoc[b].state = "pending_removal"

Blocking(b) == assoc[b].state = "pending_removal" \/ assoc[b].attempted

DeleteConfigRead ==
    /\ Call
    /\ config = "disabled"
    /\ \A b \in Buckets : ~ Blocking(b)
    /\ asked' = asked \cup {[op |-> "delete", bucket |-> Gone]}
    /\ UNCHANGED <<config, assoc, local, remote, pass, loop>>

\* The statement looks at the associations again, not at enabled, and takes
\* the associations with it.
DeleteConfig ==
    /\ [op |-> "delete", bucket |-> Gone] \in asked
    /\ asked' = asked \ {[op |-> "delete", bucket |-> Gone]}
    /\ IF \E b \in Buckets : Blocking(b) THEN UNCHANGED <<config, assoc>>
       ELSE /\ config' = "absent"
            /\ assoc' = [b \in Buckets |-> None]
    /\ UNCHANGED <<local, remote, pass, loop, spent>>

Reconcile ==
    /\ Call
    /\ ~ loop.pending
    /\ Trigger
    /\ UNCHANGED <<store, local, remote, pass>>

-----------------------------------------------------------------------------
\* The registry and the destination, where others act.

LocalEdit(b) ==
    /\ Spend("edits", MaxEdits)
    /\ local' = [local EXCEPT ![b] = Gone] \/
       \E content \in Contents[b] \ {local[b]} : local' = [local EXCEPT ![b] = content]
    /\ UNCHANGED <<store, remote, pass, loop>>

Without(mirror, v) ==
    [mirror EXCEPT !.versions = @ \ {v}, !.revoked = @ \ {v}, !.sboms[v] = {},
                   !.builds[v] = [c \in Components |-> "absent"],
                   !.pointer = IF @ = v THEN Unassigned ELSE @]

Drift(b) ==
    /\ pass = Idle
    /\ Spend("edits", MaxEdits)
    /\ remote[b] # Gone
    /\ \E v \in Versions :
         \/ v \in remote[b].versions /\ remote' = [remote EXCEPT ![b] = Without(@, v)]
         \/ v \in remote[b].versions /\ remote' = [remote EXCEPT ![b].revoked = @ \cup {v}]
         \/ /\ v \notin remote[b].versions
            /\ remote' = [remote EXCEPT ![b].versions = @ \cup {v},
                              ![b].builds[v] = [c \in Components |-> "done"],
                              ![b].pointer = v]
    /\ UNCHANGED <<store, local, pass, loop>>

-----------------------------------------------------------------------------
\* The loop.

\* ReconcileProject's first read: a disabled project is a pass without
\* error, a missing configuration one with.
Begin ==
    IF config = "enabled" THEN pass' = [Idle EXCEPT !.at = "list"] ELSE UNCHANGED pass

\* The timer lifts the pause; ListBagDropProjects gives enabled projects,
\* and one in its backoff is passed over.
Tick ==
    /\ pass = Idle
    /\ loop' = [loop EXCEPT !.paused = FALSE]
    /\ IF loop.backoff THEN UNCHANGED pass ELSE Begin
    /\ UNCHANGED <<store, local, remote, spent>>

\* A trigger is dropped while the loop is paused, and does not wait for the
\* backoff.
TakeTrigger ==
    /\ pass = Idle
    /\ loop.pending
    /\ IF loop.paused THEN /\ loop' = [loop EXCEPT !.pending = FALSE]
                           /\ UNCHANGED pass
       ELSE /\ Begin
            /\ loop' = [loop EXCEPT !.pending = FALSE,
                                    !.backoff = CASE config = "absent" -> TRUE
                                                  [] config = "disabled" -> FALSE
                                                  [] OTHER -> @]
    /\ UNCHANGED <<store, local, remote, spent>>

\* Time passes.
BackoffEnds ==
    /\ loop.backoff
    /\ loop' = [loop EXCEPT !.backoff = FALSE]
    /\ UNCHANGED <<store, local, remote, pass, spent>>

\* Everything the loop knows is in the process.
Restart ==
    /\ Fault
    /\ pass' = Idle
    /\ loop' = [paused |-> FALSE, pending |-> FALSE, backoff |-> FALSE]
    /\ UNCHANGED <<store, local, remote>>

EndPass(failed, unaudited) ==
    /\ pass' = Idle
    /\ loop' = [loop EXCEPT !.backoff = failed, !.paused = unaudited]

-----------------------------------------------------------------------------
\* The pass.

\* Mutant: only what is to be mirrored is listed.
ListActive ==
    /\ pass.at = "list"
    /\ pass' = [pass EXCEPT !.at = "read",
                            !.listed = [b \in Buckets |-> assoc[b].state],
                            !.todo = {b \in Buckets : assoc[b].state = "active"}]
    /\ UNCHANGED <<store, local, remote, loop, spent>>

List ==
    /\ pass.at = "list"
    /\ pass' = [pass EXCEPT !.at = "read",
                            !.listed = [b \in Buckets |-> assoc[b].state],
                            !.todo = {b \in Buckets : assoc[b].state # "none"}]
    /\ UNCHANGED <<store, local, remote, loop, spent>>

ToRead == {b \in Buckets : pass.listed[b] = "active" /\ pass.snapshot[b] = Unread}

\* GetBagDropBucketSnapshot reads the completed versions and their builds in
\* one statement and the channels in a later one, READ COMMITTED.
ReadVersions(b) ==
    /\ pass.at = "read"
    /\ pass.half = Gone
    /\ b \in ToRead
    /\ pass' = IF local[b] = Gone THEN [pass EXCEPT !.snapshot[b] = Gone]
               ELSE [pass EXCEPT !.snapshot[b] = [local[b] EXCEPT !.pointer = NoChannel],
                                 !.half = b]
    /\ UNCHANGED <<store, local, remote, loop, spent>>

\* A bucket deleted in between has no channels; what SBOMs its builds had
\* are not found when they are downloaded, and that ends the pass.
ReadChannels(b) ==
    /\ pass.at = "read"
    /\ pass.half = b
    /\ IF local[b] = Gone /\ pass.snapshot[b].versions # {} THEN EndPass(TRUE, FALSE)
       ELSE /\ pass' = [pass EXCEPT !.half = Gone,
                  !.snapshot[b].pointer = IF local[b] = Gone THEN @ ELSE local[b].pointer]
            /\ UNCHANGED loop
    /\ UNCHANGED <<store, local, remote, spent>>

\* orderAssociationsByAncestry: parents first, a cycle in any order.
Before(b, c) == <<b, c>> \in Ancestry /\ <<c, b>> \notin Ancestry

\* MarkBagDropAssociationAttempt: a row that is gone ends the pass.  The
\* first one opens the run; if that fails every association fails with it.
Attempt(b) ==
    /\ pass.at = "next" \/ (pass.at = "read" /\ ToRead = {} /\ pass.half = Gone)
    /\ b \in pass.todo
    /\ \A a \in pass.todo : ~ Before(a, b)
    /\ IF assoc[b].state = "none"
       THEN /\ EndPass(TRUE, FALSE)
            /\ UNCHANGED <<assoc, spent>>
       ELSE LET marked == [assoc EXCEPT ![b].attempted = TRUE]
            IN  /\ \/ /\ pass.begun # "failed"
                      /\ assoc' = marked
                      /\ pass' = [pass EXCEPT !.at = "mirror", !.bucket = b, !.skipped = {},
                                              !.todo = @ \ {b}, !.begun = "yes"]
                      /\ UNCHANGED spent
                   \/ /\ \/ pass.begun = "failed" /\ UNCHANGED spent
                         \/ pass.begun = "no" /\ Fault
                      /\ assoc' = [marked EXCEPT ![b].synced = "error"]
                      /\ pass' = [pass EXCEPT !.at = "next", !.todo = @ \ {b},
                                              !.begun = "failed", !.failed = TRUE]
                /\ UNCHANGED loop
    /\ UNCHANGED <<config, asked, local, remote>>

Finish ==
    /\ pass.at = "next" \/ (pass.at = "read" /\ ToRead = {} /\ pass.half = Gone)
    /\ pass.todo = {}
    /\ EndPass(pass.failed, FALSE)
    /\ UNCHANGED <<store, local, remote, spent>>

\* RecordBagDropAssociationFailure; the pass goes on, unless nothing could
\* record what it did.
Fails(unaudited) ==
    /\ assoc' = [assoc EXCEPT ![pass.bucket].synced = "error"]
    /\ IF unaudited THEN EndPass(TRUE, TRUE)
       ELSE /\ pass' = [pass EXCEPT !.at = "next", !.bucket = Gone, !.failed = TRUE]
            /\ UNCHANGED loop
    /\ UNCHANGED <<config, asked, local>>

\* mutate: the request record, the call, the response record.  Without the
\* first nothing is sent; a call that fails may have had its effect; without
\* the last the effect stands and the pass ends.
Mutate(mirror, then) ==
    LET b == pass.bucket IN
    \/ /\ remote' = [remote EXCEPT ![b] = mirror]
       /\ pass' = then
       /\ UNCHANGED <<store, local, loop, spent>>
    \/ /\ Fault
       /\ remote' \in {remote, [remote EXCEPT ![b] = mirror]}
       /\ \E unaudited \in BOOLEAN : Fails(unaudited)

Source == pass.snapshot[pass.bucket]
Target == remote[pass.bucket]
Owed == pass.listed[pass.bucket] = "pending_removal" \/ Source = Gone

\* deleteAssociatedBucket: the destination first; a bucket not found there
\* counts as deleted.
DeleteBucket ==
    /\ pass.at = "mirror"
    /\ Owed
    /\ Mutate(Gone, [pass EXCEPT !.at = "unlink"])

\* The association goes by its name, whatever has become of its state.
Unlink ==
    /\ pass.at = "unlink"
    /\ assoc' = [assoc EXCEPT ![pass.bucket] = None]
    /\ pass' = [pass EXCEPT !.at = "next", !.bucket = Gone]
    /\ UNCHANGED <<config, asked, local, remote, loop, spent>>

Mirroring == pass.at = "mirror" /\ ~ Owed

EmptyMirror == [versions |-> {}, builds |-> [v \in Versions |-> [c \in Components |-> "absent"]],
                sboms |-> [v \in Versions |-> {}], revoked |-> {}, pointer |-> NoChannel]

CreateBucket ==
    /\ Mirroring
    /\ Target = Gone
    /\ Mutate(EmptyMirror, pass)

\* The local versions are visited in order; what a version lacks at the
\* destination is supplied in the order of the guards below.
\* Mutant: a revocation lifted here is not lifted there.
VersionMirroredOnce(v) ==
    /\ v \in Target.versions
    /\ v \in Source.revoked => v \in Target.revoked
    /\ \A c \in Source.builds[v] : Target.builds[v][c] = "done"

VersionMirrored(v) ==
    /\ v \in Target.versions
    /\ v \in Source.revoked <=> v \in Target.revoked
    /\ \A c \in Source.builds[v] : Target.builds[v][c] = "done"

Lagging == {v \in Source.versions : ~ VersionMirrored(v)}
Visited(v) == Mirroring /\ Target # Gone /\ Lagging # {} /\ v = Min(Lagging)

CreateVersion(v) ==
    /\ Visited(v)
    /\ v \notin Target.versions
    /\ Mutate([Target EXCEPT !.versions = @ \cup {v}], pass)

RestoreVersion(v) ==
    /\ Visited(v)
    /\ v \in Target.revoked \ Source.revoked
    /\ Mutate([Target EXCEPT !.revoked = @ \ {v}], pass)

Open(v) == Visited(v) /\ v \in Target.versions /\ v \notin Target.revoked \ Source.revoked

CreateBuild(v, c) ==
    /\ Open(v)
    /\ c \in Source.builds[v]
    /\ Target.builds[v][c] = "absent"
    /\ Mutate([Target EXCEPT !.builds[v][c] = "pending"], pass)

Building(v, c) ==
    /\ Open(v)
    /\ c \in Source.builds[v]
    /\ \A d \in Source.builds[v] : Target.builds[v][d] # "absent"
    /\ Target.builds[v][c] # "done"

ToUpload(v, c) == c \in Source.sboms[v] \ Target.sboms[v] /\ <<v, c>> \notin pass.skipped

\* A build takes SBOMs only while it runs.
RunBuild(v, c) ==
    /\ Building(v, c)
    /\ c \in Source.sboms[v]
    /\ Target.builds[v][c] # "running"
    /\ Mutate([Target EXCEPT !.builds[v][c] = "running"], pass)

UploadSbom(v, c) ==
    /\ Building(v, c)
    /\ Target.builds[v][c] = "running"
    /\ ToUpload(v, c)
    /\ \/ Mutate([Target EXCEPT !.sboms[v] = @ \cup {c}], pass)
       \/ /\ Fault   \* refused for its size
          /\ pass' = [pass EXCEPT !.skipped = @ \cup {<<v, c>>}]
          /\ UNCHANGED <<store, local, remote, loop>>

FinishBuild(v, c) ==
    /\ Building(v, c)
    /\ c \in Source.sboms[v] => Target.builds[v][c] = "running" /\ ~ ToUpload(v, c)
    /\ Mutate([Target EXCEPT !.builds[v][c] = "done"], pass)

\* The destination may move a channel off a version that is revoked.
RevokeVersion(v) ==
    /\ Open(v)
    /\ \A c \in Source.builds[v] : Target.builds[v][c] = "done"
    /\ \E pointer \in {Target.pointer} \cup (IF Target.pointer = v THEN {Unassigned} ELSE {}) :
         Mutate([Target EXCEPT !.revoked = @ \cup {v}, !.pointer = pointer], pass)

\* reconcileChannels, after every version and build.
ChannelsTurn == Mirroring /\ Target # Gone /\ Lagging = {} /\ Source.pointer # Target.pointer

CreateChannel ==
    /\ ChannelsTurn
    /\ Target.pointer = NoChannel
    /\ Mutate([Target EXCEPT !.pointer = Unassigned], pass)

\* The destination refuses a version it does not have.
AssignChannel ==
    /\ ChannelsTurn
    /\ NoChannel \notin {Source.pointer, Target.pointer}
    /\ IF Source.pointer \in Versions \ Target.versions
       THEN Fails(FALSE) /\ UNCHANGED <<remote, spent>>
       ELSE Mutate([Target EXCEPT !.pointer = Source.pointer], pass)

DeleteChannel ==
    /\ ChannelsTurn
    /\ Source.pointer = NoChannel
    /\ Mutate([Target EXCEPT !.pointer = NoChannel], pass)

\* What the destination has and the snapshot has not.
ChannelsMirrored ==
    /\ Mirroring
    /\ Target # Gone
    /\ Lagging = {}
    /\ Source.pointer = Target.pointer
    /\ pass' = [pass EXCEPT !.at = "drift"]
    /\ UNCHANGED <<store, local, remote, loop, spent>>

StrayBuilds(v) == {c \in Components \ Source.builds[v] : Target.builds[v][c] # "absent"}

DeleteVersion(v) ==
    /\ pass.at = "drift"
    /\ v \in Target.versions \ Source.versions
    /\ Mutate(Without(Target, v), pass)

DeleteBuild(v, c) ==
    /\ pass.at = "drift"
    /\ Target.versions \subseteq Source.versions
    /\ v \in Source.versions
    /\ c \in StrayBuilds(v)
    /\ Mutate([Target EXCEPT !.builds[v][c] = "absent", !.sboms[v] = @ \ {c}], pass)

Mirrored ==
    /\ pass.at = "drift"
    /\ Target.versions \subseteq Source.versions
    /\ \A v \in Source.versions : StrayBuilds(v) = {}
    /\ pass' = [pass EXCEPT !.at = "record"]
    /\ UNCHANGED <<store, local, remote, loop, spent>>

\* SBOMs a finished build lacks or has too many: an error of the association
\* that is no failure of the pass.
Surfaced == \E v \in Source.versions : \E c \in Source.builds[v] :
                c \in Source.sboms[v] <=> c \notin Target.sboms[v]

\* RecordBagDropAssociationSuccess finds only an active row; without one the
\* pass ends.
Record ==
    /\ pass.at = "record"
    /\ \/ /\ Surfaced
          /\ assoc' = [assoc EXCEPT ![pass.bucket].synced = "error"]
          /\ pass' = [pass EXCEPT !.at = "next", !.bucket = Gone]
          /\ UNCHANGED loop
       \/ /\ ~ Surfaced
          /\ assoc[pass.bucket].state = "active"
          /\ assoc' = [assoc EXCEPT ![pass.bucket].synced = "synced"]
          /\ pass' = [pass EXCEPT !.at = "next", !.bucket = Gone]
          /\ UNCHANGED loop
       \/ /\ ~ Surfaced
          /\ assoc[pass.bucket].state # "active"
          /\ EndPass(TRUE, FALSE)
          /\ UNCHANGED assoc
    /\ UNCHANGED <<config, asked, local, remote, spent>>

VersionStep ==
    \E v \in Versions :
        \/ CreateVersion(v) \/ RestoreVersion(v) \/ RevokeVersion(v) \/ DeleteVersion(v)
        \/ \E c \in Components : \/ CreateBuild(v, c) \/ RunBuild(v, c)
                                 \/ UploadSbom(v, c) \/ FinishBuild(v, c)
                                 \/ DeleteBuild(v, c)

PassStep ==
    \/ List
    \/ \E b \in Buckets : ReadVersions(b) \/ ReadChannels(b) \/ Attempt(b)
    \/ Finish
    \/ DeleteBucket \/ Unlink
    \/ CreateBucket
    \/ VersionStep
    \/ CreateChannel \/ AssignChannel \/ DeleteChannel \/ ChannelsMirrored
    \/ Mirrored \/ Record

Next ==
    \/ Enable \/ Disable \/ DeleteConfigRead \/ DeleteConfig \/ Reconcile
    \/ \E b \in Buckets : \/ AssociateRead(b) \/ AssociatePut(b) \/ Unassociate(b)
                          \/ LocalEdit(b) \/ Drift(b)
    \/ Tick \/ TakeTrigger \/ BackoffEnds \/ Restart
    \/ PassStep

\* The loop's goroutine keeps running and its timer keeps firing; time
\* passes.
Spec == Init /\ [][Next]_vars /\ WF_vars(Tick) /\ WF_vars(BackoffEnds) /\ WF_vars(PassStep)

-----------------------------------------------------------------------------
\* Whatever the destination holds, an association answers for it: no order
\* of removals, configuration deletions, failed calls and restarts leaves a
\* mirrored bucket that nothing will ever delete (the guards of
\* RemoveBagDropAssociation, DeleteBagDropConfig and deleteAssociatedBucket).
NoOrphanMirror == \A b \in Buckets : remote[b] # Gone => assoc[b].attempted

\* A recorded success means the destination holds the snapshot: its versions
\* and their revocations, exactly their builds, finished, their SBOMs, and
\* the channel, from whatever earlier passes and others had left there.
SyncedMirrors ==
    [][pass.at = "record" /\ pass'.at = "next" /\ assoc'[pass.bucket].synced = "synced" =>
         /\ Target.versions = Source.versions
         /\ Target.revoked = Source.revoked
         /\ \A v \in Versions, c \in Components :
              Target.builds[v][c] = IF v \in Source.versions /\ c \in Source.builds[v]
                                    THEN "done" ELSE "absent"
         /\ \A v \in Source.versions : Target.sboms[v] = Source.sboms[v]
         /\ Source.pointer \in Source.versions \cup {NoChannel, Unassigned}
                => Target.pointer = Source.pointer]_vars

\* A removal the destination owes is carried out, or the mirror is disabled
\* or the bucket associated again: a trigger dropped while paused, a backoff,
\* a failed call or a restart only delays it (bag-drop.md: "deletion is
\* retried until it succeeds").
RemovalCompletes ==
    \A b \in Buckets : assoc[b].state = "pending_removal"
                          ~> assoc[b].state # "pending_removal" \/ config # "enabled"

\* reconcile.go: "Because the snapshot is transactional and versions/builds
\* converge above, every assignment target exists remotely before its
\* pointer is set here."
AssignmentTargetExists ==
    ChannelsTurn => Source.pointer \in Target.versions \cup {NoChannel, Unassigned}

=============================================================================
