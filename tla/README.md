# dufflebag in TLA+

dufflebag is a self-hosted registry for machine-image metadata, compatible with
the HCP Packer API. It is a Go server over PostgreSQL and an S3 bucket, and any
number of replicas may run against one database. This directory holds its
specification: TLA+ modules translated from the code, the TLC configurations
that check them on small instances, and proofs checked by TLAPS.

## The system

| Part | State it keeps | Operations | What makes it hard | What makes it correct |
|---|---|---|---|---|
| Registry aggregate (`store/postgres/repository.go`, `channel_repository.go`, `domain/registry/version.go`) | buckets, versions, builds, channels, `channel_assignments`, revocation columns | create, record, complete, assign, clear, revoke with descendants, restore, delete | several rows change in one transaction; scheduled revocations take effect with no write; ids go and numbers return | a channel selects complete versions only; completion is final; history only grows; a rollback lands on the newest valid version; a revocation reaches every descendant and leaves with its ancestor |
| Handlers over it (`compat/hcp2023/handler.go`) | none of their own | read, decide, write | the read and the write are different transactions, and READ COMMITTED lets two operations pass each other | what holds one operation at a time holds when they overlap, or the place where it does not is known |
| Scan queue (`scanner_service.go`, `scan_repository.go`, `scanner_cadence.go`) | `pending_scans`, `scan_runs`, `build_scan_state` | enqueue, claim, scan, record, release, sweep, purge | claims lapse by time; results come back out of order; the build changes under the scan | findings shown are those of the live inventory, never older than ones shown before; nothing stays queued for ever |
| Scanning (`internal/scan`, `findings_summary.go`) | none | identify packages, ask OSV, rate severity | none here: functions over documents | severity order and counts |
| Webhooks (`internal/webhook`, `webhook_*.go`) | endpoints, `webhook_outbox`, `webhook_deliveries` | configure, verify, enqueue, dispatch, retry, test | HTTP between two transactions; crash between send and record; a ring of finished rows | every delivery that is not pruned is finished; none is sent more often than retries and crashes explain; only verified endpoints are active |
| Bag Drop (`internal/bagdrop`) | associations, per-project backoff, trigger queue | trigger, pass, mirror, delete remote | a long series of remote calls, any of which fails; associations and the registry change during a pass | a recorded success is a full mirror; nothing is mirrored that no association answers for; an owed removal is carried out |
| Keyring (`internal/keyring`) | keyring rows; each replica's keys in memory | establish, load, rotate, rewrap, heartbeat | replicas learn of each other's keys late; rows are written after the key service moved on | replicas never disagree on a key; what one seals the others can open in the end |
| Audit (`internal/audit`) | sinks, their health, a queue per file | write, reopen, add, remove, close | timeouts of writes that still land; removal during writes; shutdown | no record twice or out of order; an accepted one is in a file; a request of an audited route does not run without its record; a removal spares the calls that hold its target |
| Identity (`principal_*.go`, `instance_repository.go`, `hcpauth`) | principals, secrets, caches, limiters | claim, issue, revoke, delete, authenticate | caches per replica; two roots deleted, or two secrets revoked, at once | one root remains and keeps a secret that does not expire; a revoked secret is refused at once where that was answered, and in the end everywhere |
| Plugin registry (`internal/pluginimport`, `plugin_*.go`, `pluginread`) | import jobs, versions and their objects, the exported bundle | import, sync, upload, claim, record, delete, export, serve | claims that go stale with nothing in the row to say whose they are; rows and objects in two stores | the versions of a plugin come from one source; every job ends; what a row names is stored |
| Platform API, compatibility API, console, wiring, tools | none that outlives a request | decode, authorize, answer | none of their own | the operations above |

The parts meet in the database and in few other places. Completion, assignment
and deletion in the registry write `pending_scans` and `webhook_outbox` in the
same transaction, so a scan or an event exists exactly when its cause was
committed. Workers (scanner, dispatcher, importer, pruner, mirror) are loops of
every replica that take rows from those tables. Every audited call, of a client
or of a worker, writes to the audit broker before and after. Keys and principals
are cached by each process and refreshed by time.

## The modules

### `Registry`: one action, one transaction

The rows of the aggregate as functions over identifiers, and every repository
operation as one committed transaction. A refused request is a disabled action.

| Code | Module |
|---|---|
| tables `buckets`, `versions`, `channels` | `buckets`, `versions`, `channels`: unborn, live or deleted, as ids are ULIDs that never come back |
| `versions.sequence`, `revoke_at`, `revocation_inherited_from_id` | `sequence` (0 is NULL), `revokeAt`, `inheritedFrom` |
| `builds`, with the version's parent link | `builds`, one slot for each component type of a version |
| `channel_assignments` | `history`, a set of stamped rows; a cleared channel is a row of `None` |
| `pending_scans` | `pending` |
| `at`, taken by each handler | `clock` |
| `CreateBucket` ... `DeleteChannel` | the action of the same name |
| `UpdateBuild` with completion, `CompleteVersion`, `inheritParentRevocation`, `recordAssignment` | `UpdateBuild`, with `InheritParentRevocation`, `RecordAssignments` and the rest as its conjuncts |
| `RevokeVersion` with `RevokeDescendants` and the rollback of channels | `RevokeVersion`, over the closure `Descendants` |

A scheduled revocation is a `revokeAt` ahead of the clock: whether it is in
effect is a comparison at each reader, as in the code.

### `RegistryTx`: the same operations, statement by statement

`Sessions` are requests in flight on any replica. A session executes one
statement per step, sees the committed rows overlaid with its own, and locks
what it wrote until it commits or aborts; an update of a row it waited for sees
the row that was committed, as PostgreSQL re-evaluates it. Foreign keys make
an insert wait for the deletion of what it refers to and the other way around.
`step` names the next statement: `UpdateBuild` follows the handler's `GetBuild`
in another transaction, and patches what was read then. A session may abort at
every statement, which covers errors, deadlocks PostgreSQL breaks and
disconnected clients.

### `ScanQueue`: queue, workers, pointers

`pending` is the queue with each entry's claim, `worker` what each worker is
about to do. Between two steps of a worker everything else may happen: the
build reopens, its SBOM is replaced, a channel moves, the build is deleted, the
claim lapses and another worker takes the entry. `runs` are the recorded runs
in order of their sequence numbers, `state` the two pointers of
`build_scan_state`. The conversion from an SBOM to findings is a success or a
failure; an inventory is a number that grows with each upload.

### `WebhookDispatch`: outbox, deliveries, handshake

`hooks`, `rows`, `outbox` are the three tables, `pass` is where a dispatcher
stands between listing an event's deliveries, sending one and recording it.
`sent` is a history variable: what the endpoints received. `Update`
and `Verify` are split where the service leaves one transaction to call the
endpoint and opens another to write. Backoff and availability are marks that
time removes.

### `Keyring`: replicas, table, key service

`rows` is the keyring table, each row a data key and the version of the key
service's own key (the KEK) that wraps it; `ring` is what each replica holds in
memory. Keys are minted for every purpose at a time, so a key is named by its
batch. `start` is how far `initializeEncryption` has come and the listing it
holds, `op` where a rewrap or a rotation stands between listing, calling the key
service and committing, and what it is about to commit. `sealed` is a history
variable: each envelope ever written, as the version it names and the key that
was used.

| Code | Module |
|---|---|
| `EncryptionMode`, `RecordEncryptionMode`, the mode read again | `ReadMode`, `RecordMode` |
| `ListKeyringEntries` and `Generate`, `CreateKeyringEntries`, `Load` at start | `ListKeyring`, `Establish`, `Load` |
| `Encrypt` | `Encrypt` |
| `Probe`, called by `Run` and deferred by `Rewrap` and `Rotate` | `Probe`, `ProbeAfter` |
| `Rewrap` | `Begin`, `RewrapEntries`, `CommitRewrap`, `ProbeAfter` |
| `Rotate` | `Begin`, `MintEntries`, `CommitRotate`, `ProbeAfter` |
| a failed commit, or one whose answer is lost | `LoseCommit` |
| the key service refusing or not answering | `Refuse` |
| the operator rotating the KEK, raising `min_decryption_version` | `RotateKEK`, `RetireKEK` (outside `src/`) |

`Crash` may stop a replica anywhere; it starts again from `ReadMode`, with either
configuration.

### `BagDrop`: the mirror's pass, call by call

One project's mirror: `config` and `assoc` are its tables, `local` and `remote`
the buckets here and at the destination, `pass` the pass under way with what it
listed and read, `loop` the reconciler's pause, queued trigger and backoff. Every
repository call is a transaction of its own and every call to the destination a
step, which may fail with or without its effect, or meet an audit broker that
refuses the record before or after it.

| Code | Module |
|---|---|
| `Service.Enable`, `Disable`, `RemoveBagDropAssociation`, `ReconcileBagDrop` | `Enable`, `Disable`, `Unassociate`, `Reconcile` |
| `Service.Associate`, `Service.Delete` | `AssociateRead` and `AssociatePut`, `DeleteConfigRead` and `DeleteConfig`: the check and the write are two transactions |
| `Run`: ticker, trigger queue, pause; `reconcileAndBackoff` | `Begin`, `Tick`, `TakeTrigger`, `BackoffEnds`, `EndPass` |
| `ReconcileProject`: listing, snapshots, `orderAssociationsByAncestry` | `ListActive`, `List`, `ReadVersions`, `ReadChannels`, `Before`, `Attempt`, `Finish` |
| `deleteAssociatedBucket` | `DeleteBucket`, `Unlink` |
| `reconcileBucket`, `reconcileChannels`: versions, builds, SBOMs, channels, drift | `CreateBucket` ... `DeleteBuild`, with `Mirrored` and `Record` as their end |
| a failed or unaudited call | `Fails`, and the alternatives of `Mutate` |
| a process that stops, an edit at the destination | `Restart`, `Drift` |

### `Audit` and `AuditTrail`: broker, sinks and request pairs

`AuditTrail` says what the broker promises: a log for each target, answers,
served requests. `Audit` is the code. A caller (`HTTPHandler.ServeHTTP`, or a
SIGHUP's `Broker.Reopen`) acquires the targets, offers its command to each in turn and waits,
once for room in the queue and once for the answer, as `submitWrite` does; the sink's worker takes commands off its queue
whether or not anyone still waits. Targets are handles: one that is removed and added
again is another. `RefusedHeld` is the state `Broker.Remove` must never produce.

| Code | Module |
|---|---|
| `acquireTargets`, `releaseTarget`, the loops of `Broker.Write` and `Broker.Reopen`, `submitWrite` | `Acquire`, `Release`, `Offer`, `Refused`, `Replied`, `TimeOut`, `EndWrite`, `EndReopen` |
| `FileSink.run` | `Work` |
| `Broker.Add`, `Broker.Remove` with its wait, `FileSink.Close` | `Add`, `Detach`, `CloseDrained`, `SendClose` |
| `HTTPHandler.ServeHTTP` | `Begin`, `Handle`, `Unavailable` |
| `Broker.Close` at shutdown, the end of the process | `Shutdown`, `CloseNow`, `Exit` |

### `PluginStore`: rows, objects, jobs, exports

One plugin name of an organization, its rows and the keys in the object store.
A publication puts objects and then inserts rows after checking again; a
removal commits the rows away and then deletes objects by key. Import jobs are
claimed by age: `fresh` is the half hour in which nobody else may claim, and
nothing in a row says who works on it, so `Reported` writes by id as
`RecordPluginImport` does. The bundle row, its exporters and the archives are the second half.

| Code | Module |
|---|---|
| `pluginImportConflict` and `CreatePluginImport`, two transactions; `DeletePluginImport` | `Ask`, `CreatePluginImport`, `Clear` |
| `ClaimPluginImport`, `RunOnce`, outcomes and `finalState` | `ClaimPluginImport`, `Check`, `Admit`, `Record`, `FinalState`, `Finish` |
| `PublishPluginVersion`, `AddPluginZips` | `Put`, `InsertVersion`, `InsertZips`; `Upload` starts one without a job |
| `DeletePluginVersion`, `DisablePluginRegistry`, and the deletes that follow | the actions of those names, `Sweep` |
| `QueuePluginBundle` ... the exporter | `QueuePluginBundle`, `ClaimPluginBundle`, `Build`, `RecordBundle`, `SweepBundle`, `RecordFailure` |
| half an hour without a report; a replica that stops | `Age`, `AgeBundle`; `Crash` |

### `Identity`: who is let in

`principal`, `secret` and `claims` are rows, `cache` is each replica's, `request`
how far a request has come: it resolves its caller, then its target, through
the cache, or by two statements outside a transaction; takes the target's row lock; writes; and evicts the target from its own replica's cache.
`answered` is a history variable: the secrets whose end a replica has answered.

| Code | Module |
|---|---|
| `Initialize` under the table lock; `Recover` | `ClaimBegin`, `ClaimEnd`; `Recover` |
| `cachedPrincipalByID`, `GetPrincipalByID` | `Hit`, `LoadBegin`, `LoadSecrets`, `LoadEnd`, `Age` |
| `HasActiveSecret`, `principalForModification` | `Resolved`, `Permitted` |
| `CreatePrincipal`, `IssueSecret`, `RevokeSecret`, `DeletePrincipal` | `Lock`, `Count`, `Decide` with `MayIssue`, `MayRevoke`; `Evict` |
| a crash, a commit whose answer is lost | `Crash`, and an alternative of `Decide` |

### `KeyTable`: what the keyring promises

A table of keys that grows by whole generations, and replicas that hold parts of
it. `Keyring` implements it; `KeyTable` knows nothing of the KEK, of listings or of commits.

### Which composes which

`RegistryTx` is `Registry` at a finer grain, not an extension of it: its rows
are records, as transactions lock rows. `Keyring` instantiates `KeyTable` and
`Audit` instantiates `AuditTrail`, each under the mapping that its property names
(`ImplementsKeyTable`, `KeepsTrail`). `MCRegistry`, `MCRegistryTx`, `MCAudit`,
`MCBagDrop`, `MCPluginStore` and `MCIdentity` give values to the constants and,
where a module has more interleavings than TLC can finish, bound them with an
action constraint, `Bounds`. Each `*_proofs` module extends what it is about
and nothing else of the project: one module, or the two of `RegistryTx_WebhookDispatch_proofs`. The modules meet where the code does: `ScanQueue`,
`WebhookDispatch` and `BagDrop` see the registry only through the rows it
leaves them, and carry the registry's writes that matter to them as actions;
`BagDrop` sees the audit broker as a call that is refused or not, which is all
that its callers see of it.

## The runs

| Run | Instance | What it shows |
|---|---|---|
| `channels` | one bucket, two versions of one build, the managed channel and a user channel, four stamps, immediate and scheduled revocation | completion, numbering and assignment in every order with clearing, rollback and deletion. `RollbackLandsOnValid` compares where a channel goes with the whole history; `EligibleQueued` relates the three ways a build becomes due for scanning to the queue; `LatestNeverRevoked` is about the two writers of the managed channel |
| `lineage` | a chain of three versions, managed channel | `FirstRevocationStands`, `InheritedLiftedWithAncestor`, `DescendantsRevoked` and `RevokedChannelsRollBack` over revoke, restore, skip and record-time inheritance, at depth two, where inheritance through a version whose own revocation is inherited first differs |
| `requests` | two sessions, five requests, two versions, one build under way | the registry with statements interleaved: a number allotted and not committed is still free, builds have versions, what is assigned is complete, completion stands |
| `webhooks` | one dispatcher, two endpoints, three events, ring of one, two attempts | `QueuedUntilFinished`: an unfinished delivery that is there is in the outbox; `SentAtMost`: requests received are bounded by attempts recorded and passes abandoned; `FinishedStands`; and `OutboxDrains` under fairness |
| `scans` | two workers, one build, two inventories, seven runs, one fault | `CurrentOfLiveInventory`, `LatestIsNewest`, `CurrentMovesForward` with both workers on the same entry; `QueueDrains` under fairness |
| `keyring` | two replicas, two purposes, two versions, three batches, two KEK versions, one fault | first boots with either configuration, rotations, rewraps and crashes of both replicas at once: `Agreement` relates every ring to the table, `SealedStaysOpenable` what was sealed at any time to the table now, `ServesAsRecorded` the configuration of each process to the recorded mode; `ImplementsKeyTable` is the refinement; `PeersAdopt` the adoption of a peer's rotation under fairness |
| `audit` | one request, one rotation, two targets, queues of one | `KeepsTrail` is the refinement of `AuditTrail`: late timers, refused offers, removal, shutdown and a crash never repeat, reorder or lose an accepted record, nor serve a request of an audited route unrecorded; `RemovalSpares`: no call is left with a closed target; `RemovalEnds` under fairness |
| `mirror` | two buckets, the second built from the first; two versions, two requests, one edit, one fault | `NoOrphanMirror`: an association answers for each mirrored bucket; `SyncedMirrors`: a recorded success is a full mirror of what was read; `RemovalCompletes` under fairness |
| `pointer` | the same with no fault | violated: the versions and the channels of a snapshot are read by two statements |
| `plugins` | two versions, two platforms, two jobs, two workers; one fault, one removal, three exports | `OneSource`: every version came from the plugin's source, though admission is checked long before the insert; `BundleHasBytes`: a ready bundle's archive is stored; `ImportsFinish` under fairness |
| `bytes` | the same with no fault and no export | violated: a removal deletes the objects of a version that was published again |
| `access` | two roots, four secrets, two requests, two replicas, one fault | `ClaimedOnce`, `RootsKeepKey`, `RevokedHere` with claims, issues, revocations and deletions racing; `RefusedEverywhere` under fairness: other replicas refuse a revoked secret in the end |

The two violated properties state a sentence of the code's comments, which
`PROJECT.json` quotes with the line of code. In `pointer` a version is completed
and assigned between the statements that read the versions and the channels, and the
pass asks the destination to assign a version it was never told of. In `bytes` a
version is deleted, published again with the same digests, and then loses its
bytes to the deletes that follow the first transaction.

### The bounds, and why they are enough

Identifiers are few because operations touch one bucket and two versions at a
time: an assignment moves a channel between two versions, a rollback chooses
among at most the versions of the history, and ancestry first behaves
differently from one link at two links, so `lineage` has three versions.
`MaxClock` bounds stamped requests, enough for record, complete,
assign, revoke or delete in sequence. `MaxSequence` leaves a number free after
one was returned by a deletion. In `RegistryTx` two sessions suffice for every
pair of operations to overlap, and five requests let each session serve a
second request on what the first left. In `WebhookDispatch` the ring of one is
already full at the second finished delivery, `MaxId` lets a third event arrive
behind it, and one abandoned pass is a crash between send and record. In
`ScanQueue` seven runs are more than three changes and one fault can cause, so
that the bound never stops a worker and `QueueDrains` is not true for want of
numbers. The bound on changes makes the environment stop, the
workers never. In `Keyring` three batches are two first boots that race and a
rotation, or one first boot and two rotations that race; two purposes are the
one that payloads use and the one that the listing starts with, which a probe
always unwraps; two KEK versions are one retirement.

In `BagDrop` the parent holds two versions, one of them revoked and with an SBOM,
as the forms of a version that the mirror treats differently, and the child is
associated from the start and never sent, so that a removal meets an attempted
bucket and an unattempted one; two requests are a check and a write that another request
passes, or a removal and a deletion of the configuration that race; one edit is a change under
the pass or at the destination, and one fault a failed call, an audit refusal or a
restart at any step. In `Audit` two targets are the fewest for which one
takes a record and the other does not, or one is removed while the other stays; a
queue of one is full after one command; `Bounds` starts the rotation only
while there is one target, so that what two targets add is explored with the
request alone, and breaks the symmetry of the handles. `MaxSinks` never binds
there. In `PluginStore` two jobs are an import and a sync that
conflict, two workers a claim that went stale and its successor or an import
that meets an upload, and two versions a job that is partly done; `Bounds`
gives a behaviour jobs or exports, as they meet only in the objects read,
and lets faults and removals happen while at most one job exists. Three
exports are an archive, its replacement and one that fails in between. In `Identity`
two roots are the fewest that can delete each other, three secrets of one root
are two to be revoked at once and one that expires, and the second replica
only lets `a`'s first secret in, which is what it can be late about; `Bounds` lets two requests
race once each has resolved its caller, and a fault strike a transaction.

Bounds are guards of actions or action constraints of a run. The theorems
hold without the constraints and for every value of the bounds.

Every passing run but `mirror` sets `CHECK_DEADLOCK FALSE`: bounded
environments end, and an empty queue with no more changes is where a good run
stops. The mirror's loop ticks for ever and is checked for deadlock.

### Fairness

The registry modules state none, and no liveness.

- `WebhookDispatch` assumes that each dispatcher goes on (`Run` starts a pass
  every second and an HTTP call ends within its timeout) and that backoffs
  elapse. It does not assume that endpoints answer well, that management calls
  finish or that passes are not abandoned, a bounded number of times.
- `ScanQueue` assumes that each worker takes its next step (the provider call is
  bounded by `PassTimeout`), that a queued entry is claimed in the end and that
  claims lapse. Which outcome a scan has is never assumed, beyond the bound on
  faults: an entry that fails for ever stays in the queue, as in the code.
- `Keyring` assumes that the heartbeat of a serving replica goes on and that the
  key service answers it in the end: `Run` probes every five minutes, give or
  take thirty seconds, and takes no lock that an operation holds. Nothing makes
  an operation finish.
- `BagDrop` assumes the ticker, the end of a backoff, and that a pass takes its
  next step, as each remote call has a deadline. Calls fail no more than
  `MaxFaults` times; a destination that fails for ever keeps its mirrors.
- `Audit` assumes that callers go on, as every wait of a call has a timer, and that a
  removal under way does. The worker of a file may hang in the file system for ever, which is
  what the timers are for, so `RemovalEnds` has the fairness of the removed
  sink's worker as a premise and nothing assumes it of the others.
- `PluginStore` assumes that workers poll and go on and that a job nobody holds
  becomes half an hour old. Callers and exporters are under no fairness.
- `Identity` assumes that requests go on and that cache entries age.

`Crash`, `Restart`, `Exit`, `Drift` and what managers ask for are never fair.

## The proofs

Eight modules of proofs. Each theorem holds for all constants satisfying the
assumptions that its module names (`RegistryAssumption`, `KeyringAssumption`,
`AuditAssumption`, `PluginAssumption`, `IdentityAssumption`, `ScanAssumption` and
`NoRowAssumption`, `WebhookAssumption`, `BagDropAssumption` and `ContentsAssumption`,
`TxAssumption` and `StartAssumption`), which TLC evaluates on the
instances. Each has theorems `Invariance`, `Spec => []IInv`, and
`TypeCorrect`, `Spec => []TypeOK`; the others follow from `IInv` or, in
`Registry_proofs` and `BagDrop_proofs`, from a stronger invariant built on it. For
`RegistryTx` the names carry `Tx`. Every safety property of every passing run
is stated by a theorem.

### `Registry_proofs`

With no bound on versions, builds, channels or edges:

| Theorem | Property |
|---|---|
| `AssignedCompleteHolds` | every surviving assignment is of a complete version |
| `SequencesDistinctHolds` | no two living versions of a bucket share a number |
| `CompletionStandsHolds` | a completed version keeps its number while it lives (`requests` checks it at the grain of statements) |
| `HistoryAppendOnlyHolds` | assignments leave the history only with their version |
| `LatestNeverRevokedHolds` | neither completion nor rollback assigns the managed channel to a version whose revocation is in effect |
| `RollbackLandsOnValidHolds` | a channel moved by a revocation or a deletion goes to the newest valid version of its history, or is cleared when there is none |
| `RevokedChannelsRollBackHolds` | a revocation moves channels off every version it revokes, while a valid one is in their history |
| `FirstRevocationStandsHolds` | a revocation is cleared or stays, never overwritten |
| `InheritedLiftedWithAncestorHolds` | what is inherited is lifted only with the ancestor it names |
| `DescendantsRevokedHolds` | a revocation that skips nothing reaches descendants of any depth |
| `EligibleQueuedHolds` | a build that becomes due for scanning is queued in the same step |

Neither `AssignedComplete` nor `SequencesDistinct` is inductive. An assignment
could be of a version that is deleted and numbered; a completion could find its
number with a dead version; an appended row could be older than the
history. `IInv` adds that a version that is not there has no number
(`DeadUnnumbered`), that builds are of living versions (`BuildsOfLive`) and that
no row is stamped ahead of the clock (`StampsBehind`). The proof goes through
two abstractions of `Next`: `VersionStep`, what an operation may do to a version
and its number, and `HistoryStep`, what it may do to the assignments. All
actions are shown once to be steps of that kind; the preservation of each
conjunct and the action properties then speak of those few disjuncts.

The properties of revocation are about a third abstraction, `RevocationStep`: only
a revocation, a restore and a completion that inherits write the revocation
columns. `Descendants` is a least set, so that what it contains is proved from its
being closed under `Children`, with no induction. The properties of channels need
more than `IInv`: `RowsInv` adds that a stamp is one row of its channel
(`OneRowPerStamp`) and that rows and living versions belong to what was born
(`RowsWithinBucket`, `RowsOfBorn`, `BucketsHold`); without the first, a channel could select two versions
at once and a rollback could land on both. That a history that holds a valid version has a newest
one is the least-number principle, taken from `WellFoundedInduction` for one
fixed set (`LeastOfNat`, `NewestExists`).

`RollbackLandsOnValid` was false as first stated, and the attempt to prove it
showed why: a build update that inherits a scheduled revocation and completes its version in
the same transaction assigns the managed channel to a version whose revocation is
still to come, which is right and no rollback. The property now speaks of revocations that complete nothing.

### `Keyring_proofs`

For any number of replicas, purposes and versions:

| Theorem | Property |
|---|---|
| `TypeCorrect` | `TypeOK`, with it that no row names a KEK version to come |
| `AgreementHolds` | no ring holds a key that is not the stored one |
| `SealedStaysOpenableHolds` | whatever was sealed opens with the stored key of the version it names |
| `ServesAsRecordedHolds` | a serving replica runs in the recorded mode |
| `ImplementsKeyTableHolds` | `Keyring` implements `KeyTable` |

`Agreement` is not inductive: a process could load a listing that never was the
table, and a rewrap could commit one. `IInv` adds that listings in hand name
stored keys (`ListingsStand`), except the entries of a rotation about to commit,
which the conflict check of the insert guards; that a process past the reading of
the mode carries the recorded one (`ModeAgrees`); and that no listing is ahead of
the KEK (`SeenBehind`). Every write of the table is of entries that are new or as
stored, and every key a ring gains is the stored one; agreement, openability and
the refinement follow from these two. For the refinement each action maps to `Take`,
`Store`, `Seal` or a stutter: a rewrap stutters, as a key's wrapping is not part of the table.

### `Audit_proofs`

For any number of targets, requests and rotations:

| Theorem | Property |
|---|---|
| `RemovalSparesHolds` | until shutdown no call is left with a target that a removal has closed |
| `KeepsTrailHolds` | `Audit` implements `AuditTrail` |

The refinement needs to know that the record the worker takes off the queue is
not in the file yet and not behind its response, long after the call that sent it gave
up. `IInv` follows a record through the system: a caller has a phase that fits
it (`Phased`) and targets listed once, at each of which it is counted
(`Targeted`, of which `RemovalSpares` is part); a record is queued or landed at a
sink only where its caller has been (`Sent`), once and in order (`Ordered`); and
what a caller takes for accepted is in a file (`Answered`). Timeouts
preserve `Sent` as they leave the sink's queue alone and only make the caller move on.

### `PluginStore_proofs`

For any number of versions, platforms, workers and requests:

| Theorem | Property |
|---|---|
| `OneSourceHolds` | the versions of a plugin come from its source |
| `BundleHasBytesHolds` | a ready bundle names a stored archive |

`OneSource` needs that the plugin's source is there while a version is
(`RowsSound`), which the deletion of the emptied plugin must respect, and that
workers carry sources that were asked for (`ImportsSound`). `BundleHasBytes` needs `ExportsSound`:
runs of one bundle draw growing keys, the archive an export has yet to record
is one that no other will sweep, and an export sweeps only once what it replaces is not
the recorded key. A claim that went stale leaves two exporters at
work, which is why the conjuncts speak of pairs.

### `Identity_proofs`

For any number of principals, secrets, replicas and requests:

| Theorem | Property |
|---|---|
| `ClaimedOnceHolds` | the instance is claimed at most once and keeps a root from then on |
| `RootsKeepKeyHolds` | a root that was ever given a secret keeps a permanent one |
| `CapHoldsAlways` | no principal has more than `MaxActiveSecrets` usable secrets (`CapHolds`; no run checks it) |
| `RevokedHereHolds` | a replica that answered a revocation lets no later request in by that secret |

The rows are safe because whoever decides holds a lock: `Held` says that a
request past its lock knows what is stored and is alone with it, `Doors` that one root
is removed and one claim made at a time. `Unissued` keeps a
principal that is created from finding secrets it did not issue, and `Capped` is the cap with
the finiteness that counting needs. `Refusing` is what the cache must keep: a secret whose end was
answered is in no entry of that replica and in nothing a load of it has read, so no
load that began before the eviction can bring it back.

### `ScanQueue_proofs`

For any number of builds and workers, and every bound:

| Theorem | Property |
|---|---|
| `CurrentOfLiveInventoryHolds` | what is shown of a build is a scan of the packages it has |
| `LatestIsNewestHolds` | the latest attempt is the newest recorded run |
| `CurrentMovesForwardHolds` | findings are never replaced by those of an earlier dispatch |

`IInv` adds that the sequence number of a worker past its dispatch is drawn, its own,
and without a run (`Working`), so that a record never overwrites another, and that the latest
run is one of the build's and none is newer (`LatestSound`), so that comparing two
numbers is enough to keep the newest. What is shown stays true because every write
that changes what it speaks of withdraws it in the same step, and a run is refused
as current unless the build is as it was when the worker read it.

### `RegistryTx_WebhookDispatch_proofs`: the registry's transactions

For any number of sessions, versions, builds, channels and requests, from any committed rows
in which builds have versions and assignments are of complete ones:

| Theorem | Property |
|---|---|
| `AllottedStillFreeHolds` | the number drawn under the bucket lock is free when it is written |
| `TxAssignedCompleteHolds` | a committed assignment is of a surviving complete version |
| `BuildsHaveVersionsHolds` | a committed build has its version |
| `TxCompletionStandsHolds` | a committed number stands while its version does |

None of the four is inductive: each is about committed rows, and what breaks it would be
in somebody's overlay. `TxInv` says what an overlay may hold while others
go on. A written version is locked by its session, is still there, and has the
committed number, unless the session completes it under the bucket lock
(`RowLocked`, `Numbering`). What a session is about to commit names versions
that exist for it and that no other session deletes (`RowsReference`,
`BuildsReference`, from the foreign keys' share locks), and who deletes a version has every
committed build of it in its overlay (`TakesBuilds`). The number in hand is above
every committed one (`NumberAhead`), and the version to be assigned has been
complete since it was read (`AssignsComplete`). A statement of one session keeps all of
this of the others by one lemma (`OthersKept`): it writes only what is free and deletes only what
nobody references. A commit keeps it by another (`CommitKeepsOthers`). What each
statement does to its own session is a lemma for each.

### `RegistryTx_WebhookDispatch_proofs`: the dispatcher

The other half of that module; the two are in one file and share no state. For any number of webhooks, events, attempts, calls and abandoned passes; the three
properties speak of one dispatcher, `TypeCorrect` of any number:

| Theorem | Property |
|---|---|
| `QueuedUntilFinishedHolds` | an unfinished delivery has its event in the outbox |
| `FinishedStandsHolds` | a finished delivery is not written again |
| `SentAtMostHolds` | at most `MaxAttempts` requests for an event, and one for each abandoned pass |

The pass works from a list read once, while enqueueing prunes rows, a deletion
cascades, verifications add rows and backoffs pass. `OthersWrite` says what all of
these may do to a row: leave it, remove it, add one under a new id, or end its
backoff. So a listed row is as it was listed or gone, and an unfinished one not
listed was backing off, for which the event is kept (`AllInHand`). For the count, a row lags
behind the requests made by one at most while a record is under way
(`RowCounts`, `ListCounts`), and an abandoned pass is what makes that lag stay.

### `BagDrop_proofs`

For any number of buckets, versions, calls, edits and faults, and any contents:

| Theorem | Property |
|---|---|
| `NoOrphanMirrorHolds` | a bucket at the destination has an association that was attempted |
| `SyncedMirrorsHolds` | a recorded success is a full mirror of the snapshot |
| `TypeCorrect` | `TypeOK`, with contents here and at the destination from `MirrorInv` |

`IInv` adds that the association in hand is marked from before its first call
(`Marked`) and that one about to be unlinked has its bucket deleted (`Deleted`). All
calls that can make or change a bucket go through `Mutate`, so one lemma covers
them with their failures.

`SyncedMirrors` is what a pass has achieved by its last step, call by call, against a
destination that held anything before. `MirrorInv` adds that contents are well formed, here
(`Held`: revoked versions and SBOMs are of what is there) and at the destination
(`Kept`: a version that is not there has no builds, a missing build no SBOM); that
snapshots are read before the first bucket is turned to (`SnapshotInv`); and that a pass in its drift
phase has sent everything (`Carries`), and one that is about to record has removed the
rest (`ProgressInv`). `Carries` survives the removal of drift as drift is what the
snapshot has not, and survives others' edits as they find no pass under way.

Both arguments read little of the types (`Shape`). `Rest` has the remaining ones:
requests, the loop, the pass and what is spent of each bound.

## Only model-checked

Liveness (`OutboxDrains`, `QueueDrains`, `PeersAdopt`, `RemovalEnds`,
`RemovalCompletes`, `ImportsFinish`, `RefusedEverywhere`) and whatever needs
`ENABLED` are outside the prover's reach: they stay with TLC, on
the instances above. So do the two violated properties, which no theorem could
state. No module that is proved about declares a recursive operator; closures are
stated as least sets, and nothing is proved by induction over data.

## Known disagreements

Two are runs (`pointer`, `bytes`). TLC refutes the following too, each in seconds
on an instance of the module named, and they are described here instead. Of `Registry` and
`RegistryTx`:

- a version recorded from a revoked parent names the immediate parent as the
  ancestor it inherits from, also when that one inherits itself, so a restore of
  the ancestor does not find it (`repository.go:1178`);
- two sessions finishing the last two builds of a version both read the other as
  running, and neither completes it (`repository.go:1024`);
- a deletion checks which channels select a version, an assignment follows, and
  the cascade removes the assignment (`repository.go:340`);
- a revoked version can be assigned to a user channel (`version.go:261`);
- the managed channel can stay on the older of two versions completed by two
  replicas, as the stamp is taken before the transaction (`repository.go:1065`);
- the parent link of a build is overwritten by a concurrent update (`handler.go:1147`);
- completion assigns the managed channel to a version revoked since it was read
  (`repository.go:1060`);
- a child recorded between the listing of the descendants and the commit stays
  valid (`repository.go:1274`);
- restoring and revoking again in between lifts the newer revocation of the
  descendants (`query.sql:608`).

Of the others:

- `WebhookDispatch`: a verification's answer activates a URL changed meanwhile
  (`query.sql:851`; the run has one URL and does not meet it). An event enqueued
  when the ring is full prunes the oldest row, delivered or not (`query.sql:866`),
  where `docs-site/administration/webhooks.md:88` says "Delivery is at least once."
  And two dispatchers send one delivery twice and record it in either order
  (`dispatcher.go:121`), which the properties exclude by `Alone`;
- `ScanQueue`: the entry a worker deletes by build is a newer one
  (`scanner_service.go:408`);
- `Keyring`: an operation commits entries of the old KEK after every entry was
  seen at the new one and the old one was retired (`keyring/service.go:216`). They cannot be
  unwrapped by who loads later, which `PeersAdopt` allows for as `Stranded`;
- `Identity`: the comment of `GetPrincipalByID` (`principal_repository.go:254`)
  has a change take effect on the next request; on another replica it may take a
  minute, and a load whose two statements straddle a deletion keeps the principal
  there, without secrets, for as long. And the last root that was ever given a secret can be deleted while a root without
  one stays; `RootsKeepKey` speaks of the former alone;
- `BagDrop`: a bucket associated again while its removal is under way has its new
  association deleted with the old (`reconcile.go:465`);
- not modelled, read: a refused upload of a bundle deletes the object that the
  queued import of the same bytes is about to read (`plugin_bundle_import.go:66`).

## Abstractions

- Names, labels, descriptions, artifacts, templates, paging and error texts are
  left out; an HTTP status appears as an enabled or a disabled action.
- `Registry` has one build state besides `done`, as no guard tells the others
  apart, and leaves restricted channels out. Its stamps follow the order of its
  transactions, while the handlers take `at` before theirs: nothing is claimed of
  the order of stamps, and what the disorder does is listed above.
- `ScanQueue` takes the audit circuit (`tripCircuit`, `beginCircuitAttempt`) as
  one of a worker's failures, gives a build a version of its own, leaves the
  order of claims open and takes `UpdateBuild` as one step. Transcript objects
  and what a run found are left out, and with them the expiry of transcripts.
- `WebhookDispatch` orders verification rows by when they are recorded; the
  doubling delays of 1, 2, 4 and 8 minutes are one mark. Organization webhooks
  are the same statements over other tables.
- `Keyring` leaves the ciphers, the environment's static keys, the health report
  and the latest KEK version out. `Probe` lists and unwraps in one step: rows are
  never taken away, so an older listing only adopts less. The calls of one rewrap,
  one per entry, are one step under one KEK version; a commit of older blobs is
  there all the same, as the step and the commit are apart. Keys of one batch are
  told apart by their purpose.
- `BagDrop` has one process that reconciles, as the deployment documents
  (`docs-site/quick-start/upgrading.md:35`, `installation.md:44`), one destination that does not change,
  and one ordinary channel for each bucket. Others edit the destination only when no pass is
  under way. Ancestry is a constant, closed transitively; versions and builds are
  read in one statement; the record of a failure, and a failed begin, are part of the
  step that failed. Bucket descriptions and the restriction of channels are left out.
- `Audit` leaves out what health checks measure, what a failed write leaves in
  the file, and the exempt routes, which are served with no record at all
  (`audit/http.go:308`). A record written while there is no target counts as `untargeted`,
  which stands for the system log too. `Exit` is a crash or the end of the grace period.
- `PluginStore` has one plugin name, and the contents of a version are a function
  of its number; the puts of one publication are one step, all of them, or some and
  a failure. Revocation of versions, the import of bundles, update checks, pruning by
  version and downloads are left out. What an import fetches ends or fails, though its
  client has no timeout for the whole request (`pluginimport/worker.go:45`).
- `Identity` has no tokens (signature, expiry, session), no throttle, and among
  the roles root and not root. A claim that crashes before its commit is one that
  never began.
- Integrity MACs and sealed columns are the identity on rows written by the
  application, which are the only ones modelled.

## Not modelled

- Generated code (`api.gen.go`, `query.sql.go`, the HCP clients and models) is
  some forty per cent of the repository's Go lines; the statements it wraps are mapped at
  `query.sql` and in the migrations. Most of the rest is decoding, authorization and
  answering (`platform/v1`, `compat`), reading (`pluginread`, ancestry), and
  functions over documents (OSV, plugin verification, bundles): no state is kept and
  nothing interleaves there, so the map covers the control and leaves them alone.
- Organization webhooks would be an instance of `WebhookDispatch`. The throttle of
  the token endpoint keeps two generations of counters in one process, with no
  relation to any other state.
- Object storage, migrations, wiring, the console and the tools: clients of another service,
  start-up work that runs alone, or no program of this server's.

What would come next: the import of bundles in `PluginStore`; registry writes with the
outbox and the queue in one module; and `Registry` as the abstract
specification of single-session `RegistryTx`. `PROJECT.json` lists every part
with its files and every hazard with its line.
