------------------------------ MODULE ScanQueue ------------------------------
(***************************************************************************)
(* Vulnerability scanning of one project: the pending_scans queue, the      *)
(* workers of every replica that claim from it (scanner_service.go), the     *)
(* runs they record and the per-build pointers (scan_repository.go), the     *)
(* freshness sweep (scanner_cadence.go) and the registry writes that change   *)
(* what a scan may say of a build: finishing, reopening, an SBOM upload, a    *)
(* channel assignment, a deletion.                                           *)
(*                                                                         *)
(* A worker takes one transaction per step and calls the provider between   *)
(* two of them; it may stop between any two.  An entry's claim is its        *)
(* claimed_at, which lapses PassTimeout later whoever is still working.      *)
(* A build stands for a version of its own, so its first finish completes    *)
(* the version and the managed channel takes it.                             *)
(***************************************************************************)
EXTENDS Naturals, FiniteSetsExt

CONSTANTS
    Builds, Workers,
    None,
    MaxInventory,   \* bound: package inventories of a build, from 0
    MaxRuns,        \* bound: run sequence numbers
    MaxChanges,     \* bound: registry writes and rescans
    MaxFaults       \* bound: errors and crashes of workers

ASSUME ScanAssumption ==
    /\ None \notin Builds
    /\ MaxInventory \in Nat /\ MaxRuns \in Nat \ {0}
    /\ MaxChanges \in Nat /\ MaxFaults \in Nat

VARIABLES
    builds,     \* [Builds -> Build, or None once deleted]
    uploads,    \* builds with an SBOM upload past the handler's status check
    due,        \* stale builds the sweep has listed and not yet enqueued
    pending,    \* pending_scans: [Builds -> the claim of the entry, or None]
    sequence,   \* scan_run_counters.next_sequence
    runs,       \* scan_runs: [Sequences -> Run, or None]
    state,      \* build_scan_state: [Builds -> [current, latest]]
    worker,     \* [Workers -> what it is doing]
    changes, faults

registry == <<builds, uploads, changes>>
results == <<sequence, runs, state>>
vars == <<registry, due, pending, results, worker, faults>>

Sequences == 1..MaxRuns
Inventories == 0..MaxInventory
Build == [done : BOOLEAN, complete : BOOLEAN, selected : BOOLEAN,
          inventory : Inventories]
Run == [build : Builds, succeeded : BOOLEAN, refused : BOOLEAN,
        inventory : Inventories]
Worker == [at : {"idle", "check", "dispatch", "scan", "record", "delete", "release"},
           build : Builds \cup {None}, sequence : 0..MaxRuns,
           inventory : Inventories, succeeded : BOOLEAN]
Idle == [at |-> "idle", build |-> None, sequence |-> 0, inventory |-> 0,
         succeeded |-> FALSE]
Unscanned == [current |-> 0, latest |-> 0]

\* NULL is not a row.
ASSUME NoRowAssumption == None \notin Build \cup Run

TypeOK ==
    /\ builds \in [Builds -> Build \cup {None}]
    /\ uploads \subseteq Builds /\ due \subseteq Builds
    /\ pending \in [Builds -> {"queued", "claimed", "lapsed", None}]
    /\ sequence \in 1..MaxRuns + 1
    /\ runs \in [Sequences -> Run \cup {None}]
    /\ \A s \in Sequences : runs[s] # None => s < sequence
    /\ state \in [Builds -> [current : 0..MaxRuns, latest : 0..MaxRuns]]
    /\ worker \in [Workers -> Worker]
    /\ changes \in 0..MaxChanges /\ faults \in 0..MaxFaults

Exists(b) == builds[b] # None
\* The scan set: finished builds of a complete version some channel selects.
Eligible(b) == Exists(b) /\ builds[b].done /\ builds[b].complete /\ builds[b].selected

-----------------------------------------------------------------------------
(* Registry writes, each one transaction *)

\* INSERT INTO pending_scans ... ON CONFLICT DO NOTHING: an entry already
\* there stays as it is, claimed or not.
Enqueued(b) == [pending EXCEPT ![b] = IF @ = None THEN "queued" ELSE @]

\* withdrawBuildFindingsSummary: the build is unscanned again.
Withdrawn(b) == [state EXCEPT ![b].current = 0]

Change == changes < MaxChanges /\ changes' = changes + 1
RegistryOnly == UNCHANGED <<due, sequence, worker, faults>>

\* UpdateBuild to done: the completing one also assigns the latest channel.
FinishBuild(b) ==
    LET finished == [builds[b] EXCEPT !.done = TRUE, !.complete = TRUE,
                                      !.selected = @ \/ ~builds[b].complete]
    IN  /\ Change /\ Exists(b) /\ ~builds[b].done
        /\ builds' = [builds EXCEPT ![b] = finished]
        /\ pending' = IF finished.selected THEN Enqueued(b) ELSE pending
        /\ UNCHANGED <<uploads, runs, state>> /\ RegistryOnly

\* UpdateBuild from done.
ReopenBuild(b) ==
    /\ Change /\ Exists(b) /\ builds[b].done
    /\ builds' = [builds EXCEPT ![b].done = FALSE]
    /\ state' = Withdrawn(b)
    /\ UNCHANGED <<uploads, pending, runs>> /\ RegistryOnly

\* recordAssignment gives a channel this version ...
AssignVersion(b) ==
    /\ Change /\ Exists(b) /\ builds[b].complete
    /\ builds' = [builds EXCEPT ![b].selected = TRUE]
    /\ pending' = IF builds[b].done THEN Enqueued(b) ELSE pending
    /\ UNCHANGED <<uploads, runs, state>> /\ RegistryOnly

\* ... or the last channel that had it another one.
ReplaceAssignment(b) ==
    /\ Change /\ Exists(b) /\ builds[b].selected
    /\ builds' = [builds EXCEPT ![b].selected = FALSE]
    /\ UNCHANGED <<uploads, pending, runs, state>> /\ RegistryOnly

\* uploadSbom reads the build and refuses one that is not running ...
CheckUpload(b) ==
    /\ Change /\ Exists(b) /\ ~builds[b].done /\ b \notin uploads
    /\ uploads' = uploads \cup {b}
    /\ UNCHANGED <<builds, pending, runs, state>> /\ RegistryOnly

\* ... and UploadSbom replaces the projection without looking again.
UploadSbom(b) ==
    /\ b \in uploads
    /\ uploads' = uploads \ {b}
    /\ \/ /\ Exists(b)
          /\ \E i \in Inventories : builds' = [builds EXCEPT ![b].inventory = i]
          /\ state' = Withdrawn(b)
       \/ ~Exists(b) /\ UNCHANGED <<builds, state>>
    /\ UNCHANGED <<changes, pending, runs>> /\ RegistryOnly

\* DeleteBuild, with everything that cascades from the build.
DeleteBuild(b) ==
    /\ Change /\ Exists(b)
    /\ builds' = [builds EXCEPT ![b] = None]
    /\ pending' = [pending EXCEPT ![b] = None]
    /\ runs' = [s \in Sequences |->
                  IF runs[s] # None /\ runs[s].build = b THEN None ELSE runs[s]]
    /\ state' = [state EXCEPT ![b] = Unscanned]
    /\ UNCHANGED uploads /\ RegistryOnly

ManualRescan(b) ==
    /\ Change /\ Eligible(b)
    /\ pending' = Enqueued(b)
    /\ UNCHANGED <<builds, uploads, runs, state>> /\ RegistryOnly

-----------------------------------------------------------------------------
(* The freshness sweep *)

\* dueBuildsForTenant; how stale is stale enough is left open.
ListDue ==
    /\ Change /\ due = {}
    /\ due' \in SUBSET {b \in Builds : Eligible(b) /\ pending[b] = None} \ {{}}
    /\ UNCHANGED <<builds, uploads, pending, results, worker, faults>>

\* enqueueDue asks only that the build still exists.
EnqueueDue(b) ==
    /\ b \in due
    /\ due' = due \ {b}
    /\ pending' = IF Exists(b) THEN Enqueued(b) ELSE pending
    /\ UNCHANGED <<registry, results, worker, faults>>

-----------------------------------------------------------------------------
(* A worker: processClaim *)

Goes(w, next) == worker' = [worker EXCEPT ![w] = next]
Step(w, at) == Goes(w, [worker[w] EXCEPT !.at = at])
WorkerOnly == UNCHANGED <<registry, due, faults>>

\* Mutant: a claim never lapses.
ClaimableOnce(b) == pending[b] = "queued"
Claimable(b) == pending[b] \in {"queued", "lapsed"}

\* claimNextForTenant.  Oldest first; any order is allowed here.
Claim(w, b) ==
    /\ worker[w].at = "idle" /\ Claimable(b)
    /\ pending' = [pending EXCEPT ![b] = "claimed"]
    /\ Goes(w, [Idle EXCEPT !.at = "check", !.build = b])
    /\ UNCHANGED results /\ WorkerOnly

\* claimed_at becomes older than PassTimeout.
Lapse(b) ==
    /\ pending[b] = "claimed"
    /\ pending' = [pending EXCEPT ![b] = "lapsed"]
    /\ UNCHANGED <<results, worker>> /\ WorkerOnly

\* scanInventoryTx.
Check(w) ==
    LET b == worker[w].build
    IN  /\ worker[w].at = "check"
        /\ \/ /\ Eligible(b)
              /\ Goes(w, [worker[w] EXCEPT !.at = "dispatch",
                                           !.inventory = builds[b].inventory])
           \/ ~Eligible(b) /\ Step(w, "delete")
        /\ UNCHANGED <<pending, results>> /\ WorkerOnly

AllocatedSequence == sequence

\* dispatch up to the commit of the sequence number.
Dispatch(w) ==
    /\ worker[w].at = "dispatch" /\ sequence <= MaxRuns
    /\ sequence' = sequence + 1
    /\ Goes(w, [worker[w] EXCEPT !.at = "scan", !.sequence = AllocatedSequence])
    /\ UNCHANGED <<pending, runs, state>> /\ WorkerOnly

\* adapter.Scan: a provider failure is a result too.
Scan(w) ==
    /\ worker[w].at = "scan"
    /\ \E ok \in BOOLEAN : Goes(w, [worker[w] EXCEPT !.at = "record", !.succeeded = ok])
    /\ UNCHANGED <<pending, results>> /\ WorkerOnly

\* completionRefusal.  Mutant: the inventory is not compared.
RefusedIfReopened(w) == ~builds[worker[w].build].done
Refused(w) == LET b == worker[w].build
              IN  ~builds[b].done \/ builds[b].inventory # worker[w].inventory

Recorded(w) ==
    [build |-> worker[w].build, succeeded |-> worker[w].succeeded /\ ~Refused(w),
     refused |-> Refused(w), inventory |-> worker[w].inventory]

\* advanceBuildScanState; "" sorts before every sequence.  Mutant: the last
\* completion wins.
AdvancedUnordered(w) ==
    LET was == state[worker[w].build]  s == worker[w].sequence
    IN  [current |-> IF Recorded(w).succeeded THEN s ELSE was.current,
         latest |-> Max({was.latest, s})]
Advanced(w) ==
    LET was == state[worker[w].build]  s == worker[w].sequence
    IN  [current |-> IF Recorded(w).succeeded THEN Max({was.current, s}) ELSE was.current,
         latest |-> Max({was.latest, s})]

\* RecordScanRun, serialised per build.  A deleted build leaves nothing to
\* insert against.  Refused or not, the entry is finished with.
RecordScanRun(w) ==
    LET b == worker[w].build
    IN  /\ worker[w].at = "record"
        /\ \/ /\ Exists(b)
              /\ runs' = [runs EXCEPT ![worker[w].sequence] = Recorded(w)]
              /\ state' = [state EXCEPT ![b] = Advanced(w)]
           \/ ~Exists(b) /\ UNCHANGED <<runs, state>>
        /\ Step(w, "delete")
        /\ UNCHANGED <<pending, sequence>> /\ WorkerOnly

\* deletePendingScan and releasePendingScan name the build and not the claim.
DeletePendingScan(w) ==
    /\ worker[w].at = "delete"
    /\ pending' = [pending EXCEPT ![worker[w].build] = None]
    /\ Goes(w, Idle)
    /\ UNCHANGED results /\ WorkerOnly

ReleasePendingScan(w) ==
    /\ worker[w].at = "release"
    /\ pending' = [pending EXCEPT ![worker[w].build] = IF @ = None THEN None ELSE "queued"]
    /\ Goes(w, Idle)
    /\ UNCHANGED results /\ WorkerOnly

\* A step before the run is recorded fails: database, audit, object store.
Fail(w) ==
    /\ faults < MaxFaults /\ faults' = faults + 1
    /\ worker[w].at \in {"check", "dispatch", "record"}
    /\ Step(w, "release")
    /\ UNCHANGED <<registry, due, pending, results>>

\* The process stops, or its last statement on the entry fails.
Crash(w) ==
    /\ faults < MaxFaults /\ faults' = faults + 1
    /\ worker[w].at # "idle"
    /\ Goes(w, Idle)
    /\ UNCHANGED <<registry, due, pending, results>>

-----------------------------------------------------------------------------
(* Retention *)

\* Mutant: only the current run is spared.
PurgeableUnlessCurrent(s) == \A b \in Builds : state[b].current # s
Purgeable(s) == \A b \in Builds : s \notin {state[b].current, state[b].latest}

\* PurgeSupersededScanRuns, for a run past the cutoff.
Purge(s) ==
    /\ runs[s] # None /\ Purgeable(s)
    /\ runs' = [runs EXCEPT ![s] = None]
    /\ UNCHANGED <<registry, due, pending, sequence, state, worker, faults>>

-----------------------------------------------------------------------------
Init ==
    /\ builds = [b \in Builds |-> [done |-> FALSE, complete |-> FALSE,
                                   selected |-> FALSE, inventory |-> 0]]
    /\ uploads = {} /\ due = {}
    /\ pending = [b \in Builds |-> None]
    /\ sequence = 1 /\ runs = [s \in Sequences |-> None]
    /\ state = [b \in Builds |-> Unscanned]
    /\ worker = [w \in Workers |-> Idle]
    /\ changes = 0 /\ faults = 0

RegistryWrite(b) ==
    \/ FinishBuild(b) \/ ReopenBuild(b) \/ AssignVersion(b) \/ ReplaceAssignment(b)
    \/ CheckUpload(b) \/ UploadSbom(b) \/ DeleteBuild(b) \/ ManualRescan(b)

Work(w) ==
    \/ Check(w) \/ Dispatch(w) \/ Scan(w) \/ RecordScanRun(w)
    \/ DeletePendingScan(w) \/ ReleasePendingScan(w)

Next ==
    \/ \E b \in Builds : RegistryWrite(b) \/ EnqueueDue(b) \/ Lapse(b)
    \/ ListDue
    \/ \E w \in Workers : Work(w) \/ Fail(w) \/ Crash(w)
    \/ \E w \in Workers, b \in Builds : Claim(w, b)
    \/ \E s \in Sequences : Purge(s)

\* Run drains the queue on a timer, oldest entry first, every step of a worker
\* ends (a provider call by PassTimeout), and time passes.
Fairness ==
    /\ \A w \in Workers : WF_vars(Work(w))
    /\ \A b \in Builds : WF_vars(\E w \in Workers : Claim(w, b)) /\ WF_vars(Lapse(b))

Spec == Init /\ [][Next]_vars /\ Fairness

-----------------------------------------------------------------------------
(* Properties *)

\* What is served as a build's findings was found, by a run that succeeded, in
\* the packages the build has now, and only of a finished build, whatever
\* overlapped the scan (completionRefusal, withdrawBuildFindingsSummary).
CurrentOfLiveInventory ==
    \A b \in Builds : state[b].current # 0 =>
        LET run == runs[state[b].current]
        IN  /\ Exists(b) /\ builds[b].done
            /\ run # None /\ run.build = b /\ run.succeeded
            /\ run.inventory = builds[b].inventory

\* The latest attempt is the newest recorded run of the build, in whatever
\* order runs complete and whatever retention has removed.
LatestIsNewest ==
    \A b \in Builds :
        state[b].latest = Max({0} \cup {s \in Sequences : runs[s] # None /\ runs[s].build = b})

\* A run dispatched earlier that completes late never replaces the findings of
\* a later one (the ordering guard of advanceBuildScanState).
CurrentMovesForward ==
    [][\A b \in Builds : state[b].current # 0 /\ state'[b].current # 0
                            => state'[b].current >= state[b].current]_vars

\* Every entry leaves the queue, though workers stop while they hold it.
QueueDrains == \A b \in Builds : pending[b] # None ~> pending[b] = None
=============================================================================
