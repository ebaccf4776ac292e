---------------------------- MODULE PluginStore ----------------------------
(***************************************************************************)
(* An organization's plugin registry: the rows of one plugin's versions and   *)
(* the objects their keys name (plugin_repository.go,                        *)
(* plugin_registry_repository.go), the import jobs and the workers that run   *)
(* them (plugin_import_repository.go, pluginimport/worker.go, importer.go),   *)
(* uploads, and the bundle export (pluginimport/bundle.go).                  *)
(*                                                                         *)
(* The database and the object store do not share a transaction: a           *)
(* publication puts objects and then inserts rows, a removal deletes rows     *)
(* and then objects.  A job is claimed by one worker at a time, unless the    *)
(* worker has not reported for half an hour, and nothing in the row says      *)
(* whose it is.                                                            *)
(***************************************************************************)
EXTENDS Naturals, Sequences, FiniteSets, SequencesExt

CONSTANTS
    Versions, Platforms, Sources,
    Releases,       \* the source whose plugins take new versions by sync
    Uploaded,       \* the source of uploads
    Jobs, Workers, Callers,
    Requests,       \* what may be asked: [source, sync, versions, platforms]
    None,
    MaxFaults,      \* failed records, crashes and late workers
    MaxRemovals,    \* removals of a version or of the registry
    MaxExports

ASSUME PluginAssumption ==
    /\ Releases \in Sources /\ Uploaded \in Sources
    /\ None \notin Sources \cup Jobs \cup Requests
    /\ "sums" \notin Platforms
    /\ Requests \subseteq [source : Sources, sync : BOOLEAN,
                           versions : Seq(Versions) \ {<<>>}, platforms : SUBSET Platforms]
    /\ MaxFaults \in Nat /\ MaxRemovals \in Nat /\ MaxExports \in Nat

VARIABLES
    registry,   \* "off", "on" or "exposed"
    plugin,     \* the source that holds the plugin's name, or None
    rows,       \* [Versions -> the files whose rows exist; none of an absent version]
    origin,     \* [Versions -> the source that inserted the version]
    objects,    \* the keys the object store holds
    jobs,       \* [Jobs -> state, claim and request]
    created,    \* the jobs that have a row, oldest first
    worker,     \* [Workers -> what the worker is doing]
    caller,     \* [Callers -> what a request still has to do]
    bundle,     \* the organization's row of plugin_bundles
    exporter,   \* [Workers -> what the exporter is doing]
    archives,   \* the archives in the object store
    faults, removals, exports

store == <<registry, plugin, rows, origin, objects>>
importing == <<jobs, created, worker>>
exporting == <<bundle, exporter, archives, exports>>
vars == <<store, importing, caller, exporting, faults, removals>>

\* A version's files: its checksums, and a zip for each platform (objectstore.PluginKey:
\* the key names the version, the file and its digest, never the publication).
Files == {"sums"} \cup Platforms
Keys == Versions \X Files
KeysOf(v) == {v} \X rows[v]

States == {"queued", "running", "succeeded", "partially_succeeded", "failed"}
Terminal == States \ {"queued", "running"}
Job == [state : States \cup {"none", "cleared"}, fresh : BOOLEAN, request : Requests \cup {None}]
NoJob == [state |-> "none", fresh |-> FALSE, request |-> None]
Unfinished(j) == jobs[j].state \in {"queued", "running"}

\* A worker at work on todo's first version; good and bad are what finalState
\* tells apart of the outcomes so far, short says that a wanted platform is missing.
Worker == [at : {"idle", "check", "admit", "put", "insert", "record", "final"},
           job : Jobs \cup {None}, source : Sources \cup {None},
           sync : BOOLEAN, todo : Seq(Versions), wanted : SUBSET Platforms,
           files : SUBSET Files, short : BOOLEAN, good : BOOLEAN, bad : BOOLEAN]
Idle == [at |-> "idle", job |-> None, source |-> None, sync |-> FALSE, todo |-> <<>>,
         wanted |-> {}, files |-> {}, short |-> FALSE, good |-> FALSE, bad |-> FALSE]

\* Archives are numbered in the order their builds began: the key is a digest
\* of content that holds the time.  0 is no archive.
Archives == 0 .. MaxExports
Exporter == [at : {"idle", "build", "record", "sweep", "fail"}, previous : Archives, key : Archives]
Resting == [at |-> "idle", previous |-> 0, key |-> 0]
NoBundle == [state |-> "none", key |-> 0, fresh |-> FALSE]

TypeOK ==
    /\ registry \in {"off", "on", "exposed"}
    /\ plugin \in Sources \cup {None}
    /\ rows \in [Versions -> SUBSET Files]
    /\ origin \in [Versions -> Sources \cup {None}]
    /\ objects \subseteq Keys
    /\ jobs \in [Jobs -> Job]
    /\ created \in Seq(Jobs)
    /\ worker \in [Workers -> Worker]
    /\ caller \in [Callers -> [wants : Requests \cup {None}, sweep : SUBSET Keys]]
    /\ bundle \in [state : States \cup {"none"}, key : Archives, fresh : BOOLEAN]
    /\ exporter \in [Workers -> Exporter]
    /\ archives \subseteq Archives \ {0}
    /\ faults \in 0 .. MaxFaults /\ removals \in 0 .. MaxRemovals /\ exports \in Archives

Init ==
    /\ registry = "on" /\ plugin = None
    /\ rows = [v \in Versions |-> {}] /\ origin = [v \in Versions |-> None]
    /\ objects = {}
    /\ jobs = [j \in Jobs |-> NoJob] /\ created = <<>>
    /\ worker = [w \in Workers |-> Idle]
    /\ caller = [c \in Callers |-> [wants |-> None, sweep |-> {}]]
    /\ bundle = NoBundle
    /\ exporter = [w \in Workers |-> Resting]
    /\ archives = {}
    /\ faults = 0 /\ removals = 0 /\ exports = 0

Fault == faults < MaxFaults /\ faults' = faults + 1

-----------------------------------------------------------------------------
\* Requests: jobs are asked for, cleared and pruned.

Free(c) == caller[c] = [wants |-> None, sweep |-> {}]

\* A sync's source is that of the plugin it is of.
SourceOf(r) == IF r.sync /\ plugin # None THEN plugin ELSE r.source

\* pluginImportConflict, read before the transaction that inserts the job.
Conflicts(r) ==
    \/ plugin \notin {None, SourceOf(r)}
    \/ \E j \in Jobs : /\ Unfinished(j)
                       /\ \/ SourceOf(jobs[j].request) # SourceOf(r)
                          \/ jobs[j].request = r

\* CreatePluginImport; SyncPlugin, of a plugin that is there.
Ask(c, r) ==
    /\ Free(c)
    /\ r.sync => plugin # None /\ r.source = plugin
    /\ ~ Conflicts(r)
    /\ caller' = [caller EXCEPT ![c].wants = r]
    /\ UNCHANGED <<store, importing, exporting, faults, removals>>

CreatePluginImport(c, j) ==
    /\ caller[c].wants # None
    /\ jobs[j].state = "none"
    /\ caller' = [caller EXCEPT ![c].wants = None]
    /\ IF registry # "off"
       THEN /\ jobs' = [jobs EXCEPT ![j] = [state |-> "queued", fresh |-> FALSE,
                                            request |-> caller[c].wants]]
            /\ created' = Append(created, j)
       ELSE UNCHANGED <<jobs, created>>
    /\ UNCHANGED <<store, worker, exporting, faults, removals>>

\* DeletePluginImport clears what is not running; PrunePluginImports, what is finished.
Clear(j) ==
    /\ jobs[j].state # "running"
    /\ \E i \in DOMAIN created : created[i] = j /\ created' = RemoveAt(created, i)
    /\ jobs' = [jobs EXCEPT ![j].state = "cleared"]
    /\ UNCHANGED <<store, worker, caller, exporting, faults, removals>>

-----------------------------------------------------------------------------
\* The worker (Worker.RunOnce).

\* Mutant: a job its worker left behind is never claimed again.
ClaimableQueued(j) == jobs[j].state = "queued"

Claimable(j) == jobs[j].state = "queued" \/ (jobs[j].state = "running" /\ ~ jobs[j].fresh)

ClaimPluginImport(w) ==
    /\ worker[w].at = "idle"
    /\ \E i \in DOMAIN created :
          LET j == created[i]  r == jobs[j].request IN
          /\ Claimable(j)
          /\ \A k \in 1 .. i - 1 : ~ Claimable(created[k])
          /\ jobs' = [jobs EXCEPT ![j].state = "running", ![j].fresh = TRUE]
          /\ worker' = [worker EXCEPT ![w] =
                 [Idle EXCEPT !.at = "check", !.job = j, !.source = r.source, !.sync = r.sync,
                              !.todo = r.versions, !.wanted = r.platforms]]
    /\ UNCHANGED <<store, created, caller, exporting, faults, removals>>

\* PublishPluginVersion called by the upload handler.
Upload(w, v, files) ==
    /\ worker[w].at = "idle"
    /\ worker' = [worker EXCEPT ![w] =
           [Idle EXCEPT !.at = "admit", !.source = Uploaded, !.todo = <<v>>,
                        !.files = {"sums"} \cup files]]
    /\ UNCHANGED <<store, jobs, created, caller, exporting, faults, removals>>

At(w, step) == worker[w].at = step
Current(w) == Head(worker[w].todo)
Goes(w, step) == worker' = [worker EXCEPT ![w].at = step]

\* One version's outcome.  An upload ends with it.
Ends(w, good, bad) ==
    worker' = [worker EXCEPT ![w] =
        LET k == worker[w] IN
        IF k.job = None THEN Idle
        ELSE [k EXCEPT !.at = "record", !.good = k.good \/ good, !.bad = k.bad \/ bad,
                       !.files = {}, !.short = FALSE]]

Fetches(w, base, wanted, step) ==
    \/ Ends(w, FALSE, TRUE)
    \/ \E got \in SUBSET wanted \ {{}} :
          worker' = [worker EXCEPT ![w].at = step, ![w].files = base \cup got,
                                   ![w].short = got # wanted]

\* ImportVersion and ImportGitHubVersion up to the publication; Sync's add,
\* to a version that is there (addPlatforms) or of a new one.
Check(w) ==
    /\ At(w, "check")
    /\ LET v == Current(w)  missing == worker[w].wanted \ rows[v]
           \* ListPluginVersions finds no plugin, or its source takes no such sync.
           refused == \/ plugin = None
                      \/ rows[v] = {} /\ plugin # Releases
                      \/ rows[v] # {} /\ missing # {} /\ plugin = Uploaded IN
       IF worker[w].sync /\ refused THEN Ends(w, FALSE, TRUE)
       ELSE IF rows[v] = {} THEN Fetches(w, {"sums"}, worker[w].wanted, "admit")
       ELSE IF worker[w].sync /\ missing # {} THEN Fetches(w, {}, missing, "put")
       ELSE Ends(w, TRUE, FALSE)
    /\ UNCHANGED <<store, jobs, created, caller, exporting, faults, removals>>

Source(w) == IF worker[w].sync THEN Releases ELSE worker[w].source

\* admitPluginVersion.
Admit(w) ==
    /\ At(w, "admit")
    /\ IF registry = "off" \/ plugin \notin {None, Source(w)} THEN Ends(w, FALSE, TRUE)
       ELSE IF rows[Current(w)] # {} THEN Ends(w, TRUE, FALSE)
       ELSE Goes(w, "put")
    /\ UNCHANGED <<store, jobs, created, caller, exporting, faults, removals>>

\* The objects of a publication, all or, on a failure, some.
Put(w) ==
    /\ At(w, "put")
    /\ \/ objects' = objects \cup ({Current(w)} \X worker[w].files) /\ Goes(w, "insert")
       \/ \E some \in SUBSET worker[w].files :
             objects' = objects \cup ({Current(w)} \X some) /\ Ends(w, FALSE, TRUE)
    /\ UNCHANGED <<registry, plugin, rows, origin, jobs, created, caller, exporting, faults, removals>>

\* Mutant: the insert relies on the source the admission saw.
InsertAdmitted(w) ==
    /\ At(w, "insert") /\ "sums" \in worker[w].files
    /\ IF registry = "off" THEN Ends(w, FALSE, TRUE) /\ UNCHANGED <<plugin, rows, origin>>
       ELSE IF rows[Current(w)] # {}
       THEN Ends(w, TRUE, FALSE) /\ UNCHANGED <<plugin, rows, origin>>
       ELSE /\ plugin' = IF plugin = None THEN Source(w) ELSE plugin
            /\ rows' = [rows EXCEPT ![Current(w)] = worker[w].files]
            /\ origin' = [origin EXCEPT ![Current(w)] = Source(w)]
            /\ Ends(w, TRUE, worker[w].short)
    /\ UNCHANGED <<registry, objects, jobs, created, caller, exporting, faults, removals>>

\* The transaction of PublishPluginVersion.
InsertVersion(w) ==
    /\ At(w, "insert") /\ "sums" \in worker[w].files
    /\ IF registry = "off" \/ plugin \notin {None, Source(w)}
       THEN Ends(w, FALSE, TRUE) /\ UNCHANGED <<plugin, rows, origin>>
       ELSE IF rows[Current(w)] # {}
       THEN Ends(w, TRUE, FALSE) /\ UNCHANGED <<plugin, rows, origin>>
       ELSE /\ plugin' = Source(w)
            /\ rows' = [rows EXCEPT ![Current(w)] = worker[w].files]
            /\ origin' = [origin EXCEPT ![Current(w)] = Source(w)]
            /\ Ends(w, TRUE, worker[w].short)
    /\ UNCHANGED <<registry, objects, jobs, created, caller, exporting, faults, removals>>

\* The transaction of AddPluginZips.
InsertZips(w) ==
    /\ At(w, "insert") /\ "sums" \notin worker[w].files
    /\ IF rows[Current(w)] # {} /\ rows[Current(w)] \cap worker[w].files = {}
       THEN /\ rows' = [rows EXCEPT ![Current(w)] = @ \cup worker[w].files]
            /\ Ends(w, TRUE, worker[w].short)
       ELSE Ends(w, FALSE, TRUE) /\ UNCHANGED rows
    /\ UNCHANGED <<registry, plugin, origin, objects, jobs, created, caller, exporting, faults, removals>>

\* RecordPluginImport: by id, whoever has claimed the job since.  A failure to
\* record is logged and the worker goes on.
Reported(j, state) ==
    \/ /\ jobs' = IF Contains(created, j)
                  THEN [jobs EXCEPT ![j].state = state, ![j].fresh = TRUE] ELSE jobs
       /\ UNCHANGED faults
    \/ Fault /\ UNCHANGED jobs

Record(w) ==
    /\ At(w, "record")
    /\ Reported(worker[w].job, "running")
    /\ worker' = [worker EXCEPT ![w].todo = Tail(@),
                                ![w].at = IF Len(worker[w].todo) = 1 THEN "final" ELSE "check"]
    /\ UNCHANGED <<store, created, caller, exporting, removals>>

FinalState(w) ==
    IF ~ worker[w].good THEN "failed"
    ELSE IF worker[w].bad THEN "partially_succeeded" ELSE "succeeded"

Finish(w) ==
    /\ At(w, "final")
    /\ Reported(worker[w].job, FinalState(w))
    /\ worker' = [worker EXCEPT ![w] = Idle]
    /\ UNCHANGED <<store, created, caller, exporting, removals>>

Held(j) == \E w \in Workers : worker[w].job = j

\* staleAfter has passed since the last report: of a job nobody works on, or
\* of one whose worker is late.
Age(j) ==
    /\ jobs[j].state = "running" /\ jobs[j].fresh
    /\ IF Held(j) THEN Fault ELSE UNCHANGED faults
    /\ jobs' = [jobs EXCEPT ![j].fresh = FALSE]
    /\ UNCHANGED <<store, created, worker, caller, exporting, removals>>

-----------------------------------------------------------------------------
\* Removals.

Vacated(gone) == IF \A v \in Versions \ gone : rows[v] = {} THEN None ELSE plugin

\* DeletePluginVersion and DisablePluginRegistry, which leave the objects for
\* after the commit.
TakeOut(c, gone) ==
    /\ Free(c)
    /\ removals < MaxRemovals /\ removals' = removals + 1
    /\ caller' = [caller EXCEPT ![c].sweep = UNION {KeysOf(v) : v \in gone}]
    /\ plugin' = Vacated(gone)
    /\ rows' = [v \in Versions |-> IF v \in gone THEN {} ELSE rows[v]]

DeletePluginVersion(c, v) ==
    /\ rows[v] # {}
    /\ TakeOut(c, {v})
    /\ UNCHANGED <<registry, origin, objects, importing, exporting, faults>>

\* The jobs' and the bundle's rows go with the registry's.
DisablePluginRegistry(c) ==
    /\ registry = "on"
    /\ TakeOut(c, Versions)
    /\ registry' = "off"
    /\ jobs' = [j \in Jobs |-> IF Contains(created, j) THEN [jobs[j] EXCEPT !.state = "cleared"]
                               ELSE jobs[j]]
    /\ created' = <<>>
    /\ bundle' = NoBundle
    /\ UNCHANGED <<origin, objects, worker, exporter, archives, exports, faults>>

\* EnablePluginRegistry, ExposePluginRegistry, UnexposePluginRegistry.
SetRegistry ==
    /\ registry' = CASE registry = "off" -> "on"
                     [] registry = "on" -> "exposed"
                     [] registry = "exposed" -> "on"
    /\ UNCHANGED <<plugin, rows, origin, objects, importing, caller, exporting, faults, removals>>

\* deletePluginObjects; an object it cannot delete stays.
Sweep(c) ==
    \E key \in caller[c].sweep :
        /\ caller' = [caller EXCEPT ![c].sweep = @ \ {key}]
        /\ objects' \in {objects, objects \ {key}}
        /\ UNCHANGED <<registry, plugin, rows, origin, importing, exporting, faults, removals>>

-----------------------------------------------------------------------------
\* The bundle export (Exporter.RunOnce).

QueuePluginBundle ==
    /\ registry # "off"
    /\ bundle.state \notin {"queued", "running"}
    /\ exports < MaxExports
    /\ bundle' = [bundle EXCEPT !.state = "queued", !.fresh = FALSE]
    /\ UNCHANGED <<store, importing, caller, exporter, archives, exports, faults, removals>>

ClaimPluginBundle(w) ==
    /\ exporter[w].at = "idle"
    /\ bundle.state = "queued" \/ (bundle.state = "running" /\ ~ bundle.fresh)
    /\ exports < MaxExports /\ exports' = exports + 1
    /\ bundle' = [bundle EXCEPT !.state = "running", !.fresh = TRUE]
    /\ exporter' = [exporter EXCEPT ![w] = [at |-> "build", previous |-> bundle.key, key |-> exports']]
    /\ UNCHANGED <<store, importing, caller, archives, faults, removals>>

Exporting(w, step) == exporter[w].at = step
Turns(w, step) == exporter' = [exporter EXCEPT ![w].at = step]

\* Everything up to PutPluginBundle, which any missing or failing object stops.
Build(w) ==
    /\ Exporting(w, "build")
    /\ \/ archives' = archives \cup {exporter[w].key} /\ Turns(w, "record")
       \/ Turns(w, "fail") /\ UNCHANGED archives
    /\ UNCHANGED <<store, importing, caller, bundle, exports, faults, removals>>

\* RecordPluginBundle: by organization, whoever has claimed or queued since.
Records(state, key) ==
    bundle' = IF bundle.state = "none" THEN bundle
              ELSE [bundle EXCEPT !.state = state, !.key = key]

RecordBundle(w) ==
    /\ Exporting(w, "record")
    /\ \/ /\ Records("succeeded", exporter[w].key)
          /\ IF exporter[w].previous # 0 THEN Turns(w, "sweep")
             ELSE exporter' = [exporter EXCEPT ![w] = Resting]
          /\ UNCHANGED faults
       \/ Fault /\ Turns(w, "fail") /\ UNCHANGED bundle
    /\ UNCHANGED <<store, importing, caller, archives, exports, removals>>

\* Mutant: the archive to delete is read from the row after the record.
SweepRecorded(w) ==
    /\ Exporting(w, "sweep")
    /\ archives' = archives \ {bundle.key}
    /\ exporter' = [exporter EXCEPT ![w] = Resting]
    /\ UNCHANGED <<store, importing, caller, bundle, exports, faults, removals>>

\* The archive that was current when this run was claimed.
SweepBundle(w) ==
    /\ Exporting(w, "sweep")
    /\ \/ archives' = archives \ {exporter[w].previous}
          /\ exporter' = [exporter EXCEPT ![w] = Resting]
       \/ Turns(w, "fail") /\ UNCHANGED archives
    /\ UNCHANGED <<store, importing, caller, bundle, exports, faults, removals>>

RecordFailure(w) ==
    /\ Exporting(w, "fail")
    /\ \/ Records("failed", bundle.key) /\ UNCHANGED faults
       \/ Fault /\ UNCHANGED bundle
    /\ exporter' = [exporter EXCEPT ![w] = Resting]
    /\ UNCHANGED <<store, importing, caller, archives, exports, removals>>

AgeBundle ==
    /\ bundle.state = "running" /\ bundle.fresh
    /\ IF \E w \in Workers : exporter[w].at # "idle" THEN Fault ELSE UNCHANGED faults
    /\ bundle' = [bundle EXCEPT !.fresh = FALSE]
    /\ UNCHANGED <<store, importing, caller, exporter, archives, exports, removals>>

\* A replica stops: what its goroutines held is gone.
Crash(w) ==
    /\ Fault
    /\ worker' = [worker EXCEPT ![w] = Idle]
    /\ exporter' = [exporter EXCEPT ![w] = Resting]
    /\ UNCHANGED <<store, jobs, created, caller, bundle, archives, exports, removals>>

-----------------------------------------------------------------------------
WorkStep(w) ==
    \/ Check(w) \/ Admit(w) \/ Put(w) \/ InsertVersion(w) \/ InsertZips(w)
    \/ Record(w) \/ Finish(w)
ExportStep(w) == Build(w) \/ RecordBundle(w) \/ SweepBundle(w) \/ RecordFailure(w)

Next ==
    \/ \E c \in Callers :
          \/ \E r \in Requests : Ask(c, r)
          \/ \E j \in Jobs : CreatePluginImport(c, j)
          \/ \E v \in Versions : DeletePluginVersion(c, v)
          \/ DisablePluginRegistry(c)
          \/ Sweep(c)
    \/ \E j \in Jobs : Clear(j) \/ Age(j)
    \/ \E w \in Workers :
          \/ ClaimPluginImport(w) \/ WorkStep(w)
          \/ \E v \in Versions, files \in SUBSET Platforms \ {{}} : Upload(w, v, files)
          \/ ClaimPluginBundle(w) \/ ExportStep(w)
          \/ Crash(w)
    \/ SetRegistry \/ QueuePluginBundle \/ AgeBundle

\* Workers poll and go on, and half an hour passes for a job nobody works on.
Fairness ==
    /\ \A w \in Workers : WF_vars(ClaimPluginImport(w)) /\ WF_vars(WorkStep(w))
    /\ \A j \in Jobs : WF_vars(Age(j) /\ ~ Held(j))

Spec == Init /\ [][Next]_vars /\ Fairness

-----------------------------------------------------------------------------
\* Properties

\* One source holds the plugin's name: every version that is there was put
\* there by the plugin's source, though the check that admits a publication
\* ends long before its insert (admitPluginVersion, PublishPluginVersion).
OneSource == \A v \in Versions : rows[v] # {} => origin[v] = plugin

\* A job that is queued or running comes to an end, or is cleared: a worker
\* that stops, a record that fails and a report that reopens a finished job
\* are all made up for by another claim (ClaimPluginImport, RunOnce).
ImportsFinish == \A j \in Jobs : Unfinished(j) ~> ~ Unfinished(j)

\* The archive offered for download is in the object store, whichever run
\* recorded it and whatever older runs still sweep (Exporter.export).
BundleHasBytes == bundle.key # 0 => bundle.key \in archives

\* What the publication's comment promises: no row without bytes.
RowsHaveBytes == \A v \in Versions : KeysOf(v) \subseteq objects
=============================================================================
