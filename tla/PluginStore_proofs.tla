------------------------- MODULE PluginStore_proofs -------------------------
(***************************************************************************)
(* Safety of the plugin store, for every set of versions, platforms, jobs and *)
(* workers, and every bound on faults, removals and exports.                 *)
(***************************************************************************)
EXTENDS PluginStore, TLAPS

-----------------------------------------------------------------------------
(* The inductive invariant *)

\* A worker between a claim and the last record has a version in hand, and
\* the source it was told.
Sound(k) == k.at \notin {"idle", "final"} => k.todo # <<>> /\ k.source \in Sources

\* What the import workers and requests keep: whatever was inserted is a job
\* that was asked for.
ImportsSound ==
    /\ jobs \in [Jobs -> Job]
    /\ created \in Seq(Jobs)
    /\ \A j \in Jobs : jobs[j].state = "none" \/ jobs[j].request \in Requests
    /\ \A i \in DOMAIN created : jobs[created[i]].request \in Requests
    /\ worker \in [Workers -> Worker]
    /\ \A w \in Workers : Sound(worker[w])

\* What the rows keep: the plugin's name is held while a version is there.
RowsSound ==
    /\ registry \in {"off", "on", "exposed"}
    /\ plugin \in Sources \cup {None}
    /\ rows \in [Versions -> SUBSET Files]
    /\ origin \in [Versions -> Sources \cup {None}]
    /\ objects \subseteq Keys
    /\ \A v \in Versions : rows[v] # {} => plugin # None
    /\ OneSource

RequestsSound ==
    /\ caller \in [Callers -> [wants : Requests \cup {None}, sweep : SUBSET Keys]]
    /\ faults \in 0 .. MaxFaults /\ removals \in 0 .. MaxRemovals

\* An export under way and the archive it has not yet recorded.
Under(x) == exporter[x].at # "idle"
Pending(x) == exporter[x].at \in {"build", "record"}

\* What the exports keep: the archive that an export has yet to record is
\* neither the recorded one nor one that any export will sweep.
ExportsSound ==
    /\ bundle \in [state : States \cup {"none"}, key : Archives, fresh : BOOLEAN]
    /\ exporter \in [Workers -> Exporter]
    /\ archives \subseteq Archives \ {0}
    /\ exports \in Archives
    /\ bundle.key <= exports
    /\ bundle.state = "none" => bundle.key = 0
    /\ \A x \in Workers : Under(x) =>
          exporter[x].previous < exporter[x].key /\ exporter[x].key <= exports
    /\ \A x \in Workers : exporter[x].at = "record" => exporter[x].key \in archives
    /\ \A x \in Workers : exporter[x].at = "sweep" =>
          exporter[x].previous # bundle.key /\ exporter[x].previous # 0
    /\ \A x \in Workers : Pending(x) =>
          /\ exporter[x].key # bundle.key
          /\ \A y \in Workers : Under(y) => exporter[y].previous # exporter[x].key
    /\ \A x, y \in Workers : Under(x) /\ Under(y) /\ x # y => exporter[x].key # exporter[y].key
    /\ BundleHasBytes

IInv == ImportsSound /\ RowsSound /\ RequestsSound /\ ExportsSound

-----------------------------------------------------------------------------
(* Imports *)

\* A worker that is changed to a sound one leaves the workers sound.
LEMMA WorkerChanged ==
    ASSUME worker \in [Workers -> Worker], \A w \in Workers : Sound(worker[w]),
           NEW w \in Workers, NEW k \in Worker, Sound(k),
           worker' = [worker EXCEPT ![w] = k]
    PROVE  worker' \in [Workers -> Worker] /\ \A x \in Workers : Sound(worker'[x])
  OBVIOUS

LEMMA IdleSound == Idle \in Worker /\ Sound(Idle)
  BY DEF Idle, Worker, Sound

\* The outcome of a version leaves the worker sound.
LEMMA EndsSound ==
    ASSUME worker \in [Workers -> Worker], \A w \in Workers : Sound(worker[w]),
           NEW w \in Workers, worker[w].at \notin {"idle", "final"},
           NEW good \in BOOLEAN, NEW bad \in BOOLEAN, Ends(w, good, bad)
    PROVE  worker' \in [Workers -> Worker] /\ \A x \in Workers : Sound(worker'[x])
<1> DEFINE k == worker[w]
           e == [k EXCEPT !.at = "record", !.good = k.good \/ good, !.bad = k.bad \/ bad,
                          !.files = {}, !.short = FALSE]
<1>1. k \in Worker /\ k.todo # <<>> /\ k.source \in Sources
  BY DEF Sound
<1>2. e \in Worker /\ Sound(e)
  BY <1>1 DEF Worker, Sound
<1>3. worker' = [worker EXCEPT ![w] = IF k.job = None THEN Idle ELSE e]
  BY Zenon DEF Ends
<1> HIDE DEF k, e
<1>4. (IF k.job = None THEN Idle ELSE e) \in Worker /\ Sound(IF k.job = None THEN Idle ELSE e)
  BY <1>2, IdleSound
<1>5. QED
  BY <1>3, <1>4, WorkerChanged

\* So does a move to another step of the same version.
LEMMA GoesSound ==
    ASSUME worker \in [Workers -> Worker], \A w \in Workers : Sound(worker[w]),
           NEW w \in Workers, worker[w].at \notin {"idle", "final"},
           NEW step \in {"put", "insert"}, Goes(w, step)
    PROVE  worker' \in [Workers -> Worker] /\ \A x \in Workers : Sound(worker'[x])
<1> DEFINE k == [worker[w] EXCEPT !.at = step]
<1>1. worker[w] \in Worker /\ worker[w].todo # <<>> /\ worker[w].source \in Sources
  BY DEF Sound
<1>2. k \in Worker /\ Sound(k)
  BY <1>1 DEF Worker, Sound
<1>3. worker' = [worker EXCEPT ![w] = k]
  BY DEF Goes
<1> HIDE DEF k
<1>4. QED
  BY <1>2, <1>3, WorkerChanged

LEMMA FetchesSound ==
    ASSUME worker \in [Workers -> Worker], \A w \in Workers : Sound(worker[w]),
           NEW w \in Workers, worker[w].at \notin {"idle", "final"},
           NEW base \in SUBSET Files, NEW wanted \in SUBSET Platforms,
           NEW step \in {"admit", "put"}, Fetches(w, base, wanted, step)
    PROVE  worker' \in [Workers -> Worker] /\ \A x \in Workers : Sound(worker'[x])
<1>1. CASE Ends(w, FALSE, TRUE)
  BY <1>1, EndsSound
<1>2. CASE \E got \in SUBSET wanted \ {{}} :
             worker' = [worker EXCEPT ![w].at = step, ![w].files = base \cup got,
                                      ![w].short = got # wanted]
  <2>1. PICK got \in SUBSET wanted :
             worker' = [worker EXCEPT ![w].at = step, ![w].files = base \cup got,
                                      ![w].short = got # wanted]
    BY <1>2
  <2> DEFINE k == [worker[w] EXCEPT !.at = step, !.files = base \cup got, !.short = got # wanted]
  <2>2. worker[w] \in Worker /\ worker[w].todo # <<>> /\ worker[w].source \in Sources
    BY DEF Sound
  <2>3. base \cup got \in SUBSET Files /\ (got # wanted) \in BOOLEAN
    BY DEF Files
  <2>4. k \in Worker /\ Sound(k)
    BY <2>2, <2>3 DEF Worker, Sound
  <2>5. worker' = [worker EXCEPT ![w] = k]
    BY <2>1
  <2> HIDE DEF k
  <2>6. QED
    BY <2>4, <2>5, WorkerChanged
<1>3. QED
  BY <1>1, <1>2 DEF Fetches

\* A report changes the state of a job that was asked for, and nothing else.
LEMMA ReportedSound ==
    ASSUME jobs \in [Jobs -> Job], created \in Seq(Jobs),
           \A j \in Jobs : jobs[j].state = "none" \/ jobs[j].request \in Requests,
           \A i \in DOMAIN created : jobs[created[i]].request \in Requests,
           NEW j, NEW state \in States, Reported(j, state)
    PROVE  /\ jobs' \in [Jobs -> Job]
           /\ \A k \in Jobs : jobs'[k].request = jobs[k].request
           /\ \A k \in Jobs : jobs'[k].state = "none" \/ jobs'[k].request \in Requests
<1>1. CASE jobs' = jobs
  BY <1>1
<1>2. CASE Contains(created, j) /\ jobs' = [jobs EXCEPT ![j].state = state, ![j].fresh = TRUE]
  <2>1. PICK i \in 1 .. Len(created) : created[i] = j
    BY <1>2 DEF Contains
  <2>2. j \in Jobs /\ jobs[j] \in Job /\ jobs[j].request \in Requests
    BY <2>1
  <2>3. [jobs[j] EXCEPT !.state = state, !.fresh = TRUE] \in Job
    BY <2>2 DEF Job
  <2>4. jobs' = [jobs EXCEPT ![j] = [jobs[j] EXCEPT !.state = state, !.fresh = TRUE]]
    BY <1>2
  <2>5. QED
    BY <2>2, <2>3, <2>4 DEF Job
<1>3. QED
  BY <1>1, <1>2 DEF Reported

\* A report leaves the jobs sound, as the list of those created is unchanged.
LEMMA ReportKeeps ==
    ASSUME ImportsSound, NEW j, NEW state \in States, Reported(j, state), created' = created
    PROVE  /\ jobs' \in [Jobs -> Job]
           /\ created' \in Seq(Jobs)
           /\ \A k \in Jobs : jobs'[k].state = "none" \/ jobs'[k].request \in Requests
           /\ \A i \in DOMAIN created' : jobs'[created'[i]].request \in Requests
<1>1. /\ jobs' \in [Jobs -> Job]
      /\ \A k \in Jobs : jobs'[k].request = jobs[k].request
      /\ \A k \in Jobs : jobs'[k].state = "none" \/ jobs'[k].request \in Requests
  BY ReportedSound DEF ImportsSound
<1>2. \A i \in DOMAIN created : created[i] \in Jobs
  BY DEF ImportsSound
<1>3. QED
  BY <1>1, <1>2 DEF ImportsSound

\* A worker's claim, and the steps of the version in its hand.
LEMMA ClaimSound ==
    ASSUME ImportsSound, NEW w \in Workers, ClaimPluginImport(w)
    PROVE  ImportsSound'
<1>1. PICK i \in DOMAIN created :
        /\ Claimable(created[i])
        /\ jobs' = [jobs EXCEPT ![created[i]].state = "running", ![created[i]].fresh = TRUE]
        /\ worker' = [worker EXCEPT ![w] =
               [Idle EXCEPT !.at = "check", !.job = created[i],
                            !.source = jobs[created[i]].request.source,
                            !.sync = jobs[created[i]].request.sync,
                            !.todo = jobs[created[i]].request.versions,
                            !.wanted = jobs[created[i]].request.platforms]]
  BY DEF ClaimPluginImport
<1>2. created' = created
  BY DEF ClaimPluginImport
<1> DEFINE j == created[i]  r == jobs[j].request
           k == [Idle EXCEPT !.at = "check", !.job = j, !.source = r.source, !.sync = r.sync,
                             !.todo = r.versions, !.wanted = r.platforms]
<1>3. j \in Jobs /\ jobs[j] \in Job /\ r \in Requests
  BY DEF ImportsSound
<1>4. /\ r.source \in Sources /\ r.sync \in BOOLEAN
      /\ r.versions \in Seq(Versions) /\ r.versions # <<>> /\ r.platforms \in SUBSET Platforms
  BY <1>3, PluginAssumption
<1>5. k \in Worker /\ Sound(k)
  BY <1>3, <1>4 DEF Worker, Sound, Idle
<1>6. worker' = [worker EXCEPT ![w] = k]
  BY <1>1
<1>7. worker' \in [Workers -> Worker] /\ \A x \in Workers : Sound(worker'[x])
  <2> HIDE DEF k
  <2>1. QED
    BY <1>5, <1>6, WorkerChanged DEF ImportsSound
<1>8. [jobs[j] EXCEPT !.state = "running", !.fresh = TRUE] \in Job
  BY <1>3 DEF Job, States
<1>9. jobs' = [jobs EXCEPT ![j] = [jobs[j] EXCEPT !.state = "running", !.fresh = TRUE]]
  BY <1>1
<1>10. /\ jobs' \in [Jobs -> Job]
       /\ \A m \in Jobs : jobs'[m].request = jobs[m].request
       /\ \A m \in Jobs : m # j => jobs'[m] = jobs[m]
  <2> HIDE DEF j, k, r
  <2>1. QED
    BY <1>3, <1>8, <1>9 DEF ImportsSound, Job
<1>11. \A m \in DOMAIN created : created[m] \in Jobs
  BY DEF ImportsSound
<1>12. \A m \in Jobs : jobs'[m].state = "none" \/ jobs'[m].request \in Requests
  <2> HIDE DEF j, k, r
  <2>1. \A m \in Jobs : m # j => jobs'[m].state = jobs[m].state
    BY <1>10
  <2>2. QED
    BY <1>3, <1>10, <2>1 DEF ImportsSound, r
<1>13. QED
  BY <1>2, <1>7, <1>10, <1>11, <1>12 DEF ImportsSound

LEMMA UploadSound ==
    ASSUME ImportsSound, NEW w \in Workers, NEW v \in Versions,
           NEW files \in SUBSET Platforms, Upload(w, v, files)
    PROVE  ImportsSound'
<1> DEFINE k == [Idle EXCEPT !.at = "admit", !.source = Uploaded, !.todo = <<v>>,
                             !.files = {"sums"} \cup files]
<1>1. <<v>> \in Seq(Versions) /\ <<v>> # <<>> /\ {"sums"} \cup files \in SUBSET Files
  BY DEF Files
<1>2. k \in Worker /\ Sound(k)
  BY <1>1, PluginAssumption DEF Worker, Sound, Idle
<1>3. worker' = [worker EXCEPT ![w] = k] /\ UNCHANGED <<jobs, created>>
  BY DEF Upload
<1> HIDE DEF k
<1>4. QED
  BY <1>2, <1>3, WorkerChanged DEF ImportsSound

\* All but the first of a sequence: something, unless it was the only one.
LEMMA TailLeft ==
    ASSUME NEW S, NEW s \in Seq(S), s # <<>>
    PROVE  Tail(s) \in Seq(S) /\ (Len(s) # 1 => Tail(s) # <<>>)
<1> DEFINE n == Len(s)  m == Len(Tail(s))
<1>1. Tail(s) \in Seq(S) /\ m = n - 1 /\ n \in Nat
  OBVIOUS
<1>2. ASSUME Tail(s) = <<>> PROVE m = 0
  <2>1. Len(<<>>) = 0
    OBVIOUS
  <2>2. QED
    BY Zenon, <1>2, <2>1 DEF m
<1> HIDE DEF n, m
<1>3. m = 0 => n = 1
  BY <1>1
<1>4. QED
  BY <1>1, <1>2, <1>3 DEF n

LEMMA WorkSound ==
    ASSUME ImportsSound, RowsSound, NEW w \in Workers, WorkStep(w)
    PROVE  ImportsSound'
<1> USE DEF ImportsSound
<1>1. CASE Check(w)
  <2> DEFINE v == Current(w)  missing == worker[w].wanted \ rows[v]
  <2>1. /\ worker[w].at \notin {"idle", "final"} /\ worker[w] \in Worker
        /\ worker[w].wanted \in SUBSET Platforms /\ missing \in SUBSET Platforms
        /\ {"sums"} \in SUBSET Files /\ {} \in SUBSET Files
    BY <1>1 DEF Check, At, Worker, Files
  <2>2. \/ Ends(w, FALSE, TRUE) \/ Ends(w, TRUE, FALSE)
        \/ Fetches(w, {"sums"}, worker[w].wanted, "admit") \/ Fetches(w, {}, missing, "put")
    BY <1>1 DEF Check
  <2>3. UNCHANGED <<jobs, created>>
    BY <1>1 DEF Check
  <2> HIDE DEF missing
  <2>4. worker' \in [Workers -> Worker] /\ \A x \in Workers : Sound(worker'[x])
    BY <2>1, <2>2, EndsSound, FetchesSound
  <2>5. QED
    BY <2>3, <2>4
<1>2. CASE Admit(w) \/ Put(w) \/ InsertVersion(w) \/ InsertZips(w)
  <2>1. worker[w].at \notin {"idle", "final"} /\ worker[w] \in Worker
    BY <1>2 DEF Admit, Put, InsertVersion, InsertZips, At
  <2>2. worker[w].short \in BOOLEAN
    BY <2>1 DEF Worker
  <2>3. \/ \E good, bad \in BOOLEAN : Ends(w, good, bad)
        \/ \E step \in {"put", "insert"} : Goes(w, step)
    BY <1>2, <2>2 DEF Admit, Put, InsertVersion, InsertZips
  <2>4. UNCHANGED <<jobs, created>>
    BY <1>2 DEF Admit, Put, InsertVersion, InsertZips
  <2>5. worker' \in [Workers -> Worker] /\ \A x \in Workers : Sound(worker'[x])
    BY <2>1, <2>3, EndsSound, GoesSound
  <2>6. QED
    BY <2>4, <2>5
<1>3. CASE Record(w)
  <2> DEFINE k == [worker[w] EXCEPT !.todo = Tail(@),
                      !.at = IF Len(worker[w].todo) = 1 THEN "final" ELSE "check"]
  <2>1. /\ worker[w] \in Worker /\ worker[w].todo \in Seq(Versions)
        /\ worker[w].todo # <<>> /\ worker[w].source \in Sources
    BY <1>3 DEF Record, At, Sound, Worker
  <2>2. /\ Tail(worker[w].todo) \in Seq(Versions)
        /\ Len(worker[w].todo) # 1 => Tail(worker[w].todo) # <<>>
    BY <2>1, TailLeft
  <2>3. k \in Worker /\ Sound(k)
    BY <2>1, <2>2 DEF Worker, Sound
  <2>4. worker' = [worker EXCEPT ![w] = k] /\ created' = created
    BY <1>3 DEF Record
  <2> HIDE DEF k
  <2>5. worker' \in [Workers -> Worker] /\ \A x \in Workers : Sound(worker'[x])
    BY <2>3, <2>4, WorkerChanged
  <2>6. Reported(worker[w].job, "running") /\ "running" \in States
    BY <1>3 DEF Record, States
  <2>7. QED
    BY <2>4, <2>5, <2>6, ReportKeeps
<1>4. CASE Finish(w)
  <2>1. worker' = [worker EXCEPT ![w] = Idle] /\ created' = created
    BY <1>4 DEF Finish
  <2>2. Reported(worker[w].job, FinalState(w)) /\ FinalState(w) \in States
    BY <1>4 DEF Finish, FinalState, States
  <2>3. worker' \in [Workers -> Worker] /\ \A x \in Workers : Sound(worker'[x])
    BY <2>1, IdleSound, WorkerChanged
  <2>4. QED
    BY <2>1, <2>2, <2>3, ReportKeeps
<1>5. QED
  BY <1>1, <1>2, <1>3, <1>4 DEF WorkStep

\* What the requests do to the jobs, and what time does.
LEMMA RequestSound ==
    ASSUME ImportsSound, RequestsSound, NEW c \in Callers,
           \/ \E r \in Requests : Ask(c, r)
           \/ \E j \in Jobs : CreatePluginImport(c, j)
           \/ \E v \in Versions : DeletePluginVersion(c, v)
           \/ DisablePluginRegistry(c) \/ Sweep(c)
    PROVE  ImportsSound'
<1>1. CASE \E j \in Jobs : CreatePluginImport(c, j)
  <2>1. PICK j \in Jobs : CreatePluginImport(c, j)
    BY <1>1
  <2> DEFINE job == [state |-> "queued", fresh |-> FALSE, request |-> caller[c].wants]
  <2>2. caller[c].wants \in Requests
    BY <2>1 DEF CreatePluginImport, RequestsSound
  <2>3. job \in Job
    BY <2>2 DEF Job, States
  <2>4. worker' = worker
    BY <2>1 DEF CreatePluginImport
  <2>5. \/ UNCHANGED <<jobs, created>>
        \/ jobs' = [jobs EXCEPT ![j] = job] /\ created' = Append(created, j)
    BY <2>1 DEF CreatePluginImport
  <2>6. CASE UNCHANGED <<jobs, created>>
    BY <2>4, <2>6 DEF ImportsSound
  <2>7. CASE jobs' = [jobs EXCEPT ![j] = job] /\ created' = Append(created, j)
    <3>1. job.request \in Requests
      BY <2>2
    <3> HIDE DEF job
    <3>2. /\ jobs' \in [Jobs -> Job] /\ jobs'[j].request \in Requests
          /\ \A k \in Jobs : k # j => jobs'[k] = jobs[k]
      BY <2>3, <2>7, <3>1 DEF ImportsSound
    <3>3. created' \in Seq(Jobs)
      BY <2>7 DEF ImportsSound
    <3>4. \A i \in DOMAIN created' : created'[i] = j \/ (i \in DOMAIN created /\ created'[i] = created[i])
      BY <2>7 DEF ImportsSound
    <3>5. \A i \in DOMAIN created : created[i] \in Jobs
      BY DEF ImportsSound
    <3>6. \A i \in DOMAIN created' : jobs'[created'[i]].request \in Requests
      BY <3>2, <3>4, <3>5 DEF ImportsSound
    <3>7. QED
      BY <2>4, <3>2, <3>3, <3>6 DEF ImportsSound
  <2>8. QED
    BY <2>5, <2>6, <2>7
<1>2. CASE DisablePluginRegistry(c)
  <2>1. /\ jobs' = [j \in Jobs |-> IF Contains(created, j) THEN [jobs[j] EXCEPT !.state = "cleared"]
                                   ELSE jobs[j]]
        /\ created' = <<>> /\ worker' = worker
    BY <1>2 DEF DisablePluginRegistry
  <2>2. \A j \in Jobs : [jobs[j] EXCEPT !.state = "cleared"] \in Job
    BY DEF ImportsSound, Job
  <2>3. jobs' \in [Jobs -> Job] /\ \A j \in Jobs : jobs'[j].request = jobs[j].request
    BY <2>1, <2>2 DEF ImportsSound, Job
  <2>4. ASSUME NEW j \in Jobs
        PROVE  jobs'[j].state = "none" \/ jobs'[j].request \in Requests
    <3>1. CASE Contains(created, j)
      BY <2>3, <3>1 DEF Contains, ImportsSound
    <3>2. CASE ~ Contains(created, j)
      BY <2>1, <3>2 DEF ImportsSound
    <3>3. QED
      BY <3>1, <3>2
  <2>5. created' \in Seq(Jobs) /\ DOMAIN created' = {}
    BY <2>1
  <2>6. QED
    BY <2>1, <2>3, <2>4, <2>5 DEF ImportsSound
<1>3. CASE \/ \E r \in Requests : Ask(c, r)
           \/ \E v \in Versions : DeletePluginVersion(c, v)
           \/ Sweep(c)
  <2>1. UNCHANGED <<jobs, created, worker>>
    BY <1>3 DEF Ask, DeletePluginVersion, Sweep, importing
  <2>2. QED
    BY <2>1 DEF ImportsSound
<1>4. QED
  BY <1>1, <1>2, <1>3

\* What is left of a sequence without one of its places.
LEMMA PlaceRemoved ==
    ASSUME NEW S, NEW s \in Seq(S), NEW i \in DOMAIN s
    PROVE  /\ RemoveAt(s, i) \in Seq(S)
           /\ \A k \in DOMAIN RemoveAt(s, i) : \E m \in DOMAIN s : RemoveAt(s, i)[k] = s[m]
<1> DEFINE a == SubSeq(s, 1, i - 1)  b == SubSeq(s, i + 1, Len(s))
<1>1. /\ a \in Seq(S) /\ Len(a) = i - 1 /\ \A k \in 1 .. i - 1 : a[k] = s[k]
      /\ b \in Seq(S) /\ Len(b) = Len(s) - i /\ \A k \in 1 .. Len(s) - i : b[k] = s[k + i]
      /\ i \in 1 .. Len(s) /\ Len(s) \in Nat
  OBVIOUS
<1> HIDE DEF a, b
<1>2. /\ a \o b \in Seq(S) /\ Len(a \o b) = Len(s) - 1
      /\ \A k \in 1 .. Len(s) - 1 : (a \o b)[k] = IF k < i THEN a[k] ELSE b[k - (i - 1)]
  BY <1>1
<1>3. ASSUME NEW k \in 1 .. Len(s) - 1
      PROVE  \E m \in 1 .. Len(s) : (a \o b)[k] = s[m]
  <2>1. CASE k < i
    BY <1>1, <1>2, <2>1
  <2>2. CASE ~ k < i
    <3> DEFINE m == k - (i - 1)
    <3>1. m \in 1 .. Len(s) - i /\ m + i \in 1 .. Len(s)
      BY <1>1, <2>2
    <3>2. (a \o b)[k] = b[m]
      BY <1>2, <2>2
    <3> HIDE DEF m
    <3>3. QED
      BY <1>1, <3>1, <3>2
  <2>3. QED
    BY <2>1, <2>2
<1>4. RemoveAt(s, i) = a \o b
  BY DEF RemoveAt, a, b
<1>5. DOMAIN s = 1 .. Len(s) /\ DOMAIN (a \o b) = 1 .. Len(s) - 1
  BY <1>2
<1>6. QED
  BY <1>2, <1>3, <1>4, <1>5

LEMMA ClearSound ==
    ASSUME ImportsSound, NEW j \in Jobs, Clear(j) \/ Age(j)
    PROVE  ImportsSound'
<1>1. CASE Clear(j)
  <2>1. PICK i \in DOMAIN created : created[i] = j /\ created' = RemoveAt(created, i)
    BY <1>1 DEF Clear
  <2>2. jobs' = [jobs EXCEPT ![j].state = "cleared"] /\ worker' = worker
    BY <1>1 DEF Clear
  <2>3. /\ created' \in Seq(Jobs)
        /\ \A k \in DOMAIN created' : \E m \in DOMAIN created : created'[k] = created[m]
    BY <2>1, PlaceRemoved DEF ImportsSound
  <2>4. jobs[j].request \in Requests /\ jobs[j] \in Job
    BY <2>1 DEF ImportsSound
  <2>5. [jobs[j] EXCEPT !.state = "cleared"] \in Job
    BY <2>4 DEF Job
  <2>6. /\ jobs' \in [Jobs -> Job]
        /\ \A k \in Jobs : jobs'[k].request = jobs[k].request
        /\ \A k \in Jobs : k # j => jobs'[k] = jobs[k]
    BY <2>2, <2>4, <2>5 DEF ImportsSound, Job
  <2>7. \A k \in Jobs : jobs'[k].state = "none" \/ jobs'[k].request \in Requests
    BY <2>4, <2>6 DEF ImportsSound
  <2>8. \A k \in DOMAIN created' : jobs'[created'[k]].request \in Requests
    <3>1. \A m \in DOMAIN created : created[m] \in Jobs /\ jobs[created[m]].request \in Requests
      BY DEF ImportsSound
    <3>2. QED
      BY <2>3, <2>6, <3>1
  <2>9. QED
    BY <2>2, <2>3, <2>6, <2>7, <2>8 DEF ImportsSound
<1>2. CASE Age(j)
  <2>1. jobs' = [jobs EXCEPT ![j].fresh = FALSE] /\ UNCHANGED <<created, worker>>
    BY <1>2 DEF Age
  <2>2. [jobs[j] EXCEPT !.fresh = FALSE] \in Job
    BY DEF ImportsSound, Job
  <2>3. /\ jobs' \in [Jobs -> Job]
        /\ \A k \in Jobs : jobs'[k].request = jobs[k].request /\ jobs'[k].state = jobs[k].state
    BY <2>1, <2>2 DEF ImportsSound, Job
  <2>4. \A i \in DOMAIN created : created[i] \in Jobs
    BY DEF ImportsSound
  <2>5. QED
    BY <2>1, <2>3, <2>4 DEF ImportsSound
<1>3. QED
  BY <1>1, <1>2

LEMMA ImportsStep == ASSUME IInv, [Next]_vars PROVE ImportsSound'
<1> USE DEF IInv
<1>1. ASSUME NEW c \in Callers,
             \/ \E r \in Requests : Ask(c, r)
             \/ \E j \in Jobs : CreatePluginImport(c, j)
             \/ \E v \in Versions : DeletePluginVersion(c, v)
             \/ DisablePluginRegistry(c) \/ Sweep(c)
      PROVE  ImportsSound'
  BY <1>1, RequestSound
<1>2. ASSUME NEW j \in Jobs, Clear(j) \/ Age(j) PROVE ImportsSound'
  BY <1>2, ClearSound
<1>3. ASSUME NEW w \in Workers,
             \/ ClaimPluginImport(w) \/ WorkStep(w)
             \/ \E v \in Versions, files \in SUBSET Platforms \ {{}} : Upload(w, v, files)
      PROVE  ImportsSound'
  BY <1>3, ClaimSound, WorkSound, UploadSound
<1>4. ASSUME NEW w \in Workers, Crash(w) PROVE ImportsSound'
  <2>1. worker' = [worker EXCEPT ![w] = Idle] /\ UNCHANGED <<jobs, created>>
    BY <1>4 DEF Crash
  <2>2. QED
    BY <2>1, IdleSound, WorkerChanged DEF ImportsSound
<1>5. ASSUME \/ \E w \in Workers : ClaimPluginBundle(w) \/ ExportStep(w)
             \/ SetRegistry \/ QueuePluginBundle \/ AgeBundle \/ UNCHANGED vars
      PROVE  ImportsSound'
  <2>1. UNCHANGED <<jobs, created, worker>>
    BY <1>5 DEF ClaimPluginBundle, ExportStep, Build, RecordBundle, SweepBundle, RecordFailure,
                SetRegistry, QueuePluginBundle, AgeBundle, vars, importing
  <2>2. QED
    BY <2>1 DEF ImportsSound
<1>6. QED
  BY <1>1, <1>2, <1>3, <1>4, <1>5 DEF Next

-----------------------------------------------------------------------------
(* Rows and objects *)

\* What a worker has in hand is a version, files of it and a source.
LEMMA InHand ==
    ASSUME ImportsSound, NEW w \in Workers, worker[w].at \notin {"idle", "final"}
    PROVE  /\ Current(w) \in Versions
           /\ worker[w].files \in SUBSET Files
           /\ Source(w) \in Sources /\ Source(w) # None
<1>1. /\ worker[w] \in Worker /\ worker[w].todo \in Seq(Versions)
      /\ worker[w].todo # <<>> /\ worker[w].source \in Sources
  BY DEF ImportsSound, Sound, Worker
<1>2. \A s \in Seq(Versions) : s # <<>> => Head(s) \in Versions
  OBVIOUS
<1>3. Current(w) \in Versions
  BY <1>1, <1>2 DEF Current
<1>4. Source(w) \in Sources /\ Source(w) # None
  BY <1>1, PluginAssumption DEF Source
<1>5. QED
  BY <1>1, <1>3, <1>4 DEF Worker

\* The insert of a publication: the name was free or the publisher's own.
LEMMA InsertKeeps ==
    ASSUME ImportsSound, RowsSound, NEW w \in Workers, InsertVersion(w)
    PROVE  RowsSound'
<1>1. /\ Current(w) \in Versions /\ worker[w].files \in SUBSET Files
      /\ Source(w) \in Sources /\ Source(w) # None
  BY InHand DEF InsertVersion, At
<1>2. UNCHANGED <<registry, objects>>
  BY DEF InsertVersion
<1>3. CASE UNCHANGED <<plugin, rows, origin>>
  BY <1>2, <1>3 DEF RowsSound, OneSource
<1>4. CASE /\ plugin \in {None, Source(w)}
           /\ plugin' = Source(w)
           /\ rows' = [rows EXCEPT ![Current(w)] = worker[w].files]
           /\ origin' = [origin EXCEPT ![Current(w)] = Source(w)]
  <2> DEFINE c == Current(w)  s == Source(w)  f == worker[w].files
  <2>1. /\ rows' = [rows EXCEPT ![c] = f] /\ origin' = [origin EXCEPT ![c] = s]
        /\ plugin \in {None, s} /\ plugin' = s
        /\ c \in Versions /\ s \in Sources /\ s # None /\ f \in SUBSET Files
    BY <1>1, <1>4
  <2> HIDE DEF c, s, f
  <2>2. ASSUME NEW v \in Versions, rows'[v] # {} PROVE origin'[v] = plugin'
    <3>1. CASE v = c
      BY <2>1, <3>1 DEF RowsSound
    <3>2. CASE v # c
      BY <2>1, <2>2, <3>2 DEF RowsSound, OneSource
    <3>3. QED
      BY <3>1, <3>2
  <2>3. /\ rows' \in [Versions -> SUBSET Files] /\ origin' \in [Versions -> Sources \cup {None}]
        /\ plugin' \in Sources \cup {None} /\ plugin' # None
    BY <2>1 DEF RowsSound
  <2>4. QED
    BY <1>2, <2>2, <2>3 DEF RowsSound, OneSource
<1>5. QED
  BY <1>3, <1>4 DEF InsertVersion

\* The other steps of a worker: objects come, and platforms of a version that
\* is there.
LEMMA WorkKeeps ==
    ASSUME ImportsSound, RowsSound, NEW w \in Workers, WorkStep(w)
    PROVE  RowsSound'
<1>1. CASE InsertVersion(w)
  BY <1>1, InsertKeeps
<1>2. CASE Put(w)
  <2>1. Current(w) \in Versions /\ worker[w].files \in SUBSET Files
    BY <1>2, InHand DEF Put, At
  <2>2. PICK some \in SUBSET worker[w].files : objects' = objects \cup ({Current(w)} \X some)
    BY <1>2 DEF Put
  <2>3. {Current(w)} \X some \subseteq Keys
    BY <2>1 DEF Keys
  <2>4. objects' \subseteq Keys /\ UNCHANGED <<registry, plugin, rows, origin>>
    BY <1>2, <2>2, <2>3 DEF Put, RowsSound
  <2>5. QED
    BY <2>4 DEF RowsSound, OneSource
<1>3. CASE InsertZips(w)
  <2>1. Current(w) \in Versions /\ worker[w].files \in SUBSET Files
    BY <1>3, InHand DEF InsertZips, At
  <2>2. UNCHANGED <<registry, plugin, origin, objects>>
    BY <1>3 DEF InsertZips
  <2>3. CASE UNCHANGED rows
    BY <2>2, <2>3 DEF RowsSound, OneSource
  <2>4. CASE /\ rows[Current(w)] # {}
             /\ rows' = [rows EXCEPT ![Current(w)] = @ \cup worker[w].files]
    <3>1. /\ rows' \in [Versions -> SUBSET Files]
          /\ \A v \in Versions : rows'[v] # {} => rows[v] # {}
      BY <2>1, <2>4 DEF RowsSound
    <3>2. QED
      BY <2>2, <3>1 DEF RowsSound, OneSource
  <2>5. QED
    BY <1>3, <2>3, <2>4 DEF InsertZips
<1>4. CASE Check(w) \/ Admit(w) \/ Record(w) \/ Finish(w)
  <2>1. UNCHANGED store
    BY <1>4 DEF Check, Admit, Record, Finish
  <2>2. QED
    BY <2>1 DEF RowsSound, OneSource, store
<1>5. QED
  BY <1>1, <1>2, <1>3, <1>4 DEF WorkStep

\* A removal lets the name go only with the last version.
LEMMA TakeOutKeeps ==
    ASSUME RowsSound, NEW c \in Callers, NEW gone \in SUBSET Versions, TakeOut(c, gone),
           registry' \in {"off", "on", "exposed"}, UNCHANGED <<origin, objects>>
    PROVE  RowsSound'
<1>1. /\ plugin' = Vacated(gone)
      /\ rows' = [v \in Versions |-> IF v \in gone THEN {} ELSE rows[v]]
  BY DEF TakeOut
<1>2. rows' \in [Versions -> SUBSET Files]
  BY <1>1 DEF RowsSound
<1>3. plugin' \in Sources \cup {None}
  BY <1>1 DEF RowsSound, Vacated
<1>4. ASSUME NEW v \in Versions, rows'[v] # {}
      PROVE  plugin' # None /\ origin'[v] = plugin'
  <2>1. v \notin gone /\ rows[v] # {}
    BY <1>1, <1>4
  <2>2. plugin' = plugin
    BY <1>1, <2>1 DEF Vacated
  <2>3. QED
    BY <2>1, <2>2 DEF RowsSound, OneSource
<1>5. QED
  BY <1>2, <1>3, <1>4 DEF RowsSound, OneSource

LEMMA RowsStep == ASSUME IInv, [Next]_vars PROVE RowsSound'
<1> USE DEF IInv
<1>1. ASSUME NEW w \in Workers, WorkStep(w) PROVE RowsSound'
  BY <1>1, WorkKeeps
<1>2. ASSUME NEW c \in Callers, NEW v \in Versions, DeletePluginVersion(c, v) PROVE RowsSound'
  <2>1. TakeOut(c, {v}) /\ UNCHANGED <<registry, origin, objects>>
    BY <1>2 DEF DeletePluginVersion
  <2>2. QED
    BY <2>1, TakeOutKeeps DEF RowsSound
<1>3. ASSUME NEW c \in Callers, DisablePluginRegistry(c) PROVE RowsSound'
  <2>1. TakeOut(c, Versions) /\ registry' = "off" /\ UNCHANGED <<origin, objects>>
    BY <1>3 DEF DisablePluginRegistry
  <2>2. QED
    BY <2>1, TakeOutKeeps
<1>4. ASSUME NEW c \in Callers, Sweep(c) PROVE RowsSound'
  <2>1. objects' \subseteq objects /\ UNCHANGED <<registry, plugin, rows, origin>>
    BY <1>4 DEF Sweep
  <2>2. QED
    BY <2>1 DEF RowsSound, OneSource
<1>5. CASE SetRegistry
  <2>1. registry' \in {"off", "on", "exposed"} /\ UNCHANGED <<plugin, rows, origin, objects>>
    BY <1>5 DEF SetRegistry, RowsSound
  <2>2. QED
    BY <2>1 DEF RowsSound, OneSource
<1>6. ASSUME \/ \E c \in Callers : \/ \E r \in Requests : Ask(c, r)
                                  \/ \E j \in Jobs : CreatePluginImport(c, j)
             \/ \E j \in Jobs : Clear(j) \/ Age(j)
             \/ \E w \in Workers : ClaimPluginImport(w)
             \/ \E w \in Workers, v \in Versions, files \in SUBSET Platforms \ {{}} : Upload(w, v, files)
             \/ \E w \in Workers : ClaimPluginBundle(w) \/ ExportStep(w) \/ Crash(w)
             \/ QueuePluginBundle \/ AgeBundle \/ UNCHANGED vars
      PROVE  RowsSound'
  <2>1. UNCHANGED store
    BY <1>6 DEF Ask, CreatePluginImport, Clear, Age, ClaimPluginImport, Upload, ClaimPluginBundle,
                ExportStep, Build, RecordBundle, SweepBundle, RecordFailure, Crash,
                QueuePluginBundle, AgeBundle, vars
  <2>2. QED
    BY <2>1 DEF RowsSound, OneSource, store
<1>7. QED
  BY <1>1, <1>2, <1>3, <1>4, <1>5, <1>6 DEF Next

-----------------------------------------------------------------------------
(* Requests and counters *)

LEMMA FaultCounted ==
    ASSUME faults \in 0 .. MaxFaults, Fault \/ UNCHANGED faults
    PROVE  faults' \in 0 .. MaxFaults
  BY PluginAssumption DEF Fault

LEMMA RequestsStep == ASSUME IInv, [Next]_vars PROVE RequestsSound'
<1> USE DEF IInv
<1> DEFINE Entry == [wants : Requests \cup {None}, sweep : SUBSET Keys]
<1>1. caller' \in [Callers -> Entry]
  <2>1. ASSUME NEW c \in Callers, NEW gone \in SUBSET Versions, TakeOut(c, gone)
        PROVE  caller' \in [Callers -> Entry]
    <3>1. UNION {KeysOf(v) : v \in gone} \in SUBSET Keys
      BY DEF KeysOf, Keys, RowsSound
    <3>2. [caller[c] EXCEPT !.sweep = UNION {KeysOf(v) : v \in gone}] \in Entry
      BY <3>1 DEF RequestsSound
    <3>3. caller' = [caller EXCEPT ![c] =
               [caller[c] EXCEPT !.sweep = UNION {KeysOf(v) : v \in gone}]]
      BY <2>1 DEF TakeOut
    <3>4. QED
      BY <3>2, <3>3 DEF RequestsSound
  <2>2. ASSUME NEW c \in Callers,
               \/ \E r \in Requests : Ask(c, r)
               \/ \E j \in Jobs : CreatePluginImport(c, j)
               \/ Sweep(c)
        PROVE  caller' \in [Callers -> Entry]
    <3>1. PICK r \in Requests \cup {None}, kept \in SUBSET Keys :
             caller' = [caller EXCEPT ![c].wants = r] \/ caller' = [caller EXCEPT ![c].sweep = kept]
      <4>1. caller[c].sweep \in SUBSET Keys
        BY DEF RequestsSound
      <4>2. CASE \E r \in Requests : Ask(c, r)
        BY <4>1, <4>2 DEF Ask
      <4>3. CASE \E j \in Jobs : CreatePluginImport(c, j)
        BY <4>1, <4>3 DEF CreatePluginImport
      <4>4. CASE Sweep(c)
        <5>1. PICK key \in caller[c].sweep : caller' = [caller EXCEPT ![c].sweep = @ \ {key}]
          BY <4>4 DEF Sweep
        <5>2. caller' = [caller EXCEPT ![c].sweep = caller[c].sweep \ {key}]
          BY <5>1
        <5>3. caller[c].sweep \ {key} \in SUBSET Keys
          BY <4>1
        <5>4. QED
          BY <5>2, <5>3
      <4>5. QED
        BY <2>2, <4>2, <4>3, <4>4
    <3>2. /\ [caller[c] EXCEPT !.wants = r] \in Entry /\ [caller[c] EXCEPT !.sweep = kept] \in Entry
      BY DEF RequestsSound
    <3>3. QED
      BY <3>1, <3>2 DEF RequestsSound
  <2>3. ASSUME UNCHANGED caller PROVE caller' \in [Callers -> Entry]
    BY <2>3 DEF RequestsSound
  <2>4. \/ UNCHANGED caller
        \/ \E c \in Callers : \/ \E gone \in SUBSET Versions : TakeOut(c, gone)
                              \/ \E r \in Requests : Ask(c, r)
                              \/ \E j \in Jobs : CreatePluginImport(c, j)
                              \/ Sweep(c)
    <3>1. ASSUME NEW c \in Callers,
                 (\E v \in Versions : DeletePluginVersion(c, v)) \/ DisablePluginRegistry(c)
          PROVE  \E gone \in SUBSET Versions : TakeOut(c, gone)
      BY <3>1 DEF DeletePluginVersion, DisablePluginRegistry
    <3>2. ASSUME \/ \E j \in Jobs : Clear(j) \/ Age(j)
                 \/ \E w \in Workers : ClaimPluginImport(w) \/ WorkStep(w)
                 \/ \E w \in Workers, v \in Versions, files \in SUBSET Platforms \ {{}} : Upload(w, v, files)
                 \/ \E w \in Workers : ClaimPluginBundle(w) \/ ExportStep(w) \/ Crash(w)
                 \/ SetRegistry \/ QueuePluginBundle \/ AgeBundle \/ UNCHANGED vars
          PROVE  UNCHANGED caller
      BY <3>2 DEF Clear, Age, ClaimPluginImport, WorkStep, Check, Admit, Put, InsertVersion,
                  InsertZips, Record, Finish, Upload, ClaimPluginBundle, ExportStep, Build,
                  RecordBundle, SweepBundle, RecordFailure, Crash, SetRegistry,
                  QueuePluginBundle, AgeBundle, vars
    <3>3. QED
      BY <3>1, <3>2 DEF Next
  <2>5. QED
    BY <2>1, <2>2, <2>3, <2>4
<1>2. Fault \/ UNCHANGED faults
  BY DEF Next, vars, Ask, CreatePluginImport, DeletePluginVersion, DisablePluginRegistry, Sweep,
         Clear, Age, ClaimPluginImport, WorkStep, Check, Admit, Put, InsertVersion, InsertZips,
         Record, Finish, Reported, Upload, ClaimPluginBundle, ExportStep, Build, RecordBundle,
         SweepBundle, RecordFailure, Crash, SetRegistry, QueuePluginBundle, AgeBundle
<1>3. UNCHANGED removals \/ (removals < MaxRemovals /\ removals' = removals + 1)
  BY DEF Next, vars, Ask, CreatePluginImport, DeletePluginVersion, DisablePluginRegistry, TakeOut,
         Sweep, Clear, Age, ClaimPluginImport, WorkStep, Check, Admit, Put, InsertVersion,
         InsertZips, Record, Finish, Upload, ClaimPluginBundle, ExportStep, Build, RecordBundle,
         SweepBundle, RecordFailure, Crash, SetRegistry, QueuePluginBundle, AgeBundle
<1>4. faults' \in 0 .. MaxFaults /\ removals' \in 0 .. MaxRemovals
  BY <1>2, <1>3, FaultCounted, PluginAssumption DEF RequestsSound
<1>5. QED
  BY <1>1, <1>4 DEF RequestsSound

-----------------------------------------------------------------------------
(* Exports *)

\* One exporter moves on, the others stay where they are.
LEMMA TurnsEffect ==
    ASSUME exporter \in [Workers -> Exporter], NEW w \in Workers,
           NEW step \in {"record", "sweep", "fail"}, Turns(w, step)
    PROVE  /\ exporter' \in [Workers -> Exporter]
           /\ exporter'[w].at = step /\ exporter'[w].key = exporter[w].key
           /\ exporter'[w].previous = exporter[w].previous
           /\ \A x \in Workers : x # w => exporter'[x] = exporter[x]
<1>1. [exporter[w] EXCEPT !.at = step] \in Exporter
  BY DEF Exporter
<1>2. exporter' = [exporter EXCEPT ![w] = [exporter[w] EXCEPT !.at = step]]
  BY DEF Turns
<1>3. QED
  BY <1>1, <1>2 DEF Exporter

LEMMA RestsEffect ==
    ASSUME exporter \in [Workers -> Exporter], NEW w \in Workers,
           exporter' = [exporter EXCEPT ![w] = Resting]
    PROVE  /\ exporter' \in [Workers -> Exporter]
           /\ exporter'[w].at = "idle"
           /\ \A x \in Workers : x # w => exporter'[x] = exporter[x]
<1>1. Resting \in Exporter /\ Resting.at = "idle"
  BY PluginAssumption DEF Resting, Exporter, Archives
<1>2. QED
  BY <1>1

\* An export that ends, or stops, disturbs nothing but itself; it may have
\* taken an archive away that is not the recorded one and that no other export
\* is about to record.
LEMMA RestsSound ==
    ASSUME ExportsSound, NEW w \in Workers, exporter' = [exporter EXCEPT ![w] = Resting],
           bundle'.key = bundle.key,
           bundle' \in [state : States \cup {"none"}, key : Archives, fresh : BOOLEAN],
           bundle'.state = "none" => bundle.state = "none",
           exports' = exports,
           \/ archives' = archives
           \/ exporter[w].at = "sweep" /\ archives' = archives \ {exporter[w].previous}
    PROVE  ExportsSound'
<1>1. /\ exporter' \in [Workers -> Exporter]
      /\ exporter'[w].at = "idle"
      /\ \A x \in Workers : x # w => exporter'[x] = exporter[x]
  BY RestsEffect DEF ExportsSound
<1>2. archives' \subseteq archives
  OBVIOUS
<1>3. \A x \in Workers : exporter'[x].at = "record" => exporter'[x].key \in archives'
  <2>1. SUFFICES ASSUME NEW x \in Workers, exporter'[x].at = "record"
                 PROVE  exporter'[x].key \in archives'
    OBVIOUS
  <2>2. x # w /\ exporter'[x] = exporter[x] /\ exporter[x].key \in archives /\ Pending(x)
    BY <1>1, <2>1 DEF ExportsSound, Pending
  <2>3. exporter[w].at = "sweep" => exporter[w].previous # exporter[x].key
    BY <2>2 DEF ExportsSound, Under
  <2>4. QED
    BY <2>2, <2>3
<1>4. bundle'.key # 0 => bundle'.key \in archives'
  BY DEF ExportsSound, BundleHasBytes
<1>5. \A x \in Workers : exporter'[x].at # "idle" => exporter'[x] = exporter[x]
  BY <1>1
<1>6. archives' \subseteq Archives \ {0} /\ exports' \in Archives /\ bundle'.key <= exports'
  BY <1>2 DEF ExportsSound
<1>7. bundle'.state = "none" => bundle'.key = 0
  BY DEF ExportsSound
<1>8. QED
  BY <1>1, <1>3, <1>4, <1>5, <1>6, <1>7 DEF ExportsSound, Under, Pending, BundleHasBytes

\* An export that begins has the newest archive, and sweeps the recorded one.
LEMMA ClaimBundleSound ==
    ASSUME ExportsSound, NEW w \in Workers, ClaimPluginBundle(w)
    PROVE  ExportsSound'
<1> DEFINE e == [at |-> "build", previous |-> bundle.key, key |-> exports + 1]
<1>1. /\ exporter' = [exporter EXCEPT ![w] = e]
      /\ exports' = exports + 1 /\ exports < MaxExports /\ archives' = archives
      /\ bundle' = [bundle EXCEPT !.state = "running", !.fresh = TRUE]
      /\ exporter[w].at = "idle"
  BY DEF ClaimPluginBundle
<1>2. /\ bundle \in [state : States \cup {"none"}, key : Archives, fresh : BOOLEAN]
      /\ bundle.key <= exports /\ exports \in Archives /\ bundle.key \in Archives
  BY DEF ExportsSound
<1>3. exports' \in Archives /\ exports \in Nat /\ bundle.key \in Nat /\ Archives \subseteq Nat
  BY <1>1, <1>2, PluginAssumption DEF Archives
<1>4. e \in Exporter
  BY <1>1, <1>2, <1>3 DEF Exporter
<1>5. /\ exporter' \in [Workers -> Exporter]
      /\ exporter'[w].at = "build" /\ exporter'[w].previous = bundle.key /\ exporter'[w].key = exports'
      /\ \A x \in Workers : x # w => exporter'[x] = exporter[x]
  BY <1>1, <1>4 DEF ExportsSound
<1> HIDE DEF e
<1>6. /\ bundle' \in [state : States \cup {"none"}, key : Archives, fresh : BOOLEAN]
      /\ bundle'.key = bundle.key /\ bundle'.state = "running"
  BY <1>1, <1>2 DEF States
<1>7. ASSUME NEW x \in Workers, x # w, Under(x)
      PROVE  /\ exporter[x].previous < exporter[x].key /\ exporter[x].key <= exports
             /\ exporter[x].key \in Nat /\ exporter[x].previous \in Nat
  <2>1. exporter[x] \in Exporter
    BY DEF ExportsSound
  <2>2. exporter[x].key \in Archives /\ exporter[x].previous \in Archives
    BY <2>1 DEF Exporter
  <2>3. QED
    BY <1>3, <1>7, <2>2 DEF ExportsSound
<1>8. \A x \in Workers : exporter'[x].at # "idle" =>
          exporter'[x].previous < exporter'[x].key /\ exporter'[x].key <= exports'
  BY <1>1, <1>2, <1>3, <1>5, <1>7 DEF Under
<1>9. \A x, y \in Workers : exporter'[x].at # "idle" /\ exporter'[y].at # "idle" /\ x # y =>
          exporter'[x].key # exporter'[y].key
  BY <1>1, <1>3, <1>5, <1>7 DEF ExportsSound, Under
<1>10. ASSUME NEW x \in Workers, exporter'[x].at \in {"build", "record"}
       PROVE  /\ exporter'[x].key # bundle'.key
              /\ \A y \in Workers : exporter'[y].at # "idle" => exporter'[y].previous # exporter'[x].key
  <2>1. CASE x = w
    BY <1>1, <1>2, <1>3, <1>5, <1>6, <1>7, <2>1 DEF Under
  <2>2. CASE x # w
    <3>1. exporter'[x] = exporter[x] /\ Pending(x)
      BY <1>5, <1>10, <2>2 DEF Pending
    <3>2. exporter[x].key # bundle.key
      BY <3>1 DEF ExportsSound
    <3>3. ASSUME NEW y \in Workers, exporter'[y].at # "idle"
          PROVE  exporter'[y].previous # exporter'[x].key
      <4>1. CASE y = w
        BY <1>5, <3>1, <3>2, <4>1
      <4>2. CASE y # w
        BY <1>5, <3>1, <3>3, <4>2 DEF ExportsSound, Under
      <4>3. QED
        BY <4>1, <4>2
    <3>4. QED
      BY <1>6, <3>1, <3>2, <3>3
  <2>3. QED
    BY <2>1, <2>2
<1>11. /\ \A x \in Workers : exporter'[x].at = "record" => exporter'[x].key \in archives'
       /\ \A x \in Workers : exporter'[x].at = "sweep" =>
             exporter'[x].previous # bundle'.key /\ exporter'[x].previous # 0
  BY <1>1, <1>5, <1>6 DEF ExportsSound
<1>12. /\ archives' \subseteq Archives \ {0} /\ bundle'.key <= exports'
       /\ bundle'.state = "none" => bundle'.key = 0
       /\ bundle'.key # 0 => bundle'.key \in archives'
  BY <1>1, <1>2, <1>3, <1>6 DEF ExportsSound, BundleHasBytes
<1>13. QED
  BY <1>3, <1>5, <1>6, <1>8, <1>9, <1>10, <1>11, <1>12
     DEF ExportsSound, Under, Pending, BundleHasBytes

\* An archive that is built, or that is not: an export that fails keeps its turn.
LEMMA TurnsSound ==
    ASSUME ExportsSound, NEW w \in Workers, UNCHANGED <<bundle, exports>>,
           \/ /\ exporter[w].at = "build" /\ Turns(w, "record")
              /\ archives' = archives \cup {exporter[w].key}
           \/ exporter[w].at # "idle" /\ Turns(w, "fail") /\ archives' = archives
    PROVE  ExportsSound'
<1>1. PICK step \in {"record", "fail"} :
        /\ exporter' \in [Workers -> Exporter]
        /\ exporter'[w].at = step /\ exporter'[w].key = exporter[w].key
        /\ exporter'[w].previous = exporter[w].previous
        /\ \A x \in Workers : x # w => exporter'[x] = exporter[x]
        /\ step = "record" => /\ exporter[w].at = "build"
                              /\ archives' = archives \cup {exporter[w].key}
        /\ step = "fail" => archives' = archives
  BY TurnsEffect DEF ExportsSound
<1>2. exporter[w].at # "idle"
  OBVIOUS
<1>3. \A x \in Workers : /\ exporter'[x].key = exporter[x].key
                         /\ exporter'[x].previous = exporter[x].previous
                         /\ exporter'[x].at # "idle" => exporter[x].at # "idle"
                         /\ exporter'[x].at \in {"build", "record"} =>
                                exporter[x].at \in {"build", "record"}
                         /\ exporter'[x].at = "sweep" => exporter[x].at = "sweep"
  BY <1>1, <1>2
<1>4. exporter[w].key \in Archives \ {0}
  <2>1. exporter[w] \in Exporter /\ exporter[w].previous < exporter[w].key
    BY <1>2 DEF ExportsSound, Under
  <2>2. QED
    BY <2>1, PluginAssumption DEF Exporter, Archives
<1>5. archives \subseteq archives' /\ archives' \subseteq Archives \ {0}
  BY <1>1, <1>4 DEF ExportsSound
<1>6. \A x \in Workers : exporter'[x].at = "record" => exporter'[x].key \in archives'
  BY <1>1, <1>3, <1>5 DEF ExportsSound
<1>7. QED
  BY <1>1, <1>3, <1>5, <1>6 DEF ExportsSound, Under, Pending, BundleHasBytes

\* What is recorded is in the store, and no export under way will sweep it.
LEMMA RecordedSound ==
    ASSUME ExportsSound, NEW w \in Workers, exporter[w].at = "record",
           bundle.state # "none",
           bundle' = [bundle EXCEPT !.state = "succeeded", !.key = exporter[w].key],
           UNCHANGED <<archives, exports>>,
           \/ exporter[w].previous # 0 /\ Turns(w, "sweep")
           \/ exporter' = [exporter EXCEPT ![w] = Resting]
    PROVE  ExportsSound'
<1>1. PICK step \in {"sweep", "idle"} :
        /\ exporter' \in [Workers -> Exporter]
        /\ exporter'[w].at = step
        /\ step = "sweep" => /\ exporter'[w].key = exporter[w].key
                             /\ exporter'[w].previous = exporter[w].previous
                             /\ exporter[w].previous # 0
        /\ \A x \in Workers : x # w => exporter'[x] = exporter[x]
  BY TurnsEffect, RestsEffect DEF ExportsSound
<1>2. /\ exporter[w] \in Exporter /\ exporter[w].key \in Archives
      /\ exporter[w].key \in archives /\ exporter[w].key <= exports
      /\ Pending(w) /\ Under(w)
  BY DEF ExportsSound, Exporter, Pending, Under
<1>3. /\ bundle' \in [state : States \cup {"none"}, key : Archives, fresh : BOOLEAN]
      /\ bundle'.key = exporter[w].key /\ bundle'.state = "succeeded"
  BY <1>2 DEF ExportsSound, States
<1>4. \A x \in Workers : Under(x) => exporter[x].previous # exporter[w].key
  BY <1>2 DEF ExportsSound
<1>5. \A x \in Workers : exporter'[x].at # "idle" =>
          /\ exporter[x].at # "idle"
          /\ exporter'[x].key = exporter[x].key /\ exporter'[x].previous = exporter[x].previous
  BY <1>1, <1>2 DEF Under
<1>6. \A x \in Workers : exporter'[x].at \in {"build", "record"} =>
          x # w /\ exporter[x].at \in {"build", "record"} /\ exporter'[x] = exporter[x]
  BY <1>1
<1>7. \A x \in Workers : exporter'[x].at = "sweep" =>
          exporter'[x].previous # bundle'.key /\ exporter'[x].previous # 0
  <2>1. SUFFICES ASSUME NEW x \in Workers, exporter'[x].at = "sweep"
                 PROVE  exporter'[x].previous # bundle'.key /\ exporter'[x].previous # 0
    OBVIOUS
  <2>2. Under(x) /\ exporter'[x].previous = exporter[x].previous
    BY <1>5, <2>1 DEF Under
  <2>3. exporter'[x].previous # 0
    BY <1>1, <2>1 DEF ExportsSound
  <2>4. QED
    BY <1>3, <1>4, <2>2, <2>3
<1>8. ASSUME NEW x \in Workers, exporter'[x].at \in {"build", "record"}
      PROVE  /\ exporter'[x].key # bundle'.key
             /\ \A y \in Workers : exporter'[y].at # "idle" => exporter'[y].previous # exporter'[x].key
  <2>1. x # w /\ Pending(x) /\ Under(x) /\ exporter'[x] = exporter[x]
    BY <1>6, <1>8 DEF Pending, Under
  <2>2. exporter[x].key # exporter[w].key
    BY <1>2, <2>1 DEF ExportsSound
  <2>3. \A y \in Workers : Under(y) => exporter[y].previous # exporter[x].key
    BY <2>1 DEF ExportsSound
  <2>4. QED
    BY <1>3, <1>5, <2>1, <2>2, <2>3 DEF Under
<1>9. \A x \in Workers : exporter'[x].at = "record" => exporter'[x].key \in archives'
  BY <1>6 DEF ExportsSound
<1>10. /\ archives' \subseteq Archives \ {0} /\ exports' \in Archives /\ bundle'.key <= exports'
       /\ bundle'.state # "none" /\ bundle'.key \in archives'
  BY <1>2, <1>3 DEF ExportsSound
<1>11. /\ \A x \in Workers : exporter'[x].at # "idle" =>
             exporter'[x].previous < exporter'[x].key /\ exporter'[x].key <= exports'
       /\ \A x, y \in Workers : exporter'[x].at # "idle" /\ exporter'[y].at # "idle" /\ x # y =>
             exporter'[x].key # exporter'[y].key
  BY <1>5 DEF ExportsSound, Under
<1>12. QED
  BY <1>1, <1>3, <1>7, <1>8, <1>9, <1>10, <1>11 DEF ExportsSound, Under, Pending, BundleHasBytes

\* A bundle row that keeps its archive, or goes, leaves the exports sound.
LEMMA BundleSound ==
    ASSUME ExportsSound, UNCHANGED <<exporter, archives, exports>>,
           bundle' \in [state : States \cup {"none"}, key : Archives, fresh : BOOLEAN],
           \/ bundle'.key = bundle.key /\ (bundle'.state = "none" => bundle.state = "none")
           \/ bundle'.key = 0
    PROVE  ExportsSound'
<1>1. \A x \in Workers : Pending(x) => exporter[x].key # 0
  <2>1. \A x \in Workers : Pending(x) =>
            exporter[x] \in Exporter /\ exporter[x].previous < exporter[x].key
    BY DEF ExportsSound, Pending, Under
  <2>2. QED
    BY <2>1, PluginAssumption DEF Exporter, Archives
<1>2. bundle'.key <= exports' /\ exports \in Nat
  BY PluginAssumption DEF ExportsSound, Archives
<1>3. QED
  BY <1>1, <1>2 DEF ExportsSound, Pending, Under, BundleHasBytes

LEMMA ExportsStep == ASSUME IInv, [Next]_vars PROVE ExportsSound'
<1> USE DEF IInv
<1> DEFINE Bundle == [state : States \cup {"none"}, key : Archives, fresh : BOOLEAN]
<1>0. bundle \in Bundle /\ 0 \in Archives
  BY PluginAssumption DEF ExportsSound, Archives
<1>1. ASSUME NEW w \in Workers, ClaimPluginBundle(w) PROVE ExportsSound'
  BY <1>1, ClaimBundleSound
<1>2. ASSUME NEW w \in Workers, Build(w) PROVE ExportsSound'
  <2>1. exporter[w].at = "build" /\ UNCHANGED <<bundle, exports>>
    BY <1>2 DEF Build, Exporting
  <2>2. QED
    BY <1>2, <2>1, TurnsSound DEF Build
<1>3. ASSUME NEW w \in Workers, RecordBundle(w) PROVE ExportsSound'
  <2>1. exporter[w].at = "record" /\ UNCHANGED <<archives, exports>>
    BY <1>3 DEF RecordBundle, Exporting
  <2>2. CASE UNCHANGED bundle /\ Turns(w, "fail")
    BY <2>1, <2>2, TurnsSound
  <2>3. CASE /\ Records("succeeded", exporter[w].key)
             /\ IF exporter[w].previous # 0 THEN Turns(w, "sweep")
                ELSE exporter' = [exporter EXCEPT ![w] = Resting]
    <3>1. CASE bundle.state # "none"
      BY <2>1, <2>3, <3>1, RecordedSound DEF Records
    <3>2. CASE bundle.state = "none"
      <4>1. bundle' = bundle /\ bundle.key = 0
        BY <2>3, <3>2 DEF Records, ExportsSound
      <4>2. CASE exporter' = [exporter EXCEPT ![w] = Resting]
        BY <1>0, <2>1, <4>1, <4>2, RestsSound
      <4>3. CASE exporter[w].previous # 0 /\ Turns(w, "sweep")
        <5>1. /\ exporter' \in [Workers -> Exporter]
              /\ exporter'[w].at = "sweep" /\ exporter'[w].key = exporter[w].key
              /\ exporter'[w].previous = exporter[w].previous
              /\ \A x \in Workers : x # w => exporter'[x] = exporter[x]
          BY <4>3, TurnsEffect DEF ExportsSound
        <5>2. \A x \in Workers :
                 /\ exporter'[x].key = exporter[x].key
                 /\ exporter'[x].previous = exporter[x].previous
                 /\ exporter'[x].at # "idle" => exporter[x].at # "idle"
                 /\ exporter'[x].at \in {"build", "record"} =>
                       exporter[x].at \in {"build", "record"}
                 /\ exporter'[x].at = "record" => exporter[x].at = "record"
                 /\ exporter'[x].at = "sweep" => exporter[x].at = "sweep" \/ x = w
          BY <2>1, <5>1
        <5>3. QED
          BY <2>1, <4>1, <4>3, <5>1, <5>2 DEF ExportsSound, Under, Pending, BundleHasBytes
      <4>4. QED
        BY <2>3, <4>2, <4>3
    <3>3. QED
      BY <3>1, <3>2
  <2>4. QED
    BY <1>3, <2>2, <2>3 DEF RecordBundle
<1>4. ASSUME NEW w \in Workers, SweepBundle(w) PROVE ExportsSound'
  <2>1. exporter[w].at = "sweep" /\ UNCHANGED <<bundle, exports>>
    BY <1>4 DEF SweepBundle, Exporting
  <2>2. CASE Turns(w, "fail") /\ UNCHANGED archives
    BY <2>1, <2>2, TurnsSound
  <2>3. CASE /\ archives' = archives \ {exporter[w].previous}
             /\ exporter' = [exporter EXCEPT ![w] = Resting]
    BY <1>0, <2>1, <2>3, RestsSound
  <2>4. QED
    BY <1>4, <2>2, <2>3 DEF SweepBundle
<1>5. ASSUME NEW w \in Workers, RecordFailure(w) \/ Crash(w) PROVE ExportsSound'
  <2>1. /\ exporter' = [exporter EXCEPT ![w] = Resting] /\ UNCHANGED <<archives, exports>>
        /\ bundle' = bundle \/ Records("failed", bundle.key)
    BY <1>5 DEF RecordFailure, Crash
  <2>2. bundle' \in Bundle /\ bundle'.key = bundle.key /\ (bundle'.state = "none" => bundle.state = "none")
    BY <1>0, <2>1 DEF Records, States
  <2>3. QED
    BY <2>1, <2>2, RestsSound
<1>6. ASSUME QueuePluginBundle \/ AgeBundle PROVE ExportsSound'
  <2>1. UNCHANGED <<exporter, archives, exports>>
    BY <1>6 DEF QueuePluginBundle, AgeBundle
  <2>2. /\ bundle' \in Bundle /\ bundle'.key = bundle.key
        /\ bundle'.state = "none" => bundle.state = "none"
    BY <1>0, <1>6 DEF QueuePluginBundle, AgeBundle, States
  <2>3. QED
    BY <2>1, <2>2, BundleSound
<1>7. ASSUME NEW c \in Callers, DisablePluginRegistry(c) PROVE ExportsSound'
  <2>1. UNCHANGED <<exporter, archives, exports>> /\ bundle' = NoBundle
    BY <1>7 DEF DisablePluginRegistry
  <2>2. bundle' \in Bundle /\ bundle'.key = 0
    BY <1>0, <2>1 DEF NoBundle
  <2>3. QED
    BY <2>1, <2>2, BundleSound
<1>8. ASSUME UNCHANGED exporting PROVE ExportsSound'
  <2>1. UNCHANGED <<bundle, exporter, archives, exports>>
    BY <1>8 DEF exporting
  <2>2. QED
    BY <1>0, <2>1, BundleSound
<1>9. ASSUME NEW c \in Callers,
             \/ \E r \in Requests : Ask(c, r)
             \/ \E j \in Jobs : CreatePluginImport(c, j)
             \/ \E v \in Versions : DeletePluginVersion(c, v)
             \/ Sweep(c)
      PROVE  ExportsSound'
  <2>1. UNCHANGED exporting
    BY <1>9 DEF Ask, CreatePluginImport, DeletePluginVersion, Sweep
  <2>2. QED
    BY <1>8, <2>1
<1>10. ASSUME NEW w \in Workers,
              \/ ClaimPluginImport(w) \/ WorkStep(w)
              \/ \E v \in Versions, files \in SUBSET Platforms \ {{}} : Upload(w, v, files)
       PROVE  ExportsSound'
  <2>1. UNCHANGED exporting
    BY <1>10 DEF ClaimPluginImport, WorkStep, Check, Admit, Put, InsertVersion, InsertZips,
                 Record, Finish, Upload
  <2>2. QED
    BY <1>8, <2>1
<1>11. CASE (\E j \in Jobs : Clear(j) \/ Age(j)) \/ SetRegistry \/ UNCHANGED vars
  <2>1. UNCHANGED exporting
    BY <1>11 DEF Clear, Age, SetRegistry, vars
  <2>2. QED
    BY <1>8, <2>1
<1>12. QED
  BY <1>1, <1>2, <1>3, <1>4, <1>5, <1>6, <1>7, <1>9, <1>10, <1>11 DEF Next, ExportStep

-----------------------------------------------------------------------------
(* Theorems *)

LEMMA Initially == Init => IInv
<1> SUFFICES ASSUME Init PROVE IInv
  OBVIOUS
<1>1. ImportsSound
  BY IdleSound, PluginAssumption DEF Init, ImportsSound, NoJob, Job
<1>2. RowsSound
  BY DEF Init, RowsSound, OneSource
<1>3. RequestsSound
  BY PluginAssumption DEF Init, RequestsSound
<1>4. ExportsSound
  <2>1. 0 \in Archives /\ NoBundle.key = 0 /\ Resting.at = "idle" /\ Resting \in Exporter
    BY PluginAssumption DEF Archives, NoBundle, Resting, Exporter
  <2>2. NoBundle \in [state : States \cup {"none"}, key : Archives, fresh : BOOLEAN]
    BY <2>1 DEF NoBundle
  <2>3. QED
    BY <2>1, <2>2 DEF Init, ExportsSound, Under, Pending, BundleHasBytes
<1>5. QED
  BY <1>1, <1>2, <1>3, <1>4 DEF IInv

\* The inductive invariant: the plugin's name stays held while a version of it
\* is there, a worker past its claim has a version in hand, and an archive yet
\* to be recorded is none that any export will sweep.
THEOREM Invariance == Spec => []IInv
<1>1. Init => IInv
  BY Initially
<1>2. IInv /\ [Next]_vars => IInv'
  BY ImportsStep, RowsStep, RequestsStep, ExportsStep DEF IInv
<1>3. QED
  BY <1>1, <1>2, PTL DEF Spec

\* The state is what PluginStore says it is.
THEOREM TypeCorrect == Spec => []TypeOK
<1>1. IInv => TypeOK
  BY DEF IInv, ImportsSound, RowsSound, RequestsSound, ExportsSound, TypeOK
<1>2. QED
  BY <1>1, Invariance, PTL

\* The versions of a plugin come from the source that holds its name, though
\* publications admitted for another source are still on their way to their
\* insert (PublishPluginVersion).
THEOREM OneSourceHolds == Spec => []OneSource
<1>1. IInv => OneSource
  BY DEF IInv, RowsSound
<1>2. QED
  BY <1>1, Invariance, PTL

\* The archive offered is in the object store, however many exports run, age,
\* fail and are claimed again (Exporter.export).
THEOREM BundleHasBytesHolds == Spec => []BundleHasBytes
<1>1. IInv => BundleHasBytes
  BY DEF IInv, ExportsSound
<1>2. QED
  BY <1>1, Invariance, PTL
=============================================================================
