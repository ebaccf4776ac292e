-------------------------- MODULE ScanQueue_proofs --------------------------
(***************************************************************************)
(* What the scan queue shows is of the live inventory and never older than    *)
(* before, for any number of builds and workers and every bound on runs,      *)
(* inventories, changes and faults.                                         *)
(***************************************************************************)
EXTENDS ScanQueue, TLAPS

-----------------------------------------------------------------------------
(* The inductive invariant *)

\* A worker past the claim has a build in hand; one past the dispatch has a
\* number that is its own, drawn and with no run yet.
Running(w) == worker[w].at \in {"scan", "record"}

Working ==
    /\ \A w \in Workers : worker[w].at # "idle" => worker[w].build \in Builds
    /\ \A w \in Workers : Running(w) =>
          /\ worker[w].sequence \in Sequences /\ worker[w].sequence < sequence
          /\ runs[worker[w].sequence] = None
    /\ \A w, x \in Workers : Running(w) /\ Running(x) /\ w # x =>
          worker[w].sequence # worker[x].sequence

\* The latest run of a build is one of its runs, and no other of its runs is
\* newer.
Latest(b) ==
    /\ state[b].latest # 0 =>
          runs[state[b].latest] # None /\ runs[state[b].latest].build = b
    /\ \A s \in Sequences : runs[s] # None /\ runs[s].build = b => s <= state[b].latest

LatestSound == \A b \in Builds : Latest(b)

IInv == TypeOK /\ Working /\ LatestSound /\ CurrentOfLiveInventory

-----------------------------------------------------------------------------
(* Numbers and rows *)

LEMMA MaxOfTwo ==
    ASSUME NEW i \in Nat, NEW j \in Nat
    PROVE  Max({i, j}) = IF i <= j THEN j ELSE i
  BY DEF Max


-----------------------------------------------------------------------------
(* Types *)

LEMMA RegistryTypes ==
    ASSUME TypeOK, NEW b \in Builds, RegistryWrite(b)
    PROVE  TypeOK'
<1> USE ScanAssumption DEF TypeOK, Change, RegistryOnly, Exists
<1>1. Enqueued(b) \in [Builds -> {"queued", "claimed", "lapsed", None}]
  BY DEF Enqueued
<1>2. Withdrawn(b) \in [Builds -> [current : 0..MaxRuns, latest : 0..MaxRuns]]
  <2>1. [state[b] EXCEPT !.current = 0] \in [current : 0..MaxRuns, latest : 0..MaxRuns]
    OBVIOUS
  <2>2. QED
    BY <2>1 DEF Withdrawn
<1>3. Exists(b) => builds[b] \in Build
  OBVIOUS
<1>4. CASE FinishBuild(b)
  <2>1. [builds[b] EXCEPT !.done = TRUE, !.complete = TRUE,
                          !.selected = @ \/ ~builds[b].complete] \in Build
    BY <1>3, <1>4 DEF FinishBuild, Build
  <2>2. builds' \in [Builds -> Build \cup {None}]
    BY <1>4, <2>1 DEF FinishBuild
  <2>3. pending' \in [Builds -> {"queued", "claimed", "lapsed", None}]
    BY <1>1, <1>4 DEF FinishBuild
  <2>4. changes' \in 0..MaxChanges
    BY <1>4 DEF FinishBuild
  <2>5. UNCHANGED <<uploads, due, sequence, runs, state, worker, faults>>
    BY <1>4 DEF FinishBuild
  <2>6. QED
    BY <2>2, <2>3, <2>4, <2>5
<1>5. CASE ReopenBuild(b)
  <2>1. [builds[b] EXCEPT !.done = FALSE] \in Build
    BY <1>3, <1>5 DEF ReopenBuild, Build
  <2>2. QED
    BY <1>2, <1>5, <2>1 DEF ReopenBuild
<1>6. CASE AssignVersion(b)
  <2>1. [builds[b] EXCEPT !.selected = TRUE] \in Build
    BY <1>3, <1>6 DEF AssignVersion, Build
  <2>2. QED
    BY <1>1, <1>6, <2>1 DEF AssignVersion
<1>7. CASE ReplaceAssignment(b)
  <2>1. [builds[b] EXCEPT !.selected = FALSE] \in Build
    BY <1>3, <1>7 DEF ReplaceAssignment, Build
  <2>2. QED
    BY <1>7, <2>1 DEF ReplaceAssignment
<1>8. CASE CheckUpload(b)
  BY <1>8 DEF CheckUpload
<1>9. CASE UploadSbom(b)
  <2>1. Exists(b) => \A i \in Inventories : [builds[b] EXCEPT !.inventory = i] \in Build
    BY <1>3 DEF Build
  <2>2. builds' \in [Builds -> Build \cup {None}]
    BY <1>9, <2>1 DEF UploadSbom
  <2>3. QED
    BY <1>2, <1>9, <2>2 DEF UploadSbom
<1>10. CASE DeleteBuild(b)
  <2>1. runs' \in [Sequences -> Run \cup {None}] /\ \A s \in Sequences : runs'[s] # None => s < sequence
    BY <1>10 DEF DeleteBuild
  <2>2. state' \in [Builds -> [current : 0..MaxRuns, latest : 0..MaxRuns]]
    BY <1>10 DEF DeleteBuild, Unscanned
  <2>3. QED
    BY <1>10, <2>1, <2>2 DEF DeleteBuild
<1>11. CASE ManualRescan(b)
  BY <1>1, <1>11 DEF ManualRescan
<1>12. QED
  BY <1>4, <1>5, <1>6, <1>7, <1>8, <1>9, <1>10, <1>11 DEF RegistryWrite

\* What a worker turns into, from the one in hand.
LEMMA WorkerTypes ==
    ASSUME NEW k \in Worker
    PROVE  /\ \A at \in {"idle", "check", "dispatch", "scan", "record", "delete", "release"} :
                 [k EXCEPT !.at = at] \in Worker
           /\ \A i \in Inventories :
                 [k EXCEPT !.at = "dispatch", !.inventory = i] \in Worker
           /\ \A s \in Sequences : [k EXCEPT !.at = "scan", !.sequence = s] \in Worker
           /\ \A ok \in BOOLEAN : [k EXCEPT !.at = "record", !.succeeded = ok] \in Worker
<1>1. Sequences \subseteq 0..MaxRuns
  BY ScanAssumption DEF Sequences
<1>2. QED
  BY <1>1 DEF Worker

LEMMA IdleTypes ==
    /\ Idle \in Worker /\ Idle.at = "idle"
    /\ \A b \in Builds : LET k == [Idle EXCEPT !.at = "check", !.build = b] IN
          k \in Worker /\ k.at = "check" /\ k.build = b
<1>1. 0 \in 0..MaxRuns /\ 0 \in Inventories
  BY ScanAssumption DEF Inventories
<1>2. QED
  BY <1>1 DEF Idle, Worker

\* A worker that is recording has a number of its own and a build.
LEMMA RecordedRun ==
    ASSUME TypeOK, Working, NEW w \in Workers, worker[w].at = "record", Exists(worker[w].build)
    PROVE  /\ worker[w].build \in Builds
           /\ worker[w].sequence \in Sequences /\ worker[w].sequence < sequence
           /\ Recorded(w) \in Run /\ Recorded(w).build = worker[w].build
           /\ Recorded(w).inventory = worker[w].inventory
           /\ Recorded(w).succeeded =>
                 /\ builds[worker[w].build].done
                 /\ builds[worker[w].build].inventory = worker[w].inventory
<1>1. worker[w] \in Worker /\ worker[w].build \in Builds
  BY DEF TypeOK, Working
<1>2. builds[worker[w].build] \in Build
  BY <1>1 DEF TypeOK, Exists
<1>3. Refused(w) \in BOOLEAN /\ worker[w].succeeded \in BOOLEAN
  BY <1>1, <1>2 DEF Refused, Build, Worker
<1>4. Recorded(w) \in Run
  BY <1>1, <1>3 DEF Recorded, Run, Worker
<1>5. Recorded(w).succeeded => ~ Refused(w)
  BY DEF Recorded
<1>6. QED
  BY <1>1, <1>2, <1>4, <1>5 DEF Working, Running, Recorded, Refused, Build

LEMMA AdvancedState ==
    ASSUME TypeOK, Working, NEW w \in Workers, worker[w].at = "record", Exists(worker[w].build)
    PROVE  /\ Advanced(w) \in [current : 0..MaxRuns, latest : 0..MaxRuns]
           /\ Advanced(w).current \in {state[worker[w].build].current, worker[w].sequence}
           /\ Advanced(w).current >= state[worker[w].build].current
           /\ Advanced(w).current # state[worker[w].build].current => Recorded(w).succeeded
           /\ Advanced(w).latest \in {state[worker[w].build].latest, worker[w].sequence}
           /\ Advanced(w).latest >= state[worker[w].build].latest
           /\ Advanced(w).latest >= worker[w].sequence
<1> DEFINE was == state[worker[w].build]  s == worker[w].sequence
<1>1. s \in 1..MaxRuns /\ was.current \in 0..MaxRuns /\ was.latest \in 0..MaxRuns
  BY RecordedRun DEF TypeOK, Sequences
<1>2. /\ Max({was.current, s}) = IF was.current <= s THEN s ELSE was.current
      /\ Max({was.latest, s}) = IF was.latest <= s THEN s ELSE was.latest
  BY <1>1, MaxOfTwo, ScanAssumption
<1>3. /\ Advanced(w) = [current |-> IF Recorded(w).succeeded THEN Max({was.current, s}) ELSE was.current,
                        latest |-> Max({was.latest, s})]
  BY DEF Advanced
<1> HIDE DEF was, s
<1>4. QED
  BY <1>1, <1>2, <1>3, ScanAssumption DEF was, s

\* Only the worker that takes the step changes.
LEMMA GoesEffect ==
    ASSUME worker \in [Workers -> Worker], NEW w \in Workers, NEW k \in Worker, Goes(w, k)
    PROVE  /\ worker' \in [Workers -> Worker] /\ worker'[w] = k
           /\ \A x \in Workers \ {w} : worker'[x] = worker[x]
  BY DEF Goes

LEMMA WorkTypes ==
    ASSUME TypeOK, Working, NEW w \in Workers,
           Work(w) \/ Fail(w) \/ Crash(w) \/ \E b \in Builds : Claim(w, b)
    PROVE  TypeOK'
<1> USE ScanAssumption DEF TypeOK, WorkerOnly
<1>1. worker[w] \in Worker /\ worker[w].build \in Builds \cup {None}
  BY DEF Worker
<1>2. CASE \E b \in Builds : Claim(w, b)
  <2>1. PICK b \in Builds : Claim(w, b)
    BY <1>2
  <2>2. worker' \in [Workers -> Worker]
    BY <2>1, IdleTypes, GoesEffect DEF Claim
  <2>3. pending' \in [Builds -> {"queued", "claimed", "lapsed", None}]
    BY <2>1 DEF Claim
  <2>4. QED
    BY <2>1, <2>2, <2>3 DEF Claim, results, registry
<1>3. CASE Check(w)
  <2>1. worker[w].build \in Builds
    BY <1>3 DEF Check, Working
  <2>2. Eligible(worker[w].build) => builds[worker[w].build].inventory \in Inventories
    BY <2>1 DEF Eligible, Exists, Build
  <2>3. worker' \in [Workers -> Worker]
    <3>1. CASE Eligible(worker[w].build)
      <4> DEFINE i == builds[worker[w].build].inventory
                 k == [worker[w] EXCEPT !.at = "dispatch", !.inventory = i]
      <4>1. i \in Inventories
        BY <2>2, <3>1
      <4>2. Goes(w, k)
        BY <1>3, <3>1 DEF Check
      <4>3. k \in Worker
        BY <1>1, <4>1, WorkerTypes
      <4> HIDE DEF i, k
      <4>4. QED
        BY <4>2, <4>3, GoesEffect
    <3>2. CASE ~ Eligible(worker[w].build)
      <4>1. Goes(w, [worker[w] EXCEPT !.at = "delete"])
        BY <1>3, <3>2 DEF Check, Step
      <4>2. QED
        BY <1>1, <4>1, WorkerTypes, GoesEffect
    <3>3. QED
      BY <3>1, <3>2
  <2>4. QED
    BY <1>3, <2>3 DEF Check, results, registry
<1>4. CASE Dispatch(w)
  <2>1. sequence \in Sequences
    BY <1>4 DEF Dispatch, Sequences
  <2>2. worker' \in [Workers -> Worker]
    <3> DEFINE k == [worker[w] EXCEPT !.at = "scan", !.sequence = sequence]
    <3>1. Goes(w, k)
      BY <1>4 DEF Dispatch, AllocatedSequence
    <3>2. k \in Worker
      BY <1>1, <2>1, WorkerTypes
    <3> HIDE DEF k
    <3>3. QED
      BY <3>1, <3>2, GoesEffect
  <2>3. sequence' \in 1..MaxRuns + 1 /\ \A s \in Sequences : runs'[s] # None => s < sequence'
    BY <1>4 DEF Dispatch, Sequences
  <2>4. QED
    BY <1>4, <2>2, <2>3 DEF Dispatch, registry
<1>5. CASE Scan(w)
  <2>1. worker' \in [Workers -> Worker]
    BY <1>1, <1>5, WorkerTypes, GoesEffect DEF Scan
  <2>2. QED
    BY <1>5, <2>1 DEF Scan, results, registry
<1>6. CASE RecordScanRun(w)
  <2>1. worker' \in [Workers -> Worker]
    BY <1>1, <1>6, WorkerTypes, GoesEffect DEF RecordScanRun, Step
  <2>2. UNCHANGED <<pending, sequence, registry, due, faults>>
    BY <1>6 DEF RecordScanRun
  <2>3. CASE UNCHANGED <<runs, state>>
    BY <2>1, <2>2, <2>3 DEF registry
  <2>4. CASE Exists(worker[w].build) /\ ~ UNCHANGED <<runs, state>>
    <3>1. Recorded(w) \in Run /\ worker[w].sequence \in Sequences /\ worker[w].sequence < sequence
      BY <1>6, <2>4, RecordedRun DEF RecordScanRun
    <3>2. Advanced(w) \in [current : 0..MaxRuns, latest : 0..MaxRuns]
      BY <1>6, <2>4, AdvancedState DEF RecordScanRun
    <3>3. runs' = [runs EXCEPT ![worker[w].sequence] = Recorded(w)]
      BY <1>6, <2>4 DEF RecordScanRun
    <3>4. state' = [state EXCEPT ![worker[w].build] = Advanced(w)]
      BY <1>6, <2>4 DEF RecordScanRun
    <3>5. runs' \in [Sequences -> Run \cup {None}] /\ \A s \in Sequences : runs'[s] # None => s < sequence
      BY <3>1, <3>3
    <3>6. state' \in [Builds -> [current : 0..MaxRuns, latest : 0..MaxRuns]]
      BY <3>2, <3>4
    <3>7. QED
      BY <2>1, <2>2, <3>5, <3>6 DEF registry
  <2>5. QED
    BY <1>6, <2>3, <2>4 DEF RecordScanRun
<1>7. CASE DeletePendingScan(w) \/ ReleasePendingScan(w)
  <2>1. worker' \in [Workers -> Worker]
    BY <1>7, IdleTypes, GoesEffect DEF DeletePendingScan, ReleasePendingScan
  <2>2. pending' \in [Builds -> {"queued", "claimed", "lapsed", None}]
    BY <1>7 DEF DeletePendingScan, ReleasePendingScan
  <2>3. QED
    BY <1>7, <2>1, <2>2 DEF DeletePendingScan, ReleasePendingScan, results, registry
<1>8. CASE Fail(w) \/ Crash(w)
  <2>1. worker' \in [Workers -> Worker]
    BY <1>1, <1>8, WorkerTypes, IdleTypes, GoesEffect DEF Fail, Crash, Step
  <2>2. faults' \in 0..MaxFaults
    BY <1>8 DEF Fail, Crash
  <2>3. QED
    BY <1>8, <2>1, <2>2 DEF Fail, Crash, results, registry
<1>9. QED
  BY <1>2, <1>3, <1>4, <1>5, <1>6, <1>7, <1>8 DEF Work

LEMMA OtherTypes ==
    ASSUME TypeOK, ListDue \/ (\E b \in Builds : EnqueueDue(b) \/ Lapse(b))
                           \/ \E s \in Sequences : Purge(s)
    PROVE  TypeOK'
<1> USE ScanAssumption DEF TypeOK
<1>1. CASE ListDue
  BY <1>1 DEF ListDue, Change, results
<1>2. CASE \E b \in Builds : EnqueueDue(b)
  BY <1>2 DEF EnqueueDue, Enqueued, registry, results
<1>3. CASE \E b \in Builds : Lapse(b)
  BY <1>3 DEF Lapse, WorkerOnly, registry, results
<1>4. CASE \E s \in Sequences : Purge(s)
  BY <1>4 DEF Purge, registry
<1>5. QED
  BY <1>1, <1>2, <1>3, <1>4

-----------------------------------------------------------------------------
(* The workers *)

\* Runs go, numbers and workers stay.
Fewer ==
    /\ UNCHANGED <<sequence, worker>>
    /\ \A s \in Sequences : runs'[s] \in {runs[s], None}

LEMMA RegistryFewer ==
    ASSUME TypeOK, NEW b \in Builds, RegistryWrite(b)
    PROVE  Fewer
<1>1. UNCHANGED <<sequence, worker>>
  BY DEF RegistryWrite, FinishBuild, ReopenBuild, AssignVersion, ReplaceAssignment,
         CheckUpload, UploadSbom, DeleteBuild, ManualRescan, RegistryOnly
<1>2. CASE DeleteBuild(b)
  BY <1>1, <1>2 DEF DeleteBuild, Fewer
<1>3. CASE ~ DeleteBuild(b)
  <2>1. UNCHANGED runs
    BY <1>3 DEF RegistryWrite, FinishBuild, ReopenBuild, AssignVersion, ReplaceAssignment,
                CheckUpload, UploadSbom, ManualRescan
  <2>2. QED
    BY <1>1, <2>1 DEF Fewer
<1>4. QED
  BY <1>2, <1>3

LEMMA OtherFewer ==
    ASSUME TypeOK, ListDue \/ (\E b \in Builds : EnqueueDue(b) \/ Lapse(b))
                           \/ \E s \in Sequences : Purge(s)
    PROVE  Fewer
<1>1. CASE ListDue
  BY <1>1 DEF ListDue, results, Fewer
<1>2. CASE \E b \in Builds : EnqueueDue(b) \/ Lapse(b)
  BY <1>2 DEF EnqueueDue, Lapse, results, Fewer
<1>3. CASE \E s \in Sequences : Purge(s)
  BY <1>3 DEF Purge, Fewer, TypeOK
<1>4. QED
  BY <1>1, <1>2, <1>3

LEMMA FewerWorking ==
    ASSUME TypeOK, Working, Fewer
    PROVE  Working'
  BY DEF Fewer, Working, Running

\* A worker that ends up with no number in use, or with the one it had.
LEMMA PlainWorking ==
    ASSUME TypeOK, Working, NEW w \in Workers, NEW k \in Worker, Goes(w, k),
           k.at # "idle" => k.build \in Builds,
           k.at \in {"scan", "record"} => Running(w) /\ k.sequence = worker[w].sequence,
           UNCHANGED <<sequence, runs>>
    PROVE  Working'
<1>1. /\ worker'[w] = k
      /\ \A x \in Workers \ {w} : worker'[x] = worker[x]
  BY GoesEffect DEF TypeOK
<1>2. \A x \in Workers : Running(x)' => Running(x) /\ worker'[x].sequence = worker[x].sequence
  BY <1>1 DEF Running
<1>3. \A x \in Workers : worker'[x].at # "idle" => worker'[x].build \in Builds
  BY <1>1 DEF Working
<1>4. QED
  BY <1>2, <1>3 DEF Working

LEMMA WorkWorking ==
    ASSUME TypeOK, Working, NEW w \in Workers,
           Work(w) \/ Fail(w) \/ Crash(w) \/ \E b \in Builds : Claim(w, b)
    PROVE  Working'
<1>1. worker[w] \in Worker /\ (worker[w].at # "idle" => worker[w].build \in Builds)
  BY DEF TypeOK, Working
<1>2. \A at \in {"check", "dispatch", "delete", "release"} :
        LET k == [worker[w] EXCEPT !.at = at]
        IN  k \in Worker /\ k.at = at /\ k.build = worker[w].build
  <2>1. \A at \in {"check", "dispatch", "delete", "release"} :
           [worker[w] EXCEPT !.at = at] \in Worker
    BY <1>1, WorkerTypes
  <2>2. \A at \in {"check", "dispatch", "delete", "release"} :
           LET k == [worker[w] EXCEPT !.at = at] IN k.at = at /\ k.build = worker[w].build
    BY <1>1 DEF Worker
  <2>3. QED
    BY <2>1, <2>2
<1>3. CASE \E b \in Builds : Claim(w, b)
  BY <1>3, IdleTypes, PlainWorking DEF Claim, results
<1>4. CASE Check(w)
  <2>1. worker[w].build \in Builds /\ UNCHANGED <<sequence, runs>>
    BY <1>1, <1>4 DEF Check, results
  <2>2. CASE Eligible(worker[w].build)
    <3> DEFINE i == builds[worker[w].build].inventory
               k == [worker[w] EXCEPT !.at = "dispatch", !.inventory = i]
    <3>1. i \in Inventories
      BY <2>1, <2>2 DEF Eligible, Exists, Build, TypeOK
    <3>2. Goes(w, k)
      BY <1>4, <2>2 DEF Check
    <3>3. k \in Worker
      BY <1>1, <3>1, WorkerTypes
    <3>4. k.at = "dispatch" /\ k.build = worker[w].build
      BY <1>1 DEF Worker
    <3> HIDE DEF i, k
    <3>5. QED
      BY <2>1, <3>2, <3>3, <3>4, PlainWorking
  <2>3. CASE ~ Eligible(worker[w].build)
    <3>1. Goes(w, [worker[w] EXCEPT !.at = "delete"])
      BY <1>4, <2>3 DEF Check, Step
    <3>2. QED
      BY <1>2, <2>1, <3>1, PlainWorking
  <2>4. QED
    BY <2>2, <2>3
<1>5. CASE Dispatch(w)
  <2> DEFINE k == [worker[w] EXCEPT !.at = "scan", !.sequence = sequence]
  <2>1. sequence \in Sequences /\ sequence' = sequence + 1 /\ UNCHANGED runs
    BY <1>5 DEF Dispatch, Sequences, TypeOK
  <2>2. k \in Worker /\ k.at = "scan" /\ k.build = worker[w].build /\ k.sequence = sequence
    <3>1. k \in Worker
      BY <1>1, <2>1, WorkerTypes
    <3>2. k.at = "scan" /\ k.build = worker[w].build /\ k.sequence = sequence
      BY <1>1 DEF Worker
    <3>3. QED
      BY <3>1, <3>2
  <2>3. Goes(w, k) /\ worker[w].build \in Builds
    BY <1>1, <1>5 DEF Dispatch, AllocatedSequence
  <2> HIDE DEF k
  <2>4. /\ worker'[w] = k
        /\ \A x \in Workers \ {w} : worker'[x] = worker[x]
    BY <2>2, <2>3, GoesEffect DEF TypeOK
  <2>5. runs[sequence] = None
    BY <2>1 DEF TypeOK, Sequences
  <2>6. \A x \in Workers : worker'[x].at # "idle" => worker'[x].build \in Builds
    BY <2>2, <2>3, <2>4 DEF Working
  <2>7. \A x \in Workers \ {w} : Running(x)' =>
          /\ Running(x) /\ worker'[x].sequence = worker[x].sequence
          /\ worker[x].sequence \in Sequences /\ worker[x].sequence < sequence
          /\ runs[worker[x].sequence] = None
    BY <2>4 DEF Working, Running
  <2>8. sequence \in Nat /\ \A x \in Workers \ {w} : Running(x)' =>
          worker'[x].sequence \in Nat /\ worker'[x].sequence < sequence
    BY <2>1, <2>7 DEF Sequences
  <2>9. \A x \in Workers : Running(x)' =>
          /\ worker'[x].sequence \in Sequences /\ worker'[x].sequence < sequence'
          /\ runs'[worker'[x].sequence] = None
    BY <2>1, <2>2, <2>4, <2>5, <2>7, <2>8
  <2>10. \A x, y \in Workers : Running(x)' /\ Running(y)' /\ x # y =>
           worker'[x].sequence # worker'[y].sequence
    BY <2>2, <2>4, <2>7, <2>8 DEF Working
  <2>11. QED
    BY <2>6, <2>9, <2>10 DEF Working
<1>6. CASE Scan(w)
  <2>1. PICK ok \in BOOLEAN : Goes(w, [worker[w] EXCEPT !.at = "record", !.succeeded = ok])
    BY <1>6 DEF Scan
  <2> DEFINE k == [worker[w] EXCEPT !.at = "record", !.succeeded = ok]
  <2>2. k \in Worker /\ k.build = worker[w].build /\ k.sequence = worker[w].sequence
    <3>1. k \in Worker
      BY <1>1, WorkerTypes
    <3>2. k.build = worker[w].build /\ k.sequence = worker[w].sequence
      BY <1>1 DEF Worker
    <3>3. QED
      BY <3>1, <3>2
  <2>3. Running(w) /\ worker[w].build \in Builds /\ UNCHANGED <<sequence, runs>>
    BY <1>1, <1>6 DEF Scan, Running, results
  <2>4. Goes(w, k)
    BY <2>1
  <2> HIDE DEF k
  <2>5. QED
    BY <2>2, <2>3, <2>4, PlainWorking
<1>7. CASE RecordScanRun(w)
  <2>1. /\ worker'[w] = [worker[w] EXCEPT !.at = "delete"]
        /\ \A x \in Workers \ {w} : worker'[x] = worker[x]
        /\ UNCHANGED sequence
    BY <1>1, <1>2, <1>7, GoesEffect DEF RecordScanRun, Step, TypeOK
  <2>2. worker'[w].at = "delete" /\ worker'[w].build = worker[w].build
    BY <1>1, <2>1 DEF Worker
  <2>3. worker[w].sequence \in Sequences /\ Running(w) /\ worker[w].build \in Builds
    BY <1>1, <1>7 DEF RecordScanRun, Running, Working
  <2>4. \A s \in Sequences \ {worker[w].sequence} : runs'[s] = runs[s]
    BY <1>7, <2>3 DEF RecordScanRun, TypeOK
  <2>5. \A x \in Workers : worker'[x].at # "idle" => worker'[x].build \in Builds
    BY <2>1, <2>2, <2>3 DEF Working
  <2>6. \A x \in Workers : Running(x)' =>
          /\ Running(x) /\ worker'[x].sequence = worker[x].sequence
          /\ worker[x].sequence \in Sequences \ {worker[w].sequence}
    BY <2>1, <2>2, <2>3 DEF Running, Working
  <2>7. QED
    BY <2>1, <2>4, <2>5, <2>6 DEF Working
<1>8. CASE DeletePendingScan(w) \/ ReleasePendingScan(w)
  BY <1>8, IdleTypes, PlainWorking DEF DeletePendingScan, ReleasePendingScan, results
<1>9. CASE Fail(w)
  BY <1>1, <1>2, <1>9, PlainWorking DEF Fail, Step, results
<1>10. CASE Crash(w)
  BY <1>10, IdleTypes, PlainWorking DEF Crash, results
<1>11. QED
  BY <1>3, <1>4, <1>5, <1>6, <1>7, <1>8, <1>9, <1>10 DEF Work

-----------------------------------------------------------------------------
(* The pointers *)

\* Neither the runs nor the pointers nor the builds change.
Shown == <<runs, state, builds>>

LEMMA LatestStays ==
    ASSUME LatestSound, CurrentOfLiveInventory, UNCHANGED Shown
    PROVE  LatestSound' /\ CurrentOfLiveInventory'
<1>1. UNCHANGED <<runs, state, builds>>
  BY DEF Shown
<1>2. LatestSound'
  BY <1>1 DEF LatestSound, Latest
<1>3. CurrentOfLiveInventory'
  BY <1>1 DEF CurrentOfLiveInventory, Exists
<1>4. QED
  BY <1>2, <1>3

\* A registry write leaves the latest run of every build or takes the build's
\* runs along with it.
LEMMA RegistryLatest ==
    ASSUME TypeOK, LatestSound, NEW b \in Builds, RegistryWrite(b)
    PROVE  LatestSound'
<1>1. CASE DeleteBuild(b)
  <2>1. ASSUME NEW a \in Builds, a # b PROVE Latest(a)'
    <3>1. state'[a] = state[a]
      BY <1>1, <2>1 DEF DeleteBuild, TypeOK
    <3>2. \A s \in Sequences : runs[s] # None /\ runs[s].build = a => runs'[s] = runs[s]
      BY <1>1, <2>1 DEF DeleteBuild
    <3>3. \A s \in Sequences : runs'[s] # None => runs'[s] = runs[s]
      BY <1>1 DEF DeleteBuild
    <3>4. state[a].latest # 0 => state[a].latest \in Sequences
      BY DEF TypeOK, Sequences
    <3>5. QED
      BY <3>1, <3>2, <3>3, <3>4 DEF LatestSound, Latest
  <2>2. Latest(b)'
    <3>1. state'[b] = Unscanned /\ Unscanned.latest = 0
      BY <1>1 DEF DeleteBuild, Unscanned, TypeOK
    <3>2. \A s \in Sequences : runs'[s] = None \/ runs'[s].build # b
      BY <1>1 DEF DeleteBuild
    <3>3. QED
      BY <3>1, <3>2 DEF Latest
  <2>3. QED
    BY <2>1, <2>2 DEF LatestSound
<1>2. CASE ~ DeleteBuild(b)
  <2>1. UNCHANGED runs
    BY <1>2 DEF RegistryWrite, FinishBuild, ReopenBuild, AssignVersion, ReplaceAssignment,
                CheckUpload, UploadSbom, ManualRescan
  <2>2. state' = state \/ state' = Withdrawn(b)
    BY <1>2 DEF RegistryWrite, FinishBuild, ReopenBuild, AssignVersion, ReplaceAssignment,
                CheckUpload, UploadSbom, ManualRescan
  <2>3. \A a \in Builds : state'[a].latest = state[a].latest
    BY <2>2 DEF Withdrawn, TypeOK
  <2>4. QED
    BY <2>1, <2>3 DEF LatestSound, Latest
<1>3. QED
  BY <1>1, <1>2

\* A registry write withdraws what a build shows when it changes what that
\* speaks of.
LEMMA RegistryCurrent ==
    ASSUME TypeOK, CurrentOfLiveInventory, NEW b \in Builds, RegistryWrite(b)
    PROVE  CurrentOfLiveInventory'
<1> DEFINE Kept(a) == /\ state'[a].current = state[a].current
                      /\ \A s \in Sequences : runs[s] # None /\ runs[s].build = a => runs'[s] = runs[s]
<1>1. \A a \in Builds : a # b => Kept(a) /\ builds'[a] = builds[a]
  <2> SUFFICES ASSUME NEW a \in Builds, a # b PROVE Kept(a) /\ builds'[a] = builds[a]
    OBVIOUS
  <2>1. CASE DeleteBuild(b)
    BY <2>1 DEF DeleteBuild, TypeOK
  <2>2. CASE ~ DeleteBuild(b)
    <3>1. UNCHANGED runs /\ (state' = state \/ state' = Withdrawn(b))
      BY <2>2 DEF RegistryWrite, FinishBuild, ReopenBuild, AssignVersion, ReplaceAssignment,
                  CheckUpload, UploadSbom, ManualRescan
    <3>2. builds'[a] = builds[a]
      BY <2>2 DEF RegistryWrite, FinishBuild, ReopenBuild, AssignVersion, ReplaceAssignment,
                  CheckUpload, UploadSbom, ManualRescan, TypeOK
    <3>3. QED
      BY <3>1, <3>2 DEF Withdrawn, TypeOK
  <2>3. QED
    BY <2>1, <2>2
<1>2. state'[b].current # 0 =>
         /\ Kept(b) /\ Exists(b)' /\ builds'[b].done = builds[b].done
         /\ builds'[b].inventory = builds[b].inventory
  <2>1. CASE DeleteBuild(b) \/ ReopenBuild(b)
    BY <2>1 DEF DeleteBuild, ReopenBuild, Withdrawn, Unscanned, TypeOK
  <2>2. CASE FinishBuild(b)
    BY <2>2 DEF FinishBuild, CurrentOfLiveInventory
  <2>3. CASE UploadSbom(b)
    <3>1. CASE Exists(b)
      BY <2>3, <3>1 DEF UploadSbom, Withdrawn, TypeOK
    <3>2. CASE ~ Exists(b)
      BY <2>3, <3>2 DEF UploadSbom, CurrentOfLiveInventory
    <3>3. QED
      BY <3>1, <3>2
  <2>4. CASE AssignVersion(b) \/ ReplaceAssignment(b)
    <3>1. UNCHANGED <<runs, state>> /\ builds[b] \in Build
      BY <2>4 DEF AssignVersion, ReplaceAssignment, Exists, TypeOK
    <3>2. \A x \in BOOLEAN : LET k == [builds[b] EXCEPT !.selected = x] IN
             k \in Build /\ k.done = builds[b].done /\ k.inventory = builds[b].inventory
      BY <3>1 DEF Build
    <3>3. \E x \in BOOLEAN : builds'[b] = [builds[b] EXCEPT !.selected = x]
      BY <2>4 DEF AssignVersion, ReplaceAssignment, TypeOK
    <3>4. QED
      BY <3>1, <3>2, <3>3, NoRowAssumption DEF Exists
  <2>5. CASE CheckUpload(b) \/ ManualRescan(b)
    BY <2>5 DEF CheckUpload, ManualRescan, CurrentOfLiveInventory, Exists
  <2>6. QED
    BY <2>1, <2>2, <2>3, <2>4, <2>5 DEF RegistryWrite
<1>3. \A a \in Builds : state[a].current # 0 => state[a].current \in Sequences
  BY DEF TypeOK, Sequences
<1>4. ASSUME NEW a \in Builds, state'[a].current # 0
      PROVE  /\ Kept(a) /\ Exists(a)' /\ builds'[a].done
             /\ builds'[a].inventory = builds[a].inventory
  BY <1>1, <1>2, <1>4 DEF CurrentOfLiveInventory, Exists
<1>5. QED
  BY <1>3, <1>4 DEF CurrentOfLiveInventory

\* Retention spares the latest run and the current one.
LEMMA PurgeShown ==
    ASSUME TypeOK, LatestSound, CurrentOfLiveInventory, NEW s \in Sequences, Purge(s)
    PROVE  LatestSound' /\ CurrentOfLiveInventory'
<1>1. /\ UNCHANGED <<state, builds>>
      /\ \A r \in Sequences : runs'[r] = IF r = s THEN None ELSE runs[r]
      /\ \A b \in Builds : state[b].current # s /\ state[b].latest # s
  BY DEF Purge, Purgeable, registry, TypeOK
<1>2. \A b \in Builds : /\ state[b].current # 0 => state[b].current \in Sequences
                        /\ state[b].latest # 0 => state[b].latest \in Sequences
  BY DEF TypeOK, Sequences
<1>3. LatestSound'
  BY <1>1, <1>2 DEF LatestSound, Latest
<1>4. CurrentOfLiveInventory'
  BY <1>1, <1>2 DEF CurrentOfLiveInventory, Exists
<1>5. QED
  BY <1>3, <1>4

\* A recorded run becomes the latest and the current one only when it is the
\* newest, and the current one only of what the build has now.
LEMMA RecordShown ==
    ASSUME TypeOK, Working, LatestSound, CurrentOfLiveInventory,
           NEW w \in Workers, RecordScanRun(w)
    PROVE  LatestSound' /\ CurrentOfLiveInventory'
<1>1. UNCHANGED builds /\ worker[w].at = "record"
  BY DEF RecordScanRun, WorkerOnly, registry
<1>2. CASE UNCHANGED <<runs, state>>
  BY <1>1, <1>2, LatestStays DEF Shown
<1>3. CASE ~ UNCHANGED <<runs, state>>
  <2> DEFINE b == worker[w].build  s == worker[w].sequence
  <2>1. Exists(b) /\ runs' = [runs EXCEPT ![s] = Recorded(w)] /\ state' = [state EXCEPT ![b] = Advanced(w)]
    BY <1>3 DEF RecordScanRun
  <2>2. /\ b \in Builds /\ s \in Sequences /\ runs[s] = None
        /\ Recorded(w) # None /\ Recorded(w).build = b
        /\ Recorded(w).inventory = worker[w].inventory
        /\ Recorded(w).succeeded =>
              builds[b].done /\ builds[b].inventory = worker[w].inventory
    BY <1>1, <2>1, RecordedRun, NoRowAssumption DEF Working, Running
  <2>3. /\ runs'[s] = Recorded(w) /\ \A r \in Sequences \ {s} : runs'[r] = runs[r]
        /\ state'[b] = Advanced(w) /\ \A a \in Builds \ {b} : state'[a] = state[a]
    BY <2>1, <2>2 DEF TypeOK
  <2>4. /\ Advanced(w).current \in {state[b].current, s}
        /\ Advanced(w).current # state[b].current => Recorded(w).succeeded
        /\ Advanced(w).latest \in {state[b].latest, s}
        /\ Advanced(w).latest >= state[b].latest
        /\ Advanced(w).latest >= s
    BY <1>1, <2>1, AdvancedState
  <2>5. s \in Nat /\ \A a \in Builds :
           /\ state[a].current # 0 => state[a].current \in Sequences
           /\ state[a].latest # 0 => state[a].latest \in Sequences
           /\ state[a].latest \in Nat /\ Advanced(w).latest \in Nat
    BY <2>2, <2>4 DEF TypeOK, Sequences
  <2> HIDE DEF b, s
  <2>6. \A a \in Builds : state[a].latest # s /\ state[a].current # s
    BY <2>2, <2>5 DEF LatestSound, Latest, CurrentOfLiveInventory, Sequences
  <2>7. ASSUME NEW a \in Builds PROVE Latest(a)'
    <3>1. CASE a # b
      BY <2>2, <2>3, <2>5, <2>6, <3>1 DEF LatestSound, Latest
    <3>2. CASE a = b
      <4>1. state'[b].latest # 0 => runs'[state'[b].latest] # None /\ runs'[state'[b].latest].build = b
        BY <2>2, <2>3, <2>4, <2>5, <2>6 DEF LatestSound, Latest
      <4>2. \A r \in Sequences \ {s} : runs'[r] # None /\ runs'[r].build = b => r <= state[b].latest
        BY <2>2, <2>3 DEF LatestSound, Latest
      <4>3. \A r \in Sequences : runs'[r] # None /\ runs'[r].build = b => r <= state'[b].latest
        BY <2>2, <2>3, <2>4, <2>5, <4>2 DEF Sequences
      <4>4. QED
        BY <3>2, <4>1, <4>3 DEF Latest
    <3>3. QED
      BY <3>1, <3>2
  <2>8. CurrentOfLiveInventory'
    <3>1. ASSUME NEW a \in Builds, state'[a].current # 0, state'[a].current = state[a].current
          PROVE  /\ Exists(a) /\ builds[a].done
                 /\ runs'[state'[a].current] = runs[state[a].current]
      BY <2>3, <2>5, <2>6, <3>1 DEF CurrentOfLiveInventory
    <3>2. \A a \in Builds : state'[a].current # state[a].current =>
             a = b /\ state'[b].current = s /\ Recorded(w).succeeded
      BY <2>3, <2>4
    <3>3. QED
      BY <1>1, <2>1, <2>2, <2>3, <3>1, <3>2 DEF CurrentOfLiveInventory, Exists
  <2>9. QED
    BY <2>7, <2>8 DEF LatestSound
<1>4. QED
  BY <1>2, <1>3

-----------------------------------------------------------------------------
(* Theorems *)

LEMMA InitIInv == Init => IInv
<1> SUFFICES ASSUME Init PROVE IInv
  OBVIOUS
<1>1. 0 \in Inventories /\ 0 \in 0..MaxRuns /\ 1 \in 1..MaxRuns + 1
  BY ScanAssumption DEF Inventories
<1>2. \A b \in Builds : state[b].current = 0 /\ state[b].latest = 0
  BY DEF Init, Unscanned
<1>3. TypeOK
  <2>1. builds \in [Builds -> Build \cup {None}] /\ uploads \subseteq Builds /\ due \subseteq Builds
    BY <1>1 DEF Init, Build
  <2>2. runs \in [Sequences -> Run \cup {None}] /\ \A s \in Sequences : runs[s] = None
    BY DEF Init
  <2>3. state \in [Builds -> [current : 0..MaxRuns, latest : 0..MaxRuns]]
    BY <1>1 DEF Init, Unscanned
  <2>4. worker \in [Workers -> Worker] /\ sequence \in 1..MaxRuns + 1
    BY <1>1, IdleTypes DEF Init
  <2>5. pending \in [Builds -> {"queued", "claimed", "lapsed", None}]
    BY DEF Init
  <2>6. changes \in 0..MaxChanges /\ faults \in 0..MaxFaults
    BY ScanAssumption DEF Init
  <2>7. QED
    BY <2>1, <2>2, <2>3, <2>4, <2>5, <2>6 DEF TypeOK
<1>4. Working
  BY IdleTypes DEF Init, Working, Running
<1>5. LatestSound /\ CurrentOfLiveInventory
  BY <1>2 DEF Init, LatestSound, Latest, CurrentOfLiveInventory
<1>6. QED
  BY <1>3, <1>4, <1>5 DEF IInv

LEMMA NextIInv == IInv /\ [Next]_vars => IInv'
<1> SUFFICES ASSUME IInv, [Next]_vars PROVE IInv'
  OBVIOUS
<1>1. TypeOK /\ Working /\ LatestSound /\ CurrentOfLiveInventory
  BY DEF IInv
<1>2. ASSUME NEW b \in Builds, RegistryWrite(b) PROVE IInv'
  BY <1>1, <1>2, RegistryTypes, RegistryFewer, FewerWorking, RegistryLatest, RegistryCurrent DEF IInv
<1>3. ASSUME ListDue \/ \E b \in Builds : EnqueueDue(b) \/ Lapse(b) PROVE IInv'
  <2>1. UNCHANGED Shown
    BY <1>3 DEF ListDue, EnqueueDue, Lapse, WorkerOnly, registry, results, Shown
  <2>2. QED
    BY <1>1, <1>3, <2>1, OtherTypes, OtherFewer, FewerWorking, LatestStays DEF IInv
<1>4. ASSUME NEW s \in Sequences, Purge(s) PROVE IInv'
  BY <1>1, <1>4, OtherTypes, OtherFewer, FewerWorking, PurgeShown DEF IInv
<1>5. ASSUME NEW w \in Workers,
             Work(w) \/ Fail(w) \/ Crash(w) \/ \E b \in Builds : Claim(w, b)
      PROVE  IInv'
  <2>1. TypeOK' /\ Working'
    BY <1>1, <1>5, WorkTypes, WorkWorking
  <2>2. CASE RecordScanRun(w)
    BY <1>1, <2>1, <2>2, RecordShown DEF IInv
  <2>3. CASE ~ RecordScanRun(w)
    <3>1. UNCHANGED Shown
      BY <1>5, <2>3 DEF Work, Check, Dispatch, Scan, DeletePendingScan, ReleasePendingScan,
                        Fail, Crash, Claim, WorkerOnly, registry, results, Shown
    <3>2. QED
      BY <1>1, <2>1, <3>1, LatestStays DEF IInv
  <2>4. QED
    BY <2>2, <2>3
<1>6. CASE UNCHANGED vars
  <2>1. TypeOK'
    BY <1>1, <1>6 DEF TypeOK, vars, registry, results
  <2>2. Fewer /\ UNCHANGED Shown
    BY <1>6 DEF Fewer, Shown, vars, registry, results
  <2>3. QED
    BY <1>1, <2>1, <2>2, FewerWorking, LatestStays DEF IInv
<1>7. QED
  BY <1>2, <1>3, <1>4, <1>5, <1>6 DEF Next

\* Workers keep numbers of their own, the latest run of a build is its newest,
\* and what is shown is of the live inventory (processClaim,
\* advanceBuildScanState, completionRefusal).
THEOREM Invariance == Spec => []IInv
  BY InitIInv, NextIInv, PTL DEF Spec

\* The rows of the queue, the runs and the workers stay well typed.
THEOREM TypeCorrect == Spec => []TypeOK
<1>1. IInv => TypeOK
  BY DEF IInv
<1>2. QED
  BY <1>1, Invariance, PTL

\* What is served as a build's findings is of the packages it has now
\* (completionRefusal, withdrawBuildFindingsSummary).
THEOREM CurrentOfLiveInventoryHolds == Spec => []CurrentOfLiveInventory
<1>1. IInv => CurrentOfLiveInventory
  BY DEF IInv
<1>2. QED
  BY <1>1, Invariance, PTL

\* The latest attempt is the newest recorded run (advanceBuildScanState,
\* PurgeSupersededScanRuns).
THEOREM LatestIsNewestHolds == Spec => []LatestIsNewest
<1>1. IInv => LatestIsNewest
  <2> SUFFICES ASSUME IInv, NEW b \in Builds
               PROVE  state[b].latest =
                          Max({0} \cup {s \in Sequences : runs[s] # None /\ runs[s].build = b})
    BY DEF LatestIsNewest
  <2> DEFINE S == {0} \cup {s \in Sequences : runs[s] # None /\ runs[s].build = b}
             l == state[b].latest
  <2>1. l \in 0..MaxRuns /\ Latest(b)
    BY DEF IInv, TypeOK, LatestSound
  <2>2. S \subseteq Nat /\ l \in S /\ \A x \in S : l >= x
    BY <2>1, ScanAssumption DEF Latest, Sequences
  <2> HIDE DEF S, l
  <2>3. \A m \in S : (\A x \in S : m >= x) => m = l
    BY <2>2
  <2>4. Max(S) = l
    BY <2>2, <2>3 DEF Max
  <2>5. QED
    BY <2>4 DEF S, l
<1>2. QED
  BY <1>1, Invariance, PTL

\* A run dispatched earlier never replaces the findings of a later one, however
\* late it completes (the ordering guard of advanceBuildScanState).
THEOREM CurrentMovesForwardHolds == Spec => CurrentMovesForward
<1> DEFINE Forward == \A b \in Builds : state[b].current # 0 /\ state'[b].current # 0
                                            => state'[b].current >= state[b].current
<1>1. IInv /\ [Next]_vars => [Forward]_vars
  <2> SUFFICES ASSUME IInv, Next PROVE Forward
    OBVIOUS
  <2>1. TypeOK /\ Working /\ \A b \in Builds : state[b].current \in Nat
    BY DEF IInv, TypeOK
  <2>2. ASSUME NEW w \in Workers, RecordScanRun(w) PROVE Forward
    <3>1. CASE UNCHANGED state
      BY <2>1, <3>1
    <3>2. CASE ~ UNCHANGED state
      <4>1. /\ Exists(worker[w].build) /\ worker[w].at = "record"
            /\ state' = [state EXCEPT ![worker[w].build] = Advanced(w)]
        BY <2>2, <3>2 DEF RecordScanRun
      <4>2. Advanced(w).current >= state[worker[w].build].current
        BY <2>1, <4>1, AdvancedState
      <4>3. \A b \in Builds : state'[b] = IF b = worker[w].build THEN Advanced(w) ELSE state[b]
        BY <2>1, <4>1 DEF TypeOK
      <4>4. QED
        BY <2>1, <4>2, <4>3
    <3>3. QED
      BY <3>1, <3>2
  <2>3. ASSUME NEW b \in Builds, RegistryWrite(b) PROVE Forward
    <3>1. \A a \in Builds : state'[a].current \in {state[a].current, 0}
      BY <2>1, <2>3 DEF RegistryWrite, FinishBuild, ReopenBuild, AssignVersion, ReplaceAssignment,
             CheckUpload, UploadSbom, DeleteBuild, ManualRescan, Withdrawn, Unscanned, TypeOK
    <3>2. QED
      BY <2>1, <3>1
  <2>4. CASE UNCHANGED state
    BY <2>1, <2>4
  <2>5. ASSUME ~ (\E w \in Workers : RecordScanRun(w)), ~ (\E b \in Builds : RegistryWrite(b))
        PROVE  UNCHANGED state
    BY <2>5 DEF Next, Work, Check, Dispatch, Scan, DeletePendingScan, ReleasePendingScan, Fail,
                Crash, Claim, Purge, ListDue, EnqueueDue, Lapse, WorkerOnly, results
  <2>6. QED
    BY <2>2, <2>3, <2>4, <2>5
<1>2. QED
  BY <1>1, Invariance, PTL DEF Spec, CurrentMovesForward
=============================================================================
