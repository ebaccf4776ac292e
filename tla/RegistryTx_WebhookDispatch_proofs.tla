------------------- MODULE RegistryTx_WebhookDispatch_proofs -------------------
(***************************************************************************)
(* What the two components that run statement by statement against          *)
(* PostgreSQL promise: the registry's transactions, for any number of        *)
(* sessions, versions, builds, channels and requests, and the dispatcher of   *)
(* their events, for any number of webhooks, events, attempts, calls and      *)
(* abandoned passes.  The two share no state; each part is complete.          *)
(*                                                                         *)
(* The registry: a session's uncommitted rows are locked or share-locked, so *)
(* what it read before it wrote still holds when it commits.  The invariant   *)
(* says so of each session, and a step of one session is shown to keep it of  *)
(* the others once (OthersKept, CommitKeepsOthers).                           *)
(*                                                                         *)
(* The dispatcher lists the rows of an event once and works from the list    *)
(* while others prune, cascade and add rows.  The argument is that nobody    *)
(* else writes a row it has listed, so a listed row is as it was or gone,     *)
(* and that what it did not list was finished or makes the event wait.        *)
(***************************************************************************)
EXTENDS RegistryTx, WebhookDispatch, FiniteSetTheorems, TLAPS

-----------------------------------------------------------------------------
(* The registry's transactions: the inductive invariant *)

Deleting(s, v) ==
    v \in DOMAIN written[s].versions /\ written[s].versions[v] = Null

\* A session serves the request it began, and is at a statement of it.
Serving(s) ==
    /\ step[s] # "idle" => request[s] \in Requests
    /\ step[s] = "UpdateBuild" => request[s].op = "UpdateBuild"
    /\ step[s] = "InsertBuild" => request[s].op = "CreateBuild"
    /\ step[s] = "RecordAssignment" => request[s].op = "AssignVersion"

\* Before its first write to a version the session has none; assignments and
\* deletions are written by its last statement; the bucket is locked before a
\* version completes.
Early == {"idle", "UpdateBuild", "GetVersion", "InsertBuild", "RecordAssignment"}
Staged(s) ==
    /\ step[s] \in Early => DOMAIN written[s].versions = {}
    /\ step[s] # "Commit" =>
          written[s].rows = {} /\ \A v \in Versions : ~ Deleting(s, v)
    /\ step[s] = "CompleteVersion" => bucketLock = s

\* A written version is locked, was not deleted meanwhile, and keeps its number
\* unless the session is completing it under the bucket lock.
Numbering(s, v) ==
    \/ written[s].versions[v].sequence = versions[v].sequence
    \/ versions[v].sequence = 0 /\ bucketLock = s /\ step[s] = "Commit"
RowLocked(s) ==
    \A v \in DOMAIN written[s].versions :
        /\ VersionFree(s, v)
        /\ written[s].versions[v] # Null => versions[v] # Null /\ Numbering(s, v)

\* The number read under the lock stays above every committed one.
NumberAhead(s) ==
    step[s] = "CompleteVersion" =>
        /\ local[s].number > 0
        /\ \A v \in Versions :
              versions[v] # Null => versions[v].sequence < local[s].number

\* What a session is about to commit references versions that exist for it and
\* that nobody else deletes; an assigned one is complete.
CompleteIn(entries, v) == entries[v] # Null /\ entries[v].sequence > 0
RowsReference(s) ==
    \A r \in written[s].rows : r.version # Null =>
        MayReference(s, r.version) /\ CompleteIn(VersionsSeen(s), r.version)
BuildsReference(s) ==
    \A b \in DOMAIN written[s].builds : written[s].builds[b] # Null =>
        /\ MayReference(s, VersionOfBuild[b])
        /\ VersionsSeen(s)[VersionOfBuild[b]] # Null

\* A deletion takes every committed build of the version with it.
TakesBuilds(s) ==
    \A v \in Versions : Deleting(s, v) =>
        \A b \in Builds : VersionOfBuild[b] = v /\ builds[b] # Null =>
            b \in DOMAIN written[s].builds /\ written[s].builds[b] = Null

\* The version to assign was complete when it was read and still is, if it is
\* still there.
AssignsComplete(s) ==
    step[s] = "RecordAssignment" /\ versions[Target(s)] # Null =>
        versions[Target(s)].sequence > 0

SessionSound(s) ==
    /\ Serving(s) /\ Staged(s) /\ RowLocked(s) /\ NumberAhead(s)
    /\ RowsReference(s) /\ BuildsReference(s) /\ TakesBuilds(s) /\ AssignsComplete(s)
TxInv ==
    /\ TxTypeOK
    /\ AssignedComplete /\ BuildsHaveVersions
    /\ \A s \in Sessions : SessionSound(s)

-----------------------------------------------------------------------------
(* What the model's operators give *)

\* A transaction's rows over the committed ones.
LEMMA OverlaidIs ==
    ASSUME NEW S, NEW T, NEW f, NEW entries, IsRows(f, S, T), entries \in [S -> T \cup {Null}]
    PROVE  /\ Overlaid(f, entries) \in [S -> T \cup {Null}]
           /\ \A x \in S : Overlaid(f, entries)[x] =
                 IF x \in DOMAIN f THEN f[x] ELSE entries[x]
BY DEF IsRows, Overlaid

\* A transaction's rows with one more.
LEMMA WithIs ==
    ASSUME NEW S, NEW T, NEW f, NEW x, NEW row, x \in S, row \in T \cup {Null},
           IsRows(f, S, T)
    PROVE  /\ IsRows(With(f, x, row), S, T)
           /\ DOMAIN With(f, x, row) = DOMAIN f \cup {x}
           /\ With(f, x, row)[x] = row
           /\ \A y \in DOMAIN f : y # x => With(f, x, row)[y] = f[y]
BY DEF IsRows, With

\* A transaction begins with nothing written.
LEMMA NothingIsWritten ==
    /\ IsWritten(Nothing)
    /\ DOMAIN Nothing.versions = {} /\ DOMAIN Nothing.builds = {} /\ Nothing.rows = {}
BY DEF IsWritten, Nothing, IsRows

LEMMA BlankIsLocal == Blank \in Local
BY DEF Blank, Local, Nobody, VersionRow, BuildRow

\* A request names a version, its own or its build's.
LEMMA TargetIsVersion ==
    ASSUME TxTypeOK, NEW s \in Sessions, request[s] \in Requests
    PROVE  Target(s) \in Versions
BY TxAssumption DEF Target, Request

LEMMA GotoIs ==
    ASSUME NEW s \in Sessions, NEW n \in Steps, step \in [Sessions -> Steps], Goto(s, n)
    PROVE  /\ step' \in [Sessions -> Steps] /\ step'[s] = n
           /\ \A t \in Sessions : t # s => step'[t] = step[t]
BY DEF Goto

LEMMA ReadIs ==
    ASSUME NEW s \in Sessions, NEW n \in Steps, NEW l \in Local,
           step \in [Sessions -> Steps], local \in [Sessions -> Local], Read(s, n, l)
    PROVE  /\ step' \in [Sessions -> Steps] /\ step'[s] = n
           /\ local' \in [Sessions -> Local] /\ local'[s] = l
           /\ \A t \in Sessions : t # s => step'[t] = step[t] /\ local'[t] = local[t]
BY DEF Goto, Read

\* Until it commits, a session sees the versions that are committed, with their
\* numbers, whatever it has written of them.
LEMMA SeenIsCommitted ==
    ASSUME TxInv, NEW s \in Sessions, step[s] # "Commit", NEW v \in Versions
    PROVE  /\ VersionsSeen(s)[v] = Null <=> versions[v] = Null
           /\ VersionsSeen(s)[v] # Null =>
                 /\ VersionsSeen(s)[v] \in VersionRow
                 /\ VersionsSeen(s)[v].sequence = versions[v].sequence
<1>1. TxTypeOK /\ RowLocked(s) /\ ~ Deleting(s, v)
  BY DEF TxInv, SessionSound, Staged
<1>2. IsRows(written[s].versions, Versions, VersionRow)
      /\ versions \in [Versions -> VersionRow \cup {Null}]
  BY <1>1 DEF TxTypeOK, IsWritten
<1>3. VersionsSeen(s) \in [Versions -> VersionRow \cup {Null}]
      /\ VersionsSeen(s)[v] = IF v \in DOMAIN written[s].versions
                              THEN written[s].versions[v] ELSE versions[v]
  BY <1>2, OverlaidIs DEF VersionsSeen
<1>4. CASE v \in DOMAIN written[s].versions
  BY <1>1, <1>3, <1>4 DEF RowLocked, Numbering, Deleting
<1>5. CASE v \notin DOMAIN written[s].versions
  BY <1>3, <1>5
<1>. QED  BY <1>4, <1>5

-----------------------------------------------------------------------------
(* A step of one session that commits nothing *)

\* The others are where they were, and hold the bucket or not as before.
OwnStep(s) ==
    /\ UNCHANGED committed
    /\ \A t \in Sessions : t # s =>
          /\ step'[t] = step[t] /\ request'[t] = request[t] /\ local'[t] = local[t]
          /\ written'[t] = written[t]
          /\ (bucketLock' = t) <=> (bucketLock = t)

\* What the session has written by then it has locked.
LocksItsRows(s) ==
    /\ \A v \in DOMAIN written'[s].versions : VersionFree(s, v)
    /\ \A v \in Versions : Deleting(s, v)' => MayDelete(s, v)

LEMMA OthersKept ==
    ASSUME TxInv, NEW s \in Sessions, OwnStep(s), LocksItsRows(s),
           NEW t \in Sessions, t # s
    PROVE  SessionSound(t)'
<1>1. TxTypeOK /\ SessionSound(t) /\ IsWritten(written[t])
  BY DEF TxInv, TxTypeOK
<1>2. UNCHANGED <<versions, builds, step[t], request[t], local[t], written[t]>>
  BY DEF OwnStep, committed
<1>3. (bucketLock = t) <=> (bucketLock' = t)
  BY DEF OwnStep
<1>4. \A u \in Sessions : u # s => written'[u] = written[u]
  BY DEF OwnStep
<1>5. \A v : VersionFree(t, v) /\ v \in DOMAIN written[t].versions => VersionFree(t, v)'
  <2>. SUFFICES ASSUME NEW v, VersionFree(t, v), v \in DOMAIN written[t].versions,
                       NEW u \in Sessions, u # t, v \in DOMAIN written'[u].versions
                PROVE  FALSE
    BY DEF VersionFree, Others
  <2>1. CASE u = s
    BY <2>1 DEF LocksItsRows, VersionFree, Others
  <2>2. CASE u # s
    BY <2>2, <1>4 DEF VersionFree, Others
  <2>. QED  BY <2>1, <2>2
<1>6. ASSUME NEW v \in Versions, MayReference(t, v), References(t, v)
             \/ \E b \in DOMAIN written[t].builds : b \in Builds /\ VersionOfBuild[b] = v
      PROVE  MayReference(t, v)'
  <2>. SUFFICES ASSUME NEW u \in Sessions, u # t, v \in DOMAIN written'[u].versions,
                       written'[u].versions[v] = Null
                PROVE  FALSE
    BY DEF MayReference, Others
  <2>1. CASE u = s
    <3>1. MayDelete(s, v)
      BY <2>1 DEF LocksItsRows, Deleting
    <3>. QED  BY <3>1, <1>6 DEF MayDelete, Others, BuildFree
  <2>2. CASE u # s
    BY <2>2, <1>4, <1>6 DEF MayReference, Others
  <2>. QED  BY <2>1, <2>2
<1>7. VersionsSeen(t)' = VersionsSeen(t) /\ Target(t)' = Target(t)
  BY <1>2 DEF VersionsSeen, Target
<1>8. Serving(t)' /\ Staged(t)' /\ NumberAhead(t)' /\ TakesBuilds(t)' /\ AssignsComplete(t)'
  <2>1. Serving(t)'
    BY <1>1, <1>2 DEF SessionSound, Serving
  <2>2. Staged(t)'
    BY <1>1, <1>2, <1>3 DEF SessionSound, Staged, Deleting
  <2>3. NumberAhead(t)'
    BY <1>1, <1>2 DEF SessionSound, NumberAhead
  <2>4. TakesBuilds(t)'
    BY <1>1, <1>2 DEF SessionSound, TakesBuilds, Deleting
  <2>5. AssignsComplete(t)'
    BY <1>1, <1>2, <1>7 DEF SessionSound, AssignsComplete
  <2>. QED  BY <2>1, <2>2, <2>3, <2>4, <2>5
<1>9. RowLocked(t)'
  BY <1>1, <1>2, <1>3, <1>5 DEF SessionSound, RowLocked, Numbering
<1>10. RowsReference(t)'
  <2>. SUFFICES ASSUME NEW r \in written[t].rows, r.version # Null
                PROVE  MayReference(t, r.version)' /\ CompleteIn(VersionsSeen(t), r.version)
    BY <1>2, <1>7 DEF RowsReference
  <2>1. r.version \in Versions /\ References(t, r.version)
    BY <1>1 DEF IsWritten, AssignmentRow, References
  <2>. QED  BY <2>1, <1>1, <1>6 DEF SessionSound, RowsReference
<1>11. BuildsReference(t)'
  <2>. SUFFICES ASSUME NEW b \in DOMAIN written[t].builds, written[t].builds[b] # Null
                PROVE  MayReference(t, VersionOfBuild[b])'
                       /\ VersionsSeen(t)[VersionOfBuild[b]] # Null
    BY <1>2, <1>7 DEF BuildsReference
  <2>1. b \in Builds /\ VersionOfBuild[b] \in Versions
    BY <1>1, TxAssumption DEF IsWritten, IsRows
  <2>. QED  BY <2>1, <1>1, <1>6 DEF SessionSound, BuildsReference
<1>. QED  BY <1>8, <1>9, <1>10, <1>11 DEF SessionSound

\* Nothing it lists has been given up, if the others' sessions stand.
LEMMA OwnStepKeeps ==
    ASSUME TxInv, NEW s \in Sessions, OwnStep(s), LocksItsRows(s), TxTypeOK',
           SessionSound(s)'
    PROVE  TxInv'
<1>1. \A t \in Sessions : SessionSound(t)'
  BY OthersKept
<1>2. AssignedComplete' /\ BuildsHaveVersions'
  BY DEF TxInv, OwnStep, committed, AssignedComplete, BuildsHaveVersions
<1>. QED  BY <1>1, <1>2 DEF TxInv

\* What is written stands over a step that writes nothing.
OwnRows(s) == RowLocked(s) /\ RowsReference(s) /\ BuildsReference(s) /\ TakesBuilds(s)

LEMMA ReadingKeepsRows ==
    ASSUME TxInv, NEW s \in Sessions, step[s] # "Commit", UNCHANGED <<committed, written>>
    PROVE  LocksItsRows(s) /\ OwnRows(s)' /\ \A v \in Versions : ~ Deleting(s, v)'
<1>1. SessionSound(s) /\ \A v \in Versions : ~ Deleting(s, v)
  BY DEF TxInv, SessionSound, Staged
<1>2. \A v \in Versions : ~ Deleting(s, v)'
  BY <1>1 DEF Deleting
<1>3. LocksItsRows(s)
  BY <1>1, <1>2 DEF LocksItsRows, SessionSound, RowLocked
<1>4. UNCHANGED <<versions, builds>> /\ VersionsSeen(s)' = VersionsSeen(s)
  BY DEF committed, VersionsSeen
<1>5. RowLocked(s)'
  BY <1>1, <1>4 DEF SessionSound, RowLocked, Numbering, VersionFree
<1>6. RowsReference(s)'
  BY <1>1, <1>4 DEF SessionSound, RowsReference, MayReference
<1>7. BuildsReference(s)'
  BY <1>1, <1>4 DEF SessionSound, BuildsReference, MayReference
<1>8. TakesBuilds(s)'
  BY <1>2 DEF TakesBuilds
<1>. QED  BY <1>2, <1>3, <1>5, <1>6, <1>7, <1>8 DEF OwnRows

\* A version row may be written when nobody else holds it: the number is kept or
\* is allotted to an incomplete version.
WritesVersion(s, v, row) ==
    /\ VersionFree(s, v) /\ versions[v] # Null
    /\ written'[s].versions = With(written[s].versions, v, row)
    /\ written'[s].builds = written[s].builds
    /\ \/ row.sequence = versions[v].sequence
       \/ versions[v].sequence = 0 /\ bucketLock' = s /\ step'[s] = "Commit"

LEMMA WritingKeepsRows ==
    ASSUME TxInv, NEW s \in Sessions, step[s] # "Commit", OwnStep(s),
           NEW v \in Versions, NEW row \in VersionRow, WritesVersion(s, v, row)
    PROVE  /\ LocksItsRows(s) /\ \A u \in Versions : ~ Deleting(s, u)'
           /\ RowLocked(s)' /\ BuildsReference(s)' /\ TakesBuilds(s)'
           /\ VersionsSeen(s)'[v] = row
           /\ IsRows(written'[s].versions, Versions, VersionRow)
<1>1. SessionSound(s) /\ \A u \in Versions : ~ Deleting(s, u)
  BY DEF TxInv, SessionSound, Staged
<1>2. IsWritten(written[s]) /\ versions \in [Versions -> VersionRow \cup {Null}]
  BY DEF TxInv, TxTypeOK
<1>3. UNCHANGED <<versions, builds>> /\ \A t \in Sessions : t # s => written'[t] = written[t]
  BY DEF OwnStep, committed
<1>. DEFINE old == written[s].versions
            new == written'[s].versions
<1>4. /\ IsRows(new, Versions, VersionRow)
      /\ DOMAIN new = DOMAIN old \cup {v} /\ new[v] = row
      /\ \A u \in DOMAIN old : u # v => new[u] = old[u]
  <2>1. IsRows(old, Versions, VersionRow) /\ row \in VersionRow \cup {Null}
    BY <1>2 DEF IsWritten
  <2>2. new = With(old, v, row)
    BY DEF WritesVersion
  <2>. HIDE DEF old, new
  <2>3. IsRows(new, Versions, VersionRow)
    BY <2>1, <2>2, WithIs
  <2>4. DOMAIN new = DOMAIN old \cup {v} /\ new[v] = row
        /\ \A u \in DOMAIN old : u # v => new[u] = old[u]
    BY <2>2 DEF With
  <2>. QED  BY <2>3, <2>4
<1>5. DOMAIN old \subseteq Versions /\ row # Null
  BY <1>2, TxAssumption DEF IsWritten, IsRows
<1>6. \A u \in Versions : ~ Deleting(s, u)'
  BY <1>1, <1>4, <1>5 DEF Deleting
<1>7. LocksItsRows(s)
  BY <1>1, <1>4, <1>6 DEF LocksItsRows, SessionSound, RowLocked, WritesVersion
<1>8. RowLocked(s)'
  <2>. SUFFICES ASSUME NEW u \in DOMAIN new
                PROVE  /\ VersionFree(s, u)'
                       /\ new[u] # Null => versions[u] # Null /\ Numbering(s, u)'
    BY <1>3 DEF RowLocked
  <2>1. VersionFree(s, u)'
    BY <1>7, <1>3 DEF LocksItsRows, VersionFree, Others
  <2>2. CASE u = v
    BY <2>1, <2>2, <1>3, <1>4 DEF WritesVersion, Numbering
  <2>3. CASE u # v
    BY <2>1, <2>3, <1>1, <1>3, <1>4 DEF SessionSound, RowLocked, Numbering
  <2>. QED  BY <2>2, <2>3
<1>9. /\ VersionsSeen(s)'[v] = row
      /\ \A u \in Versions : VersionsSeen(s)[u] # Null => VersionsSeen(s)'[u] # Null
  <2>1. \A u \in Versions :
           /\ VersionsSeen(s)[u] = IF u \in DOMAIN old THEN old[u] ELSE versions[u]
           /\ VersionsSeen(s)'[u] = IF u \in DOMAIN new THEN new[u] ELSE versions[u]
    BY <1>2, <1>3, <1>4, OverlaidIs DEF VersionsSeen, IsWritten
  <2>. QED  BY <2>1, <1>4, <1>5
<1>10. BuildsReference(s)'
  <2>. SUFFICES ASSUME NEW b \in DOMAIN written[s].builds, written[s].builds[b] # Null
                PROVE  MayReference(s, VersionOfBuild[b])'
                       /\ VersionsSeen(s)'[VersionOfBuild[b]] # Null
    BY DEF BuildsReference, WritesVersion
  <2>1. VersionOfBuild[b] \in Versions
    BY <1>2, TxAssumption DEF IsWritten, IsRows
  <2>2. MayReference(s, VersionOfBuild[b]) /\ VersionsSeen(s)[VersionOfBuild[b]] # Null
    BY <1>1 DEF SessionSound, BuildsReference
  <2>. QED  BY <2>1, <2>2, <1>3, <1>9 DEF MayReference, Others
<1>11. TakesBuilds(s)'
  BY <1>6 DEF TakesBuilds
<1>. QED  BY <1>4, <1>6, <1>7, <1>8, <1>9, <1>10, <1>11

\* The types of a step that touches its own session and commits nothing.
OwnTypes(s) ==
    /\ UNCHANGED <<committed, clock, request, stamp>>
    /\ step' \in [Sessions -> Steps] /\ local' \in [Sessions -> Local]
    /\ bucketLock' \in Sessions \cup {Null}
    /\ written' = [t \in Sessions |-> written'[t]]
    /\ \A t \in Sessions : t # s => written'[t] = written[t]
    /\ IsWritten(written'[s])

LEMMA TypesKept ==
    ASSUME TxTypeOK, NEW s \in Sessions, OwnTypes(s)
    PROVE  TxTypeOK'
<1>1. \A t \in Sessions : IsWritten(written'[t])
  BY DEF TxTypeOK, OwnTypes
<1>2. UNCHANGED <<versions, builds, history, clock, request, stamp>>
  BY DEF OwnTypes, committed
<1>. QED  BY <1>1, <1>2 DEF TxTypeOK, OwnTypes

-----------------------------------------------------------------------------
(* The statements that write nothing *)

LEMMA ReadingSound ==
    ASSUME TxInv, NEW s \in Sessions, step[s] # "Commit", written' = written,
           OwnStep(s), TxTypeOK', Serving(s)', NumberAhead(s)', AssignsComplete(s)',
           step'[s] \in Early => step[s] \in Early,
           step'[s] = "CompleteVersion" => bucketLock' = s
    PROVE  TxInv'
<1>1. UNCHANGED committed
  BY DEF OwnStep
<1>2. LocksItsRows(s) /\ OwnRows(s)' /\ \A v \in Versions : ~ Deleting(s, v)'
  BY <1>1, ReadingKeepsRows
<1>3. Staged(s)'
  BY <1>2 DEF TxInv, SessionSound, Staged
<1>4. SessionSound(s)'
  BY <1>2, <1>3 DEF SessionSound, OwnRows
<1>. QED  BY <1>2, <1>4, OwnStepKeeps

LEMMA BeginKeeps ==
    ASSUME TxInv, NEW s \in Sessions, NEW r \in Requests, Begin(s, r)
    PROVE  TxInv'
<1>. USE TxAssumption
<1>1. TxTypeOK /\ r \in Request
  BY DEF TxInv
<1>2. UNCHANGED <<versions, builds, history, written, bucketLock>>
  BY DEF Begin, committed
<1>3. clock' \in Nat /\ stamp' \in [Sessions -> Nat] /\ request' \in [Sessions -> Requests \cup {Null}]
  BY <1>1 DEF Begin, TxTypeOK
<1>4. /\ step' \in [Sessions -> Steps]
      /\ step'[s] = IF r.op = "UpdateBuild" THEN "UpdateBuild"
                    ELSE IF r.op = "DeleteVersion" THEN "CheckChannels" ELSE "GetVersion"
      /\ local' \in [Sessions -> Local]
      /\ \A t \in Sessions : t # s => step'[t] = step[t] /\ local'[t] = local[t]
  <2>1. CASE r.op = "UpdateBuild"
    <3>1. r.build \in Builds /\ r.patch \in Patch
      BY <1>1, <2>1 DEF Request
    <3>2. builds[r.build] \in BuildRow
      BY <1>1, <2>1, <3>1 DEF Begin, TxTypeOK
    <3>3. PatchedRow(builds[r.build], r.patch) \in BuildRow
      BY <3>1, <3>2 DEF PatchedRow, Patch, BuildRow
    <3>. DEFINE l == [Blank EXCEPT !.row = PatchedRow(builds[r.build], r.patch)]
    <3>4. l \in Local
      BY <3>3, BlankIsLocal DEF Local
    <3>5. Read(s, "UpdateBuild", l)
      BY <2>1 DEF Begin
    <3>. QED  BY <2>1, <3>4, <3>5, <1>1, ReadIs DEF Steps, TxTypeOK
  <2>2. CASE r.op # "UpdateBuild"
    <3>1. Goto(s, FirstStep(r)) /\ local' = local
      BY <2>2 DEF Begin
    <3>2. FirstStep(r) = IF r.op = "DeleteVersion" THEN "CheckChannels" ELSE "GetVersion"
      BY DEF FirstStep
    <3>. QED  BY <2>2, <3>1, <3>2, <1>1, GotoIs DEF Steps, TxTypeOK
  <2>. QED  BY <2>1, <2>2
<1>5. TxTypeOK'
  BY <1>1, <1>2, <1>3, <1>4 DEF TxTypeOK
<1>6. request'[s] = r /\ \A t \in Sessions : t # s => request'[t] = request[t]
  BY <1>1 DEF Begin, TxTypeOK
<1>7. OwnStep(s)
  BY <1>2, <1>4, <1>6 DEF OwnStep, committed
<1>8. step[s] = "idle"
  BY DEF Begin
<1>9. Serving(s)' /\ NumberAhead(s)' /\ AssignsComplete(s)'
  BY <1>4, <1>6 DEF Serving, NumberAhead, AssignsComplete
<1>. QED  BY <1>2, <1>4, <1>5, <1>7, <1>8, <1>9, ReadingSound DEF Early

LEMMA GetVersionKeeps ==
    ASSUME TxInv, NEW s \in Sessions, GetVersion(s)
    PROVE  TxInv'
<1>. DEFINE v == Target(s)
            row == VersionsSeen(s)[v]
            next == AfterGetVersion(request[s].op, row)
            l == [local[s] EXCEPT !.version = row]
<1>1. TxTypeOK /\ SessionSound(s)
  BY DEF TxInv
<1>2. /\ step[s] = "GetVersion" /\ row # Null /\ next # "refused"
      /\ Read(s, next, l) /\ UNCHANGED <<committed, clock, request, stamp, written, bucketLock>>
  BY DEF GetVersion, Reads
<1>3. v \in Versions /\ request[s] \in Requests
  BY <1>1, <1>2, TargetIsVersion DEF SessionSound, Serving
<1>4. row \in VersionRow /\ row.sequence = versions[v].sequence /\ versions[v] # Null
  BY <1>2, <1>3, SeenIsCommitted
<1>5. /\ next \in Steps \ {"UpdateBuild", "CompleteVersion"}
      /\ next = "InsertBuild" => request[s].op = "CreateBuild"
      /\ next = "RecordAssignment" => request[s].op = "AssignVersion" /\ row.sequence > 0
  BY <1>2 DEF AfterGetVersion, Steps
<1>. HIDE DEF row, next, v
<1>6. local[s] \in Local /\ local \in [Sessions -> Local] /\ step \in [Sessions -> Steps]
  BY <1>1 DEF TxTypeOK
<1>7. l \in Local
  BY <1>4, <1>6 DEF Local
<1>. HIDE DEF l
<1>8. /\ step' \in [Sessions -> Steps] /\ step'[s] = next
      /\ local' \in [Sessions -> Local]
      /\ \A t \in Sessions : t # s => step'[t] = step[t] /\ local'[t] = local[t]
  BY <1>2, <1>5, <1>6, <1>7, ReadIs
<1>9. TxTypeOK'
  BY <1>1, <1>2, <1>8, TypesKept DEF OwnTypes, TxTypeOK
<1>10. OwnStep(s)
  BY <1>2, <1>8 DEF OwnStep
<1>11. Serving(s)'
  BY <1>2, <1>3, <1>5, <1>8 DEF Serving
<1>12. NumberAhead(s)'
  BY <1>5, <1>8 DEF NumberAhead
<1>13. AssignsComplete(s)'
  <2>1. Target(s)' = v /\ versions' = versions
    BY <1>2 DEF Target, v, committed
  <2>. QED  BY <2>1, <1>4, <1>5, <1>8 DEF AssignsComplete
<1>. QED  BY <1>2, <1>5, <1>8, <1>9, <1>10, <1>11, <1>12, <1>13, ReadingSound DEF Early

\* A statement that only reads into memory goes on to one that has no condition
\* of its own.
Plain == Steps \ (Early \cup {"CompleteVersion"})

LEMMA PlainReading ==
    ASSUME TxInv, NEW s \in Sessions, step[s] \notin {"idle", "Commit"},
           NEW n \in Plain, NEW l \in Local, Read(s, n, l), Reads
    PROVE  TxInv'
<1>1. TxTypeOK /\ SessionSound(s)
  BY DEF TxInv
<1>2. /\ n \in Steps
      /\ n \notin Early \cup {"CompleteVersion"}
  BY DEF Plain
<1>3. /\ step' \in [Sessions -> Steps] /\ step'[s] = n
      /\ local' \in [Sessions -> Local]
      /\ \A t \in Sessions : t # s => step'[t] = step[t] /\ local'[t] = local[t]
  BY <1>1, <1>2, ReadIs DEF TxTypeOK
<1>4. UNCHANGED <<committed, clock, request, stamp, written, bucketLock>>
  BY DEF Reads
<1>5. TxTypeOK'
  BY <1>1, <1>3, <1>4, TypesKept DEF OwnTypes, TxTypeOK
<1>6. OwnStep(s)
  BY <1>3, <1>4 DEF OwnStep
<1>7. Serving(s)'
  BY <1>1, <1>2, <1>3, <1>4 DEF SessionSound, Serving, Early
<1>8. NumberAhead(s)' /\ AssignsComplete(s)'
  BY <1>2, <1>3 DEF NumberAhead, AssignsComplete, Early
<1>. QED  BY <1>2, <1>3, <1>4, <1>5, <1>6, <1>7, <1>8, ReadingSound

LEMMA ListBuildsKeeps ==
    ASSUME TxInv, NEW s \in Sessions, ListBuilds(s)
    PROVE  TxInv'
<1>. DEFINE l == [local[s] EXCEPT !.ready = ReadyToComplete(BuildsSeen(s), Target(s))]
<1>1. local[s] \in Local
  BY DEF TxInv, TxTypeOK
<1>2. ReadyToComplete(BuildsSeen(s), Target(s)) \in BOOLEAN
  BY DEF ReadyToComplete
<1>3. l \in Local
  BY <1>1, <1>2 DEF Local
<1>4. step[s] = "ListBuilds" /\ Read(s, "Inherit", l) /\ Reads
  BY DEF ListBuilds
<1>. QED  BY <1>3, <1>4, PlainReading DEF Plain, Steps, Early

LEMMA ListDescendantsKeeps ==
    ASSUME TxInv, NEW s \in Sessions, ListDescendants(s)
    PROVE  TxInv'
<1>1. local[s] \in Local
  BY DEF TxInv, TxTypeOK
<1>. DEFINE entries == VersionsSeen(s)
            unrevoked == {w \in Versions : entries[w] # Null /\ entries[w].revokeAt = 0}
            listed == Descendants(BuildsSeen(s), Target(s)) \ Gone(entries)
            todo == IF request[s].op = "RevokeVersion" THEN listed \cap unrevoked ELSE listed
            l == [local[s] EXCEPT !.todo = todo]
<1>2. todo \in SUBSET Versions
  BY DEF Descendants
<1>3. step[s] = "ListDescendants" /\ Read(s, "Descend", l) /\ Reads
  BY DEF ListDescendants
<1>. HIDE DEF todo
<1>4. l \in Local
  BY <1>1, <1>2 DEF Local
<1>. QED  BY <1>3, <1>4, PlainReading DEF Plain, Steps, Early

LEMMA DescendedKeeps ==
    ASSUME TxInv, NEW s \in Sessions, Descended(s)
    PROVE  TxInv'
<1>. DEFINE n == IF request[s].op = "RevokeVersion" THEN "RollBack" ELSE "Commit"
<1>1. local[s] \in Local /\ local \in [Sessions -> Local]
  BY DEF TxInv, TxTypeOK
<1>2. step[s] = "Descend" /\ Goto(s, n) /\ local' = local /\ Reads
  BY DEF Descended
<1>3. Read(s, n, local[s])
  BY <1>1, <1>2 DEF Read
<1>4. n \in Plain
  BY DEF Plain, Steps, Early
<1>. QED  BY <1>1, <1>2, <1>3, <1>4, PlainReading

LEMMA CheckChannelsKeeps ==
    ASSUME TxInv, NEW s \in Sessions, CheckChannels(s)
    PROVE  TxInv'
<1>. DEFINE on == Target(s) \in Selected(history, Latest)
            l == [local[s] EXCEPT !.onLatest = on]
<1>1. local[s] \in Local
  BY DEF TxInv, TxTypeOK
<1>2. on \in BOOLEAN
  OBVIOUS
<1>3. step[s] = "CheckChannels" /\ Read(s, "DeleteRow", l) /\ Reads
  BY DEF CheckChannels
<1>. HIDE DEF on
<1>4. l \in Local
  BY <1>1, <1>2 DEF Local
<1>. QED  BY <1>3, <1>4, PlainReading DEF Plain, Steps, Early

\* The number is drawn above every version the session sees, which are those
\* committed.
LEMMA LockBucketKeeps ==
    ASSUME TxInv, NEW s \in Sessions, LockBucket(s)
    PROVE  TxInv'
<1>1. TxTypeOK /\ SessionSound(s)
  BY DEF TxInv
<1>2. PICK n \in 1..(Cardinality(Versions) + 1) :
         /\ IsNextSequence(s, n)
         /\ Read(s, "CompleteVersion", [local[s] EXCEPT !.number = n])
  BY DEF LockBucket
<1>3. Cardinality(Versions) \in Nat
  BY TxAssumption, FS_CardinalityType
<1>4. n \in Nat /\ n > 0
  BY <1>3
<1>. DEFINE l == [local[s] EXCEPT !.number = n]
<1>5. local[s] \in Local /\ local \in [Sessions -> Local] /\ step \in [Sessions -> Steps]
  BY <1>1 DEF TxTypeOK
<1>6. l \in Local /\ l.number = n
  BY <1>4, <1>5 DEF Local
<1>. HIDE DEF l
<1>7. /\ step' \in [Sessions -> Steps] /\ step'[s] = "CompleteVersion"
      /\ local' \in [Sessions -> Local] /\ local'[s] = l
      /\ \A t \in Sessions : t # s => step'[t] = step[t] /\ local'[t] = local[t]
  BY <1>2, <1>5, <1>6, ReadIs DEF Steps, l
<1>8. /\ step[s] = "LockBucket" /\ bucketLock = Null /\ bucketLock' = s
      /\ UNCHANGED <<committed, clock, request, stamp, written>>
  BY DEF LockBucket, BucketFree
<1>9. TxTypeOK'
  BY <1>1, <1>7, <1>8, TypesKept DEF OwnTypes, TxTypeOK
<1>10. OwnStep(s)
  BY <1>7, <1>8, TxAssumption DEF OwnStep
<1>11. Serving(s)'
  BY <1>1, <1>7, <1>8 DEF SessionSound, Serving
<1>12. NumberAhead(s)'
  <2>. SUFFICES ASSUME NEW v \in Versions, versions[v] # Null
                PROVE  versions[v].sequence < n
    BY <1>4, <1>6, <1>7, <1>8 DEF NumberAhead, committed
  <2>1. VersionsSeen(s)[v] # Null /\ VersionsSeen(s)[v].sequence = versions[v].sequence
    BY <1>8, SeenIsCommitted
  <2>. QED  BY <1>2, <2>1 DEF IsNextSequence
<1>13. AssignsComplete(s)'
  BY <1>7 DEF AssignsComplete
<1>. QED  BY <1>7, <1>8, <1>9, <1>10, <1>11, <1>12, <1>13, ReadingSound DEF Early

-----------------------------------------------------------------------------
(* The statements that write a version *)

\* One that leaves the number alone.
LEMMA PlainWriting ==
    ASSUME TxInv, NEW s \in Sessions, step[s] \notin {"idle", "Commit"},
           NEW n \in Plain, NEW l \in Local, Read(s, n, l), Writes,
           NEW v \in Versions, NEW row \in VersionRow, WriteVersion(s, v, row),
           VersionFree(s, v), versions[v] # Null, row.sequence = versions[v].sequence
    PROVE  TxInv'
<1>1. TxTypeOK /\ SessionSound(s) /\ IsWritten(written[s])
  BY DEF TxInv, TxTypeOK
<1>2. n \in Steps /\ n \notin Early \cup {"CompleteVersion"}
  BY DEF Plain
<1>3. /\ step' \in [Sessions -> Steps] /\ step'[s] = n
      /\ local' \in [Sessions -> Local]
      /\ \A t \in Sessions : t # s => step'[t] = step[t] /\ local'[t] = local[t]
  BY <1>1, <1>2, ReadIs DEF TxTypeOK
<1>4. UNCHANGED <<committed, clock, request, stamp, bucketLock>>
  BY DEF Writes
<1>5. /\ written' = [t \in Sessions |-> written'[t]]
      /\ \A t \in Sessions : t # s => written'[t] = written[t]
      /\ written'[s] = [versions |-> With(written[s].versions, v, row),
                        builds |-> written[s].builds, rows |-> written[s].rows]
  BY <1>1 DEF WriteVersion, TxTypeOK, IsWritten
<1>6. OwnStep(s)
  BY <1>3, <1>4, <1>5 DEF OwnStep
<1>7. WritesVersion(s, v, row)
  BY <1>5 DEF WritesVersion
<1>8. /\ LocksItsRows(s) /\ \A u \in Versions : ~ Deleting(s, u)'
      /\ RowLocked(s)' /\ BuildsReference(s)' /\ TakesBuilds(s)'
      /\ IsRows(written'[s].versions, Versions, VersionRow)
  BY <1>6, <1>7, WritingKeepsRows
<1>9. IsWritten(written'[s])
  BY <1>1, <1>5, <1>8 DEF IsWritten
<1>10. TxTypeOK'
  BY <1>1, <1>3, <1>4, <1>5, <1>9, TypesKept DEF OwnTypes, TxTypeOK
<1>11. Serving(s)' /\ NumberAhead(s)' /\ AssignsComplete(s)'
  BY <1>1, <1>2, <1>3, <1>4 DEF SessionSound, Serving, Early, NumberAhead, AssignsComplete
<1>12. written'[s].rows = {}
  BY <1>1, <1>5 DEF SessionSound, Staged
<1>13. Staged(s)'
  BY <1>2, <1>3, <1>8, <1>12 DEF Staged
<1>14. RowsReference(s)'
  BY <1>12 DEF RowsReference
<1>15. SessionSound(s)'
  BY <1>8, <1>11, <1>13, <1>14 DEF SessionSound
<1>. QED  BY <1>6, <1>8, <1>10, <1>15, OwnStepKeeps

LEMMA RevokeRowKeeps ==
    ASSUME TxInv, NEW s \in Sessions, RevokeRow(s)
    PROVE  TxInv'
<1>. DEFINE v == Target(s)
            row == RevokedRow(s, v)
            n == IF request[s].skip THEN "RollBack" ELSE "ListDescendants"
<1>1. TxTypeOK /\ SessionSound(s) /\ local[s] \in Local
  BY DEF TxInv, TxTypeOK
<1>2. /\ step[s] = "RevokeRow" /\ VersionFree(s, v) /\ versions[v] # Null
      /\ WriteVersion(s, v, row) /\ Goto(s, n) /\ local' = local /\ Writes
  BY DEF RevokeRow, Revocable
<1>3. v \in Versions
  BY <1>1, <1>2, TargetIsVersion DEF SessionSound, Serving
<1>4. versions[v] \in VersionRow /\ stamp[s] \in Nat
  BY <1>1, <1>2, <1>3 DEF TxTypeOK
<1>5. row \in VersionRow /\ row.sequence = versions[v].sequence
  BY <1>4 DEF RevokedRow, VersionRow
<1>6. Read(s, n, local[s])
  BY <1>1, <1>2 DEF Read, TxTypeOK
<1>7. n \in Plain
  BY DEF Plain, Steps, Early
<1>. HIDE DEF n, row, v
<1>. QED  BY <1>1, <1>2, <1>3, <1>5, <1>6, <1>7, PlainWriting

LEMMA UnrevokeRowKeeps ==
    ASSUME TxInv, NEW s \in Sessions, UnrevokeRow(s)
    PROVE  TxInv'
<1>. DEFINE v == Target(s)
            row == [versions[v] EXCEPT !.revokeAt = 0, !.inheritedFrom = Null]
<1>1. TxTypeOK /\ SessionSound(s) /\ local[s] \in Local
  BY DEF TxInv, TxTypeOK
<1>2. /\ step[s] = "UnrevokeRow" /\ VersionFree(s, v) /\ versions[v] # Null
      /\ WriteVersion(s, v, row) /\ Goto(s, "ListDescendants") /\ local' = local /\ Writes
  BY DEF UnrevokeRow
<1>3. v \in Versions
  BY <1>1, <1>2, TargetIsVersion DEF SessionSound, Serving
<1>4. versions[v] \in VersionRow
  BY <1>1, <1>2, <1>3 DEF TxTypeOK
<1>5. row \in VersionRow /\ row.sequence = versions[v].sequence
  BY <1>4 DEF VersionRow
<1>6. Read(s, "ListDescendants", local[s])
  BY <1>1, <1>2 DEF Read, TxTypeOK
<1>7. "ListDescendants" \in Plain
  BY DEF Plain, Steps, Early
<1>. HIDE DEF row, v
<1>. QED  BY <1>1, <1>2, <1>3, <1>5, <1>6, <1>7, PlainWriting

LEMMA DescendIntoKeeps ==
    ASSUME TxInv, NEW s \in Sessions, NEW w \in Versions, DescendInto(s, w)
    PROVE  TxInv'
<1>. DEFINE v == Target(s)
            seen == VersionsSeen(s)[w]
            revoked == [seen EXCEPT !.revokeAt = stamp[s], !.inheritedFrom = v]
            restored == [seen EXCEPT !.revokeAt = 0, !.inheritedFrom = Null]
            l == [local[s] EXCEPT !.todo = local[s].todo \ {w}]
<1>1. TxTypeOK /\ SessionSound(s) /\ local[s] \in Local /\ stamp[s] \in Nat
  BY DEF TxInv, TxTypeOK
<1>2. /\ step[s] = "Descend" /\ VersionFree(s, w) /\ Writes
      /\ local' = [local EXCEPT ![s] = l] /\ step' = step
  BY DEF DescendInto
<1>3. v \in Versions
  BY <1>1, <1>2, TargetIsVersion DEF SessionSound, Serving
<1>4. l \in Local
  BY <1>1 DEF Local
<1>5. Read(s, "Descend", l)
  BY <1>1, <1>2 DEF Read, Goto, TxTypeOK
<1>6. "Descend" \in Plain
  BY DEF Plain, Steps, Early
<1>7. versions[w] # Null =>
         seen \in VersionRow /\ seen.sequence = versions[w].sequence
  BY <1>2, SeenIsCommitted
<1>. HIDE DEF l, seen, v
<1>8. CASE WriteVersion(s, w, revoked) /\ versions[w] # Null
  <2>1. revoked \in VersionRow /\ revoked.sequence = versions[w].sequence
    BY <1>1, <1>3, <1>7, <1>8 DEF VersionRow
  <2>. HIDE DEF revoked
  <2>. QED  BY <1>2, <1>4, <1>5, <1>6, <1>8, <2>1, PlainWriting
<1>9. CASE WriteVersion(s, w, restored) /\ versions[w] # Null
  <2>1. restored \in VersionRow /\ restored.sequence = versions[w].sequence
    BY <1>7, <1>9 DEF VersionRow
  <2>. HIDE DEF restored
  <2>. QED  BY <1>2, <1>4, <1>5, <1>6, <1>9, <2>1, PlainWriting
<1>10. CASE written' = written
  <2>1. Reads
    BY <1>2, <1>10 DEF Reads, Writes
  <2>. QED  BY <1>2, <1>4, <1>5, <1>6, <2>1, PlainReading
<1>. QED  BY <1>8, <1>9, <1>10 DEF DescendInto, Revocable, Unrevocable, seen, v

LEMMA InheritKeeps ==
    ASSUME TxInv, NEW s \in Sessions, Inherit(s)
    PROVE  TxInv'
<1>. DEFINE v == Target(s)
            n == AfterInherit(s)
            m == IF n = "LockBucket" /\ versions[v].sequence = 0 THEN "LockBucket" ELSE "Commit"
<1>1. TxTypeOK /\ SessionSound(s) /\ local[s] \in Local
  BY DEF TxInv, TxTypeOK
<1>2. step[s] = "Inherit" /\ Writes
  BY DEF Inherit
<1>3. v \in Versions
  BY <1>1, <1>2, TargetIsVersion DEF SessionSound, Serving
<1>4. n \in Plain /\ m \in Plain
  BY DEF AfterInherit, Plain, Steps, Early
<1>. HIDE DEF n, m
<1>5. CASE Goto(s, n) /\ UNCHANGED <<local, written>>
  <2>1. Read(s, n, local[s]) /\ Reads
    BY <1>1, <1>2, <1>5 DEF Read, Reads, Writes, TxTypeOK
  <2>. QED  BY <1>1, <1>2, <1>4, <2>1, PlainReading
<1>6. CASE \E p \in RevokedParent(s) :
             LET at == VersionsSeen(s)[p].revokeAt
                 row == [VersionsSeen(s)[v] EXCEPT !.revokeAt = at, !.inheritedFrom = p]
             IN  /\ VersionFree(s, v) /\ Revocable(s, v) /\ WriteVersion(s, v, row)
                 /\ Read(s, n, [local[s] EXCEPT !.version.revokeAt = at,
                                                !.version.inheritedFrom = p])
  <2>1. PICK p \in RevokedParent(s) :
             LET at == VersionsSeen(s)[p].revokeAt
                 row == [VersionsSeen(s)[v] EXCEPT !.revokeAt = at, !.inheritedFrom = p]
             IN  /\ VersionFree(s, v) /\ Revocable(s, v) /\ WriteVersion(s, v, row)
                 /\ Read(s, n, [local[s] EXCEPT !.version.revokeAt = at,
                                                !.version.inheritedFrom = p])
    BY <1>6
  <2>. DEFINE at == VersionsSeen(s)[p].revokeAt
              row == [VersionsSeen(s)[v] EXCEPT !.revokeAt = at, !.inheritedFrom = p]
              l == [local[s] EXCEPT !.version.revokeAt = at, !.version.inheritedFrom = p]
  <2>2. /\ VersionFree(s, v) /\ versions[v] # Null /\ WriteVersion(s, v, row)
        /\ Read(s, n, l)
    BY <2>1 DEF Revocable
  <2>3. p \in Versions /\ VersionsSeen(s)[p] # Null
    BY DEF RevokedParent
  <2>4. VersionsSeen(s)[p] \in VersionRow
    BY <1>2, <2>3, SeenIsCommitted
  <2>5. at \in Nat
    BY <2>4 DEF VersionRow
  <2>6. VersionsSeen(s)[v] \in VersionRow /\ VersionsSeen(s)[v].sequence = versions[v].sequence
    BY <1>2, <1>3, <2>2, SeenIsCommitted
  <2>. HIDE DEF at
  <2>7. row \in VersionRow /\ row.sequence = versions[v].sequence
    BY <2>3, <2>5, <2>6 DEF VersionRow
  <2>8. l \in Local
    <3>1. local[s].version \in VersionRow
      BY <1>1 DEF Local
    <3>2. [local[s].version EXCEPT !.revokeAt = at, !.inheritedFrom = p] \in VersionRow
      BY <2>3, <2>5, <3>1 DEF VersionRow
    <3>3. l = [local[s] EXCEPT !.version =
                   [local[s].version EXCEPT !.revokeAt = at, !.inheritedFrom = p]]
      BY <1>1, <3>1 DEF Local, VersionRow
    <3>. QED  BY <1>1, <3>2, <3>3 DEF Local
  <2>. HIDE DEF row, l, v
  <2>. QED  BY <1>2, <1>3, <1>4, <2>2, <2>7, <2>8, PlainWriting
<1>7. CASE versions[v] # Null /\ UNCHANGED written
           /\ Read(s, m, [local[s] EXCEPT !.version = versions[v]])
  <2>. DEFINE l == [local[s] EXCEPT !.version = versions[v]]
  <2>1. versions[v] \in VersionRow
    BY <1>1, <1>3, <1>7 DEF TxTypeOK
  <2>2. l \in Local
    BY <1>1, <2>1 DEF Local
  <2>3. Reads
    BY <1>2, <1>7 DEF Reads, Writes
  <2>. QED  BY <1>2, <1>4, <1>7, <2>2, <2>3, PlainReading
<1>. QED  BY <1>5, <1>6, <1>7 DEF Inherit, n, m

-----------------------------------------------------------------------------
(* The statements that write builds, assignments and deletions *)

\* Before it commits, a session has only its rows to answer for.
LEMMA ReadyToCommit ==
    ASSUME TxInv, NEW s \in Sessions, step[s] # "idle", request'[s] = request[s],
           step'[s] = "Commit"
    PROVE  Serving(s)' /\ Staged(s)' /\ NumberAhead(s)' /\ AssignsComplete(s)'
BY DEF TxInv, SessionSound, Serving, Staged, Early, NumberAhead, AssignsComplete

LEMMA AssignmentRowsAre ==
    ASSUME TxTypeOK, NEW s \in Sessions, NEW c \in Channels,
           NEW targets \in SUBSET (Versions \cup {Null})
    PROVE  /\ AssignmentRows(s, c, targets) \subseteq AssignmentRow
           /\ \A r \in AssignmentRows(s, c, targets) : r.version \in targets
BY DEF AssignmentRows, AssignmentRow, TxTypeOK

\* The number stays above every other, and the row of the managed channel names
\* the version being completed.
LEMMA CompleteVersionKeeps ==
    ASSUME TxInv, NEW s \in Sessions, CompleteVersion(s)
    PROVE  TxInv'
<1>. DEFINE v == Target(s)
            effect == local[s].version.revokeAt
            row == [VersionsSeen(s)[v] EXCEPT !.sequence = local[s].number]
            named == IF effect = 0 \/ effect > stamp[s] THEN {v} ELSE {}
            entries == AssignmentRows(s, Latest, named)
<1>1. TxTypeOK /\ SessionSound(s) /\ IsWritten(written[s]) /\ local[s] \in Local
  BY DEF TxInv, TxTypeOK
<1>2. /\ step[s] = "CompleteVersion" /\ VersionFree(s, v)
      /\ versions[v] # Null /\ versions[v].sequence = 0
      /\ Goto(s, "Commit") /\ local' = local
      /\ UNCHANGED <<committed, clock, request, stamp, bucketLock>>
  BY DEF CompleteVersion, Completable, Writes
<1>3. v \in Versions /\ bucketLock = s /\ written[s].rows = {} /\ local[s].number > 0
  BY <1>1, <1>2, TargetIsVersion DEF SessionSound, Serving, Staged, NumberAhead
<1>4. VersionsSeen(s)[v] \in VersionRow
  BY <1>2, <1>3, SeenIsCommitted
<1>5. row \in VersionRow /\ row.sequence = local[s].number
  BY <1>1, <1>4 DEF VersionRow, Local
<1>6. entries \subseteq AssignmentRow /\ \A r \in entries : r.version = v
  <2>1. named \in SUBSET (Versions \cup {Null}) /\ \A w \in named : w = v
    BY <1>3
  <2>. QED  BY <1>1, <2>1, AssignmentRowsAre, TxAssumption
<1>. HIDE DEF named, v
<1>7. written' = [written EXCEPT ![s].versions = With(@, v, row), ![s].rows = @ \cup entries]
  BY DEF CompleteVersion, v, row, entries, named
<1>. HIDE DEF row, entries
<1>8. /\ written' = [t \in Sessions |-> written'[t]]
      /\ \A t \in Sessions : t # s => written'[t] = written[t]
      /\ written'[s] = [versions |-> With(written[s].versions, v, row),
                        builds |-> written[s].builds, rows |-> entries]
  BY <1>1, <1>3, <1>7 DEF TxTypeOK, IsWritten
<1>9. /\ step' \in [Sessions -> Steps] /\ step'[s] = "Commit"
      /\ \A t \in Sessions : t # s => step'[t] = step[t]
  BY <1>1, <1>2, GotoIs DEF TxTypeOK, Steps
<1>10. OwnStep(s)
  BY <1>2, <1>8, <1>9 DEF OwnStep
<1>11. WritesVersion(s, v, row)
  BY <1>2, <1>3, <1>8, <1>9 DEF WritesVersion
<1>12. /\ LocksItsRows(s) /\ \A u \in Versions : ~ Deleting(s, u)'
       /\ RowLocked(s)' /\ BuildsReference(s)' /\ TakesBuilds(s)'
       /\ VersionsSeen(s)'[v] = row
       /\ IsRows(written'[s].versions, Versions, VersionRow)
  BY <1>2, <1>3, <1>5, <1>10, <1>11, WritingKeepsRows
<1>13. IsWritten(written'[s])
  BY <1>1, <1>6, <1>8, <1>12 DEF IsWritten
<1>14. TxTypeOK'
  BY <1>1, <1>2, <1>8, <1>9, <1>13, TypesKept DEF OwnTypes, TxTypeOK
<1>15. RowsReference(s)'
  <2>. SUFFICES ASSUME NEW r \in entries
                PROVE  MayReference(s, r.version)' /\ CompleteIn(VersionsSeen(s)', r.version)
    BY <1>8 DEF RowsReference
  <2>1. r.version = v
    BY <1>6
  <2>2. MayReference(s, r.version)'
    BY <1>2, <1>8, <2>1 DEF VersionFree, MayReference, Others
  <2>3. CompleteIn(VersionsSeen(s)', r.version)
    BY <1>3, <1>5, <1>12, <2>1, TxAssumption DEF CompleteIn
  <2>. QED  BY <2>2, <2>3
<1>16. SessionSound(s)'
  BY <1>2, <1>9, <1>12, <1>15, ReadyToCommit DEF SessionSound
<1>. QED  BY <1>10, <1>12, <1>14, <1>16, OwnStepKeeps

\* A step that writes no version sees and locks the versions it did.
LEMMA VersionsAsWritten ==
    ASSUME TxInv, NEW s \in Sessions, step[s] # "Commit", UNCHANGED committed,
           written'[s].versions = written[s].versions,
           \A t \in Sessions : t # s => written'[t] = written[t]
    PROVE  /\ LocksItsRows(s) /\ \A v \in Versions : ~ Deleting(s, v)'
           /\ RowLocked(s)' /\ TakesBuilds(s)'
           /\ VersionsSeen(s)' = VersionsSeen(s)
           /\ \A v : MayReference(s, v)' <=> MayReference(s, v)
<1>1. SessionSound(s) /\ \A v \in Versions : ~ Deleting(s, v)
  BY DEF TxInv, SessionSound, Staged
<1>2. \A v \in Versions : ~ Deleting(s, v)'
  BY <1>1 DEF Deleting
<1>3. UNCHANGED <<versions, builds>>
  BY DEF committed
<1>4. LocksItsRows(s)
  BY <1>1, <1>2 DEF LocksItsRows, SessionSound, RowLocked
<1>5. \A v : /\ VersionFree(s, v)' <=> VersionFree(s, v)
             /\ MayReference(s, v)' <=> MayReference(s, v)
  BY DEF VersionFree, MayReference, Others
<1>6. RowLocked(s)'
  BY <1>1, <1>3, <1>5 DEF SessionSound, RowLocked, Numbering
<1>7. TakesBuilds(s)' /\ VersionsSeen(s)' = VersionsSeen(s)
  BY <1>2, <1>3 DEF TakesBuilds, VersionsSeen
<1>. QED  BY <1>2, <1>4, <1>5, <1>6, <1>7

\* An assignment may be written of a complete version that nobody deletes.
LEMMA AssignmentWriting ==
    ASSUME TxInv, NEW s \in Sessions, step[s] \notin {"idle", "Commit"},
           Goto(s, "Commit"), local' = local, Writes,
           NEW entries \in SUBSET AssignmentRow, written' = [written EXCEPT ![s].rows = entries],
           \A r \in entries : r.version # Null =>
              MayReference(s, r.version) /\ CompleteIn(versions, r.version)
    PROVE  TxInv'
<1>1. TxTypeOK /\ SessionSound(s) /\ IsWritten(written[s])
  BY DEF TxInv, TxTypeOK
<1>2. UNCHANGED <<committed, clock, request, stamp, bucketLock>>
  BY DEF Writes
<1>3. /\ step' \in [Sessions -> Steps] /\ step'[s] = "Commit"
      /\ \A t \in Sessions : t # s => step'[t] = step[t]
  BY <1>1, GotoIs DEF TxTypeOK, Steps
<1>4. /\ written' = [t \in Sessions |-> written'[t]]
      /\ \A t \in Sessions : t # s => written'[t] = written[t]
      /\ written'[s] = [versions |-> written[s].versions,
                        builds |-> written[s].builds, rows |-> entries]
  BY <1>1 DEF TxTypeOK, IsWritten
<1>5. OwnStep(s)
  BY <1>2, <1>3, <1>4 DEF OwnStep
<1>6. IsWritten(written'[s])
  BY <1>1, <1>4 DEF IsWritten
<1>7. TxTypeOK'
  BY <1>1, <1>2, <1>3, <1>4, <1>6, TypesKept DEF OwnTypes, TxTypeOK
<1>8. /\ LocksItsRows(s) /\ RowLocked(s)' /\ TakesBuilds(s)'
      /\ VersionsSeen(s)' = VersionsSeen(s)
      /\ \A v : MayReference(s, v)' <=> MayReference(s, v)
  BY <1>2, <1>4, VersionsAsWritten
<1>9. BuildsReference(s)'
  BY <1>1, <1>4, <1>8 DEF SessionSound, BuildsReference
<1>10. RowsReference(s)'
  <2>. SUFFICES ASSUME NEW r \in entries, r.version # Null
                PROVE  MayReference(s, r.version) /\ CompleteIn(VersionsSeen(s), r.version)
    BY <1>4, <1>8 DEF RowsReference
  <2>1. r.version \in Versions
    BY DEF AssignmentRow
  <2>. QED  BY <2>1, SeenIsCommitted DEF CompleteIn
<1>11. SessionSound(s)'
  BY <1>2, <1>3, <1>8, <1>9, <1>10, ReadyToCommit DEF SessionSound
<1>. QED  BY <1>5, <1>7, <1>8, <1>11, OwnStepKeeps

\* The version a channel rolls back to stands in the history, complete.
LEMMA RollBackKeeps ==
    ASSUME TxInv, NEW s \in Sessions, RollBack(s)
    PROVE  TxInv'
<1>. DEFINE v == Target(s)
            seen == VersionsSeen(s)
            hit == {c \in Channels : \E w \in Selected(HistorySeen(s), c) :
                                        w = v \/ seen[w].inheritedFrom = v}
            valid(c) == NewestValid(HistorySeen(s), seen, c)
            entries == UNION {AssignmentRows(s, c, valid(c)) : c \in hit}
<1>1. TxTypeOK /\ SessionSound(s) /\ AssignedComplete /\ IsWritten(written[s])
  BY DEF TxInv, TxTypeOK
<1>2. /\ step[s] = "RollBack" /\ Goto(s, "Commit") /\ local' = local /\ Writes
      /\ \A c \in hit : \A w \in valid(c) : MayReference(s, w)
      /\ written' = [written EXCEPT ![s].rows = @ \cup entries]
  BY DEF RollBack
<1>3. written[s].rows = {}
  BY <1>1, <1>2 DEF SessionSound, Staged
<1>4. HistorySeen(s) \subseteq history
  BY <1>3 DEF HistorySeen
<1>5. ASSUME NEW c \in hit
      PROVE  valid(c) \in SUBSET (Versions \cup {Null})
             /\ \A w \in valid(c) : w # Null /\ CompleteIn(versions, w)
  BY <1>1, <1>4 DEF NewestValid, Newest, RowsOf, TxTypeOK, AssignmentRow, AssignedComplete, CompleteIn
<1>. HIDE DEF hit, valid
<1>6. hit \subseteq Channels
  BY DEF hit
<1>7. /\ entries \subseteq AssignmentRow
      /\ \A r \in entries : \E c \in hit : r.version \in valid(c)
  <2>. SUFFICES ASSUME NEW r \in entries
                PROVE  r \in AssignmentRow /\ \E c \in hit : r.version \in valid(c)
    OBVIOUS
  <2>1. PICK c \in hit : r \in AssignmentRows(s, c, valid(c))
    OBVIOUS
  <2>2. /\ AssignmentRows(s, c, valid(c)) \subseteq AssignmentRow
        /\ \A q \in AssignmentRows(s, c, valid(c)) : q.version \in valid(c)
    BY <1>1, <1>5, <1>6, AssignmentRowsAre
  <2>. QED  BY <2>1, <2>2
<1>8. written' = [written EXCEPT ![s].rows = entries]
  BY <1>1, <1>2, <1>3 DEF TxTypeOK, IsWritten
<1>. HIDE DEF entries
<1>9. \A r \in entries : r.version # Null =>
         MayReference(s, r.version) /\ CompleteIn(versions, r.version)
  BY <1>2, <1>5, <1>7
<1>. QED  BY <1>2, <1>7, <1>8, <1>9, AssignmentWriting

\* The assigned version is there when its row is inserted, and was complete.
LEMMA RecordAssignmentKeeps ==
    ASSUME TxInv, NEW s \in Sessions, RecordAssignment(s)
    PROVE  TxInv'
<1>. DEFINE v == Target(s)
            entries == AssignmentRows(s, request[s].channel, Inserted(v))
<1>1. TxTypeOK /\ SessionSound(s)
  BY DEF TxInv
<1>2. /\ step[s] = "RecordAssignment" /\ MayReference(s, v)
      /\ written' = [written EXCEPT ![s].rows = entries]
      /\ Goto(s, "Commit") /\ local' = local /\ Writes
  BY DEF RecordAssignment
<1>3. v \in Versions /\ request[s].channel \in Channels
  <2>1. request[s] \in Requests /\ request[s].op = "AssignVersion"
    BY <1>1, <1>2 DEF SessionSound, Serving
  <2>. QED  BY <1>1, <2>1, TargetIsVersion, TxAssumption DEF Request
<1>4. /\ Inserted(v) \in SUBSET (Versions \cup {Null})
      /\ \A w \in Inserted(v) : w = v /\ versions[v] # Null
  BY <1>1, <1>3 DEF Inserted, Gone, TxTypeOK
<1>5. entries \subseteq AssignmentRow /\ \A r \in entries : r.version \in Inserted(v)
  BY <1>1, <1>3, <1>4, AssignmentRowsAre
<1>6. versions[v] # Null => versions[v].sequence > 0
  BY <1>1, <1>2 DEF SessionSound, AssignsComplete
<1>. HIDE DEF entries, v
<1>7. \A r \in entries : MayReference(s, r.version) /\ CompleteIn(versions, r.version)
  BY <1>2, <1>4, <1>5, <1>6 DEF CompleteIn
<1>. QED  BY <1>2, <1>5, <1>7, AssignmentWriting

\* A build may be written of a version that exists and that nobody deletes.
LEMMA BuildWriting ==
    ASSUME TxInv, NEW s \in Sessions, step[s] \in {"UpdateBuild", "InsertBuild"},
           NEW n \in {"GetVersion", "Inherit"}, NEW l \in Local, Read(s, n, l), Writes,
           NEW b \in Builds, NEW row \in BuildRow, WriteBuild(s, b, row),
           MayReference(s, VersionOfBuild[b]), versions[VersionOfBuild[b]] # Null
    PROVE  TxInv'
<1>1. TxTypeOK /\ SessionSound(s) /\ IsWritten(written[s]) /\ VersionOfBuild[b] \in Versions
  BY TxAssumption DEF TxInv, TxTypeOK
<1>2. UNCHANGED <<committed, clock, request, stamp, bucketLock>>
  BY DEF Writes
<1>3. /\ step' \in [Sessions -> Steps] /\ step'[s] = n
      /\ local' \in [Sessions -> Local]
      /\ \A t \in Sessions : t # s => step'[t] = step[t] /\ local'[t] = local[t]
  BY <1>1, ReadIs DEF TxTypeOK, Steps
<1>4. /\ written' = [t \in Sessions |-> written'[t]]
      /\ \A t \in Sessions : t # s => written'[t] = written[t]
      /\ written'[s] = [versions |-> written[s].versions,
                        builds |-> With(written[s].builds, b, row), rows |-> written[s].rows]
  BY <1>1 DEF WriteBuild, TxTypeOK, IsWritten
<1>5. /\ IsRows(written'[s].builds, Builds, BuildRow)
      /\ DOMAIN written'[s].builds = DOMAIN written[s].builds \cup {b}
      /\ \A c \in DOMAIN written[s].builds : c # b => written'[s].builds[c] = written[s].builds[c]
  <2>1. IsRows(written[s].builds, Builds, BuildRow) /\ row \in BuildRow \cup {Null}
    BY <1>1 DEF IsWritten
  <2>2. written'[s].builds = With(written[s].builds, b, row)
    BY <1>4
  <2>3. IsRows(With(written[s].builds, b, row), Builds, BuildRow)
    BY <2>1, WithIs
  <2>4. /\ DOMAIN With(written[s].builds, b, row) = DOMAIN written[s].builds \cup {b}
        /\ \A c \in DOMAIN written[s].builds : c # b =>
              With(written[s].builds, b, row)[c] = written[s].builds[c]
    BY DEF With
  <2>. QED  BY <2>2, <2>3, <2>4
<1>6. OwnStep(s)
  BY <1>2, <1>3, <1>4 DEF OwnStep
<1>7. IsWritten(written'[s])
  BY <1>1, <1>4, <1>5 DEF IsWritten
<1>8. TxTypeOK'
  BY <1>1, <1>2, <1>3, <1>4, <1>7, TypesKept DEF OwnTypes, TxTypeOK
<1>9. /\ LocksItsRows(s) /\ \A v \in Versions : ~ Deleting(s, v)'
      /\ RowLocked(s)' /\ TakesBuilds(s)'
      /\ VersionsSeen(s)' = VersionsSeen(s)
      /\ \A v : MayReference(s, v)' <=> MayReference(s, v)
  BY <1>2, <1>4, VersionsAsWritten
<1>10. written'[s].rows = {} /\ DOMAIN written'[s].versions = {}
  BY <1>1, <1>4 DEF SessionSound, Staged, Early
<1>11. Serving(s)' /\ Staged(s)' /\ NumberAhead(s)' /\ AssignsComplete(s)' /\ RowsReference(s)'
  BY <1>1, <1>2, <1>3, <1>9, <1>10
     DEF SessionSound, Serving, Staged, NumberAhead, AssignsComplete, RowsReference
<1>12. BuildsReference(s)'
  <2>. SUFFICES ASSUME NEW c \in DOMAIN written'[s].builds, written'[s].builds[c] # Null
                PROVE  /\ MayReference(s, VersionOfBuild[c])
                       /\ VersionsSeen(s)[VersionOfBuild[c]] # Null
    BY <1>9 DEF BuildsReference
  <2>1. CASE c = b
    BY <2>1, <1>1, SeenIsCommitted
  <2>2. CASE c # b
    BY <2>2, <1>1, <1>5 DEF SessionSound, BuildsReference
  <2>. QED  BY <2>1, <2>2
<1>. QED  BY <1>6, <1>8, <1>9, <1>11, <1>12, OwnStepKeeps DEF SessionSound

\* Nobody deletes the version of a committed build that is free to be written: a
\* deletion would have taken it.
LEMMA UpdateBuildKeeps ==
    ASSUME TxInv, NEW s \in Sessions, UpdateBuild(s)
    PROVE  TxInv'
<1>. DEFINE b == request[s].build
            v == VersionOfBuild[b]
<1>1. TxTypeOK /\ SessionSound(s) /\ BuildsHaveVersions /\ local[s] \in Local
      /\ \A t \in Sessions : SessionSound(t)
  BY DEF TxInv, TxTypeOK
<1>2. /\ step[s] = "UpdateBuild" /\ BuildFree(s, b) /\ builds[b] # Null
      /\ WriteBuild(s, b, local[s].row) /\ Goto(s, "GetVersion") /\ local' = local /\ Writes
  BY DEF UpdateBuild
<1>3. b \in Builds /\ v \in Versions
  <2>1. request[s] \in Requests /\ request[s].op = "UpdateBuild"
    BY <1>1, <1>2 DEF SessionSound, Serving
  <2>. QED  BY <2>1, TxAssumption DEF Request
<1>. HIDE DEF b
<1>4. versions[v] # Null
  BY <1>1, <1>2, <1>3 DEF BuildsHaveVersions
<1>5. MayReference(s, v)
  <2>. SUFFICES ASSUME NEW t \in Sessions, t # s, Deleting(t, v)
                PROVE  FALSE
    BY DEF MayReference, Others, Deleting
  <2>1. b \in DOMAIN written[t].builds
    BY <1>1, <1>2, <1>3 DEF SessionSound, TakesBuilds
  <2>. QED  BY <1>2, <2>1 DEF BuildFree, Others
<1>6. Read(s, "GetVersion", local[s])
  BY <1>1, <1>2 DEF Read, TxTypeOK
<1>7. local[s].row \in BuildRow
  BY <1>1 DEF Local
<1>. QED  BY <1>1, <1>2, <1>3, <1>4, <1>5, <1>6, <1>7, BuildWriting

LEMMA InsertBuildKeeps ==
    ASSUME TxInv, NEW s \in Sessions, InsertBuild(s)
    PROVE  TxInv'
<1>. DEFINE b == request[s].build
            new == [done |-> request[s].done, metadataSeen |-> FALSE,
                    parent |-> request[s].parent]
            row == IF builds[b] = Null THEN new ELSE builds[b]
            l == [local[s] EXCEPT !.row = row]
<1>1. TxTypeOK /\ SessionSound(s) /\ local[s] \in Local
  BY DEF TxInv, TxTypeOK
<1>2. /\ step[s] = "InsertBuild" /\ MayReference(s, VersionOfBuild[b])
      /\ versions[VersionOfBuild[b]] # Null
      /\ WriteBuild(s, b, row) /\ Read(s, "Inherit", l) /\ Writes
  BY DEF InsertBuild
<1>3. b \in Builds /\ request[s].done \in BOOLEAN /\ request[s].parent \in Versions \cup {Null}
  <2>1. request[s] \in Requests /\ request[s].op = "CreateBuild"
    BY <1>1, <1>2 DEF SessionSound, Serving
  <2>. QED  BY <2>1, TxAssumption DEF Request
<1>4. row \in BuildRow
  BY <1>1, <1>3 DEF TxTypeOK, BuildRow
<1>. HIDE DEF row, b
<1>5. l \in Local
  BY <1>1, <1>4 DEF Local
<1>. QED  BY <1>2, <1>3, <1>4, <1>5, BuildWriting

\* A deletion takes the version's builds, and falls back to a complete version
\* that stays.
LEMMA DeleteRowKeeps ==
    ASSUME TxInv, NEW s \in Sessions, DeleteRow(s)
    PROVE  TxInv'
<1>. DEFINE v == Target(s)
            lost == BuildsOf(builds, v)
            left == {r \in history : r.version # v}
            valid == NewestValid(left, versions, Latest)
            entries == IF ~local[s].onLatest THEN {}
                    ELSE AssignmentRows(s, Latest, IF valid = {} THEN {Null} ELSE valid)
            gone == [u \in {v} |-> Null]
            taken == [b \in lost |-> Null]
<1>1. TxTypeOK /\ SessionSound(s) /\ AssignedComplete /\ IsWritten(written[s])
  BY DEF TxInv, TxTypeOK
<1>2. /\ step[s] = "DeleteRow" /\ MayDelete(s, v)
      /\ \A w \in valid : MayReference(s, w)
      /\ written' = [written EXCEPT ![s].versions = gone, ![s].builds = taken, ![s].rows = entries]
      /\ Goto(s, "Commit") /\ local' = local
      /\ UNCHANGED <<committed, clock, request, stamp, bucketLock>>
  BY DEF DeleteRow, Writes
<1>3. v \in Versions
  BY <1>1, <1>2, TargetIsVersion DEF SessionSound, Serving
<1>4. /\ valid \in SUBSET (Versions \cup {Null})
      /\ \A w \in valid : w # Null /\ w # v /\ CompleteIn(versions, w)
  BY <1>1 DEF NewestValid, Newest, RowsOf, TxTypeOK, AssignmentRow, AssignedComplete, CompleteIn
<1>5. lost \subseteq Builds /\ \A b \in Builds : VersionOfBuild[b] = v /\ builds[b] # Null => b \in lost
  BY DEF BuildsOf
<1>. HIDE DEF valid, lost, v
<1>6. entries \subseteq AssignmentRow /\ \A r \in entries : r.version = Null \/ r.version \in valid
  BY <1>1, <1>4, AssignmentRowsAre, TxAssumption
<1>. HIDE DEF entries
<1>7. /\ written' = [t \in Sessions |-> written'[t]]
      /\ \A t \in Sessions : t # s => written'[t] = written[t]
      /\ written'[s] = [versions |-> gone, builds |-> taken, rows |-> entries]
  BY <1>1, <1>2 DEF TxTypeOK, IsWritten
<1>8. /\ step' \in [Sessions -> Steps] /\ step'[s] = "Commit"
      /\ \A t \in Sessions : t # s => step'[t] = step[t]
  BY <1>1, <1>2, GotoIs DEF TxTypeOK, Steps
<1>9. OwnStep(s)
  BY <1>2, <1>7, <1>8 DEF OwnStep
<1>10. IsRows(gone, Versions, VersionRow) /\ IsRows(taken, Builds, BuildRow)
  BY <1>3, <1>5 DEF IsRows
<1>11. IsWritten(written'[s])
  BY <1>6, <1>7, <1>10 DEF IsWritten
<1>12. TxTypeOK'
  BY <1>1, <1>2, <1>7, <1>8, <1>11, TypesKept DEF OwnTypes, TxTypeOK
<1>13. DOMAIN written'[s].versions = {v} /\ written'[s].versions[v] = Null
  BY <1>7
<1>14. LocksItsRows(s)
  BY <1>2, <1>13 DEF LocksItsRows, MayDelete, Deleting
<1>15. RowLocked(s)'
  <2>. SUFFICES ASSUME NEW u, u = v
                PROVE  VersionFree(s, u)'
    BY <1>13 DEF RowLocked
  <2>. QED  BY <1>2, <1>7 DEF MayDelete, VersionFree, Others
<1>16. UNCHANGED <<versions, builds>>
  BY <1>2 DEF committed
<1>17. TakesBuilds(s)'
  BY <1>5, <1>7, <1>13, <1>16 DEF TakesBuilds, Deleting
<1>18. BuildsReference(s)'
  BY <1>7 DEF BuildsReference
<1>19. RowsReference(s)'
  <2>. SUFFICES ASSUME NEW r \in entries, r.version # Null
                PROVE  MayReference(s, r.version)' /\ CompleteIn(VersionsSeen(s)', r.version)
    BY <1>7 DEF RowsReference
  <2>1. r.version \in valid /\ r.version \in Versions
    BY <1>6 DEF AssignmentRow
  <2>2. MayReference(s, r.version)'
    BY <1>2, <1>7, <2>1 DEF MayReference, Others
  <2>3. VersionsSeen(s)'[r.version] = versions[r.version]
    <3>1. versions \in [Versions -> VersionRow \cup {Null}]
      BY <1>1 DEF TxTypeOK
    <3>2. \A x \in Versions : VersionsSeen(s)'[x] =
             IF x \in DOMAIN gone THEN gone[x] ELSE versions[x]
      BY <1>7, <1>10, <1>16, <3>1, OverlaidIs DEF VersionsSeen
    <3>. QED  BY <3>2, <2>1, <1>4
  <2>. QED  BY <1>4, <2>1, <2>2, <2>3 DEF CompleteIn
<1>20. SessionSound(s)'
  BY <1>2, <1>8, <1>15, <1>17, <1>18, <1>19, ReadyToCommit DEF SessionSound
<1>. QED  BY <1>9, <1>12, <1>14, <1>20, OwnStepKeeps

-----------------------------------------------------------------------------
(* The end of a transaction *)

LEMMA EndIs ==
    ASSUME TxTypeOK, NEW s \in Sessions, End(s)
    PROVE  /\ clock' = clock
           /\ step' \in [Sessions -> Steps] /\ request' \in [Sessions -> Requests \cup {Null}]
           /\ stamp' \in [Sessions -> Nat] /\ local' \in [Sessions -> Local]
           /\ written' = [t \in Sessions |-> written'[t]]
           /\ \A t \in Sessions : IsWritten(written'[t])
           /\ bucketLock' \in Sessions \cup {Null}
           /\ step'[s] = "idle" /\ written'[s] = Nothing
           /\ \A t \in Sessions : t # s =>
                 /\ step'[t] = step[t] /\ request'[t] = request[t] /\ local'[t] = local[t]
                 /\ written'[t] = written[t]
                 /\ (bucketLock' = t) <=> (bucketLock = t)
<1>1. /\ step' = [step EXCEPT ![s] = "idle"]
      /\ request' = [request EXCEPT ![s] = Null]
      /\ stamp' = [stamp EXCEPT ![s] = 0]
      /\ local' = [local EXCEPT ![s] = Blank]
      /\ written' = [written EXCEPT ![s] = Nothing]
      /\ bucketLock' = IF bucketLock = s THEN Null ELSE bucketLock
      /\ clock' = clock
  BY DEF End, Goto
<1>2. /\ step' \in [Sessions -> Steps] /\ request' \in [Sessions -> Requests \cup {Null}]
      /\ stamp' \in [Sessions -> Nat] /\ local' \in [Sessions -> Local]
  BY <1>1, BlankIsLocal DEF TxTypeOK, Steps
<1>3. /\ written' = [t \in Sessions |-> written'[t]]
      /\ written'[s] = Nothing
      /\ \A t \in Sessions : t # s => written'[t] = written[t]
  BY <1>1 DEF TxTypeOK
<1>4. \A t \in Sessions : IsWritten(written'[t])
  BY <1>3, NothingIsWritten DEF TxTypeOK
<1>5. \A t \in Sessions : t # s => (bucketLock' = t) <=> (bucketLock = t)
  BY <1>1, TxAssumption
<1>6. bucketLock' \in Sessions \cup {Null}
  BY <1>1 DEF TxTypeOK
<1>. QED  BY <1>1, <1>2, <1>3, <1>4, <1>5, <1>6 DEF TxTypeOK

\* A session that is idle has nothing to answer for.
LEMMA IdleIsSound ==
    ASSUME NEW s \in Sessions, step'[s] = "idle", written'[s] = Nothing
    PROVE  SessionSound(s)'
<1>1. /\ DOMAIN written'[s].versions = {} /\ DOMAIN written'[s].builds = {}
      /\ written'[s].rows = {}
  BY NothingIsWritten
<1>2. \A v : ~ Deleting(s, v)'
  BY <1>1 DEF Deleting
<1>. QED
  BY <1>1, <1>2 DEF SessionSound, Serving, Staged, RowLocked, NumberAhead, RowsReference,
                    BuildsReference, TakesBuilds, AssignsComplete

LEMMA RollbackKeeps ==
    ASSUME TxInv, NEW s \in Sessions, Rollback(s)
    PROVE  TxInv'
<1>1. TxTypeOK /\ End(s) /\ UNCHANGED committed
  BY DEF TxInv, Rollback
<1>2. TxTypeOK'
  BY <1>1, EndIs DEF TxTypeOK, committed
<1>3. OwnStep(s)
  BY <1>1, EndIs DEF OwnStep
<1>4. step'[s] = "idle" /\ written'[s] = Nothing
  BY <1>1, EndIs
<1>5. LocksItsRows(s)
  BY <1>4, NothingIsWritten DEF LocksItsRows, Deleting
<1>. QED  BY <1>2, <1>3, <1>4, <1>5, IdleIsSound, OwnStepKeeps

\* What a commit publishes: the numbers of complete versions stand, and a version
\* or a build that nobody was writing is as it was.
LEMMA CommitIs ==
    ASSUME TxInv, NEW s \in Sessions, Commit(s)
    PROVE  /\ versions' \in [Versions -> VersionRow \cup {Null}]
           /\ builds' \in [Builds -> BuildRow \cup {Null}]
           /\ history' \subseteq AssignmentRow
           /\ \A v \in Versions :
                 /\ versions'[v] = Null <=> versions[v] = Null \/ Deleting(s, v)
                 /\ v \notin DOMAIN written[s].versions => versions'[v] = versions[v]
                 /\ versions'[v] # Null =>
                       \/ versions'[v].sequence = versions[v].sequence
                       \/ versions[v].sequence = 0 /\ bucketLock = s
           /\ \A b \in Builds : builds'[b] =
                 IF b \in DOMAIN written[s].builds THEN written[s].builds[b] ELSE builds[b]
<1>1. TxTypeOK /\ IsWritten(written[s]) /\ SessionSound(s)
  BY DEF TxInv, TxTypeOK
<1>2. /\ versions' = Overlaid(written[s].versions, versions)
      /\ builds' = Overlaid(written[s].builds, builds)
      /\ history' = HistorySeen(s)
  BY DEF Commit, VersionsSeen, BuildsSeen
<1>3. /\ versions' \in [Versions -> VersionRow \cup {Null}]
      /\ \A v \in Versions : versions'[v] =
            IF v \in DOMAIN written[s].versions THEN written[s].versions[v] ELSE versions[v]
  BY <1>1, <1>2, OverlaidIs DEF TxTypeOK, IsWritten
<1>4. /\ builds' \in [Builds -> BuildRow \cup {Null}]
      /\ \A b \in Builds : builds'[b] =
            IF b \in DOMAIN written[s].builds THEN written[s].builds[b] ELSE builds[b]
  BY <1>1, <1>2, OverlaidIs DEF TxTypeOK, IsWritten
<1>5. history' \subseteq AssignmentRow
  BY <1>1, <1>2 DEF HistorySeen, TxTypeOK, IsWritten
<1>6. ASSUME NEW v \in Versions
      PROVE  /\ versions'[v] = Null <=> versions[v] = Null \/ Deleting(s, v)
             /\ versions'[v] # Null =>
                   \/ versions'[v].sequence = versions[v].sequence
                   \/ versions[v].sequence = 0 /\ bucketLock = s
  <2>1. CASE v \in DOMAIN written[s].versions
    BY <2>1, <1>1, <1>3 DEF Deleting, SessionSound, RowLocked, Numbering
  <2>2. CASE v \notin DOMAIN written[s].versions
    BY <2>2, <1>3 DEF Deleting
  <2>. QED  BY <2>1, <2>2
<1>. QED  BY <1>3, <1>4, <1>5, <1>6

\* What the others rely on outlives a commit.
LEMMA CommitKeepsOthers ==
    ASSUME TxInv, NEW s \in Sessions, Commit(s), NEW t \in Sessions, t # s
    PROVE  SessionSound(t)'
<1>1. /\ TxTypeOK /\ IsWritten(written[t]) /\ IsWritten(written[s])
      /\ SessionSound(s) /\ SessionSound(t)
  BY DEF TxInv, TxTypeOK
<1>2. /\ UNCHANGED <<step[t], request[t], local[t], written[t]>>
      /\ (bucketLock' = t) <=> (bucketLock = t)
      /\ written'[s] = Nothing
      /\ \A u \in Sessions : u # s => written'[u] = written[u]
  BY <1>1, EndIs DEF Commit
<1>3. \A v : /\ VersionFree(t, v) => VersionFree(t, v)'
             /\ MayReference(t, v) => MayReference(t, v)'
  BY <1>2, NothingIsWritten DEF VersionFree, MayReference, Others
<1>4. \A v \in Versions : MayReference(t, v) => ~ Deleting(s, v)
  BY DEF MayReference, Deleting, Others
<1>5. ASSUME NEW v \in Versions, MayReference(t, v)
      PROVE  /\ VersionsSeen(t)[v] # Null => VersionsSeen(t)'[v] # Null
             /\ CompleteIn(VersionsSeen(t), v) => CompleteIn(VersionsSeen(t)', v)
  <2>1. /\ VersionsSeen(t)[v] = IF v \in DOMAIN written[t].versions
                                THEN written[t].versions[v] ELSE versions[v]
        /\ VersionsSeen(t)'[v] = IF v \in DOMAIN written[t].versions
                                 THEN written[t].versions[v] ELSE versions'[v]
    BY <1>1, <1>2, CommitIs, OverlaidIs DEF VersionsSeen, IsWritten, TxTypeOK
  <2>2. versions[v] # Null => versions'[v] # Null
    BY <1>4, <1>5, CommitIs
  <2>3. CompleteIn(versions, v) => CompleteIn(versions', v)
    BY <2>2, CommitIs DEF CompleteIn
  <2>. QED  BY <2>1, <2>2, <2>3 DEF CompleteIn
<1>6. Serving(t)' /\ Staged(t)'
  BY <1>1, <1>2 DEF SessionSound, Serving, Staged, Deleting
<1>7. RowLocked(t)'
  <2>. SUFFICES ASSUME NEW v \in DOMAIN written[t].versions
                PROVE  /\ VersionFree(t, v)'
                       /\ written[t].versions[v] # Null => versions'[v] # Null /\ Numbering(t, v)'
    BY <1>2 DEF RowLocked
  <2>1. VersionFree(t, v) /\ v \in Versions
    BY <1>1 DEF SessionSound, RowLocked, IsWritten, IsRows
  <2>2. versions'[v] = versions[v]
    BY <2>1, CommitIs DEF VersionFree, Others
  <2>. QED  BY <1>1, <1>2, <1>3, <2>1, <2>2 DEF SessionSound, RowLocked, Numbering
<1>8. NumberAhead(t)'
  <2>. SUFFICES ASSUME step[t] = "CompleteVersion"
                PROVE  /\ local[t].number > 0
                       /\ \A v \in Versions :
                             versions'[v] # Null => versions'[v].sequence < local[t].number
    BY <1>2 DEF NumberAhead
  <2>1. bucketLock # s
    BY <1>1 DEF SessionSound, Staged
  <2>. QED  BY <1>1, <2>1, CommitIs DEF SessionSound, NumberAhead
<1>9. RowsReference(t)'
  <2>. SUFFICES ASSUME NEW r \in written[t].rows, r.version # Null
                PROVE  MayReference(t, r.version)' /\ CompleteIn(VersionsSeen(t)', r.version)
    BY <1>2 DEF RowsReference
  <2>1. r.version \in Versions
    BY <1>1 DEF IsWritten, AssignmentRow
  <2>. QED  BY <1>1, <1>3, <1>5, <2>1 DEF SessionSound, RowsReference
<1>10. BuildsReference(t)'
  <2>. SUFFICES ASSUME NEW b \in DOMAIN written[t].builds, written[t].builds[b] # Null
                PROVE  MayReference(t, VersionOfBuild[b])'
                       /\ VersionsSeen(t)'[VersionOfBuild[b]] # Null
    BY <1>2 DEF BuildsReference
  <2>1. VersionOfBuild[b] \in Versions
    BY <1>1, TxAssumption DEF IsWritten, IsRows
  <2>. QED  BY <1>1, <1>3, <1>5, <2>1 DEF SessionSound, BuildsReference
<1>11. TakesBuilds(t)'
  <2>. SUFFICES ASSUME NEW v \in Versions, Deleting(t, v), NEW b \in Builds,
                       VersionOfBuild[b] = v, builds'[b] # Null
                PROVE  b \in DOMAIN written[t].builds /\ written[t].builds[b] = Null
    BY <1>2 DEF TakesBuilds, Deleting
  <2>1. ~ MayReference(s, v)
    BY DEF MayReference, Deleting, Others
  <2>2. b \notin DOMAIN written[s].builds
    BY <1>1, <2>1, CommitIs DEF SessionSound, BuildsReference
  <2>3. builds[b] # Null
    BY <2>2, CommitIs
  <2>. QED  BY <1>1, <2>3 DEF SessionSound, TakesBuilds
<1>12. AssignsComplete(t)'
  <2>. SUFFICES ASSUME step[t] = "RecordAssignment", versions'[Target(t)] # Null
                PROVE  versions'[Target(t)].sequence > 0
    BY <1>2 DEF AssignsComplete, Target
  <2>1. Target(t) \in Versions
    BY <1>1, TargetIsVersion DEF SessionSound, Serving
  <2>. QED  BY <1>1, <2>1, CommitIs DEF SessionSound, AssignsComplete
<1>. QED  BY <1>6, <1>7, <1>8, <1>9, <1>10, <1>11, <1>12 DEF SessionSound

LEMMA CommitKeeps ==
    ASSUME TxInv, NEW s \in Sessions, Commit(s)
    PROVE  TxInv'
<1>1. TxTypeOK /\ SessionSound(s) /\ AssignedComplete /\ BuildsHaveVersions
      /\ IsWritten(written[s])
  BY DEF TxInv, TxTypeOK
<1>2. End(s) /\ history' = HistorySeen(s) /\ versions' = VersionsSeen(s)
  BY DEF Commit
<1>3. TxTypeOK'
  BY <1>1, <1>2, EndIs, CommitIs DEF TxTypeOK
<1>4. AssignedComplete'
  <2>. SUFFICES ASSUME NEW r \in history', r.version # Null
                PROVE  CompleteIn(versions', r.version)
    BY DEF AssignedComplete, CompleteIn
  <2>1. CASE r \in written[s].rows
    BY <1>1, <1>2, <2>1 DEF SessionSound, RowsReference
  <2>2. CASE r \in history /\ r.version \notin Gone(written[s].versions)
    <3>1. r.version \in Versions /\ CompleteIn(versions, r.version)
      BY <1>1, <2>2 DEF TxTypeOK, AssignmentRow, AssignedComplete, CompleteIn
    <3>2. ~ Deleting(s, r.version)
      BY <2>2 DEF Deleting, Gone
    <3>. QED  BY <3>1, <3>2, CommitIs DEF CompleteIn
  <2>. QED  BY <1>2, <2>1, <2>2 DEF HistorySeen
<1>5. BuildsHaveVersions'
  <2>. SUFFICES ASSUME NEW b \in Builds, builds'[b] # Null
                PROVE  versions'[VersionOfBuild[b]] # Null
    BY DEF BuildsHaveVersions
  <2>1. VersionOfBuild[b] \in Versions
    BY TxAssumption
  <2>2. CASE b \in DOMAIN written[s].builds
    BY <1>1, <1>2, <2>2, CommitIs DEF SessionSound, BuildsReference
  <2>3. CASE b \notin DOMAIN written[s].builds
    <3>1. builds[b] # Null /\ versions[VersionOfBuild[b]] # Null
      BY <1>1, <2>3, CommitIs DEF BuildsHaveVersions
    <3>2. ~ Deleting(s, VersionOfBuild[b])
      BY <1>1, <2>1, <2>3, <3>1 DEF SessionSound, TakesBuilds
    <3>. QED  BY <2>1, <3>1, <3>2, CommitIs
  <2>. QED  BY <2>2, <2>3
<1>6. step'[s] = "idle" /\ written'[s] = Nothing
  BY <1>1, <1>2, EndIs
<1>. QED  BY <1>3, <1>4, <1>5, <1>6, IdleIsSound, CommitKeepsOthers DEF TxInv

-----------------------------------------------------------------------------
(* The theorems about the registry's transactions *)

LEMMA TxInitInv == TxInit => TxInv
<1>. SUFFICES ASSUME TxInit PROVE TxInv
  OBVIOUS
<1>1. /\ versions = StartVersions /\ builds = StartBuilds /\ history = StartHistory
      /\ clock \in Nat
  BY StartAssumption, FS_CardinalityType DEF TxInit
<1>2. TxTypeOK
  BY <1>1, StartAssumption, NothingIsWritten, BlankIsLocal, TxAssumption
     DEF TxInit, TxTypeOK, Steps
<1>3. AssignedComplete /\ BuildsHaveVersions
  BY <1>1, StartAssumption DEF AssignedComplete, BuildsHaveVersions
<1>4. ASSUME NEW s \in Sessions
      PROVE  SessionSound(s)
  <2>1. step[s] = "idle" /\ written[s] = Nothing
    BY DEF TxInit
  <2>2. /\ DOMAIN written[s].versions = {} /\ DOMAIN written[s].builds = {}
        /\ written[s].rows = {}
    BY <2>1, NothingIsWritten
  <2>. QED
    BY <2>1, <2>2 DEF SessionSound, Serving, Staged, RowLocked, NumberAhead, RowsReference,
                      BuildsReference, TakesBuilds, AssignsComplete, Deleting
<1>. QED  BY <1>2, <1>3, <1>4 DEF TxInv

\* However requests overlap on any number of replicas: a session writes only
\* versions it has locked, what it is about to commit references complete
\* versions that nobody deletes, and the number allotted under the bucket lock
\* stays above every other.
THEOREM TxInvariance == TxSpec => []TxInv
<1>1. TxInv /\ [TxNext]_txVars => TxInv'
  <2>. SUFFICES ASSUME TxInv, [TxNext]_txVars PROVE TxInv'
    OBVIOUS
  <2>1. CASE TxNext
    BY <2>1, BeginKeeps, GetVersionKeeps, ListBuildsKeeps, UpdateBuildKeeps, InsertBuildKeeps,
       InheritKeeps, LockBucketKeeps, CompleteVersionKeeps, RevokeRowKeeps, UnrevokeRowKeeps,
       ListDescendantsKeeps, DescendIntoKeeps, DescendedKeeps, RollBackKeeps,
       CheckChannelsKeeps, DeleteRowKeeps, RecordAssignmentKeeps, CommitKeeps, RollbackKeeps
       DEF TxNext
  <2>2. CASE UNCHANGED txVars
    BY <2>2 DEF txVars, committed, TxInv, TxTypeOK, AssignedComplete, BuildsHaveVersions,
       SessionSound, Serving, Staged, Deleting, RowLocked, Numbering, VersionFree, Others,
       NumberAhead, RowsReference, CompleteIn, MayReference, VersionsSeen, BuildsReference,
       TakesBuilds, AssignsComplete, Target
  <2>. QED  BY <2>1, <2>2
<1>. QED  BY TxInitInv, <1>1, PTL DEF TxSpec

\* Committed rows, overlays, requests, memory and the bucket lock stay well typed.
THEOREM TxTypeCorrect == TxSpec => []TxTypeOK
<1>1. TxInv => TxTypeOK
  BY DEF TxInv
<1>. QED  BY <1>1, TxInvariance, PTL

\* The number read by NextVersionSequence under LockBucketForVersionSequence is
\* still free when CompleteVersion writes it: the unique index refuses nothing.
THEOREM AllottedStillFreeHolds == TxSpec => []AllottedStillFree
<1>1. TxInv => AllottedStillFree
  <2>. SUFFICES ASSUME TxInv, NEW s \in Sessions, step[s] = "CompleteVersion",
                       NEW v \in Versions, versions[v] # Null
                PROVE  versions[v].sequence # local[s].number
    BY DEF AllottedStillFree, Unused
  <2>1. versions[v].sequence \in Nat /\ local[s].number \in Nat
    BY DEF TxInv, TxTypeOK, VersionRow, Local
  <2>2. versions[v].sequence < local[s].number
    BY DEF TxInv, SessionSound, NumberAhead
  <2>. QED  BY <2>1, <2>2
<1>. QED  BY <1>1, TxInvariance, PTL

\* A committed assignment names a surviving complete version, however assignments,
\* rollbacks and deletions overlap.
THEOREM TxAssignedCompleteHolds == TxSpec => []AssignedComplete
<1>1. TxInv => AssignedComplete
  BY DEF TxInv
<1>. QED  BY <1>1, TxInvariance, PTL

\* A build is never committed into a version that was deleted meanwhile.
THEOREM BuildsHaveVersionsHolds == TxSpec => []BuildsHaveVersions
<1>1. TxInv => BuildsHaveVersions
  BY DEF TxInv
<1>. QED  BY <1>1, TxInvariance, PTL

LEMMA OnlyCommitPublishes ==
    ASSUME [TxNext]_txVars
    PROVE  UNCHANGED versions \/ \E s \in Sessions : Commit(s)
<1>1. ASSUME NEW s \in Sessions,
             \/ GetVersion(s) \/ ListBuilds(s) \/ ListDescendants(s) \/ Descended(s)
             \/ CheckChannels(s)
      PROVE  UNCHANGED versions
  BY <1>1 DEF GetVersion, ListBuilds, ListDescendants, Descended, CheckChannels, Reads, committed
<1>2. ASSUME NEW s \in Sessions,
             \/ UpdateBuild(s) \/ InsertBuild(s) \/ Inherit(s) \/ CompleteVersion(s)
             \/ RevokeRow(s) \/ UnrevokeRow(s) \/ \E w \in Versions : DescendInto(s, w)
             \/ RollBack(s) \/ DeleteRow(s) \/ RecordAssignment(s)
      PROVE  UNCHANGED versions
  <2>1. Writes
    BY <1>2 DEF UpdateBuild, InsertBuild, Inherit, CompleteVersion, RevokeRow, UnrevokeRow,
                DescendInto, RollBack, DeleteRow, RecordAssignment
  <2>. QED  BY <2>1 DEF Writes, committed
<1>3. ASSUME NEW s \in Sessions,
             (\E r \in Requests : Begin(s, r)) \/ LockBucket(s) \/ Rollback(s)
      PROVE  UNCHANGED versions
  BY <1>3 DEF Begin, LockBucket, Rollback, committed
<1>4. UNCHANGED txVars => UNCHANGED versions
  BY DEF txVars, committed
<1>. QED  BY <1>1, <1>2, <1>3, <1>4 DEF TxNext

\* A committed number stands while its version does, whatever overlaps.
THEOREM TxCompletionStandsHolds == TxSpec => CompletionStands
<1>. DEFINE Stands ==
        \A v \in LiveVersions : versions[v].sequence > 0 /\ versions'[v] # Null
          => versions'[v].sequence = versions[v].sequence
<1>1. TxInv /\ [TxNext]_txVars => [Stands]_txVars
  <2>. SUFFICES ASSUME TxInv, [TxNext]_txVars PROVE Stands
    OBVIOUS
  <2>1. CASE UNCHANGED versions
    BY <2>1
  <2>2. CASE \E s \in Sessions : Commit(s)
    BY <2>2, CommitIs DEF LiveVersions
  <2>. QED  BY <2>1, <2>2, OnlyCommitPublishes
<1>. QED  BY <1>1, TxInvariance, PTL DEF TxSpec, CompletionStands

-----------------------------------------------------------------------------
(* The dispatcher: the inductive invariant *)

Table == [Hooks -> [Ids -> Row \cup {None}]]

\* An answer to be recorded is one of the outcomes.
Answered == \A c \in calls : c.op = "record" => c.outcome \in Outcomes

\* Ids are drawn once: what is ahead of the last has no row, no event and no
\* request.
Drawn ==
    /\ \A i \in outbox : i <= lastId
    /\ \A h \in Hooks, i \in Ids : lastId < i => rows[h][i] = None /\ sent[h][i] = 0

\* Only a row to be retried backs off, and an unfinished one has attempts left.
RowSound(row) ==
    /\ row.backingOff => row.status = "retrying"
    /\ row.status \notin Terminal => row.attempts < MaxAttempts
RowsSound == \A h \in Hooks, i \in Ids : rows[h][i] # None => RowSound(rows[h][i])

\* A pass has an event that was drawn, lists what is due and has in hand a row
\* that it listed.
Working(r) == pass[r].at \in {"next", "send", "record"}
PassSound(r) ==
    /\ pass[r].at # "idle" => pass[r].event \in Ids /\ pass[r].event <= lastId
    /\ Working(r) => \A h \in Hooks : pass[r].list[h] # None =>
          Due(pass[r].list[h]) /\ RowSound(pass[r].list[h])
    /\ pass[r].at \in {"send", "record"} =>
          pass[r].hook \in Hooks /\ pass[r].list[pass[r].hook] # None
    /\ pass[r].at = "record" => pass[r].outcome \in Outcomes
PassesSound == \A r \in Replicas : PassSound(r)

\* With one dispatcher, the event of its pass is queued, a listed row is as it
\* was listed or gone, and an unfinished one that is not listed makes the event
\* wait.
InHand(r) ==
    LET id == pass[r].event
    IN  /\ pass[r].at # "idle" => id \in outbox
        /\ Working(r) => \A h \in Hooks : rows[h][id] # None =>
              /\ pass[r].list[h] # None => rows[h][id] = pass[r].list[h]
              /\ rows[h][id].status \notin Terminal =>
                    pass[r].list[h] # None \/ ~ pass[r].all
AllInHand == Alone => \A r \in Replicas : InHand(r)

\* With one dispatcher, a request beyond the attempts counted was followed by an
\* abandoned pass, or is about to be recorded.
Recording(h, i) ==
    \E r \in Replicas : pass[r].at = "record" /\ pass[r].hook = h /\ pass[r].event = i
Uncounted(h, i) == IF Recording(h, i) THEN 1 ELSE 0
RowCounts ==
    Alone => \A h \in Hooks, i \in Ids : rows[h][i] # None =>
        sent[h][i] <= rows[h][i].attempts + aborts + Uncounted(h, i)
ListCount(r) ==
    \A h \in Hooks : Working(r) /\ pass[r].list[h] # None =>
        sent[h][pass[r].event] <= pass[r].list[h].attempts + aborts
                                    + Uncounted(h, pass[r].event)
ListCounts == Alone => \A r \in Replicas : ListCount(r)

IInv ==
    /\ TypeOK /\ Answered /\ Drawn /\ RowsSound /\ PassesSound
    /\ QueuedUntilFinished /\ AllInHand
    /\ RowCounts /\ ListCounts /\ SentAtMost

-----------------------------------------------------------------------------
(* Steps of others than the dispatcher *)

\* What becomes of a row: it stays, it goes, it is new, finished or queued, or
\* its backoff has passed.
Entry(h, i) ==
    \/ rows'[h][i] = rows[h][i]
    \/ rows'[h][i] = None
    \/ /\ lastId < i /\ i <= lastId'
       /\ ~ rows'[h][i].backingOff
       /\ \/ rows'[h][i].status \in Terminal
          \/ rows'[h][i].attempts = 0 /\ i \in outbox'
    \/ /\ rows[h][i] # None
       /\ rows[h][i].backingOff /\ ~ rows'[h][i].backingOff
       /\ rows'[h][i].status = rows[h][i].status
       /\ rows'[h][i].attempts = rows[h][i].attempts

OthersWrite ==
    /\ UNCHANGED <<pass, sent, aborts>>
    /\ lastId' \in 0..MaxId /\ lastId <= lastId'
    /\ outbox \subseteq outbox' /\ outbox' \subseteq Ids
    /\ \A i \in outbox' : i <= lastId'
    /\ rows' \in Table
    /\ \A h \in Hooks, i \in Ids : Entry(h, i)

LEMMA KeepEither ==
    ASSUME NEW ring, NEW ids, NEW i \in Ids
    PROVE  Keep(ring, ids)[i] = ring[i] \/ Keep(ring, ids)[i] = None
  BY DEF Keep

LEMMA KeepTyped ==
    ASSUME NEW ring \in [Ids -> Row \cup {None}], NEW ids
    PROVE  Keep(ring, ids) \in [Ids -> Row \cup {None}]
  BY DEF Keep

LEMMA OneAlone ==
    ASSUME Alone
    PROVE  \A q, r \in Replicas : q = r
  <1>1. \E r : Replicas = {r}
    BY FS_Singleton, WebhookAssumption DEF Alone
  <1> QED  BY <1>1

LEMMA EnqueueWrites ==
    ASSUME IInv, Enqueue
    PROVE  OthersWrite
  <1> DEFINE id == lastId + 1
  <1>1. /\ lastId \in 0..MaxId /\ id \in Ids /\ lastId' = id
        /\ outbox' = outbox \cup {id} /\ outbox \subseteq Ids
        /\ \A i \in outbox : i <= lastId
        /\ UNCHANGED <<pass, sent, aborts>>
    BY WebhookAssumption DEF Enqueue, IInv, TypeOK, Drawn, Ids
  <1>2. Fresh \in Row /\ Fresh.attempts = 0 /\ ~ Fresh.backingOff
    BY WebhookAssumption DEF Fresh, Row
  <1>3. rows \in Table
    BY DEF IInv, TypeOK, Table
  <1>4. rows' = [h \in Hooks |-> IF h \in Active THEN [RoomInRing(h) EXCEPT ![id] = Fresh]
                                 ELSE rows[h]]
    BY DEF Enqueue
  <1>5. \A h \in Hooks : RoomInRing(h) \in [Ids -> Row \cup {None}]
    BY <1>3, KeepTyped DEF RoomInRing, Table
  <1>6. rows' \in Table
    BY <1>1, <1>2, <1>3, <1>4, <1>5 DEF Table
  <1>7. ASSUME NEW h \in Hooks, NEW i \in Ids
        PROVE  Entry(h, i)
    <2>1. CASE h \notin Active
      BY <1>4, <2>1 DEF Entry
    <2>2. CASE h \in Active /\ i = id
      <3>1. rows'[h][i] = Fresh
        BY <1>1, <1>4, <1>5, <2>2
      <3> QED  BY <1>1, <1>2, <2>2, <3>1 DEF Entry
    <2>3. CASE h \in Active /\ i # id
      <3>1. rows'[h][i] = RoomInRing(h)[i]
        BY <1>4, <1>5, <2>3
      <3> QED  BY <3>1, KeepEither DEF RoomInRing, Entry
    <2> QED  BY <2>1, <2>2, <2>3
  <1>8. /\ lastId' \in 0..MaxId /\ lastId <= lastId' /\ outbox \subseteq outbox'
        /\ outbox' \subseteq Ids /\ \A i \in outbox' : i <= lastId'
    BY <1>1, WebhookAssumption DEF Ids
  <1> QED  BY <1>1, <1>6, <1>7, <1>8 DEF OthersWrite

LEMMA RecordVerificationWrites ==
    ASSUME IInv, NEW c \in calls, RecordVerification(c)
    PROVE  OthersWrite
  <1> DEFINE id == lastId + 1
             row == [status |-> Verdict(c.outcome), attempts |-> 1, backingOff |-> FALSE]
             ring == [rows[c.hook] EXCEPT ![id] = row]
             ids == NewestOf(RowIds(c.hook) \cup {id}, Ring)
  <1>1. UNCHANGED <<outbox, pass, sent, aborts>>
    BY DEF RecordVerification, Calls
  <1>2. /\ outbox \subseteq Ids /\ lastId \in 0..MaxId /\ rows \in Table
        /\ \A i \in outbox : i <= lastId
        /\ c.hook \in Hooks
    BY DEF IInv, TypeOK, Drawn, Table, Call
  <1>3. CASE ~ Live(c.hook)
    <2>1. UNCHANGED <<rows, lastId>>
      BY <1>3 DEF RecordVerification
    <2> QED  BY <1>1, <1>2, <2>1 DEF OthersWrite, Entry
  <1>4. CASE Live(c.hook)
    <2>1. lastId < MaxId /\ lastId' = id
          /\ rows' = [rows EXCEPT ![c.hook] = Keep(ring, ids)]
      BY <1>4 DEF RecordVerification
    <2>2. id \in Ids /\ lastId' \in 0..MaxId /\ lastId < id
          /\ \A i \in outbox : i <= id
      BY <1>2, <2>1, WebhookAssumption DEF Ids
    <2>3. c.outcome \in Outcomes
      BY DEF RecordVerification, IInv, Answered
    <2>4. Verdict(c.outcome) \in Terminal
      BY <2>3 DEF Verdict, Outcomes, Terminal
    <2>5. row \in Row /\ row.status \in Terminal /\ ~ row.backingOff
      BY <2>4, WebhookAssumption DEF Row
    <2> HIDE DEF row
    <2>6. ring \in [Ids -> Row \cup {None}]
      BY <1>2, <2>2, <2>5 DEF Table
    <2>7. rows' \in Table
      BY <1>2, <2>1, <2>6, KeepTyped DEF Table
    <2>8. ASSUME NEW h \in Hooks, NEW i \in Ids
          PROVE  Entry(h, i)
      <3>1. CASE h # c.hook
        BY <1>2, <2>1, <3>1 DEF Entry, Table
      <3>2. CASE h = c.hook
        <4>1. rows'[h][i] = ring[i] \/ rows'[h][i] = None
          BY <1>2, <2>1, <3>2, KeepEither DEF Table
        <4>2. i # id => ring[i] = rows[h][i]
          BY <1>2, <3>2 DEF Table
        <4>3. i = id => ring[i] = row
          BY <1>2, <2>2, <3>2 DEF Table
        <4> QED  BY <2>1, <2>2, <2>5, <4>1, <4>2, <4>3 DEF Entry
      <3> QED  BY <3>1, <3>2
    <2> QED  BY <1>1, <1>2, <2>1, <2>2, <2>7, <2>8 DEF OthersWrite
  <1> QED  BY <1>3, <1>4

\* Steps that leave the rows and the outbox alone.
LEMMA QuietWrites ==
    ASSUME IInv, UNCHANGED <<rows, outbox, lastId, pass, sent, aborts>>
    PROVE  OthersWrite
  BY DEF OthersWrite, Entry, IInv, TypeOK, Drawn, Table

LEMMA DeleteWrites ==
    ASSUME IInv, NEW h \in Hooks, DeleteWebhook(h)
    PROVE  OthersWrite
  <1>1. rows \in Table /\ rows' = [rows EXCEPT ![h] = [i \in Ids |-> None]]
    BY DEF DeleteWebhook, IInv, TypeOK, Table
  <1>2. rows' \in Table /\ \A g \in Hooks, i \in Ids : Entry(g, i)
    BY <1>1 DEF Table, Entry
  <1> QED
    BY <1>2 DEF OthersWrite, DeleteWebhook, Calls, IInv, TypeOK, Drawn

LEMMA BackoffWrites ==
    ASSUME IInv, NEW h \in Hooks, NEW id \in Ids, BackoffElapses(h, id)
    PROVE  OthersWrite
  <1> DEFINE row == [rows[h][id] EXCEPT !.backingOff = FALSE]
  <1>1. rows \in Table /\ rows[h][id] \in Row /\ rows[h][id].backingOff
    BY DEF BackoffElapses, IInv, TypeOK, Table
  <1>2. row \in Row /\ ~ row.backingOff /\ row.status = rows[h][id].status
        /\ row.attempts = rows[h][id].attempts
    BY <1>1 DEF Row
  <1>3. rows' = [rows EXCEPT ![h][id] = row]
    BY DEF BackoffElapses
  <1> HIDE DEF row
  <1>4. rows' \in Table
    BY <1>1, <1>2, <1>3 DEF Table
  <1>5. rows'[h][id] = row
    BY <1>1, <1>3 DEF Table
  <1>6. \A g \in Hooks, i \in Ids : <<g, i>> # <<h, id>> => rows'[g][i] = rows[g][i]
    BY <1>1, <1>3 DEF Table
  <1>7. rows[h][id] # None
    BY DEF BackoffElapses
  <1>8. ASSUME NEW g \in Hooks, NEW i \in Ids
        PROVE  Entry(g, i)
    BY <1>1, <1>2, <1>5, <1>6, <1>7 DEF Entry
  <1> QED
    BY <1>4, <1>8 DEF OthersWrite, BackoffElapses, IInv, TypeOK, Drawn

-----------------------------------------------------------------------------
\* Endpoints and calls in flight stay well typed.

LEMMA CallTypes ==
    ASSUME IInv, Manage
    PROVE  /\ hooks' \in [Hooks -> Hook \cup {None}]
           /\ calls' \subseteq Call
           /\ Answered'
  <1> USE DEF Calls
  <1>1. hooks \in [Hooks -> Hook \cup {None}] /\ calls \subseteq Call /\ Answered
    BY DEF IInv, TypeOK
  <1>2. \A h \in Hooks, hook \in Hook :
          /\ Verification(h, hook) \in Call
          /\ Verification(h, hook).op = "verify"
    BY DEF Verification, Call, Hook
  <1>3. ASSUME NEW h \in Hooks, NEW url \in URLs, CreateWebhook(h, url)
        PROVE  /\ hooks' \in [Hooks -> Hook \cup {None}]
               /\ calls' \subseteq Call
               /\ Answered'
    <2> DEFINE hook == [url |-> url, state |-> "pending"]
    <2>1. hook \in Hook
      BY DEF Hook
    <2>2. hooks' = [hooks EXCEPT ![h] = hook] /\ calls' = calls \cup {Verification(h, hook)}
      BY <1>3 DEF CreateWebhook
    <2> HIDE DEF hook
    <2> QED  BY <1>1, <1>2, <2>1, <2>2 DEF Answered
  <1>4. ASSUME NEW h \in Hooks, NEW url \in URLs, UpdateWebhook(h, url)
        PROVE  /\ hooks' \in [Hooks -> Hook \cup {None}]
               /\ calls' \subseteq Call
               /\ Answered'
    <2> DEFINE c == [op |-> "update", hook |-> h, url |-> url,
                     from |-> hooks[h], outcome |-> None]
    <2>1. hooks[h] \in Hook
      BY <1>1, <1>4 DEF UpdateWebhook, Live
    <2>2. c \in Call /\ c.op = "update"
      BY <2>1 DEF Call
    <2>3. UNCHANGED hooks /\ calls' = calls \cup {c}
      BY <1>4 DEF UpdateWebhook
    <2> HIDE DEF c
    <2> QED  BY <1>1, <2>2, <2>3 DEF Answered
  <1>5. ASSUME NEW c \in calls, WriteUpdate(c)
        PROVE  /\ hooks' \in [Hooks -> Hook \cup {None}]
               /\ calls' \subseteq Call
               /\ Answered'
    <2> DEFINE hook == [url |-> c.url,
                        state |-> IF c.url # c.from.url THEN "pending" ELSE c.from.state]
    <2>1. c.hook \in Hooks /\ c.url \in URLs /\ c.from \in Hook
      BY <1>1 DEF Call
    <2>2. hook \in Hook
      BY <2>1 DEF Hook
    <2>3. \/ UNCHANGED hooks
          \/ hooks' = [hooks EXCEPT ![c.hook] = hook]
      BY <1>5 DEF WriteUpdate
    <2>4. calls' \subseteq calls \cup {Verification(c.hook, hook)}
      BY <1>5 DEF WriteUpdate
    <2> HIDE DEF hook
    <2> QED  BY <1>1, <1>2, <2>1, <2>2, <2>3, <2>4 DEF Answered
  <1>6. ASSUME NEW h \in Hooks, Verify(h)
        PROVE  /\ hooks' \in [Hooks -> Hook \cup {None}]
               /\ calls' \subseteq Call
               /\ Answered'
    <2>1. hooks[h] \in Hook
      BY <1>1, <1>6 DEF Verify, Live
    <2> QED  BY <1>1, <1>2, <1>6, <2>1 DEF Verify, Answered
  <1>7. ASSUME NEW h \in Hooks, DeleteWebhook(h)
        PROVE  /\ hooks' \in [Hooks -> Hook \cup {None}]
               /\ calls' \subseteq Call
               /\ Answered'
    <2> DEFINE hook == [hooks[h] EXCEPT !.state = "deleted"]
    <2>1. hooks[h] \in Hook
      BY <1>1, <1>7 DEF DeleteWebhook, Live
    <2>2. hook \in Hook
      BY <2>1 DEF Hook
    <2>3. hooks' = [hooks EXCEPT ![h] = hook] /\ UNCHANGED calls
      BY <1>7 DEF DeleteWebhook
    <2> HIDE DEF hook
    <2> QED  BY <1>1, <2>2, <2>3 DEF Answered
  <1>8. ASSUME NEW c \in calls, NEW outcome \in Outcomes, SendVerification(c, outcome)
        PROVE  /\ hooks' \in [Hooks -> Hook \cup {None}]
               /\ calls' \subseteq Call
               /\ Answered'
    <2> DEFINE d == [c EXCEPT !.op = "record", !.outcome = outcome]
    <2>1. c \in Call
      BY <1>1
    <2>2. d \in Call
      BY <2>1 DEF Call
    <2>3. d.outcome = outcome
      BY <2>1 DEF Call
    <2>4. UNCHANGED hooks /\ calls' = (calls \ {c}) \cup {d}
      BY <1>8 DEF SendVerification
    <2> HIDE DEF d
    <2> QED  BY <1>1, <2>2, <2>3, <2>4 DEF Answered
  <1>9. ASSUME NEW c \in calls, RecordVerification(c)
        PROVE  /\ hooks' \in [Hooks -> Hook \cup {None}]
               /\ calls' \subseteq Call
               /\ Answered'
    <2> DEFINE state == IF c.outcome = "acknowledged" THEN "active" ELSE "pending"
               hook == [hooks[c.hook] EXCEPT !.state = state]
    <2>1. c.hook \in Hooks
      BY <1>1 DEF Call
    <2>2. Live(c.hook) => hooks[c.hook] \in Hook
      BY <1>1, <2>1 DEF Live
    <2>3. Live(c.hook) => hook \in Hook
      BY <2>2 DEF Hook
    <2>4. /\ \/ UNCHANGED hooks
             \/ Live(c.hook) /\ hooks' = [hooks EXCEPT ![c.hook] = hook]
          /\ calls' = calls \ {c}
      BY <1>9 DEF RecordVerification
    <2> HIDE DEF hook
    <2> QED  BY <1>1, <2>1, <2>3, <2>4 DEF Answered
  <1> QED
    BY <1>3, <1>4, <1>5, <1>6, <1>7, <1>8, <1>9 DEF Manage

LEMMA ManageWrites ==
    ASSUME IInv, Manage
    PROVE  OthersWrite /\ waiting' = waiting
  <1> USE DEF Calls
  <1>1. ASSUME NEW h \in Hooks, NEW url \in URLs, CreateWebhook(h, url) \/ UpdateWebhook(h, url)
        PROVE  OthersWrite /\ waiting' = waiting
    BY <1>1, QuietWrites DEF CreateWebhook, UpdateWebhook
  <1>2. ASSUME NEW h \in Hooks, Verify(h)
        PROVE  OthersWrite /\ waiting' = waiting
    BY <1>2, QuietWrites DEF Verify
  <1>3. ASSUME NEW h \in Hooks, DeleteWebhook(h)
        PROVE  OthersWrite /\ waiting' = waiting
    BY <1>3, DeleteWrites DEF DeleteWebhook
  <1>4. ASSUME NEW c \in calls, WriteUpdate(c)
        PROVE  OthersWrite /\ waiting' = waiting
    BY <1>4, QuietWrites DEF WriteUpdate
  <1>5. ASSUME NEW c \in calls, RecordVerification(c)
        PROVE  OthersWrite /\ waiting' = waiting
    BY <1>5, RecordVerificationWrites DEF RecordVerification
  <1>6. ASSUME NEW c \in calls, NEW outcome \in Outcomes, SendVerification(c, outcome)
        PROVE  OthersWrite /\ waiting' = waiting
    BY <1>6, QuietWrites DEF SendVerification
  <1> QED  BY <1>1, <1>2, <1>3, <1>4, <1>5, <1>6 DEF Manage

-----------------------------------------------------------------------------
\* Such a step keeps the invariant: it touches no row that a pass has listed
\* except to take it away.

LEMMA OthersKeep ==
    ASSUME IInv, OthersWrite,
           hooks' \in [Hooks -> Hook \cup {None}], waiting' \subseteq outbox',
           calls' \subseteq Call, Answered'
    PROVE  IInv'
  <1> USE WebhookAssumption
  <1>1. TypeOK'
    BY DEF IInv, TypeOK, OthersWrite, Table
  <1>2. /\ lastId \in Nat /\ lastId' \in Nat /\ lastId <= lastId'
        /\ \A i \in Ids : i \in Nat
        /\ \A h \in Hooks, i \in Ids : Entry(h, i)
    BY DEF IInv, TypeOK, OthersWrite, Ids
  <1> pass' = pass /\ sent' = sent /\ aborts' = aborts
    BY DEF OthersWrite
  <1>3. \A h \in Hooks, i \in Ids :
          /\ rows[h][i] # None => rows[h][i] \in Row
          /\ rows'[h][i] # None => rows'[h][i] \in Row
    BY DEF IInv, TypeOK, OthersWrite, Table
  <1>4. Drawn'
    BY <1>2 DEF IInv, Drawn, OthersWrite, Entry
  <1>5. RowsSound'
    <2> SUFFICES ASSUME NEW h \in Hooks, NEW i \in Ids, rows'[h][i] # None
                 PROVE  RowSound(rows'[h][i])
      BY DEF RowsSound
    <2>1. Entry(h, i) /\ rows'[h][i] \in Row
      BY <1>2, <1>3
    <2>2. rows[h][i] # None => RowSound(rows[h][i])
      BY DEF IInv, RowsSound
    <2> QED  BY <2>1, <2>2 DEF Entry, RowSound, Row
  <1>6. PassesSound'
    <2> SUFFICES ASSUME NEW r \in Replicas PROVE PassSound(r)'
      BY DEF PassesSound
    <2>1. PassSound(r)
      BY DEF IInv, PassesSound
    <2>2. pass[r].event \in Ids /\ pass[r].event <= lastId => pass[r].event <= lastId'
      BY <1>2
    <2> QED  BY <2>1, <2>2 DEF PassSound, Working, RowSound, Due
  <1>7. QueuedUntilFinished'
    <2> SUFFICES ASSUME Alone, NEW h \in Hooks, NEW i \in Ids, rows'[h][i] # None,
                        rows'[h][i].status \notin Terminal
                 PROVE  i \in outbox'
      BY DEF QueuedUntilFinished, Alone
    <2>1. Entry(h, i) /\ outbox \subseteq outbox'
      BY <1>2 DEF OthersWrite
    <2>2. rows[h][i] # None /\ rows[h][i].status \notin Terminal => i \in outbox
      BY DEF IInv, QueuedUntilFinished
    <2> QED  BY <2>1, <2>2 DEF Entry
  <1>8. AllInHand'
    <2> SUFFICES ASSUME Alone, NEW r \in Replicas PROVE InHand(r)'
      BY DEF AllInHand, Alone
    <2>1. InHand(r) /\ PassSound(r)
      BY DEF IInv, AllInHand, PassesSound
    <2>2. outbox \subseteq outbox'
      BY DEF OthersWrite
    <2>3. ASSUME Working(r), NEW h \in Hooks, rows'[h][pass[r].event] # None
          PROVE  /\ pass[r].list[h] # None => rows'[h][pass[r].event] = pass[r].list[h]
                 /\ rows'[h][pass[r].event].status \notin Terminal =>
                        pass[r].list[h] # None \/ ~ pass[r].all
      <3>1. pass[r].event \in Ids /\ pass[r].event <= lastId
            /\ (pass[r].list[h] # None => Due(pass[r].list[h]))
        BY <2>1, <2>3 DEF PassSound, Working
      <3>2. Entry(h, pass[r].event)
        BY <1>2, <3>1
      <3>3. /\ rows[h][pass[r].event] # None
            /\ \/ rows'[h][pass[r].event] = rows[h][pass[r].event]
               \/ /\ rows[h][pass[r].event].backingOff
                  /\ rows'[h][pass[r].event].status = rows[h][pass[r].event].status
        <4>1. ~ (lastId < pass[r].event)
          BY <1>2, <3>1
        <4>2. \/ rows'[h][pass[r].event] = rows[h][pass[r].event]
              \/ /\ rows[h][pass[r].event] # None
                 /\ rows[h][pass[r].event].backingOff
                 /\ rows'[h][pass[r].event].status = rows[h][pass[r].event].status
          BY <2>3, <3>2, <4>1 DEF Entry
        <4> QED  BY <2>3, <4>2
      <3> QED  BY <2>1, <2>3, <3>1, <3>3 DEF InHand, Due
    <2>4. pass[r].at # "idle" => pass[r].event \in outbox'
      BY <2>1, <2>2 DEF InHand
    <2> QED  BY <2>3, <2>4 DEF InHand, Working
  <1>9. \A h \in Hooks, i \in Ids : Uncounted(h, i)' = Uncounted(h, i)
    BY <1>2 DEF Uncounted, Recording
  <1>10. RowCounts'
    <2> SUFFICES ASSUME Alone, NEW h \in Hooks, NEW i \in Ids, rows'[h][i] # None
                 PROVE  sent'[h][i] <= rows'[h][i].attempts + aborts' + Uncounted(h, i)'
      BY DEF RowCounts, Alone
    <2>1. Entry(h, i) /\ rows'[h][i] \in Row
      BY <1>2, <1>3
    <2>2. rows[h][i] # None => sent[h][i] <= rows[h][i].attempts + aborts + Uncounted(h, i)
      BY DEF IInv, RowCounts
    <2>3. lastId < i => sent[h][i] = 0
      BY DEF IInv, Drawn
    <2>4. Uncounted(h, i) \in {0, 1} /\ aborts \in Nat
      BY DEF Uncounted, IInv, TypeOK
    <2>5. rows'[h][i].attempts \in Nat
      BY <2>1 DEF Row
    <2>6. CASE lastId < i
      BY <1>2, <1>9, <2>3, <2>4, <2>5, <2>6
    <2>7. CASE ~ (lastId < i)
      <3>1. rows[h][i] # None /\ rows'[h][i].attempts = rows[h][i].attempts
        BY <2>1, <2>7 DEF Entry
      <3> QED  BY <1>2, <1>9, <2>2, <3>1
    <2> QED  BY <2>6, <2>7
  <1>11. ListCounts'
    <2>1. ListCounts
      BY DEF IInv
    <2> QED  BY <2>1 DEF ListCounts, ListCount, Working, Alone, Uncounted, Recording
  <1>12. SentAtMost'
    BY <1>2 DEF IInv, SentAtMost, Alone
  <1> QED  BY <1>1, <1>4, <1>5, <1>6, <1>7, <1>8, <1>10, <1>11, <1>12 DEF IInv

LEMMA OthersIInv ==
    ASSUME IInv,
           \/ Enqueue \/ Manage
           \/ \E h \in Hooks, id \in Ids : BackoffElapses(h, id)
           \/ \E id \in Ids : EventElapses(id)
    PROVE  IInv'
  <1>1. CASE Manage
    <2>1. waiting' \subseteq outbox'
      BY <1>1, ManageWrites DEF OthersWrite, IInv, TypeOK
    <2> QED  BY <1>1, <2>1, ManageWrites, CallTypes, OthersKeep
  <1>2. CASE Enqueue
    <2>1. OthersWrite
      BY <1>2, EnqueueWrites
    <2>2. UNCHANGED <<hooks, waiting, calls>>
      BY <1>2 DEF Enqueue
    <2> QED  BY <2>1, <2>2, OthersKeep DEF IInv, TypeOK, Answered, OthersWrite
  <1>3. ASSUME NEW h \in Hooks, NEW id \in Ids, BackoffElapses(h, id)
        PROVE  IInv'
    <2>1. OthersWrite
      BY <1>3, BackoffWrites
    <2>2. UNCHANGED <<hooks, waiting, calls>>
      BY <1>3 DEF BackoffElapses
    <2> QED  BY <2>1, <2>2, OthersKeep DEF IInv, TypeOK, Answered, OthersWrite
  <1>4. ASSUME NEW id \in Ids, EventElapses(id)
        PROVE  IInv'
    <2>1. OthersWrite
      BY <1>4, QuietWrites DEF EventElapses
    <2>2. UNCHANGED <<hooks, calls>> /\ waiting' \subseteq waiting
      BY <1>4 DEF EventElapses
    <2> QED  BY <2>1, <2>2, OthersKeep DEF IInv, TypeOK, Answered, OthersWrite
  <1> QED  BY <1>1, <1>2, <1>3, <1>4

-----------------------------------------------------------------------------
(* The dispatcher *)

LEMMA PausesAt ==
    ASSUME pass \in [Replicas -> Pass], NEW r \in Replicas, NEW k \in Pass, Pauses(r, k)
    PROVE  /\ pass' \in [Replicas -> Pass]
           /\ pass'[r] = k
           /\ \A q \in Replicas : q # r => pass'[q] = pass[q]
  BY DEF Pauses

\* With one dispatcher, what is being recorded is what it has in hand.
LEMMA RecordingAlone ==
    ASSUME Alone, NEW r \in Replicas, NEW h, NEW i
    PROVE  /\ Uncounted(h, i) =
                 IF pass[r].at = "record" /\ pass[r].hook = h /\ pass[r].event = i THEN 1 ELSE 0
           /\ Uncounted(h, i)' =
                 IF pass'[r].at = "record" /\ pass'[r].hook = h /\ pass'[r].event = i
                 THEN 1 ELSE 0
  <1>1. \A q \in Replicas : q = r
    BY OneAlone
  <1> QED  BY <1>1 DEF Uncounted, Recording

\* It is enough to look at the pass that moved.
LEMMA DispatchKeeps ==
    ASSUME IInv, NEW r \in Replicas, NEW k \in Pass, Pauses(r, k),
           UNCHANGED <<hooks, lastId, calls>>,
           rows' \in Table, outbox' \subseteq outbox, waiting' \subseteq outbox',
           sent' \in [Hooks -> [Ids -> Nat]], aborts' \in 0..MaxAborts,
           Drawn', RowsSound', PassSound(r)', QueuedUntilFinished',
           Alone => InHand(r)', RowCounts', Alone => ListCount(r)', SentAtMost'
    PROVE  IInv'
  <1>1. /\ pass' \in [Replicas -> Pass]
        /\ \A q \in Replicas : q # r => pass'[q] = pass[q]
    BY PausesAt DEF IInv, TypeOK
  <1>2. TypeOK' /\ Answered'
    BY <1>1 DEF IInv, TypeOK, Answered, Table
  <1>3. PassesSound'
    <2> SUFFICES ASSUME NEW q \in Replicas PROVE PassSound(q)'
      BY DEF PassesSound
    <2>1. CASE q = r
      BY <2>1
    <2>2. CASE q # r
      <3>1. PassSound(q) /\ pass'[q] = pass[q] /\ lastId' = lastId
        BY <1>1, <2>2 DEF IInv, PassesSound
      <3> QED  BY <3>1 DEF PassSound, Working, RowSound, Due
    <2> QED  BY <2>1, <2>2
  <1>4. AllInHand'
    <2> SUFFICES ASSUME Alone, NEW q \in Replicas PROVE InHand(q)'
      BY DEF AllInHand, Alone
    <2>1. q = r
      BY OneAlone
    <2> QED  BY <2>1
  <1>5. ListCounts'
    <2> SUFFICES ASSUME Alone, NEW q \in Replicas PROVE ListCount(q)'
      BY DEF ListCounts, Alone
    <2>1. q = r
      BY OneAlone
    <2> QED  BY <2>1
  <1> QED  BY <1>2, <1>3, <1>4, <1>5 DEF IInv

\* A step that writes no row: only what is uncounted may change hands.
LEMMA PassKeeps ==
    ASSUME IInv, NEW r \in Replicas, NEW k \in Pass, Pauses(r, k),
           UNCHANGED <<hooks, rows, outbox, waiting, lastId, calls, sent>>,
           aborts' \in 0..MaxAborts, aborts <= aborts',
           PassSound(r)', Alone => InHand(r)', Alone => ListCount(r)',
           \A h \in Hooks, i \in Ids : Alone /\ rows[h][i] # None =>
               aborts + Uncounted(h, i) <= aborts' + Uncounted(h, i)'
    PROVE  IInv'
  <1> USE WebhookAssumption
  <1>1. /\ rows' \in Table /\ outbox' \subseteq outbox /\ waiting' \subseteq outbox'
        /\ sent' \in [Hooks -> [Ids -> Nat]]
    BY DEF IInv, TypeOK, Table
  <1>2. Drawn' /\ RowsSound' /\ QueuedUntilFinished'
    BY DEF IInv, Drawn, RowsSound, RowSound, QueuedUntilFinished, Alone
  <1>3. aborts \in Nat /\ aborts' \in Nat
        /\ \A h \in Hooks, i \in Ids :
             /\ sent[h][i] \in Nat
             /\ rows[h][i] # None => rows[h][i].attempts \in Nat
    BY DEF IInv, TypeOK, Row
  <1>4. RowCounts'
    <2> SUFFICES ASSUME Alone, NEW h \in Hooks, NEW i \in Ids, rows[h][i] # None
                 PROVE  sent[h][i] <= rows[h][i].attempts + aborts' + Uncounted(h, i)'
      BY DEF RowCounts, Alone
    <2>1. Uncounted(h, i) \in {0, 1} /\ Uncounted(h, i)' \in {0, 1}
      BY DEF Uncounted
    <2>2. sent[h][i] <= rows[h][i].attempts + aborts + Uncounted(h, i)
      BY DEF IInv, RowCounts
    <2>3. aborts + Uncounted(h, i) <= aborts' + Uncounted(h, i)'
      OBVIOUS
    <2> QED  BY <1>3, <2>1, <2>2, <2>3
  <1>5. SentAtMost'
    <2> SUFFICES ASSUME Alone, NEW h \in Hooks, NEW i \in Ids
                 PROVE  sent[h][i] <= MaxAttempts + aborts'
      BY DEF SentAtMost, Alone
    <2>1. sent[h][i] <= MaxAttempts + aborts
      BY DEF IInv, SentAtMost
    <2> QED  BY <1>3, <2>1
  <1> QED  BY <1>1, <1>2, <1>4, <1>5, DispatchKeeps

\* A pass that is over leaves nothing to show.
LEMMA IdlePass ==
    /\ Idle \in Pass
    /\ Idle.at = "idle"
  <1>1. [h \in Hooks |-> None] \in [Hooks -> Row \cup {None}]
    OBVIOUS
  <1> QED  BY <1>1 DEF Idle, Pass, Unlisted

LEMMA GetNextEventKeeps ==
    ASSUME IInv, NEW r \in Replicas, NEW id \in Ids, GetNextEvent(r, id)
    PROVE  IInv'
  <1> DEFINE k == [Idle EXCEPT !.at = "list", !.event = id]
  <1>1. k \in Pass /\ k.at = "list" /\ k.event = id
    BY IdlePass DEF Pass
  <1>2. /\ pass[r].at = "idle" /\ id \in outbox /\ Pauses(r, k)
        /\ UNCHANGED <<hooks, rows, outbox, waiting, lastId, calls, sent>> /\ aborts' = aborts
    BY DEF GetNextEvent, Dispatches
  <1> HIDE DEF k
  <1>3. pass'[r] = k
    BY <1>1, <1>2, PausesAt DEF IInv, TypeOK
  <1>4. id <= lastId
    BY <1>2 DEF IInv, Drawn
  <1>5. PassSound(r)'
    BY <1>1, <1>2, <1>3, <1>4 DEF PassSound, Working
  <1>6. InHand(r)' /\ ListCount(r)'
    BY <1>1, <1>2, <1>3 DEF InHand, ListCount, Working
  <1>7. ASSUME NEW h \in Hooks, NEW i \in Ids, Alone
        PROVE  Uncounted(h, i) = 0 /\ Uncounted(h, i)' = 0
    BY <1>1, <1>2, <1>3, <1>7, RecordingAlone
  <1>8. aborts' = aborts /\ aborts \in 0..MaxAborts /\ aborts \in Nat
    BY <1>2 DEF IInv, TypeOK
  <1> QED
    BY <1>1, <1>2, <1>5, <1>6, <1>7, <1>8, PassKeeps

LEMMA ListDeliveriesKeeps ==
    ASSUME IInv, NEW r \in Replicas, ListDeliveries(r)
    PROVE  IInv'
  <1> DEFINE id == pass[r].event
             due == [h \in Hooks |-> IF Due(rows[h][id]) THEN rows[h][id] ELSE None]
             k == [pass[r] EXCEPT !.at = "next", !.list = due, !.all = NoneBackingOff(id)]
  <1>1. pass[r] \in Pass /\ pass[r].at = "list" /\ id \in Ids /\ id <= lastId
    BY DEF ListDeliveries, IInv, TypeOK, PassesSound, PassSound
  <1>2. due \in [Hooks -> Row \cup {None}]
    BY <1>1 DEF IInv, TypeOK
  <1>3. NoneBackingOff(id) \in BOOLEAN
    BY DEF NoneBackingOff
  <1>4. k \in Pass /\ k.at = "next" /\ k.event = id /\ k.list = due
        /\ k.all = NoneBackingOff(id)
    BY <1>1, <1>2, <1>3 DEF Pass
  <1>5. Pauses(r, k)
        /\ UNCHANGED <<hooks, rows, outbox, waiting, lastId, calls, sent>> /\ aborts' = aborts
    BY DEF ListDeliveries, Dispatches
  <1> HIDE DEF k
  <1>6. pass'[r] = k
    BY <1>4, <1>5, PausesAt DEF IInv, TypeOK
  <1>7. \A h \in Hooks : due[h] # None =>
            due[h] = rows[h][id] /\ Due(rows[h][id]) /\ rows[h][id] # None
    BY DEF Due
  <1>8. PassSound(r)'
    <2>1. \A h \in Hooks : due[h] # None => Due(due[h]) /\ RowSound(due[h])
      BY <1>1, <1>7 DEF IInv, RowsSound
    <2> HIDE DEF due
    <2> QED  BY <1>1, <1>4, <1>5, <1>6, <2>1 DEF PassSound, Working, RowSound, Due
  <1>9. ASSUME Alone
        PROVE  InHand(r)' /\ ListCount(r)'
    <2>1. id \in outbox
      BY <1>1, <1>9 DEF IInv, AllInHand, InHand
    <2>2. ASSUME NEW h \in Hooks, rows[h][id] # None, rows[h][id].status \notin Terminal
          PROVE  due[h] # None \/ ~ NoneBackingOff(id)
      BY <2>2 DEF Due, NoneBackingOff
    <2>3. ASSUME NEW h \in Hooks, due[h] # None
          PROVE  sent[h][id] <= due[h].attempts + aborts + Uncounted(h, id)'
      <3>1. Uncounted(h, id) = 0 /\ Uncounted(h, id)' = 0
        BY <1>1, <1>4, <1>6, <1>9, RecordingAlone
      <3>2. due[h] = rows[h][id] /\ rows[h][id] # None
        BY <1>7, <2>3
      <3> QED  BY <1>1, <1>9, <3>1, <3>2 DEF IInv, RowCounts
    <2>4. InHand(r)'
      <3> HIDE DEF due
      <3> QED  BY <1>4, <1>5, <1>6, <1>7, <2>1, <2>2 DEF InHand, Working
    <2>5. ListCount(r)'
      <3> SUFFICES ASSUME NEW h \in Hooks, due[h] # None
                   PROVE  sent'[h][id] <= due[h].attempts + aborts' + Uncounted(h, id)'
        BY <1>4, <1>6 DEF ListCount, Uncounted, Recording
      <3> QED  BY <1>5, <2>3
    <2> QED  BY <2>4, <2>5
  <1>10. ASSUME NEW h \in Hooks, NEW i \in Ids, Alone
         PROVE  Uncounted(h, i) = 0 /\ Uncounted(h, i)' = 0
    BY <1>1, <1>4, <1>6, <1>10, RecordingAlone
  <1>11. aborts' = aborts /\ aborts \in 0..MaxAborts /\ aborts \in Nat
    BY <1>5 DEF IInv, TypeOK
  <1> QED  BY <1>4, <1>5, <1>8, <1>9, <1>10, <1>11, PassKeeps

\* A row whose webhook is not active is recorded as a failure without a request.
LEMMA AttemptKeeps ==
    ASSUME IInv, NEW r \in Replicas, NEW h \in Hooks, Attempt(r, h)
    PROVE  IInv'
  <1> DEFINE id == pass[r].event
  <1>1. pass[r] \in Pass /\ pass[r].at = "next" /\ pass[r].list[h] # None
        /\ id \in Ids /\ id <= lastId
    BY DEF Attempt, IInv, TypeOK, PassesSound, PassSound
  <1>2. PICK at \in {"send", "record"}, outcome \in Outcomes \cup {None} :
          /\ at = "record" => outcome \in Outcomes
          /\ Pauses(r, [pass[r] EXCEPT !.at = at, !.hook = h, !.outcome = outcome])
    <2>1. CASE h \in Active
      <3>1. Pauses(r, [pass[r] EXCEPT !.at = "send", !.hook = h])
        BY <2>1 DEF Attempt
      <3>2. [pass[r] EXCEPT !.at = "send", !.hook = h]
              = [pass[r] EXCEPT !.at = "send", !.hook = h, !.outcome = pass[r].outcome]
        BY <1>1 DEF Pass
      <3>3. pass[r].outcome \in Outcomes \cup {None}
        BY <1>1 DEF Pass
      <3> QED  BY <3>1, <3>2, <3>3
    <2>2. CASE h \notin Active
      BY <2>2 DEF Attempt, Outcomes
    <2> QED  BY <2>1, <2>2
  <1> DEFINE k == [pass[r] EXCEPT !.at = at, !.hook = h, !.outcome = outcome]
  <1>3. /\ k \in Pass /\ k.at = at /\ k.hook = h /\ k.outcome = outcome
        /\ k.event = id /\ k.list = pass[r].list /\ k.all = pass[r].all
    BY <1>1 DEF Pass
  <1>4. Pauses(r, k)
        /\ UNCHANGED <<hooks, rows, outbox, waiting, lastId, calls, sent>> /\ aborts' = aborts
    BY <1>2 DEF Attempt, Dispatches
  <1> HIDE DEF k
  <1>5. pass'[r] = k
    BY <1>3, <1>4, PausesAt DEF IInv, TypeOK
  <1>6. Working(r) /\ PassSound(r)
    BY <1>1 DEF IInv, PassesSound, Working
  <1>7. PassSound(r)'
    BY <1>1, <1>2, <1>3, <1>4, <1>5, <1>6 DEF PassSound, Working, RowSound, Due
  <1>8. ASSUME Alone, NEW g \in Hooks, NEW i \in Ids
        PROVE  Uncounted(g, i) = 0 /\ Uncounted(g, i)' \in {0, 1}
    BY <1>1, <1>8, RecordingAlone
  <1>9. aborts' = aborts /\ aborts \in 0..MaxAborts /\ aborts \in Nat
    BY <1>4 DEF IInv, TypeOK
  <1>10. ASSUME Alone
         PROVE  InHand(r)' /\ ListCount(r)'
    <2>1. InHand(r) /\ ListCount(r)
      BY <1>10 DEF IInv, AllInHand, ListCounts
    <2>2. InHand(r)'
      BY <1>1, <1>2, <1>3, <1>4, <1>5, <1>6, <2>1 DEF InHand, Working
    <2>3. ASSUME NEW g \in Hooks, pass[r].list[g] # None, NEW i \in Ids, i = id
          PROVE  sent[g][i] <= pass[r].list[g].attempts + aborts + Uncounted(g, i)'
      <3>1. sent[g][i] <= pass[r].list[g].attempts + aborts + Uncounted(g, i)
        BY <1>6, <2>1, <2>3 DEF ListCount
      <3>2. pass[r].list[g] \in Row
        BY <1>1, <2>3 DEF Pass
      <3>3. pass[r].list[g].attempts \in Nat /\ sent[g][i] \in Nat
        BY <1>1, <3>2 DEF Row, IInv, TypeOK
      <3> QED  BY <1>1, <1>8, <1>9, <1>10, <3>1, <3>3
    <2>4. ListCount(r)'
      <3> SUFFICES ASSUME NEW g \in Hooks, pass[r].list[g] # None, NEW i \in Ids, i = id
                   PROVE  sent'[g][i] <= pass[r].list[g].attempts + aborts' + Uncounted(g, i)'
        BY <1>1, <1>3, <1>5 DEF ListCount, Uncounted, Recording
      <3> QED  BY <1>4, <2>3
    <2> QED  BY <2>2, <2>4
  <1> QED  BY <1>3, <1>4, <1>7, <1>8, <1>9, <1>10, PassKeeps

\* An abandoned pass accounts for a request that it did not record.
LEMMA AbortKeeps ==
    ASSUME IInv, NEW r \in Replicas, Abort(r)
    PROVE  IInv'
  <1>1. Pauses(r, Idle)
        /\ UNCHANGED <<hooks, rows, outbox, waiting, lastId, calls, sent>>
    BY DEF Abort, stored
  <1>2. pass'[r] = Idle
    BY <1>1, IdlePass, PausesAt DEF IInv, TypeOK
  <1>3. aborts' = aborts + 1 /\ aborts < MaxAborts /\ aborts \in 0..MaxAborts
    BY DEF Abort, IInv, TypeOK
  <1>4. aborts \in Nat /\ aborts' \in 0..MaxAborts /\ aborts <= aborts'
    BY <1>3, WebhookAssumption
  <1>5. PassSound(r)' /\ InHand(r)' /\ ListCount(r)'
    BY <1>2, IdlePass DEF PassSound, InHand, ListCount, Working
  <1>6. ASSUME Alone, NEW h \in Hooks, NEW i \in Ids
        PROVE  Uncounted(h, i) \in {0, 1} /\ Uncounted(h, i)' = 0
    BY <1>2, <1>6, IdlePass, RecordingAlone
  <1>7. \A h \in Hooks, i \in Ids : Alone /\ rows[h][i] # None =>
            aborts + Uncounted(h, i) <= aborts' + Uncounted(h, i)'
    BY <1>3, <1>4, <1>6
  <1> QED  BY <1>1, <1>4, <1>5, <1>7, IdlePass, PassKeeps

\* The row in hand counts the request it is about to be recorded with.
LEMMA SendKeeps ==
    ASSUME IInv, NEW r \in Replicas, NEW outcome \in Outcomes, Send(r, outcome)
    PROVE  IInv'
  <1> USE WebhookAssumption
  <1> DEFINE id == pass[r].event
             hook == pass[r].hook
             k == [pass[r] EXCEPT !.at = "record", !.outcome = outcome]
  <1>1. pass[r] \in Pass /\ pass[r].at = "send" /\ hook \in Hooks
        /\ pass[r].list[hook] # None /\ id \in Ids /\ id <= lastId
    BY DEF Send, IInv, TypeOK, PassesSound, PassSound
  <1>2. k \in Pass /\ k.at = "record" /\ k.hook = hook /\ k.outcome = outcome
        /\ k.event = id /\ k.list = pass[r].list /\ k.all = pass[r].all
    BY <1>1 DEF Pass
  <1>3. Pauses(r, k)
        /\ UNCHANGED <<hooks, rows, outbox, waiting, lastId, calls>> /\ aborts' = aborts
    BY DEF Send, Dispatches
  <1> HIDE DEF k
  <1>4. pass'[r] = k
    BY <1>2, <1>3, PausesAt DEF IInv, TypeOK
  <1>5. sent' = sent \/ sent' = [sent EXCEPT ![hook][id] = @ + 1]
    BY DEF Send
  <1>6. sent \in [Hooks -> [Ids -> Nat]] /\ aborts \in 0..MaxAborts /\ aborts \in Nat
        /\ lastId \in Nat
    BY DEF IInv, TypeOK
  <1>7. sent' \in [Hooks -> [Ids -> Nat]]
    BY <1>1, <1>5, <1>6
  <1>8. \A h \in Hooks, i \in Ids :
          /\ <<h, i>> # <<hook, id>> => sent'[h][i] = sent[h][i]
          /\ sent'[h][i] <= sent[h][i] + 1
    BY <1>1, <1>5, <1>6
  <1>9. rows' \in Table /\ outbox' \subseteq outbox /\ waiting' \subseteq outbox'
    BY <1>3 DEF IInv, TypeOK, Table
  <1>10. Drawn'
    <2>1. ASSUME NEW h \in Hooks, NEW i \in Ids, lastId < i
          PROVE  sent'[h][i] = 0
      <3>1. i # id
        BY <1>1, <1>6, <2>1 DEF Ids
      <3>2. sent[h][i] = 0
        BY <2>1 DEF IInv, Drawn
      <3> QED  BY <1>8, <3>1, <3>2
    <2> QED  BY <1>3, <2>1 DEF IInv, Drawn
  <1>11. RowsSound' /\ QueuedUntilFinished'
    BY <1>3 DEF IInv, RowsSound, RowSound, QueuedUntilFinished, Alone
  <1>12. Working(r) /\ PassSound(r)
    BY <1>1 DEF IInv, PassesSound, Working
  <1>13. PassSound(r)'
    BY <1>1, <1>2, <1>3, <1>4, <1>12 DEF PassSound, Working, RowSound, Due
  <1>14. \A h \in Hooks : pass[r].list[h] # None =>
            pass[r].list[h].attempts \in Nat /\ pass[r].list[h].attempts < MaxAttempts
    <2> SUFFICES ASSUME NEW h \in Hooks, pass[r].list[h] # None
                 PROVE  pass[r].list[h].attempts \in Nat
                        /\ pass[r].list[h].attempts < MaxAttempts
      OBVIOUS
    <2>1. pass[r].list[h] \in Row
      BY <1>1 DEF Pass
    <2>2. Due(pass[r].list[h]) /\ RowSound(pass[r].list[h])
      BY <1>12 DEF PassSound
    <2> QED  BY <2>1, <2>2 DEF Row, Due, RowSound
  <1>15. ASSUME Alone, NEW h \in Hooks, NEW i \in Ids
         PROVE  /\ Uncounted(h, i) = 0
                /\ Uncounted(h, i)' = IF h = hook /\ i = id THEN 1 ELSE 0
                /\ sent'[h][i] <= sent[h][i] + Uncounted(h, i)'
    <2>1. /\ Uncounted(h, i) = 0
          /\ Uncounted(h, i)' = IF h = hook /\ i = id THEN 1 ELSE 0
      BY <1>1, <1>2, <1>4, <1>15, RecordingAlone
    <2> QED  BY <1>6, <1>8, <2>1
  <1>16. RowCounts'
    <2> SUFFICES ASSUME Alone, NEW h \in Hooks, NEW i \in Ids, rows[h][i] # None
                 PROVE  sent'[h][i] <= rows[h][i].attempts + aborts + Uncounted(h, i)'
      BY <1>3 DEF RowCounts, Alone
    <2>1. sent[h][i] <= rows[h][i].attempts + aborts
      <3>1. sent[h][i] <= rows[h][i].attempts + aborts + Uncounted(h, i)
        BY DEF IInv, RowCounts
      <3>2. rows[h][i] \in Row
        BY DEF IInv, TypeOK
      <3>3. rows[h][i].attempts \in Nat
        BY <3>2 DEF Row
      <3> QED  BY <1>6, <1>15, <3>1, <3>3
    <2>2. rows[h][i] \in Row
      BY DEF IInv, TypeOK
    <2>3. rows[h][i].attempts \in Nat /\ Uncounted(h, i)' \in {0, 1}
      BY <1>15, <2>2 DEF Row
    <2>4. sent'[h][i] <= sent[h][i] + Uncounted(h, i)' /\ sent'[h][i] \in Nat
          /\ sent[h][i] \in Nat
      BY <1>6, <1>7, <1>15
    <2> QED  BY <1>6, <2>1, <2>3, <2>4
  <1>17. ASSUME Alone
         PROVE  InHand(r)' /\ ListCount(r)'
    <2>1. InHand(r) /\ ListCount(r)
      BY <1>17 DEF IInv, AllInHand, ListCounts
    <2>2. InHand(r)'
      BY <1>1, <1>2, <1>3, <1>4, <1>12, <2>1 DEF InHand, Working
    <2>3. ASSUME NEW g \in Hooks, pass[r].list[g] # None, NEW i \in Ids, i = id
          PROVE  sent'[g][i] <= pass[r].list[g].attempts + aborts + Uncounted(g, i)'
      <3>1. sent[g][i] <= pass[r].list[g].attempts + aborts + Uncounted(g, i)
        BY <1>12, <2>1, <2>3 DEF ListCount
      <3>2. pass[r].list[g].attempts \in Nat
        BY <1>14, <2>3
      <3>3. /\ Uncounted(g, i) = 0 /\ Uncounted(g, i)' \in {0, 1}
            /\ sent'[g][i] <= sent[g][i] + Uncounted(g, i)'
        BY <1>1, <1>15, <1>17
      <3>4. sent[g][i] \in Nat /\ sent'[g][i] \in Nat
        BY <1>1, <1>6, <1>7
      <3> QED  BY <1>6, <3>1, <3>2, <3>3, <3>4
    <2>4. ListCount(r)'
      <3> SUFFICES ASSUME NEW g \in Hooks, pass[r].list[g] # None, NEW i \in Ids, i = id
                   PROVE  sent'[g][i] <= pass[r].list[g].attempts + aborts' + Uncounted(g, i)'
        BY <1>1, <1>2, <1>4 DEF ListCount, Uncounted, Recording
      <3> QED  BY <1>3, <2>3
    <2> QED  BY <2>2, <2>4
  <1>18. SentAtMost'
    <2> SUFFICES ASSUME Alone, NEW h \in Hooks, NEW i \in Ids
                 PROVE  sent'[h][i] <= MaxAttempts + aborts
      BY <1>3 DEF SentAtMost, Alone
    <2>1. sent[h][i] <= MaxAttempts + aborts
      BY DEF IInv, SentAtMost
    <2>2. CASE <<h, i>> # <<hook, id>>
      BY <1>8, <2>1, <2>2
    <2>3. CASE h = hook /\ i = id
      <3>1. ListCount(r)
        BY DEF IInv, ListCounts
      <3>2. sent[h][i] <= pass[r].list[h].attempts + aborts + Uncounted(h, i)
        BY <1>1, <1>12, <2>3, <3>1 DEF ListCount
      <3>3. Uncounted(h, i) = 0
        BY <1>15
      <3>4. pass[r].list[h].attempts \in Nat /\ pass[r].list[h].attempts < MaxAttempts
        BY <1>1, <1>14, <2>3
      <3>5. sent[h][i] \in Nat /\ sent'[h][i] \in Nat /\ sent'[h][i] <= sent[h][i] + 1
        BY <1>6, <1>7, <1>8
      <3> QED  BY <1>6, <3>2, <3>3, <3>4, <3>5
    <2> QED  BY <2>2, <2>3
  <1>19. aborts' \in 0..MaxAborts
    BY <1>3, <1>6
  <1> QED
    BY <1>2, <1>3, <1>7, <1>9, <1>10, <1>11, <1>13, <1>16, <1>17, <1>18, <1>19, DispatchKeeps

\* The event goes only when no row of it is left to deliver.
LEMMA FinishEventKeeps ==
    ASSUME IInv, NEW r \in Replicas, FinishEvent(r)
    PROVE  IInv'
  <1> DEFINE id == pass[r].event
  <1>1. pass[r].at = "next" /\ pass[r].list = Unlisted /\ id \in Ids /\ Working(r)
    BY DEF FinishEvent, IInv, PassesSound, PassSound, Working
  <1>2. Pauses(r, Idle) /\ UNCHANGED <<hooks, rows, lastId, calls, sent>> /\ aborts' = aborts
    BY DEF FinishEvent, Dispatches
  <1>3. pass'[r] = Idle
    BY <1>2, IdlePass, PausesAt DEF IInv, TypeOK
  <1>4. /\ outbox' \subseteq outbox
        /\ \A i \in outbox : i # id => i \in outbox'
        /\ ~ pass[r].all => outbox' = outbox
        /\ waiting' \subseteq outbox'
    BY DEF FinishEvent, IInv, TypeOK
  <1>5. /\ rows' \in Table /\ sent' \in [Hooks -> [Ids -> Nat]] /\ aborts' \in 0..MaxAborts
        /\ Drawn' /\ RowsSound' /\ SentAtMost'
    BY <1>2, <1>4
    DEF IInv, TypeOK, Table, Drawn, RowsSound, RowSound, SentAtMost, Alone
  <1>6. PassSound(r)' /\ InHand(r)' /\ ListCount(r)'
    BY <1>3, IdlePass DEF PassSound, InHand, ListCount, Working
  <1>7. QueuedUntilFinished'
    <2> SUFFICES ASSUME Alone, NEW h \in Hooks, NEW i \in Ids, rows[h][i] # None,
                        rows[h][i].status \notin Terminal
                 PROVE  i \in outbox'
      BY <1>2 DEF QueuedUntilFinished, Alone
    <2>1. i \in outbox
      BY DEF IInv, QueuedUntilFinished
    <2>2. CASE i = id
      <3>1. pass[r].list[h] = None
        BY <1>1 DEF Unlisted
      <3>2. ~ pass[r].all
        BY <1>1, <2>2, <3>1 DEF IInv, AllInHand, InHand
      <3> QED  BY <1>4, <2>1, <3>2
    <2> QED  BY <1>4, <2>1, <2>2
  <1>8. RowCounts'
    <2> SUFFICES ASSUME Alone, NEW h \in Hooks, NEW i \in Ids, rows[h][i] # None
                 PROVE  sent[h][i] <= rows[h][i].attempts + aborts + Uncounted(h, i)'
      BY <1>2 DEF RowCounts, Alone
    <2>1. Uncounted(h, i) = 0 /\ Uncounted(h, i)' = 0
      BY <1>1, <1>3, IdlePass, RecordingAlone
    <2> QED  BY <2>1 DEF IInv, RowCounts
  <1> QED
    BY <1>2, <1>4, <1>5, <1>6, <1>7, <1>8, IdlePass, DispatchKeeps

\* What is recorded for a row that was due and has attempts left.
LEMMA SettledSound ==
    ASSUME NEW row \in Row, RowSound(row), Due(row), NEW h, NEW outcome \in Outcomes
    PROVE  /\ Settled(row, h, outcome) \in Row
           /\ RowSound(Settled(row, h, outcome))
           /\ Settled(row, h, outcome).attempts = row.attempts + 1
  <1> USE WebhookAssumption
  <1> DEFINE n == Counted(row)
             status == IF outcome = "rejected" /\ ~ Exhausted(n) THEN "retrying"
                       ELSE Verdict(outcome)
  <1>1. row.attempts \in Nat /\ row.attempts < MaxAttempts
    BY DEF Row, RowSound, Due
  <1>2. n = row.attempts + 1 /\ n \in 0..MaxAttempts
    BY <1>1 DEF Counted
  <1>3. Verdict(outcome) \in Terminal
    BY DEF Verdict, Outcomes, Terminal
  <1>4. /\ status \in {"pending", "retrying"} \cup Terminal
        /\ (status = "retrying") \in BOOLEAN
        /\ status \notin Terminal => n < MaxAttempts
    BY <1>2, <1>3 DEF Exhausted
  <1>5. Settled(row, h, outcome)
          = [status |-> status, attempts |-> n, backingOff |-> status = "retrying"]
    BY DEF Settled
  <1> HIDE DEF n, status
  <1>6. Settled(row, h, outcome) \in Row
    BY <1>2, <1>4, <1>5 DEF Row
  <1>7. /\ Settled(row, h, outcome).status = status
        /\ Settled(row, h, outcome).attempts = n
        /\ Settled(row, h, outcome).backingOff = (status = "retrying")
    BY <1>5
  <1> QED  BY <1>2, <1>4, <1>6, <1>7 DEF RowSound

\* The row was pruned or cascaded away while its request was under way.
LEMMA RecordGoneKeeps ==
    ASSUME IInv, NEW r \in Replicas, RecordAttempt(r),
           rows[pass[r].hook][pass[r].event] = None
    PROVE  IInv'
  <1>1. Pauses(r, Idle)
        /\ UNCHANGED <<hooks, rows, outbox, waiting, lastId, calls, sent>> /\ aborts' = aborts
    BY DEF RecordAttempt, Dispatches
  <1>2. pass'[r] = Idle
    BY <1>1, IdlePass, PausesAt DEF IInv, TypeOK
  <1>3. PassSound(r)' /\ InHand(r)' /\ ListCount(r)'
    BY <1>2, IdlePass DEF PassSound, InHand, ListCount, Working
  <1>4. ASSUME Alone, NEW h \in Hooks, NEW i \in Ids, rows[h][i] # None
        PROVE  Uncounted(h, i) = 0 /\ Uncounted(h, i)' = 0
    BY <1>2, <1>4, IdlePass, RecordingAlone
  <1>5. aborts \in 0..MaxAborts /\ aborts \in Nat
    BY DEF IInv, TypeOK
  <1>6. aborts' \in 0..MaxAborts /\ aborts <= aborts'
    BY <1>1, <1>5
  <1>7. \A h \in Hooks, i \in Ids : Alone /\ rows[h][i] # None =>
            aborts + Uncounted(h, i) <= aborts' + Uncounted(h, i)'
    BY <1>1, <1>4, <1>5
  <1> QED  BY <1>1, <1>3, <1>6, <1>7, IdlePass, PassKeeps

\* The pass once the row in hand is crossed off its list.
CrossOff(p, list, all) ==
    [p EXCEPT !.at = "next", !.list = list, !.all = all, !.hook = None, !.outcome = None]

LEMMA CrossedOff ==
    ASSUME NEW p \in Pass, NEW list \in [Hooks -> Row \cup {None}], NEW all \in BOOLEAN
    PROVE  /\ CrossOff(p, list, all) \in Pass
           /\ CrossOff(p, list, all).at = "next"
           /\ CrossOff(p, list, all).event = p.event
           /\ CrossOff(p, list, all).list = list
           /\ CrossOff(p, list, all).all = all
  BY DEF CrossOff, Pass

\* What a record does: the row in hand is settled, no other row is touched
\* except to be pruned.
Recorded(r, row) ==
    LET p == pass[r]
    IN  /\ row \in Row /\ RowSound(row)
        /\ row.attempts = p.list[p.hook].attempts + 1
        /\ rows' \in Table
        /\ \A h \in Hooks, i \in Ids :
             \/ rows'[h][i] = None
             \/ <<h, i>> # <<p.hook, p.event>> /\ rows'[h][i] = rows[h][i]
             \/ h = p.hook /\ i = p.event /\ rows'[h][i] = row
        /\ pass'[r] \in Pass
        /\ pass'[r].at = "next" /\ pass'[r].event = p.event
        /\ pass'[r].all = (p.all /\ row.status \in Terminal)
        /\ pass'[r].list[p.hook] = None
        /\ \A h \in Hooks : h # p.hook => pass'[r].list[h] = p.list[h]

LEMMA RecordEffect ==
    ASSUME IInv, NEW r \in Replicas, RecordAttempt(r),
           rows[pass[r].hook][pass[r].event] # None
    PROVE  \E row \in Row : Recorded(r, row)
  <1> DEFINE p == pass[r]
             row == Settled(p.list[p.hook], p.hook, p.outcome)
             ids == NewestOf(RowIds(p.hook), Ring)
             ring == [rows[p.hook] EXCEPT ![p.event] = row]
             list == [p.list EXCEPT ![p.hook] = None]
             all == p.all /\ row.status \in Terminal
             k == [p EXCEPT !.at = "next", !.list[p.hook] = None,
                            !.all = @ /\ row.status \in Terminal,
                            !.hook = None, !.outcome = None]
  <1>1. /\ p \in Pass /\ p.at = "record" /\ p.hook \in Hooks /\ p.event \in Ids
        /\ p.list[p.hook] # None /\ p.outcome \in Outcomes
        /\ Due(p.list[p.hook]) /\ RowSound(p.list[p.hook])
    BY DEF RecordAttempt, IInv, TypeOK, PassesSound, PassSound, Working
  <1>2. p.list[p.hook] \in Row /\ p.list \in [Hooks -> Row \cup {None}] /\ p.all \in BOOLEAN
    BY <1>1 DEF Pass
  <1>3. row \in Row /\ RowSound(row) /\ row.attempts = p.list[p.hook].attempts + 1
    BY <1>1, <1>2, SettledSound
  <1>4. /\ rows' = [rows EXCEPT ![p.hook] = Keep(ring, ids)]
        /\ Pauses(r, k)
    BY DEF RecordAttempt
  <1>5. list \in [Hooks -> Row \cup {None}] /\ all \in BOOLEAN
    BY <1>2
  <1>6. k = CrossOff(p, list, all)
    BY DEF CrossOff
  <1> HIDE DEF k, row, list, all
  <1>7. k \in Pass /\ k.at = "next" /\ k.event = p.event /\ k.list = list /\ k.all = all
    BY <1>1, <1>5, <1>6, CrossedOff
  <1>8. pass'[r] = k
    BY <1>4, <1>7, PausesAt DEF IInv, TypeOK
  <1>9. list[p.hook] = None /\ \A h \in Hooks : h # p.hook => list[h] = p.list[h]
    BY <1>1, <1>2 DEF list
  <1>10. rows \in Table
    BY DEF IInv, TypeOK, Table
  <1>11. ring \in [Ids -> Row \cup {None}] /\ ring[p.event] = row
         /\ \A i \in Ids : i # p.event => ring[i] = rows[p.hook][i]
    BY <1>1, <1>3, <1>10 DEF Table
  <1> HIDE DEF ring, ids
  <1>12. /\ rows' \in Table /\ rows'[p.hook] = Keep(ring, ids)
         /\ \A h \in Hooks : h # p.hook => rows'[h] = rows[h]
    BY <1>1, <1>4, <1>10, <1>11, KeepTyped DEF Table
  <1>13. \A h \in Hooks, i \in Ids :
             \/ rows'[h][i] = None
             \/ <<h, i>> # <<p.hook, p.event>> /\ rows'[h][i] = rows[h][i]
             \/ h = p.hook /\ i = p.event /\ rows'[h][i] = row
    BY <1>11, <1>12, KeepEither
  <1>14. all = (p.all /\ row.status \in Terminal)
    BY DEF all
  <1>15. Recorded(r, row)
    BY <1>3, <1>7, <1>8, <1>9, <1>12, <1>13, <1>14 DEF Recorded
  <1> QED  BY <1>3, <1>15

LEMMA RecordKeeps ==
    ASSUME IInv, NEW r \in Replicas, RecordAttempt(r),
           rows[pass[r].hook][pass[r].event] # None
    PROVE  IInv'
  <1> DEFINE p == pass[r]
  <1>1. PICK row \in Row : Recorded(r, row)
    BY RecordEffect
  <1>2. /\ p.at = "record" /\ p.hook \in Hooks /\ p.event \in Ids /\ p.event <= lastId
        /\ p.list[p.hook] # None /\ Working(r)
    BY DEF RecordAttempt, IInv, PassesSound, PassSound, Working
  <1>3. UNCHANGED <<hooks, outbox, waiting, lastId, calls, sent>> /\ aborts' = aborts
    BY DEF RecordAttempt, Dispatches
  <1>4. \E k \in Pass : Pauses(r, k)
    <2>1. \E k : Pauses(r, k)
      BY DEF RecordAttempt
    <2>2. \A k : Pauses(r, k) => pass'[r] = k
      BY DEF Pauses, IInv, TypeOK
    <2>3. pass'[r] \in Pass
      BY <1>1 DEF Recorded
    <2> QED  BY <2>1, <2>2, <2>3
  <1>5. /\ rows' \in Table /\ outbox' \subseteq outbox /\ waiting' \subseteq outbox'
        /\ sent' \in [Hooks -> [Ids -> Nat]] /\ aborts' \in 0..MaxAborts
        /\ SentAtMost'
    BY <1>1, <1>3 DEF Recorded, IInv, TypeOK, SentAtMost, Alone
  <1>6. \A h \in Hooks, i \in Ids :
             \/ rows'[h][i] = None
             \/ <<h, i>> # <<p.hook, p.event>> /\ rows'[h][i] = rows[h][i]
             \/ h = p.hook /\ i = p.event /\ rows'[h][i] = row
    BY <1>1 DEF Recorded
  <1>7. Drawn'
    <2>1. ~ (lastId < p.event)
      BY <1>2 DEF IInv, TypeOK, Ids
    <2> QED  BY <1>3, <1>6, <2>1 DEF IInv, Drawn
  <1>8. RowsSound'
    <2> SUFFICES ASSUME NEW h \in Hooks, NEW i \in Ids, rows'[h][i] # None
                 PROVE  RowSound(rows'[h][i])
      BY DEF RowsSound
    <2>1. rows[h][i] # None => RowSound(rows[h][i])
      BY DEF IInv, RowsSound
    <2>2. RowSound(row)
      BY <1>1 DEF Recorded
    <2>3. rows'[h][i] = row \/ (rows'[h][i] = rows[h][i] /\ rows[h][i] # None)
      BY <1>6
    <2> QED  BY <2>1, <2>2, <2>3 DEF RowSound
  <1>9. /\ pass'[r].at = "next" /\ pass'[r].event = p.event
        /\ pass'[r].all = (p.all /\ row.status \in Terminal)
        /\ \A h \in Hooks : pass'[r].list[h] # None =>
               h # p.hook /\ pass'[r].list[h] = p.list[h]
        /\ \A h \in Hooks : h # p.hook => pass'[r].list[h] = p.list[h]
    BY <1>1 DEF Recorded
  <1>10. PassSound(r)'
    <2>1. PassSound(r)
      BY DEF IInv, PassesSound
    <2> QED  BY <1>2, <1>3, <1>9, <2>1 DEF PassSound, Working, RowSound, Due
  <1>11. Alone => p.event \in outbox
    BY <1>2 DEF IInv, AllInHand, InHand
  <1>12. QueuedUntilFinished'
    <2> SUFFICES ASSUME Alone, NEW h \in Hooks, NEW i \in Ids, rows'[h][i] # None,
                        rows'[h][i].status \notin Terminal
                 PROVE  i \in outbox
      BY <1>3 DEF QueuedUntilFinished, Alone
    <2>1. i = p.event \/ rows'[h][i] = rows[h][i]
      BY <1>6
    <2> QED  BY <1>11, <2>1 DEF IInv, QueuedUntilFinished
  <1>13. ASSUME Alone PROVE InHand(r)'
    <2>1. InHand(r)
      BY <1>13 DEF IInv, AllInHand
    <2>2. ASSUME NEW h \in Hooks, rows'[h][p.event] # None
          PROVE  /\ pass'[r].list[h] # None => rows'[h][p.event] = pass'[r].list[h]
                 /\ rows'[h][p.event].status \notin Terminal =>
                        pass'[r].list[h] # None \/ ~ pass'[r].all
      <3>1. CASE h = p.hook
        <4>1. rows'[h][p.event] = row
          BY <1>2, <1>6, <2>2, <3>1
        <4> QED  BY <1>9, <3>1, <4>1
      <3>2. CASE h # p.hook
        <4>1. rows'[h][p.event] = rows[h][p.event] /\ pass'[r].list[h] = p.list[h]
              /\ (pass'[r].all => p.all)
          BY <1>2, <1>6, <1>9, <2>2, <3>2
        <4> QED  BY <1>2, <2>1, <2>2, <4>1 DEF InHand
      <3> QED  BY <3>1, <3>2
    <2> QED  BY <1>3, <1>9, <1>11, <1>13, <2>2 DEF InHand, Working
  <1>14. ASSUME Alone, NEW h \in Hooks, NEW i \in Ids
         PROVE  /\ Uncounted(h, i) = IF h = p.hook /\ i = p.event THEN 1 ELSE 0
                /\ Uncounted(h, i)' = 0
    BY <1>2, <1>9, <1>14, RecordingAlone
  <1>15. RowCounts'
    <2> SUFFICES ASSUME Alone, NEW h \in Hooks, NEW i \in Ids, rows'[h][i] # None
                 PROVE  sent[h][i] <= rows'[h][i].attempts + aborts + Uncounted(h, i)'
      BY <1>3 DEF RowCounts, Alone
    <2>1. CASE <<h, i>> # <<p.hook, p.event>>
      BY <1>6, <1>14, <2>1 DEF IInv, RowCounts
    <2>2. CASE h = p.hook /\ i = p.event
      <3>1. rows'[h][i] = row /\ row.attempts = p.list[h].attempts + 1
        BY <1>1, <1>6, <2>2 DEF Recorded
      <3>2. sent[h][i] <= p.list[h].attempts + aborts + Uncounted(h, i)
        BY <1>2, <2>2 DEF IInv, ListCounts, ListCount
      <3>3. Uncounted(h, i) = 1 /\ Uncounted(h, i)' = 0
        BY <1>14, <2>2
      <3>4. p.list[h] \in Row
        BY <1>2, <2>2 DEF IInv, TypeOK, Pass
      <3>5. p.list[h].attempts \in Nat /\ sent[h][i] \in Nat /\ aborts \in Nat
        BY <3>4 DEF Row, IInv, TypeOK
      <3> QED  BY <3>1, <3>2, <3>3, <3>5
    <2> QED  BY <2>1, <2>2
  <1>16. ASSUME Alone PROVE ListCount(r)'
    <2> SUFFICES ASSUME NEW h \in Hooks, NEW i \in Ids, i = p.event, h # p.hook,
                        p.list[h] # None
                 PROVE  sent[h][i] <= p.list[h].attempts + aborts + Uncounted(h, i)'
      BY <1>2, <1>3, <1>9 DEF ListCount, Uncounted, Recording
    <2>1. sent[h][i] <= p.list[h].attempts + aborts + Uncounted(h, i)
      BY <1>2, <1>16 DEF IInv, ListCounts, ListCount
    <2> QED  BY <1>14, <1>16, <2>1
  <1> QED
    BY <1>3, <1>4, <1>5, <1>7, <1>8, <1>10, <1>12, <1>13, <1>15, <1>16, DispatchKeeps

LEMMA InitIInv == Init => IInv
  <1> SUFFICES ASSUME Init PROVE IInv
    OBVIOUS
  <1> USE WebhookAssumption DEF Init
  <1>1. TypeOK
    BY IdlePass DEF TypeOK, Ids
  <1>2. Answered /\ Drawn /\ RowsSound /\ QueuedUntilFinished /\ RowCounts
    BY DEF Answered, Drawn, RowsSound, QueuedUntilFinished, RowCounts, Ids
  <1>3. \A r \in Replicas : pass[r].at = "idle"
    BY IdlePass
  <1>4. PassesSound /\ AllInHand /\ ListCounts
    BY <1>3 DEF PassesSound, PassSound, AllInHand, InHand, ListCounts, ListCount, Working
  <1>5. SentAtMost
    BY DEF SentAtMost, Ids
  <1> QED  BY <1>1, <1>2, <1>4, <1>5 DEF IInv

LEMMA NextIInv == IInv /\ [Next]_vars => IInv'
  <1> SUFFICES ASSUME IInv, [Next]_vars PROVE IInv'
    OBVIOUS
  <1>1. CASE UNCHANGED vars
    <2>1. OthersWrite
      BY <1>1, QuietWrites DEF vars, stored
    <2> QED
      BY <1>1, <2>1, OthersKeep DEF vars, stored, IInv, TypeOK, Answered
  <1>2. CASE \/ Enqueue \/ Manage
             \/ \E h \in Hooks, id \in Ids : BackoffElapses(h, id)
             \/ \E id \in Ids : EventElapses(id)
    BY <1>2, OthersIInv
  <1>3. ASSUME NEW r \in Replicas, Dispatch(r)
        PROVE  IInv'
    BY <1>3, GetNextEventKeeps, ListDeliveriesKeeps, AttemptKeeps, SendKeeps,
       RecordGoneKeeps, RecordKeeps, FinishEventKeeps
    DEF Dispatch
  <1>4. ASSUME NEW r \in Replicas, Abort(r)
        PROVE  IInv'
    BY <1>4, AbortKeeps
  <1> QED  BY <1>1, <1>2, <1>3, <1>4 DEF Next

-----------------------------------------------------------------------------
\* A dispatcher works from a list that others can only make shorter
\* (dispatchEvent, RecordWebhookDeliveryAttempt, pruning and cascades).
THEOREM Invariance == Spec => []IInv
  BY InitIInv, NextIInv, PTL DEF Spec

\* Endpoints, rows, calls and passes stay well typed, for any number of
\* dispatchers.
THEOREM TypeCorrect == Spec => []TypeOK
  <1>1. IInv => TypeOK
    BY DEF IInv
  <1> QED
    BY <1>1, Invariance, PTL

\* An unfinished delivery is never without its event in the outbox, so one
\* dispatcher comes back to it (FinishWebhookOutboxEvent after dispatchEvent).
THEOREM QueuedUntilFinishedHolds == Spec => []QueuedUntilFinished
  <1>1. IInv => QueuedUntilFinished
    BY DEF IInv
  <1> QED
    BY <1>1, Invariance, PTL

\* No endpoint gets more than MaxAttempts requests for an event, and one more for
\* each pass abandoned before it recorded (attempt, retry counting).
THEOREM SentAtMostHolds == Spec => []SentAtMost
  <1>1. IInv => SentAtMost
    BY DEF IInv
  <1> QED
    BY <1>1, Invariance, PTL

\* A finished delivery is only ever pruned or cascaded away, by no step
\* attempted again (dispatchEvent's filter of what it lists).
LEMMA FinishedStandsStep ==
    ASSUME IInv, Next, Alone, NEW h \in Hooks, NEW i \in Ids,
           rows[h][i] # None, rows[h][i].status \in Terminal, rows'[h][i] # None
    PROVE  rows'[h][i] = rows[h][i]
  <1>1. RowSound(rows[h][i]) /\ rows[h][i].status # "retrying"
    BY DEF IInv, RowsSound, Terminal
  <1>2. CASE OthersWrite
    <2>1. Entry(h, i) /\ ~ (lastId < i)
      BY <1>2 DEF OthersWrite, IInv, Drawn
    <2> QED  BY <1>1, <2>1 DEF Entry, RowSound
  <1>3. CASE \E r \in Replicas : RecordAttempt(r)
    <2>1. PICK r \in Replicas : RecordAttempt(r)
      BY <1>3
    <2>2. CASE rows[pass[r].hook][pass[r].event] = None
      BY <2>1, <2>2 DEF RecordAttempt
    <2>3. CASE rows[pass[r].hook][pass[r].event] # None
      <3>1. PICK row \in Row : Recorded(r, row)
        BY <2>1, <2>3, RecordEffect
      <3>2. Working(r) /\ InHand(r) /\ PassSound(r) /\ pass[r].at = "record"
        BY <2>1 DEF RecordAttempt, IInv, AllInHand, PassesSound, Working
      <3>3. rows[pass[r].hook][pass[r].event].status \notin Terminal
        BY <2>3, <3>2 DEF InHand, PassSound, Due
      <3> QED  BY <3>1, <3>3 DEF Recorded
    <2> QED  BY <2>2, <2>3
  <1>4. CASE UNCHANGED rows
    BY <1>4
  <1>5. Manage \/ Enqueue \/ (\E g \in Hooks, id \in Ids : BackoffElapses(g, id)) => OthersWrite
    BY ManageWrites, EnqueueWrites, BackoffWrites
  <1>6. \/ Manage \/ Enqueue \/ \E g \in Hooks, id \in Ids : BackoffElapses(g, id)
        \/ UNCHANGED rows
        \/ \E r \in Replicas : RecordAttempt(r)
    BY DEF Next, Dispatch, GetNextEvent, ListDeliveries, Attempt, Send, FinishEvent, Abort,
           EventElapses, stored
  <1> QED  BY <1>2, <1>3, <1>4, <1>5, <1>6

\* With one dispatcher, what is delivered, failed or refused stays so until its
\* row goes (RecordWebhookDeliveryAttempt overwrites only what was due).
THEOREM FinishedStandsHolds == Spec => FinishedStands
  <1> DEFINE Stands == Alone => \A h \in Hooks, id \in Ids :
               /\ rows[h][id] # None /\ rows[h][id].status \in Terminal
               /\ rows'[h][id] # None
               => rows'[h][id] = rows[h][id]
  <1>1. IInv /\ [Next]_vars => [Stands]_vars
    BY FinishedStandsStep
  <1> QED
    BY <1>1, Invariance, PTL DEF Spec, FinishedStands

================================================================================
