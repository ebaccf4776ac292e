----------------------------- MODULE RegistryTx -----------------------------
(***************************************************************************)
(* The registry operations of Registry as the transactions they are:       *)
(* several replicas run them against one PostgreSQL at READ COMMITTED, one  *)
(* statement per step.                                                     *)
(*                                                                         *)
(* A statement reads the committed rows overlaid with the transaction's own *)
(* writes; a written row stays locked until the transaction ends; an UPDATE *)
(* re-evaluates its WHERE on the row it waited for.  A foreign key makes an *)
(* insert that references a version wait for a transaction deleting it, and *)
(* the deletion wait for the insert.  Commit publishes the overlay.         *)
(*                                                                         *)
(* One bucket.  A revocation takes effect at the stamp of its request.      *)
(* Scans, webhooks and SBOM objects have modules of their own.             *)
(***************************************************************************)
EXTENDS Naturals, FiniteSets

CONSTANTS
    Sessions,           \* requests in flight, on any replica
    Versions, Builds, Channels,
    Latest,             \* the managed channel of the bucket
    VersionOfBuild,
    Null,               \* SQL NULL; also the absence of a row
    Requests,           \* bound: the requests clients make
    StartVersions, StartBuilds, StartHistory,   \* the rows found at the start
    MaxClock            \* bound: the number of requests made

VARIABLES
    versions,   \* committed rows [Versions -> VersionRow, or Null]
    builds,     \* committed rows [Builds -> BuildRow, or Null]
    history,    \* committed channel_assignments
    clock,      \* the stamp of the last request
    step,       \* [Sessions -> the statement the transaction executes next]
    request,    \* [Sessions -> the request being served]
    stamp,      \* [Sessions -> its `at`, taken by the handler]
    local,      \* [Sessions -> what it has read into memory]
    written,    \* [Sessions -> its uncommitted rows]
    bucketLock  \* the session holding LockBucketForVersionSequence, or Null

committed == <<versions, builds, history>>
txVars == <<committed, clock, step, request, stamp, local, written, bucketLock>>

Nobody == [sequence |-> 0, revokeAt |-> 0, inheritedFrom |-> Null]
VersionRow == [sequence : Nat, revokeAt : Nat, inheritedFrom : Versions \cup {Null}]
BuildRow == [done : BOOLEAN, metadataSeen : BOOLEAN, parent : Versions \cup {Null}]
AssignmentRow == [channel : Channels, at : Nat, version : Versions \cup {Null}]

Local == [row : BuildRow, version : VersionRow, ready : BOOLEAN,
          number : Nat, todo : SUBSET Versions, onLatest : BOOLEAN]
Blank == [row |-> [done |-> FALSE, metadataSeen |-> FALSE, parent |-> Null],
          version |-> Nobody, ready |-> FALSE, number |-> 0, todo |-> {},
          onLatest |-> FALSE]
Nothing == [versions |-> [v \in {} |-> Null], builds |-> [b \in {} |-> Null], rows |-> {}]

\* A transaction's rows: versions and builds it wrote or, as Null, deleted.
IsRows(f, S, T) == DOMAIN f \subseteq S /\ f \in [DOMAIN f -> T \cup {Null}]
IsWritten(w) ==
    /\ w = [versions |-> w.versions, builds |-> w.builds, rows |-> w.rows]
    /\ IsRows(w.versions, Versions, VersionRow)
    /\ IsRows(w.builds, Builds, BuildRow)
    /\ w.rows \subseteq AssignmentRow

Steps == {"idle", "UpdateBuild", "GetVersion", "ListBuilds", "Inherit",
          "LockBucket", "CompleteVersion", "InsertBuild", "RevokeRow",
          "ListDescendants", "Descend", "RollBack", "UnrevokeRow", "CheckChannels",
          "DeleteRow", "RecordAssignment", "Commit"}

TxTypeOK ==
    /\ versions \in [Versions -> VersionRow \cup {Null}]
    /\ builds \in [Builds -> BuildRow \cup {Null}]
    /\ history \subseteq AssignmentRow
    /\ clock \in Nat
    /\ step \in [Sessions -> Steps]
    /\ request \in [Sessions -> Requests \cup {Null}]
    /\ stamp \in [Sessions -> Nat]
    /\ local \in [Sessions -> Local]
    /\ written = [s \in Sessions |-> written[s]]
    /\ \A s \in Sessions : IsWritten(written[s])
    /\ bucketLock \in Sessions \cup {Null}

\* A patch may reopen a build; without a status it leaves the status alone.
Patch == [status : {"done", "running", "same"}, metadata : BOOLEAN,
          parent : Versions \cup {Null}]
Request ==
    [op : {"UpdateBuild"}, build : Builds, patch : Patch]
    \cup [op : {"CreateBuild"}, build : Builds, done : BOOLEAN,
          parent : Versions \cup {Null}]
    \cup [op : {"RevokeVersion"}, version : Versions, skip : BOOLEAN]
    \cup [op : {"RestoreRevokedVersion", "DeleteVersion"}, version : Versions]
    \cup [op : {"AssignVersion"}, channel : Channels, version : Versions]

ASSUME TxAssumption ==
    /\ VersionOfBuild \in [Builds -> Versions]
    /\ Latest \in Channels
    /\ Null \notin Sessions \cup Versions \cup VersionRow \cup BuildRow \cup Request
    /\ IsFiniteSet(Versions)
    /\ Requests \subseteq Request
    /\ MaxClock \in Nat
\* The rows found were committed by the same operations: a build is of a version
\* that exists, an assignment of a complete one.
ASSUME StartAssumption ==
    /\ StartVersions \in [Versions -> VersionRow \cup {Null}]
    /\ StartBuilds \in [Builds -> BuildRow \cup {Null}]
    /\ StartHistory \subseteq AssignmentRow /\ IsFiniteSet(StartHistory)
    /\ \A b \in Builds :
          StartBuilds[b] # Null => StartVersions[VersionOfBuild[b]] # Null
    /\ \A r \in StartHistory : r.version # Null =>
          StartVersions[r.version] # Null /\ StartVersions[r.version].sequence > 0

-----------------------------------------------------------------------------
(* What a statement of s sees and which rows it may touch *)

\* The committed rows under a transaction's own, and its own with one more.
Overlaid(own, rows) ==
    [x \in DOMAIN rows |-> IF x \in DOMAIN own THEN own[x] ELSE rows[x]]
With(own, x, row) ==
    [y \in DOMAIN own \cup {x} |-> IF y = x THEN row ELSE own[y]]

VersionsSeen(s) == Overlaid(written[s].versions, versions)
BuildsSeen(s) == Overlaid(written[s].builds, builds)
Gone(rows) == {v \in DOMAIN rows : rows[v] = Null}
HistorySeen(s) ==
    {r \in history : r.version \notin Gone(written[s].versions)} \cup written[s].rows

Others(s) == Sessions \ {s}
VersionFree(s, v) == \A t \in Others(s) : v \notin DOMAIN written[t].versions
BuildFree(s, b) == \A t \in Others(s) : b \notin DOMAIN written[t].builds
\* Rows of t that hold FOR KEY SHARE on version v.
References(t, v) ==
    \/ \E r \in written[t].rows : r.version = v
    \/ \E b \in DOMAIN written[t].builds : VersionOfBuild[b] = v /\ builds[b] = Null
\* An insert referencing v waits for a transaction that is deleting v.
MayReference(s, v) ==
    \A t \in Others(s) :
        v \in DOMAIN written[t].versions => written[t].versions[v] # Null
\* Mutant: the deletion does not wait for rows that reference v.
DeleteNow(s, v) == VersionFree(s, v)
MayDelete(s, v) ==
    /\ VersionFree(s, v)
    /\ \A t \in Others(s) : ~References(t, v)
    /\ \A b \in Builds : VersionOfBuild[b] = v => BuildFree(s, b)

Newest(rows) == {r \in rows : \A q \in rows : q.at <= r.at}
RowsOf(hist, c) == {r \in hist : r.channel = c}
Selected(hist, c) == {r.version : r \in Newest(RowsOf(hist, c))} \ {Null}
NewestValid(hist, rows, c) ==
    {r.version : r \in Newest({q \in RowsOf(hist, c) :
                                  q.version # Null /\ rows[q.version].revokeAt = 0})}

BuildsOf(rows, v) == {b \in Builds : VersionOfBuild[b] = v /\ rows[b] # Null}
ReadyToComplete(rows, v) ==
    /\ BuildsOf(rows, v) # {}
    /\ \A b \in BuildsOf(rows, v) : rows[b].done /\ rows[b].metadataSeen

Children(rows, v) ==
    {VersionOfBuild[b] : b \in {x \in Builds : rows[x] # Null /\ rows[x].parent = v}}
Descendants(rows, v) ==
    {w \in Versions :
        \A S \in SUBSET Versions :
            (/\ Children(rows, v) \subseteq S
             /\ \A u \in S : Children(rows, u) \subseteq S) => w \in S}

-----------------------------------------------------------------------------
(* Beginning and ending a transaction *)

Goto(s, next) == step' = [step EXCEPT ![s] = next]
Read(s, next, l) == Goto(s, next) /\ local' = [local EXCEPT ![s] = l]
WriteVersion(s, v, row) ==
    written' = [written EXCEPT ![s].versions = With(@, v, row)]
WriteBuild(s, b, row) ==
    written' = [written EXCEPT ![s].builds = With(@, b, row)]
Reads == UNCHANGED <<committed, clock, request, stamp, written, bucketLock>>
Writes == UNCHANGED <<committed, clock, request, stamp, bucketLock>>

Target(s) == IF "build" \in DOMAIN request[s]
             THEN VersionOfBuild[request[s].build] ELSE request[s].version

End(s) ==
    /\ Goto(s, "idle")
    /\ request' = [request EXCEPT ![s] = Null]
    /\ stamp' = [stamp EXCEPT ![s] = 0]
    /\ local' = [local EXCEPT ![s] = Blank]
    /\ written' = [written EXCEPT ![s] = Nothing]
    /\ bucketLock' = IF bucketLock = s THEN Null ELSE bucketLock
    /\ UNCHANGED clock

\* Refusal, error, cancelled request or replica crash: the deferred Rollback.
Rollback(s) ==
    /\ step[s] # "idle"
    /\ End(s)
    /\ UNCHANGED committed

Commit(s) ==
    /\ step[s] = "Commit"
    /\ versions' = VersionsSeen(s)
    /\ builds' = BuildsSeen(s)
    /\ history' = HistorySeen(s)
    /\ End(s)

FirstStep(r) ==
    CASE r.op = "DeleteVersion" -> "CheckChannels"
      [] OTHER -> "GetVersion"

\* patchBuild applied to the row GetBuild returned, in a transaction of its own.
PatchedRow(row, patch) ==
    [done |-> IF patch.status = "same" THEN row.done ELSE patch.status = "done",
     metadataSeen |-> patch.metadata \/ row.metadataSeen,
     parent |-> IF patch.parent = Null THEN row.parent ELSE patch.parent]

\* The handler stamps the request; updateBuild has read the build before that
\* and refused to replace its parent.
Begin(s, r) ==
    /\ step[s] = "idle" /\ clock < MaxClock
    /\ clock' = clock + 1
    /\ stamp' = [stamp EXCEPT ![s] = clock + 1]
    /\ request' = [request EXCEPT ![s] = r]
    /\ \/ /\ r.op = "UpdateBuild"
          /\ builds[r.build] # Null
          /\ \/ r.patch.parent = Null \/ builds[r.build].parent = Null
             \/ r.patch.parent = builds[r.build].parent
          /\ Read(s, "UpdateBuild",
                  [Blank EXCEPT !.row = PatchedRow(builds[r.build], r.patch)])
       \/ /\ r.op # "UpdateBuild"
          /\ Goto(s, FirstStep(r))
          /\ UNCHANGED local
    /\ UNCHANGED <<committed, written, bucketLock>>

-----------------------------------------------------------------------------
(* Statements *)

AfterGetVersion(op, row) ==
    CASE op = "UpdateBuild" -> "ListBuilds"
      [] op = "CreateBuild" -> "InsertBuild"
      [] op = "RevokeVersion" /\ row.revokeAt = 0 -> "RevokeRow"
      [] op = "RestoreRevokedVersion"
            /\ row.revokeAt > 0 /\ row.inheritedFrom = Null -> "UnrevokeRow"
      [] op = "AssignVersion" /\ row.sequence > 0 -> "RecordAssignment"
      [] OTHER -> "refused"

\* GetVersionByFingerprint and the domain's refusals on the row it returned.
GetVersion(s) ==
    LET row == VersionsSeen(s)[Target(s)]
    IN  /\ step[s] = "GetVersion"
        /\ row # Null
        /\ AfterGetVersion(request[s].op, row) # "refused"
        /\ Read(s, AfterGetVersion(request[s].op, row),
                [local[s] EXCEPT !.version = row])
        /\ Reads

\* UPDATE builds ... WHERE id: every column is written, from the row the
\* handler patched.
UpdateBuild(s) ==
    LET b == request[s].build
    IN  /\ step[s] = "UpdateBuild"
        /\ BuildFree(s, b)
        /\ builds[b] # Null
        /\ WriteBuild(s, b, local[s].row)
        /\ Goto(s, "GetVersion")
        /\ UNCHANGED local /\ Writes

\* restoreVersion loads the version's builds in a statement of its own.
ListBuilds(s) ==
    /\ step[s] = "ListBuilds"
    /\ Read(s, "Inherit",
            [local[s] EXCEPT !.ready = ReadyToComplete(BuildsSeen(s), Target(s))])
    /\ Reads

\* INSERT ... SELECT FROM versions ... ON CONFLICT returns the existing row.
InsertBuild(s) ==
    LET b == request[s].build
        new == [done |-> request[s].done, metadataSeen |-> FALSE,
                parent |-> request[s].parent]
        row == IF builds[b] = Null THEN new ELSE builds[b]
    IN  /\ step[s] = "InsertBuild"
        /\ BuildFree(s, b)
        /\ MayReference(s, VersionOfBuild[b])
        /\ versions[VersionOfBuild[b]] # Null
        /\ WriteBuild(s, b, row)
        /\ Read(s, "Inherit", [local[s] EXCEPT !.row = row])
        /\ Writes

\* Where an UpdateBuild goes from inheritParentRevocation: completion is decided
\* on what was read into memory.
AfterInherit(s) ==
    IF request[s].op = "UpdateBuild" /\ local[s].version.sequence = 0 /\ local[s].ready
    THEN "LockBucket" ELSE "Commit"

\* The parent as inheritParentRevocation reads it, if the child inherits at all.
RevokedParent(s) ==
    {p \in Versions \ {Target(s)} :
        /\ p = local[s].row.parent
        /\ local[s].version.revokeAt = 0
        /\ VersionsSeen(s)[p] # Null
        /\ VersionsSeen(s)[p].revokeAt > 0}

\* UPDATE versions SET revoke_at ... WHERE id AND revoke_at IS NULL
Revocable(s, v) == versions[v] # Null /\ VersionsSeen(s)[v].revokeAt = 0

\* inheritParentRevocation: a child revoked meanwhile is reloaded and stands.
Inherit(s) ==
    LET v == Target(s)
    IN  /\ step[s] = "Inherit"
        /\ \/ /\ RevokedParent(s) = {}
              /\ Goto(s, AfterInherit(s))
              /\ UNCHANGED <<local, written>>
           \/ \E p \in RevokedParent(s) :
                 LET at == VersionsSeen(s)[p].revokeAt
                     row == [VersionsSeen(s)[v] EXCEPT !.revokeAt = at,
                                                       !.inheritedFrom = p]
                 IN  /\ VersionFree(s, v)
                     /\ \/ /\ Revocable(s, v)
                           /\ WriteVersion(s, v, row)
                           /\ Read(s, AfterInherit(s),
                                   [local[s] EXCEPT !.version.revokeAt = at,
                                                    !.version.inheritedFrom = p])
                        \/ /\ ~Revocable(s, v) /\ versions[v] # Null
                           /\ Read(s, IF /\ AfterInherit(s) = "LockBucket"
                                         /\ versions[v].sequence = 0
                                      THEN "LockBucket" ELSE "Commit",
                                   [local[s] EXCEPT !.version = versions[v]])
                           /\ UNCHANGED written
        /\ Writes

\* Mutant: the bucket row is read without FOR UPDATE.
BucketReadable(s) == TRUE
BucketFree(s) == bucketLock = Null
IsNextSequence(s, n) ==
    LET rows == VersionsSeen(s)
        live == {v \in Versions : rows[v] # Null}
    IN  /\ \A v \in live : rows[v].sequence < n
        /\ n = 1 \/ \E v \in live : rows[v].sequence + 1 = n
\* LockBucketForVersionSequence, then NextVersionSequence under that lock.
LockBucket(s) ==
    /\ step[s] = "LockBucket"
    /\ BucketFree(s)
    /\ bucketLock' = s
    /\ \E n \in 1..(Cardinality(Versions) + 1) :
          /\ IsNextSequence(s, n)
          /\ Read(s, "CompleteVersion", [local[s] EXCEPT !.number = n])
    /\ UNCHANGED <<committed, clock, request, stamp, written>>

\* UPDATE versions SET complete, sequence ... WHERE id AND complete = false
Completable(s, v) == versions[v] # Null /\ versions[v].sequence = 0
\* The unique index on (bucket, sequence).
Unused(s, n) == \A v \in Versions : versions[v] # Null => versions[v].sequence # n
AssignmentRows(s, c, targets) ==
    {[channel |-> c, at |-> stamp[s], version |-> v] : v \in targets}
\* No row updated is an error.  The managed channel follows unless the
\* revocation read into memory is in effect.
CompleteVersion(s) ==
    LET v == Target(s)
        effect == local[s].version.revokeAt
        row == [VersionsSeen(s)[v] EXCEPT !.sequence = local[s].number]
    IN  /\ step[s] = "CompleteVersion"
        /\ VersionFree(s, v)
        /\ Completable(s, v)
        /\ Unused(s, local[s].number)
        /\ written' = [written EXCEPT
              ![s].versions = With(@, v, row),
              ![s].rows = @ \cup AssignmentRows(s, Latest,
                             IF effect = 0 \/ effect > stamp[s] THEN {v} ELSE {})]
        /\ Goto(s, "Commit")
        /\ UNCHANGED local /\ Writes

\* Mutant: every column is written back from the row in memory.
RevokedFromMemory(s, v) == [local[s].version EXCEPT !.revokeAt = stamp[s]]
RevokedRow(s, v) == [versions[v] EXCEPT !.revokeAt = stamp[s]]
RevokeRow(s) ==
    LET v == Target(s)
    IN  /\ step[s] = "RevokeRow"
        /\ VersionFree(s, v)
        /\ Revocable(s, v)
        /\ WriteVersion(s, v, RevokedRow(s, v))
        /\ Goto(s, IF request[s].skip THEN "RollBack" ELSE "ListDescendants")
        /\ UNCHANGED local /\ Writes

ListDescendants(s) ==
    LET rows == VersionsSeen(s)
        unrevoked == {w \in Versions : rows[w] # Null /\ rows[w].revokeAt = 0}
        listed == Descendants(BuildsSeen(s), Target(s)) \ Gone(rows)
    IN  /\ step[s] = "ListDescendants"
        /\ Read(s, "Descend",
                [local[s] EXCEPT !.todo =
                    IF request[s].op = "RevokeVersion"
                    THEN listed \cap unrevoked ELSE listed])
        /\ Reads

\* UPDATE ... WHERE id AND revocation_inherited_from_id = the restored version
Unrevocable(s, w) ==
    versions[w] # Null /\ VersionsSeen(s)[w].inheritedFrom = Target(s)
\* One listed descendant; a row the statement does not match is passed over.
DescendInto(s, w) ==
    LET v == Target(s)
        seen == VersionsSeen(s)[w]
    IN  /\ step[s] = "Descend"
        /\ w \in local[s].todo
        /\ VersionFree(s, w)
        /\ \/ /\ request[s].op = "RevokeVersion" /\ Revocable(s, w)
              /\ WriteVersion(s, w, [seen EXCEPT !.revokeAt = stamp[s],
                                                 !.inheritedFrom = v])
           \/ /\ request[s].op = "RestoreRevokedVersion" /\ Unrevocable(s, w)
              /\ WriteVersion(s, w, [seen EXCEPT !.revokeAt = 0,
                                                 !.inheritedFrom = Null])
           \/ /\ IF request[s].op = "RevokeVersion"
                 THEN ~Revocable(s, w) ELSE ~Unrevocable(s, w)
              /\ UNCHANGED written
        /\ local' = [local EXCEPT ![s].todo = @ \ {w}]
        /\ UNCHANGED step /\ Writes

Descended(s) ==
    /\ step[s] = "Descend" /\ local[s].todo = {}
    /\ Goto(s, IF request[s].op = "RevokeVersion" THEN "RollBack" ELSE "Commit")
    /\ UNCHANGED local /\ Reads

\* Every channel on the version or on one that inherits from it moves to the
\* newest valid version of its history, when there is one.
RollBack(s) ==
    LET v == Target(s)
        rows == VersionsSeen(s)
        hit == {c \in Channels : \E w \in Selected(HistorySeen(s), c) :
                                    w = v \/ rows[w].inheritedFrom = v}
        valid(c) == NewestValid(HistorySeen(s), rows, c)
    IN  /\ step[s] = "RollBack"
        /\ \A c \in hit : \A w \in valid(c) : MayReference(s, w)
        /\ written' = [written EXCEPT ![s].rows =
              @ \cup UNION {AssignmentRows(s, c, valid(c)) : c \in hit}]
        /\ Goto(s, "Commit")
        /\ UNCHANGED local /\ Writes

UnrevokeRow(s) ==
    LET v == Target(s)
    IN  /\ step[s] = "UnrevokeRow"
        /\ VersionFree(s, v)
        /\ versions[v] # Null /\ versions[v].revokeAt > 0
        /\ WriteVersion(s, v, [versions[v] EXCEPT !.revokeAt = 0,
                                                  !.inheritedFrom = Null])
        /\ Goto(s, "ListDescendants")
        /\ UNCHANGED local /\ Writes

\* DeleteVersion's authoritative refusal, its first query; then the version row
\* and whether the managed channel selects it.
CheckChannels(s) ==
    LET v == Target(s)
    IN  /\ step[s] = "CheckChannels"
        /\ \A c \in Channels \ {Latest} : v \notin Selected(history, c)
        /\ versions[v] # Null
        /\ Read(s, "DeleteRow",
                [local[s] EXCEPT !.onLatest = v \in Selected(history, Latest)])
        /\ Reads

\* DELETE FROM versions takes builds and assignments by cascade; the managed
\* channel falls back to the newest valid row left, or is cleared.
DeleteRow(s) ==
    LET v == Target(s)
        lost == BuildsOf(builds, v)
        left == {r \in history : r.version # v}
        valid == NewestValid(left, versions, Latest)
    IN  /\ step[s] = "DeleteRow"
        /\ MayDelete(s, v)
        /\ \A w \in valid : MayReference(s, w)
        /\ written' = [written EXCEPT
              ![s].versions = [u \in {v} |-> Null],
              ![s].builds = [b \in lost |-> Null],
              ![s].rows =
                 IF ~local[s].onLatest THEN {}
                 ELSE AssignmentRows(s, Latest,
                                     IF valid = {} THEN {Null} ELSE valid)]
        /\ Goto(s, "Commit")
        /\ UNCHANGED local /\ Writes

\* Mutant: the row names the version it was asked for.
InsertedAnyway(v) == {v}
\* INSERT ... SELECT FROM versions: nothing for a version that is gone.
Inserted(v) == {v} \ Gone(versions)
\* The request goes on whether or not a row was inserted.
RecordAssignment(s) ==
    LET v == Target(s)
    IN  /\ step[s] = "RecordAssignment"
        /\ MayReference(s, v)
        /\ written' = [written EXCEPT ![s].rows =
              AssignmentRows(s, request[s].channel, Inserted(v))]
        /\ Goto(s, "Commit")
        /\ UNCHANGED local /\ Writes

-----------------------------------------------------------------------------

TxInit ==
    /\ versions = StartVersions
    /\ builds = StartBuilds
    /\ history = StartHistory
    /\ clock = Cardinality(StartHistory)
    /\ step = [s \in Sessions |-> "idle"]
    /\ request = [s \in Sessions |-> Null]
    /\ stamp = [s \in Sessions |-> 0]
    /\ local = [s \in Sessions |-> Blank]
    /\ written = [s \in Sessions |-> Nothing]
    /\ bucketLock = Null

TxNext ==
    \E s \in Sessions :
        \/ \E r \in Requests : Begin(s, r)
        \/ GetVersion(s) \/ ListBuilds(s) \/ UpdateBuild(s) \/ InsertBuild(s)
        \/ Inherit(s) \/ LockBucket(s) \/ CompleteVersion(s)
        \/ RevokeRow(s) \/ UnrevokeRow(s) \/ ListDescendants(s)
        \/ \E w \in Versions : DescendInto(s, w)
        \/ Descended(s) \/ RollBack(s)
        \/ CheckChannels(s) \/ DeleteRow(s) \/ RecordAssignment(s)
        \/ Commit(s) \/ Rollback(s)

TxSpec == TxInit /\ [][TxNext]_txVars

-----------------------------------------------------------------------------
(* Properties *)

LiveVersions == {v \in Versions : versions[v] # Null}

\* The number allotted under the bucket lock is still free when the version is
\* completed: the unique index never refuses a completion
\* (LockBucketForVersionSequence).
AllottedStillFree ==
    \A s \in Sessions : step[s] = "CompleteVersion" => Unused(s, local[s].number)

\* Whatever updates, revocations and restorations overlap a completion, a version
\* keeps the number it committed: CompleteVersion asks complete = false and the
\* other statements write their own columns only (RevokeVersion).
CompletionStands ==
    [][\A v \in LiveVersions : versions[v].sequence > 0 /\ versions'[v] # Null
          => versions'[v].sequence = versions[v].sequence]_txVars

\* However an assignment and a deletion interleave, a committed assignment names
\* a surviving complete version (the foreign key of channel_assignments).
AssignedComplete ==
    \A r \in history : r.version # Null =>
        versions[r.version] # Null /\ versions[r.version].sequence > 0

\* A build is never committed into a version that was deleted meanwhile.
BuildsHaveVersions ==
    \A b \in Builds : builds[b] # Null => versions[VersionOfBuild[b]] # Null

=============================================================================
