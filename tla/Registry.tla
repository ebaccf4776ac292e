------------------------------ MODULE Registry ------------------------------
(***************************************************************************)
(* The registry aggregate of dufflebag: buckets, versions, builds,         *)
(* channels, the append-only assignment history and the revocation columns *)
(* of a version, with one action per operation of                          *)
(* internal/store/postgres/repository.go and channel_repository.go.        *)
(*                                                                         *)
(* Every action is one committed transaction; a refused request leaves the *)
(* rows as they were and is a disabled action.  How two transactions of    *)
(* this kind interleave under READ COMMITTED is the subject of RegistryTx. *)
(*                                                                         *)
(* Identifiers are ULIDs drawn once: an id that was born and deleted never *)
(* comes back, so a re-recorded fingerprint is a new element of Versions.  *)
(* An element of Builds is a (version, component_type) slot, the key the   *)
(* insert of a build conflicts on.                                         *)
(***************************************************************************)
EXTENDS Naturals, FiniteSets

CONSTANTS
    Buckets, Versions, Builds, Channels,
    BucketOfVersion,    \* the bucket a version belongs to
    BucketOfChannel,    \* the bucket a channel belongs to
    VersionOfBuild,     \* the version a build slot belongs to
    Latest,             \* the managed channel of a bucket
    None,               \* SQL NULL where an id is expected
    Edges,              \* bound: the <<child, parent>> pairs a build may record
    Delays,             \* bound: how far ahead of the request a revocation takes effect
    MaxClock,           \* bound: the last time a request can be stamped with
    MaxSequence         \* bound: the last sequence number that can be allotted

ASSUME RegistryAssumption ==
    /\ BucketOfVersion \in [Versions -> Buckets]
    /\ BucketOfChannel \in [Channels -> Buckets]
    /\ VersionOfBuild \in [Builds -> Versions]
    /\ Latest \in [Buckets -> Channels]
    /\ \A b \in Buckets : BucketOfChannel[Latest[b]] = b
    /\ None \notin Versions
    /\ Edges \subseteq Versions \X Versions
    /\ Delays \subseteq Nat
    /\ MaxClock \in Nat
    /\ MaxSequence \in Nat

VARIABLES
    buckets,        \* [Buckets -> Life]
    versions,       \* [Versions -> Life]
    channels,       \* [Channels -> Life]
    sequence,       \* versions.sequence; 0 is NULL, i.e. an incomplete version
    revokeAt,       \* versions.revoke_at; 0 is NULL
    inheritedFrom,  \* versions.revocation_inherited_from_id
    builds,         \* [Builds -> BuildRow, or None when there is no row]
    history,        \* channel_assignments, a set of rows
    pending,        \* builds with a row in pending_scans
    clock           \* the stamp of the last request that wrote one

vars == <<buckets, versions, channels, sequence, revokeAt, inheritedFrom,
          builds, history, pending, clock>>
revocation == <<revokeAt, inheritedFrom>>
lives == <<buckets, versions, channels>>

Life == {"unborn", "live", "deleted"}
\* Of the five build states only "done" is told apart by any guard modelled.
BuildStatus == {"running", "done"}
BuildRow == [status : BuildStatus, metadataSeen : BOOLEAN,
             parent : Versions \cup {None}]
AssignmentRow == [channel : Channels, at : Nat, version : Versions \cup {None}]

TypeOK ==
    /\ buckets \in [Buckets -> Life]
    /\ versions \in [Versions -> Life]
    /\ channels \in [Channels -> Life]
    /\ sequence \in [Versions -> Nat]
    /\ revokeAt \in [Versions -> Nat]
    /\ inheritedFrom \in [Versions -> Versions \cup {None}]
    /\ builds \in [Builds -> BuildRow \cup {None}]
    /\ history \in SUBSET AssignmentRow
    /\ pending \in SUBSET Builds
    /\ clock \in Nat

-----------------------------------------------------------------------------
(* Reading the rows *)

Managed == {Latest[b] : b \in Buckets}
LiveVersions == {v \in Versions : versions[v] = "live"}
LiveChannels == {c \in Channels : channels[c] = "live"}
Complete(v) == sequence[v] > 0
Revoked(v) == revokeAt[v] > 0

\* ORDER BY assigned_at DESC LIMIT 1: at most one row, as stamps differ.
Newest(rows) == {r \in rows : \A s \in rows : s.at <= r.at}
RowsOf(hist, c) == {r \in hist : r.channel = c}

\* The version a channel selects, as a set of at most one element.
Selected(hist, c) == {r.version : r \in Newest(RowsOf(hist, c))} \ {None}
SelectedByUserChannel(v) ==
    \E c \in LiveChannels \ Managed : v \in Selected(history, c)

\* Mutant: the rollback selector forgets revocation.
NewestAny(hist, revoked, c) ==
    {r.version : r \in Newest({s \in RowsOf(hist, c) : s.version # None})}
\* newestValidAssignedVersion: newest row of a surviving unrevoked version.
NewestValid(hist, revoked, c) ==
    {r.version : r \in Newest({s \in RowsOf(hist, c) :
                                  s.version # None /\ revoked[s.version] = 0})}

\* One step down the recorded ancestry, and its transitive closure: the least
\* set that holds the children of v and the children of its members.
Children(v) ==
    {VersionOfBuild[b] : b \in {x \in Builds : builds[x] # None
                                            /\ builds[x].parent = v}}
\* Mutant: only the first generation.
DirectDescendants(v) == Children(v)
Descendants(v) ==
    LET children == [u \in Versions |-> Children(u)]
    IN  {w \in Versions :
            \A S \in SUBSET Versions :
                (children[v] \subseteq S /\ \A u \in S : children[u] \subseteq S)
                    => w \in S}

BuildsOf(rows, v) == {b \in Builds : VersionOfBuild[b] = v /\ rows[b] # None}
DoneBuildsOf(rows, v) == {b \in BuildsOf(rows, v) : rows[b].status = "done"}

ReadyToComplete(rows, v) ==
    /\ BuildsOf(rows, v) # {}
    /\ \A b \in BuildsOf(rows, v) :
          rows[b].status = "done" /\ rows[b].metadataSeen
Completes(rows, v) == ~Complete(v) /\ ReadyToComplete(rows, v)

\* Revocation is derived from its effect time, never from a flag.
\* Mutant: a revocation taking effect at this very instant is not in effect.
ActiveThrough(effect, at) == effect = 0 \/ at <= effect
ActiveAt(effect, at) == effect = 0 \/ at < effect

\* Mutant: the greatest number in use, not the next.
IsLastSequence(bucket, n) ==
    LET siblings == {v \in LiveVersions : BucketOfVersion[v] = bucket}
    IN  /\ \A v \in siblings : sequence[v] <= n
        /\ n = 1 \/ \E v \in siblings : sequence[v] = n
\* coalesce(max(sequence), 0) + 1 over the surviving versions of the bucket
IsNextSequence(bucket, n) ==
    LET siblings == {v \in LiveVersions : BucketOfVersion[v] = bucket}
    IN  /\ \A v \in siblings : sequence[v] < n
        /\ n = 1 \/ \E v \in siblings : sequence[v] + 1 = n
-----------------------------------------------------------------------------
(* Writing the rows *)

\* A request that stamps rows takes the next instant.
Stamp(at) == at = clock + 1 /\ at <= MaxClock /\ clock' = at

AssignmentRows(pairs, at) ==
    {[channel |-> p[1], at |-> at, version |-> p[2]] : p \in pairs}
\* recordAssignment: append one row per (channel, version) pair and queue a scan
\* of every done build, as the transaction sees the rows, of a version assigned.
RecordAssignments(hist, queue, rows, pairs, at) ==
    /\ history' = hist \cup AssignmentRows(pairs, at)
    /\ pending' = queue \cup UNION {DoneBuildsOf(rows, p[2]) : p \in pairs}

\* Mutant: an incomplete version can be assigned.
AssignableIncomplete(c, v) ==
    versions[v] = "live" /\ BucketOfVersion[v] = BucketOfChannel[c]
\* assignChannel: only completeness is asked of the version.
Assignable(c, v) ==
    /\ versions[v] = "live" /\ BucketOfVersion[v] = BucketOfChannel[c]
    /\ Complete(v)

\* inheritParentRevocation: a missing or self parent is tolerated, and an
\* existing revocation of the child wins.
Inherits(v, parent) ==
    /\ parent \in LiveVersions \ {v}
    /\ ~Revoked(v)
    /\ Revoked(parent)
InheritParentRevocation(v, parent) ==
    IF Inherits(v, parent)
    THEN /\ revokeAt' = [revokeAt EXCEPT ![v] = revokeAt[parent]]
         /\ inheritedFrom' = [inheritedFrom EXCEPT ![v] = parent]
    ELSE UNCHANGED revocation

-----------------------------------------------------------------------------
(* Buckets *)

\* The managed channel is created in the bucket's own transaction.
CreateBucket(b) ==
    /\ buckets[b] = "unborn"
    /\ buckets' = [buckets EXCEPT ![b] = "live"]
    /\ channels' = [channels EXCEPT ![Latest[b]] = "live"]
    /\ UNCHANGED <<versions, sequence, revocation, builds, history, pending, clock>>

\* Everything below goes by cascade, except unassignment markers.
DeleteBucket(b) ==
    LET gone == {v \in LiveVersions : BucketOfVersion[v] = b}
        lost == {x \in Builds : VersionOfBuild[x] \in gone}
    IN  /\ buckets[b] = "live"
        /\ buckets' = [buckets EXCEPT ![b] = "deleted"]
        /\ versions' = [v \in Versions |->
                           IF v \in gone THEN "deleted" ELSE versions[v]]
        /\ channels' = [c \in Channels |->
                           IF BucketOfChannel[c] = b /\ channels[c] = "live"
                           THEN "deleted" ELSE channels[c]]
        /\ sequence' = [v \in Versions |-> IF v \in gone THEN 0 ELSE sequence[v]]
        /\ revokeAt' = [v \in Versions |-> IF v \in gone THEN 0 ELSE revokeAt[v]]
        /\ inheritedFrom' = [v \in Versions |->
                                IF v \in gone THEN None ELSE inheritedFrom[v]]
        /\ builds' = [x \in Builds |-> IF x \in lost THEN None ELSE builds[x]]
        /\ history' = {r \in history : r.version \notin gone}
        /\ pending' = pending \ lost
        /\ UNCHANGED clock

-----------------------------------------------------------------------------
(* Versions and builds *)

CreateVersion(v) ==
    /\ versions[v] = "unborn"
    /\ buckets[BucketOfVersion[v]] = "live"
    /\ versions' = [versions EXCEPT ![v] = "live"]
    /\ UNCHANGED <<buckets, channels, sequence, revocation, builds, history,
                   pending, clock>>

\* A parent id may name any version ever recorded, the child's own and a
\* deleted one included.
ParentIds(v) == {p \in Versions : <<v, p>> \in Edges /\ versions[p] # "unborn"}
                   \cup {None}

\* A conflicting insert keeps the existing row, whose stored parent, not the
\* requested one, is the edge the revocation is inherited over.
CreateBuild(b, status, parent) ==
    LET v == VersionOfBuild[b]
        requested == [status |-> status, metadataSeen |-> FALSE, parent |-> parent]
        row == IF builds[b] = None THEN requested ELSE builds[b]
    IN  /\ versions[v] = "live"
        /\ parent \in ParentIds(v)
        /\ builds' = [builds EXCEPT ![b] = row]
        /\ InheritParentRevocation(v, row.parent)
        /\ UNCHANGED <<lives, sequence, history, pending, clock>>

\* patchBuild: metadata once seen stays seen, and a parent once set may not be
\* replaced by another.
Patched(b, row) ==
    /\ builds[b].metadataSeen => row.metadataSeen
    /\ row.parent \in IF builds[b].parent = None
                      THEN ParentIds(VersionOfBuild[b]) ELSE {builds[b].parent}

\* The version gets its number and, unless its revocation is already in
\* effect, the managed channel is assigned to it.
CompleteVersion(v, rows) ==
    /\ \E n \in 1..MaxSequence :
          /\ IsNextSequence(BucketOfVersion[v], n)
          /\ sequence' = [sequence EXCEPT ![v] = n]
    /\ \E at \in 1..MaxClock :
          LET latest == Latest[BucketOfVersion[v]]
              active == ActiveAt(revokeAt'[v], at)
          IN  /\ Stamp(at)
              /\ RecordAssignments(history, pending, rows,
                                   IF active THEN {<<latest, v>>} ELSE {}, at)

\* Mutant: only an assignment queues scans.
EnqueueNothing(b, rows) == pending' = pending
\* A build finishing into a complete version some channel selects is queued.
EnqueueFinished(b, rows) ==
    pending' = IF /\ builds[b].status # "done" /\ rows[b].status = "done"
                  /\ Complete(VersionOfBuild[b])
                  /\ \E c \in LiveChannels : VersionOfBuild[b] \in Selected(history, c)
               THEN pending \cup {b} ELSE pending

UpdateBuild(b, row) ==
    LET v == VersionOfBuild[b]
        rows == [builds EXCEPT ![b] = row]
    IN  /\ builds[b] # None
        /\ Patched(b, row)
        /\ builds' = rows
        /\ InheritParentRevocation(v, row.parent)
        /\ UNCHANGED lives
        /\ \/ /\ Completes(rows, v)
              /\ CompleteVersion(v, rows)
           \/ /\ ~Completes(rows, v)
              /\ EnqueueFinished(b, rows)
              /\ UNCHANGED <<sequence, history, clock>>

\* The parent's completion, sequence and revocation stand.
DeleteBuild(b) ==
    /\ builds[b] # None
    /\ builds' = [builds EXCEPT ![b] = None]
    /\ pending' = pending \ {b}
    /\ UNCHANGED <<lives, sequence, revocation, history, clock>>

\* Refused while a user channel selects v.  The managed channel falls back to
\* the newest valid row left by the cascade, or is cleared.
DeleteVersion(v) ==
    LET lost == {b \in Builds : VersionOfBuild[b] = v}
        left == {r \in history : r.version # v}
        latest == Latest[BucketOfVersion[v]]
        target == NewestValid(left, revokeAt, latest)
    IN  /\ versions[v] = "live"
        /\ ~SelectedByUserChannel(v)
        /\ versions' = [versions EXCEPT ![v] = "deleted"]
        /\ sequence' = [sequence EXCEPT ![v] = 0]
        /\ revokeAt' = [revokeAt EXCEPT ![v] = 0]
        /\ inheritedFrom' = [inheritedFrom EXCEPT ![v] = None]
        /\ builds' = [b \in Builds |-> IF b \in lost THEN None ELSE builds[b]]
        /\ UNCHANGED <<buckets, channels>>
        /\ IF v \in Selected(history, latest)
           THEN \E at \in 1..MaxClock :
                   /\ Stamp(at)
                   /\ IF target # {}
                      THEN RecordAssignments(left, pending \ lost, builds,
                                             {latest} \X target, at)
                      ELSE /\ history' = left \cup AssignmentRows({<<latest, None>>}, at)
                           /\ pending' = pending \ lost
           ELSE /\ history' = left
                /\ pending' = pending \ lost
                /\ UNCHANGED clock

-----------------------------------------------------------------------------
(* Revocation *)

\* The version and, unless skipped, its unrevoked descendants.
\* Mutant: a descendant's own revocation is overwritten.
NewlyRevokedAll(v, skipDescendants) ==
    {v} \cup (IF skipDescendants THEN {} ELSE Descendants(v) \cap LiveVersions)
NewlyRevoked(v, skipDescendants) ==
    {v} \cup (IF skipDescendants THEN {}
              ELSE {d \in Descendants(v) \cap LiveVersions : ~Revoked(d)})

\* Channels whose current version is v or inherits from it.
\* Mutant: channels on a descendant stay where they are.
ChannelsOn(v, from) == {c \in LiveChannels : v \in Selected(history, c)}
ChannelsToRollBack(v, from) ==
    {c \in LiveChannels : \E w \in Selected(history, c) : w = v \/ from[w] = v}

\* RevokeVersion: delay 0 is a revocation effective at once.
RevokeVersion(v, delay, skipDescendants, disableRollback) ==
    LET taken == NewlyRevoked(v, skipDescendants)
    IN  /\ versions[v] = "live"
        /\ ~Revoked(v)
        /\ \E at \in 1..MaxClock :
              LET revoked == [w \in Versions |->
                                 IF w \in taken THEN at + delay ELSE revokeAt[w]]
                  from == [w \in Versions |->
                              IF w \in taken \ {v} THEN v ELSE inheritedFrom[w]]
                  rollback == {p \in ChannelsToRollBack(v, from) \X Versions :
                                  p[2] \in NewestValid(history, revoked, p[1])}
              IN  /\ Stamp(at)
                  /\ revokeAt' = revoked
                  /\ inheritedFrom' = from
                  /\ RecordAssignments(history, pending, builds,
                                       IF disableRollback THEN {} ELSE rollback, at)
        /\ UNCHANGED <<lives, sequence, builds>>

\* RestoreRevokedVersion: an inherited revocation is not restored directly, and
\* a descendant is cleared only when its revocation names v.
\* Mutant: every inherited revocation below v is cleared.
ClearedAll(v) ==
    {v} \cup {d \in Descendants(v) \cap LiveVersions : inheritedFrom[d] # None}
Cleared(v) ==
    {v} \cup {d \in Descendants(v) \cap LiveVersions : inheritedFrom[d] = v}
RestoreRevokedVersion(v) ==
    LET cleared == Cleared(v)
    IN  /\ versions[v] = "live"
        /\ Revoked(v)
        /\ inheritedFrom[v] = None
        /\ revokeAt' = [w \in Versions |-> IF w \in cleared THEN 0 ELSE revokeAt[w]]
        /\ inheritedFrom' = [w \in Versions |->
                                IF w \in cleared THEN None ELSE inheritedFrom[w]]
        /\ UNCHANGED <<lives, sequence, builds, history, pending, clock>>

-----------------------------------------------------------------------------
(* Channels *)

CreateChannel(c) ==
    /\ channels[c] = "unborn" /\ c \notin Managed
    /\ buckets[BucketOfChannel[c]] = "live"
    /\ channels' = [channels EXCEPT ![c] = "live"]
    /\ UNCHANGED <<buckets, versions, sequence, revocation, builds>>
    /\ \/ UNCHANGED <<history, pending, clock>>
       \/ \E v \in Versions, at \in 1..MaxClock :
             /\ Assignable(c, v)
             /\ Stamp(at)
             /\ RecordAssignments(history, pending, builds, {<<c, v>>}, at)

\* UpdateChannel with a fingerprint; AssignChannelVersion names the version by
\* another channel, the managed one included.
AssignVersion(c, v) ==
    /\ channels[c] = "live" /\ c \notin Managed
    /\ Assignable(c, v)
    /\ \E at \in 1..MaxClock :
          /\ Stamp(at)
          /\ RecordAssignments(history, pending, builds, {<<c, v>>}, at)
    /\ UNCHANGED <<lives, sequence, revocation, builds>>

UpdateChannel(c, v) == AssignVersion(c, v)
AssignChannelVersion(source, target) ==
    /\ channels[source] = "live"
    /\ BucketOfChannel[source] = BucketOfChannel[target]
    /\ \E v \in Selected(history, source) : AssignVersion(target, v)

\* Mutant: clearing erases the channel's history.
ClearByErasing(c) ==
    /\ channels[c] = "live" /\ c \notin Managed
    /\ Selected(history, c) # {}
    /\ history' = history \ RowsOf(history, c)
    /\ UNCHANGED <<lives, sequence, revocation, builds, pending, clock>>
\* UpdateChannel with an empty fingerprint: a marker row, unless unassigned.
ClearChannel(c) ==
    /\ channels[c] = "live" /\ c \notin Managed
    /\ Selected(history, c) # {}
    /\ \E at \in 1..MaxClock :
          /\ Stamp(at)
          /\ history' = history \cup AssignmentRows({<<c, None>>}, at)
    /\ UNCHANGED <<lives, sequence, revocation, builds, pending>>

\* The history of a deleted channel stays.
DeleteChannel(c) ==
    /\ channels[c] = "live" /\ c \notin Managed
    /\ channels' = [channels EXCEPT ![c] = "deleted"]
    /\ UNCHANGED <<buckets, versions, sequence, revocation, builds, history,
                   pending, clock>>

\* The scanner finished with a queued build (see ScanQueue).
DeletePendingScan(b) ==
    /\ b \in pending
    /\ pending' = pending \ {b}
    /\ UNCHANGED <<lives, sequence, revocation, builds, history, clock>>

-----------------------------------------------------------------------------

Init ==
    /\ buckets = [b \in Buckets |-> "unborn"]
    /\ versions = [v \in Versions |-> "unborn"]
    /\ channels = [c \in Channels |-> "unborn"]
    /\ sequence = [v \in Versions |-> 0]
    /\ revokeAt = [v \in Versions |-> 0]
    /\ inheritedFrom = [v \in Versions |-> None]
    /\ builds = [b \in Builds |-> None]
    /\ history = {}
    /\ pending = {}
    /\ clock = 0

Next ==
    \/ \E b \in Buckets : CreateBucket(b) \/ DeleteBucket(b)
    \/ \E v \in Versions :
          CreateVersion(v) \/ DeleteVersion(v) \/ RestoreRevokedVersion(v)
    \/ \E v \in Versions, delay \in Delays, skip, keep \in BOOLEAN :
          RevokeVersion(v, delay, skip, keep)
    \/ \E b \in Builds, status \in BuildStatus, parent \in Versions \cup {None} :
          CreateBuild(b, status, parent)
    \/ \E b \in Builds, row \in BuildRow : UpdateBuild(b, row)
    \/ \E b \in Builds : DeleteBuild(b) \/ DeletePendingScan(b)
    \/ \E c \in Channels, v \in Versions : UpdateChannel(c, v)
    \/ \E c, d \in Channels : AssignChannelVersion(c, d)
    \/ \E c \in Channels : CreateChannel(c) \/ ClearChannel(c) \/ DeleteChannel(c)

Spec == Init /\ [][Next]_vars

-----------------------------------------------------------------------------
(* Properties *)

\* Only complete versions are ever assigned (AssignableToChannel), and the
\* cascade leaves no history row behind a deleted version: every row names a
\* surviving complete version, or none.
AssignedComplete ==
    \A r \in history : r.version # None =>
        versions[r.version] = "live" /\ Complete(r.version)

\* The surviving versions of a bucket carry distinct sequence numbers, though
\* the next number is computed from the survivors and a deleted one is reused.
SequencesDistinct ==
    \A v, w \in LiveVersions :
        v # w /\ BucketOfVersion[v] = BucketOfVersion[w] /\ Complete(v)
            => sequence[v] # sequence[w]

\* A completed version keeps its number until it is deleted, whatever happens
\* to its builds (DeleteBuild leaves completion alone, UpdateBuild completes
\* once).
CompletionStands ==
    [][\A v \in Versions : Complete(v) /\ versions'[v] = "live"
          => sequence'[v] = sequence[v]]_vars

\* Assignment history is append-only: a row, a clearing one included, goes only
\* with the version it names, whatever is assigned, cleared, rolled back or
\* deleted (ClearChannelAssignment, the cascade of DeleteVersion).
HistoryAppendOnly ==
    [][\A r \in history \ history' :
          r.version # None /\ versions'[r.version] = "deleted"]_vars

\* A revocation is never overwritten, only cleared: a later one, inherited or
\* manual, does not replace it (Version.Revoke, revokeRow).
FirstRevocationStands ==
    [][\A v \in Versions : Revoked(v) /\ revokeAt'[v] # 0 =>
          revokeAt'[v] = revokeAt[v] /\ inheritedFrom'[v] = inheritedFrom[v]]_vars

\* An inherited revocation is lifted only in the step that lifts the manual
\* revocation of the ancestor it names (RestoreRevokedVersion).
InheritedLiftedWithAncestor ==
    [][\A v \in Versions :
          Revoked(v) /\ versions'[v] = "live" /\ revokeAt'[v] = 0
          /\ inheritedFrom[v] # None
          => LET a == inheritedFrom[v]
             IN  Revoked(a) /\ inheritedFrom[a] = None /\ revokeAt'[a] = 0
                 /\ versions'[a] = "live"]_vars

NewlyRevokedBy(v) == Revoked(v)' /\ ~Revoked(v)

\* RevokeVersion without skip_descendants leaves no unrevoked version built,
\* through any chain of recorded parents, from one it revokes.
DescendantsRevoked ==
    [][\A v \in Versions, delay \in Delays, keep \in BOOLEAN :
          NewlyRevokedBy(v) /\ RevokeVersion(v, delay, FALSE, keep) =>
              \A w \in Versions : NewlyRevokedBy(w) =>
                  \A d \in Children(w) : versions[d] = "live" => Revoked(d)']_vars

\* RevokeVersion with rollback leaves no live channel on a version it revokes,
\* inherited ones included, while the channel's history holds a valid one.
RevokedChannelsRollBack ==
    [][\A v \in Versions, delay \in Delays, skip \in BOOLEAN :
          NewlyRevokedBy(v) /\ RevokeVersion(v, delay, skip, FALSE) =>
              \A c \in LiveChannels : \A w \in Selected(history', c) :
                  NewlyRevokedBy(w) => NewestValid(history', revokeAt', c) = {}]_vars

\* When a revocation or a deletion moves a channel it lands on an unrevoked
\* version, and it is emptied only when its history holds none.  A completion is
\* neither, though the version may inherit a scheduled revocation in that step.
RollbackLandsOnValid ==
    [][\A c \in LiveChannels :
          /\ \E v \in Versions : \/ NewlyRevokedBy(v) /\ sequence'[v] = sequence[v]
                                \/ versions'[v] # versions[v]
          /\ channels'[c] = "live"
          /\ Selected(history', c) # Selected(history, c)
          => /\ \A v \in Selected(history', c) : revokeAt'[v] = 0
             /\ Selected(history', c) = {}
                   => NewestValid(history', revokeAt', c) = {}]_vars

\* A build that becomes eligible for scanning, being done in a complete version
\* some channel selects, is queued by the step that made it so.  A build created
\* done is left to the sweep.
Eligible(b) ==
    /\ builds[b] # None /\ builds[b].status = "done" /\ Complete(VersionOfBuild[b])
    /\ \E c \in LiveChannels : VersionOfBuild[b] \in Selected(history, c)
EligibleQueued ==
    [][\A b \in Builds : Eligible(b)' /\ ~Eligible(b) /\ builds[b] # None
          => b \in pending']_vars

\* The managed channel is never moved to a version whose revocation is already
\* in effect, inherited at record time or not: neither completion nor rollback
\* picks one.
LatestNeverRevoked ==
    [][\A r \in history' \ history :
          r.channel \in Managed /\ r.version # None =>
              revokeAt'[r.version] = 0 \/ r.at < revokeAt'[r.version]]_vars

=============================================================================
