-------------------------- MODULE Registry_proofs --------------------------
(* Invariance of the registry's rows, for every set of buckets, versions,   *)
(* builds and channels and every bound on clock and sequence.               *)
EXTENDS Registry, TLAPS, WellFoundedInduction

\* A write of assignment rows keeps history and the scan queue well typed.
LEMMA RecordedTypes ==
    ASSUME NEW hist \in SUBSET AssignmentRow, NEW queue \in SUBSET Builds,
           NEW rows, NEW pairs \in SUBSET (Channels \X (Versions \cup {None})),
           NEW at \in Nat,
           RecordAssignments(hist, queue, rows, pairs, at)
    PROVE  history' \in SUBSET AssignmentRow /\ pending' \in SUBSET Builds
<1>1. AssignmentRows(pairs, at) \in SUBSET AssignmentRow
  BY DEF AssignmentRows, AssignmentRow
<1>2. \A v : DoneBuildsOf(rows, v) \subseteq Builds
  BY DEF DoneBuildsOf, BuildsOf
<1>3. QED
  BY <1>1, <1>2 DEF RecordAssignments

\* Inheriting a parent's revocation keeps the revocation columns well typed.
LEMMA InheritedTypes ==
    ASSUME TypeOK, NEW v \in Versions, NEW parent,
           InheritParentRevocation(v, parent)
    PROVE  /\ revokeAt' \in [Versions -> Nat]
           /\ inheritedFrom' \in [Versions -> Versions \cup {None}]
<1>1. CASE Inherits(v, parent)
  <2>1. parent \in Versions
    BY <1>1 DEF Inherits, LiveVersions
  <2>2. QED
    BY <1>1, <2>1 DEF InheritParentRevocation, TypeOK
<1>2. CASE ~Inherits(v, parent)
  BY <1>2 DEF InheritParentRevocation, TypeOK, revocation
<1>3. QED
  BY <1>1, <1>2

\* The rollback selector returns versions the history names.
LEMMA NewestValidInHistory ==
    ASSUME NEW hist \in SUBSET AssignmentRow, NEW revoked, NEW c,
           NEW v \in NewestValid(hist, revoked, c)
    PROVE  /\ v \in Versions
           /\ revoked[v] = 0
           /\ \E r \in hist : r.channel = c /\ r.version = v /\ r.version # None
  BY DEF NewestValid, Newest, RowsOf, AssignmentRow

\* Completion allots a number, stamps, and records at most one assignment.
LEMMA CompletionTypes ==
    ASSUME TypeOK, NEW v \in Versions, NEW rows, CompleteVersion(v, rows)
    PROVE  /\ sequence' \in [Versions -> Nat]
           /\ history' \in SUBSET AssignmentRow
           /\ pending' \in SUBSET Builds
           /\ clock' \in Nat
<1>1. sequence' \in [Versions -> Nat]
  BY DEF CompleteVersion, TypeOK
<1>2. PICK at \in 1..MaxClock :
        LET latest == Latest[BucketOfVersion[v]]
            active == ActiveAt(revokeAt'[v], at)
        IN  /\ Stamp(at)
            /\ RecordAssignments(history, pending, rows,
                                 IF active THEN {<<latest, v>>} ELSE {}, at)
  BY DEF CompleteVersion
<1> DEFINE pairs == IF ActiveAt(revokeAt'[v], at)
                    THEN {<<Latest[BucketOfVersion[v]], v>>} ELSE {}
<1>3. pairs \in SUBSET (Channels \X (Versions \cup {None}))
  BY RegistryAssumption
<1>4. RecordAssignments(history, pending, rows, pairs, at) /\ at \in Nat
  BY <1>2, RegistryAssumption
<1>5. history' \in SUBSET AssignmentRow /\ pending' \in SUBSET Builds
  <2> HIDE DEF pairs
  <2> QED
    BY <1>3, <1>4, RecordedTypes DEF TypeOK
<1>6. clock' \in Nat
  BY <1>2, RegistryAssumption DEF Stamp
<1>7. QED
  BY <1>1, <1>5, <1>6

\* An assignment to a user channel records one pair.
LEMMA AssignmentTypes ==
    ASSUME TypeOK, NEW c \in Channels, NEW v \in Versions,
           NEW at \in 1..MaxClock, Stamp(at),
           RecordAssignments(history, pending, builds, {<<c, v>>}, at)
    PROVE  /\ history' \in SUBSET AssignmentRow
           /\ pending' \in SUBSET Builds
           /\ clock' \in Nat
<1>1. at \in Nat
  BY RegistryAssumption
<1>2. {<<c, v>>} \in SUBSET (Channels \X (Versions \cup {None}))
  OBVIOUS
<1>3. history' \in SUBSET AssignmentRow /\ pending' \in SUBSET Builds
  BY <1>1, <1>2, RecordedTypes DEF TypeOK
<1>4. QED
  BY <1>1, <1>3 DEF Stamp

\* Every operation keeps the rows well typed.
LEMMA TypeStep == TypeOK /\ [Next]_vars => TypeOK'
<1> SUFFICES ASSUME TypeOK, [Next]_vars PROVE TypeOK'
  OBVIOUS
<1>1. ASSUME NEW b \in Buckets, CreateBucket(b) PROVE TypeOK'
  BY <1>1, RegistryAssumption DEF CreateBucket, TypeOK, Life, revocation
<1>2. ASSUME NEW b \in Buckets, DeleteBucket(b) PROVE TypeOK'
  BY <1>2 DEF DeleteBucket, TypeOK, Life
<1>3. ASSUME NEW v \in Versions, CreateVersion(v) PROVE TypeOK'
  BY <1>3 DEF CreateVersion, TypeOK, Life, revocation
<1>4. ASSUME NEW v \in Versions, DeleteVersion(v) PROVE TypeOK'
  <2> DEFINE lost == {b \in Builds : VersionOfBuild[b] = v}
             left == {r \in history : r.version # v}
             latest == Latest[BucketOfVersion[v]]
             target == NewestValid(left, revokeAt, latest)
  <2>1. left \in SUBSET AssignmentRow /\ pending \ lost \in SUBSET Builds
    BY DEF TypeOK
  <2>2. latest \in Channels
    BY RegistryAssumption
  <2>3. /\ history' \in SUBSET AssignmentRow
        /\ pending' \in SUBSET Builds
        /\ clock' \in Nat
    <3>1. CASE v \in Selected(history, latest)
      <4>1. PICK at \in 1..MaxClock :
              /\ Stamp(at)
              /\ IF target # {}
                 THEN RecordAssignments(left, pending \ lost, builds,
                                        {latest} \X target, at)
                 ELSE /\ history' = left \cup AssignmentRows({<<latest, None>>}, at)
                      /\ pending' = pending \ lost
        BY <1>4, <3>1 DEF DeleteVersion
      <4>2. at \in Nat /\ clock' \in Nat
        BY <4>1, RegistryAssumption DEF Stamp
      <4>3. CASE target # {}
        <5>1. target \subseteq Versions
          BY <2>1, NewestValidInHistory
        <5>2. {latest} \X target \in SUBSET (Channels \X (Versions \cup {None}))
          BY <5>1, <2>2
        <5>3. RecordAssignments(left, pending \ lost, builds, {latest} \X target, at)
          BY <4>1, <4>3
        <5>4. QED
          <6> HIDE DEF lost, left, latest, target
          <6> QED
            BY <2>1, <4>2, <5>2, <5>3, RecordedTypes
      <4>4. CASE target = {}
        BY <2>1, <2>2, <4>1, <4>2, <4>4 DEF AssignmentRows, AssignmentRow
      <4>5. QED
        BY <4>3, <4>4
    <3>2. CASE v \notin Selected(history, latest)
      BY <1>4, <2>1, <3>2 DEF DeleteVersion, TypeOK
    <3>3. QED
      BY <3>1, <3>2
  <2>4. QED
    BY <1>4, <2>3 DEF DeleteVersion, TypeOK, Life
<1>5. ASSUME NEW v \in Versions, RestoreRevokedVersion(v) PROVE TypeOK'
  BY <1>5 DEF RestoreRevokedVersion, TypeOK, lives
<1>6. ASSUME NEW v \in Versions, NEW delay \in Delays, NEW skip \in BOOLEAN,
             NEW keep \in BOOLEAN, RevokeVersion(v, delay, skip, keep)
      PROVE TypeOK'
  <2> DEFINE taken == NewlyRevoked(v, skip)
             revoked(at) == [w \in Versions |->
                                IF w \in taken THEN at + delay ELSE revokeAt[w]]
             from == [w \in Versions |->
                         IF w \in taken \ {v} THEN v ELSE inheritedFrom[w]]
             rollback(at) == {p \in ChannelsToRollBack(v, from) \X Versions :
                                p[2] \in NewestValid(history, revoked(at), p[1])}
             pairs(at) == IF keep THEN {} ELSE rollback(at)
  <2>1. PICK at \in 1..MaxClock :
          /\ Stamp(at)
          /\ revokeAt' = revoked(at)
          /\ inheritedFrom' = from
          /\ RecordAssignments(history, pending, builds, pairs(at), at)
    BY <1>6 DEF RevokeVersion
  <2>2. at \in Nat /\ delay \in Nat
    BY RegistryAssumption
  <2>3. pairs(at) \in SUBSET (Channels \X (Versions \cup {None}))
    BY DEF ChannelsToRollBack, LiveChannels
  <2>4. revokeAt' \in [Versions -> Nat]
    BY <2>1, <2>2 DEF TypeOK
  <2>5. inheritedFrom' \in [Versions -> Versions \cup {None}]
    BY <2>1 DEF TypeOK
  <2>6. history' \in SUBSET AssignmentRow /\ pending' \in SUBSET Builds
    <3> HIDE DEF pairs
    <3> QED
      BY <2>1, <2>2, <2>3, RecordedTypes DEF TypeOK
  <2>7. QED
    BY <1>6, <2>1, <2>2, <2>4, <2>5, <2>6 DEF RevokeVersion, Stamp, TypeOK, lives
<1>7. ASSUME NEW b \in Builds, NEW status \in BuildStatus,
             NEW parent \in Versions \cup {None}, CreateBuild(b, status, parent)
      PROVE TypeOK'
  <2> DEFINE requested == [status |-> status, metadataSeen |-> FALSE,
                           parent |-> parent]
             row == IF builds[b] = None THEN requested ELSE builds[b]
  <2>1. builds' \in [Builds -> BuildRow \cup {None}]
    BY <1>7 DEF CreateBuild, TypeOK, BuildRow
  <2>2. VersionOfBuild[b] \in Versions
    BY RegistryAssumption
  <2>3. InheritParentRevocation(VersionOfBuild[b], row.parent)
    BY <1>7 DEF CreateBuild
  <2>4. /\ revokeAt' \in [Versions -> Nat]
        /\ inheritedFrom' \in [Versions -> Versions \cup {None}]
    BY <2>2, <2>3, InheritedTypes
  <2>5. QED
    BY <1>7, <2>1, <2>4 DEF CreateBuild, TypeOK, lives
<1>8. ASSUME NEW b \in Builds, NEW row \in BuildRow, UpdateBuild(b, row)
      PROVE TypeOK'
  <2> DEFINE v == VersionOfBuild[b]
             rows == [builds EXCEPT ![b] = row]
  <2>1. v \in Versions
    BY RegistryAssumption
  <2>2. builds' \in [Builds -> BuildRow \cup {None}]
    BY <1>8 DEF UpdateBuild, TypeOK
  <2>3. /\ revokeAt' \in [Versions -> Nat]
        /\ inheritedFrom' \in [Versions -> Versions \cup {None}]
    BY <1>8, <2>1, InheritedTypes DEF UpdateBuild
  <2>4. /\ sequence' \in [Versions -> Nat]
        /\ history' \in SUBSET AssignmentRow
        /\ pending' \in SUBSET Builds
        /\ clock' \in Nat
    <3>1. CASE Completes(rows, v)
      <4>1. CompleteVersion(v, rows)
        BY <1>8, <3>1 DEF UpdateBuild
      <4>2. QED
        <5> HIDE DEF v, rows
        <5> QED
          BY <2>1, <4>1, CompletionTypes
    <3>2. CASE ~Completes(rows, v)
      BY <1>8, <3>2 DEF UpdateBuild, EnqueueFinished, TypeOK
    <3>3. QED
      BY <3>1, <3>2
  <2>5. QED
    BY <1>8, <2>2, <2>3, <2>4 DEF UpdateBuild, TypeOK, lives
<1>9. ASSUME NEW b \in Builds, DeleteBuild(b) PROVE TypeOK'
  BY <1>9 DEF DeleteBuild, TypeOK, lives, revocation
<1>10. ASSUME NEW b \in Builds, DeletePendingScan(b) PROVE TypeOK'
  BY <1>10 DEF DeletePendingScan, TypeOK, lives, revocation
<1>11. ASSUME NEW c \in Channels, NEW v \in Versions, AssignVersion(c, v)
       PROVE TypeOK'
  <2>1. PICK at \in 1..MaxClock :
          /\ Stamp(at)
          /\ RecordAssignments(history, pending, builds, {<<c, v>>}, at)
    BY <1>11 DEF AssignVersion
  <2>2. QED
    BY <1>11, <2>1, AssignmentTypes DEF AssignVersion, TypeOK, lives, revocation
<1>12. ASSUME NEW source \in Channels, NEW c \in Channels,
              AssignChannelVersion(source, c)
       PROVE TypeOK'
  <2>1. PICK v \in Selected(history, source) : AssignVersion(c, v)
    BY <1>12 DEF AssignChannelVersion
  <2>2. v \in Versions
    BY DEF Selected, Newest, RowsOf, TypeOK, AssignmentRow
  <2>3. QED
    BY <1>11, <2>1, <2>2
<1>13. ASSUME NEW c \in Channels, CreateChannel(c) PROVE TypeOK'
  <2>1. CASE UNCHANGED <<history, pending, clock>>
    BY <1>13, <2>1 DEF CreateChannel, TypeOK, Life, revocation
  <2>2. ASSUME NEW v \in Versions, NEW at \in 1..MaxClock, Stamp(at),
               RecordAssignments(history, pending, builds, {<<c, v>>}, at)
        PROVE TypeOK'
    <3>1. /\ history' \in SUBSET AssignmentRow
          /\ pending' \in SUBSET Builds
          /\ clock' \in Nat
      BY <2>2, AssignmentTypes
    <3>2. QED
      BY <1>13, <3>1 DEF CreateChannel, TypeOK, Life, revocation
  <2>3. QED
    BY <1>13, <2>1, <2>2 DEF CreateChannel
<1>14. ASSUME NEW c \in Channels, ClearChannel(c) PROVE TypeOK'
  BY <1>14, RegistryAssumption
  DEF ClearChannel, Stamp, AssignmentRows, AssignmentRow, TypeOK, lives, revocation
<1>15. ASSUME NEW c \in Channels, DeleteChannel(c) PROVE TypeOK'
  BY <1>15 DEF DeleteChannel, TypeOK, Life, revocation
<1>16. CASE UNCHANGED vars
  BY <1>16 DEF vars, TypeOK, revocation, lives
<1>17. QED
  BY <1>1, <1>2, <1>3, <1>4, <1>5, <1>6, <1>7, <1>8, <1>9, <1>10, <1>11, <1>12,
     <1>13, <1>14, <1>15, <1>16 DEF Next, UpdateChannel

\* The rows of the registry stay well typed: every table row the operations
\* write refers to ids of the tables it references.
THEOREM TypeCorrect == Spec => []TypeOK
<1>1. Init => TypeOK
  BY DEF Init, TypeOK, Life
<1>2. QED
  BY <1>1, TypeStep, PTL DEF Spec

-----------------------------------------------------------------------------
(* The strengthening that makes the assignment and sequence invariants       *)
(* inductive: a version that is not there has no number and no builds, and   *)
(* no assignment is stamped ahead of the clock.                              *)

DeadUnnumbered == \A v \in Versions : versions[v] # "live" => sequence[v] = 0
BuildsOfLive ==
    \A b \in Builds : builds[b] # None => versions[VersionOfBuild[b]] = "live"
StampsBehind == \A r \in history : r.at <= clock

IInv ==
    /\ TypeOK
    /\ AssignedComplete
    /\ SequencesDistinct
    /\ DeadUnnumbered
    /\ BuildsOfLive
    /\ StampsBehind

\* What a step does to a version: nothing, its birth, its death or its
\* completion.
VersionStep ==
    \/ \A v \in Versions :
          \/ versions'[v] = versions[v] /\ sequence'[v] = sequence[v]
          \/ versions'[v] = "deleted" /\ sequence'[v] = 0
          \/ versions[v] = "unborn" /\ versions'[v] = "live"
             /\ sequence'[v] = sequence[v]
    \/ \E v \in Versions, n \in Nat \ {0} :
          /\ versions[v] = "live" /\ versions' = versions
          /\ ~Complete(v)
          /\ IsNextSequence(BucketOfVersion[v], n)
          /\ sequence' = [sequence EXCEPT ![v] = n]

\* Every operation changes versions and their numbers in one of those ways.
LEMMA VersionStepOfNext == TypeOK /\ BuildsOfLive /\ [Next]_vars => VersionStep
<1> SUFFICES ASSUME TypeOK, BuildsOfLive, [Next]_vars PROVE VersionStep
  OBVIOUS
<1> DEFINE Kept == versions' = versions /\ sequence' = sequence
<1>1. Kept => VersionStep
  BY DEF VersionStep
<1>2. ASSUME NEW b \in Buckets, DeleteBucket(b) PROVE VersionStep
  BY <1>2 DEF DeleteBucket, VersionStep, TypeOK
<1>3. ASSUME NEW v \in Versions, CreateVersion(v) PROVE VersionStep
  BY <1>3 DEF CreateVersion, VersionStep, TypeOK
<1>4. ASSUME NEW v \in Versions, DeleteVersion(v) PROVE VersionStep
  BY <1>4 DEF DeleteVersion, VersionStep, TypeOK
<1>5. ASSUME NEW b \in Builds, NEW row \in BuildRow, UpdateBuild(b, row)
      PROVE VersionStep
  <2> DEFINE v == VersionOfBuild[b]
             rows == [builds EXCEPT ![b] = row]
  <2>1. v \in Versions
    BY RegistryAssumption
  <2>2. versions' = versions /\ versions[v] = "live"
    BY <1>5 DEF UpdateBuild, BuildsOfLive, lives
  <2>3. CASE Completes(rows, v)
    <3>1. ~Complete(v) /\ CompleteVersion(v, rows)
      BY <1>5, <2>3 DEF UpdateBuild, Completes
    <3>2. PICK n \in 1..MaxSequence :
            /\ IsNextSequence(BucketOfVersion[v], n)
            /\ sequence' = [sequence EXCEPT ![v] = n]
      BY <3>1 DEF CompleteVersion
    <3>3. n \in Nat \ {0}
      BY RegistryAssumption
    <3>4. QED
      BY <2>1, <2>2, <3>1, <3>2, <3>3 DEF VersionStep
  <2>4. CASE ~Completes(rows, v)
    BY <1>5, <2>2, <2>4, <1>1 DEF UpdateBuild
  <2>5. QED
    BY <2>3, <2>4
<1>6. ASSUME NEW c \in Channels, NEW v, AssignVersion(c, v) PROVE VersionStep
  BY <1>6, <1>1 DEF AssignVersion, lives
<1>7. ASSUME NEW c \in Channels, NEW d \in Channels, AssignChannelVersion(c, d)
      PROVE VersionStep
  BY <1>7, <1>6 DEF AssignChannelVersion
<1>8. CASE \E b \in Buckets : CreateBucket(b)
  BY <1>8, <1>1 DEF CreateBucket
<1>9. CASE \E v \in Versions : RestoreRevokedVersion(v)
  BY <1>9, <1>1 DEF RestoreRevokedVersion, lives
<1>10. CASE \E v \in Versions, delay \in Delays, skip, keep \in BOOLEAN :
              RevokeVersion(v, delay, skip, keep)
  BY <1>10, <1>1 DEF RevokeVersion, lives
<1>11. CASE \E b \in Builds, status \in BuildStatus, parent \in Versions \cup {None} :
              CreateBuild(b, status, parent)
  BY <1>11, <1>1 DEF CreateBuild, lives
<1>12. CASE \E b \in Builds : DeleteBuild(b) \/ DeletePendingScan(b)
  BY <1>12, <1>1 DEF DeleteBuild, DeletePendingScan, lives
<1>13. CASE \E c \in Channels : CreateChannel(c) \/ ClearChannel(c) \/ DeleteChannel(c)
  BY <1>13, <1>1 DEF CreateChannel, ClearChannel, DeleteChannel, lives
<1>14. CASE UNCHANGED vars
  BY <1>14, <1>1 DEF vars, lives
<1>15. QED
  BY <1>2, <1>3, <1>4, <1>5, <1>6, <1>7, <1>8, <1>9, <1>10, <1>11, <1>12, <1>13,
     <1>14 DEF Next, UpdateChannel

\* What a step does to the assignment history: rows are appended with the next
\* stamp and name a complete version, and rows go with their version.
Appended(r) ==
    /\ r.at = clock + 1 /\ clock' = clock + 1
    /\ r.version # None =>
          /\ versions'[r.version] = "live" /\ sequence'[r.version] > 0
          /\ r.channel \in Managed =>
                revokeAt'[r.version] = 0 \/ r.at < revokeAt'[r.version]
HistoryStep ==
    /\ clock <= clock'
    /\ \A r \in history' \ history : Appended(r)
    /\ \A r \in history \ history' :
          r.version # None /\ versions'[r.version] = "deleted"
    /\ \A r \in history \cap history' :
          r.version # None => versions'[r.version] = "live"

\* The rows a recording adds are those of its pairs.
LEMMA RecordedRows ==
    ASSUME NEW hist, NEW queue, NEW rows, NEW pairs, NEW at,
           RecordAssignments(hist, queue, rows, pairs, at)
    PROVE  /\ hist \subseteq history'
           /\ \A r \in history' \ hist : \E p \in pairs :
                 r.channel = p[1] /\ r.version = p[2] /\ r.at = at
  BY DEF RecordAssignments, AssignmentRows

\* An assignment to a user channel appends one row of a complete version.
LEMMA AssignmentAppends ==
    ASSUME IInv, NEW c \in Channels \ Managed, NEW v \in Versions,
           NEW at \in 1..MaxClock, Stamp(at), Assignable(c, v),
           UNCHANGED <<versions, sequence>>,
           RecordAssignments(history, pending, builds, {<<c, v>>}, at)
    PROVE  HistoryStep
<1>1. clock \in Nat /\ clock' = clock + 1 /\ at = clock + 1
  BY DEF Stamp, IInv, TypeOK
<1>2. /\ history \subseteq history'
      /\ \A r \in history' \ history : r.channel = c /\ r.version = v /\ r.at = at
  BY RecordedRows
<1>3. versions[v] = "live" /\ sequence[v] > 0
  BY DEF Assignable, Complete
<1>4. QED
  BY <1>1, <1>2, <1>3 DEF HistoryStep, Appended, IInv, AssignedComplete

\* Every operation changes the assignment history in one of those ways.
LEMMA HistoryStepOfNext == IInv /\ [Next]_vars => HistoryStep
<1> SUFFICES ASSUME IInv, [Next]_vars PROVE HistoryStep
  OBVIOUS
<1> USE DEF IInv
<1> DEFINE Kept == UNCHANGED <<history, clock>>
<1>a. clock \in Nat
  BY DEF TypeOK
<1>b. (/\ Kept
       /\ \A v \in Versions : versions[v] = "live" => versions'[v] = "live")
         => HistoryStep
  BY <1>a DEF HistoryStep, AssignedComplete, TypeOK, AssignmentRow
<1>c. UNCHANGED <<history, versions, clock>> => HistoryStep
  BY <1>b
<1>1. ASSUME NEW b \in Buckets, DeleteBucket(b) PROVE HistoryStep
  <2> DEFINE gone == {v \in LiveVersions : BucketOfVersion[v] = b}
  <2>1. /\ versions' = [v \in Versions |->
                          IF v \in gone THEN "deleted" ELSE versions[v]]
        /\ history' = {r \in history : r.version \notin gone}
        /\ clock' = clock
    BY <1>1 DEF DeleteBucket
  <2>2. \A r \in history \ history' :
           r.version # None /\ versions'[r.version] = "deleted"
    BY <2>1, RegistryAssumption DEF LiveVersions
  <2>3. \A r \in history \cap history' : r.version # None =>
           versions'[r.version] = "live"
    BY <2>1 DEF AssignedComplete, TypeOK, AssignmentRow
  <2>4. QED
    BY <1>a, <2>1, <2>2, <2>3 DEF HistoryStep
<1>2. ASSUME NEW v \in Versions, CreateVersion(v) PROVE HistoryStep
  BY <1>2, <1>b DEF CreateVersion, TypeOK
<1>3. ASSUME NEW v \in Versions, DeleteVersion(v) PROVE HistoryStep
  <2> DEFINE lost == {b \in Builds : VersionOfBuild[b] = v}
             left == {r \in history : r.version # v}
             latest == Latest[BucketOfVersion[v]]
             target == NewestValid(left, revokeAt, latest)
  <2>1. /\ versions' = [versions EXCEPT ![v] = "deleted"]
        /\ sequence' = [sequence EXCEPT ![v] = 0]
        /\ revokeAt' = [revokeAt EXCEPT ![v] = 0]
    BY <1>3 DEF DeleteVersion
  <2>2. /\ \A r \in history \ left : r.version = v /\ r.version # None
        /\ \A r \in left : r.version # None =>
              versions'[r.version] = "live" /\ sequence'[r.version] > 0
    BY <2>1, RegistryAssumption
    DEF AssignedComplete, Complete, TypeOK, AssignmentRow
  <2>3. left \subseteq history'
        /\ (history' = left \/ \A r \in history' \ left : Appended(r))
        /\ clock <= clock'
    <3>1. CASE v \in Selected(history, latest)
      <4>1. PICK at \in 1..MaxClock :
              /\ Stamp(at)
              /\ IF target # {}
                 THEN RecordAssignments(left, pending \ lost, builds,
                                        {latest} \X target, at)
                 ELSE /\ history' = left \cup AssignmentRows({<<latest, None>>}, at)
                      /\ pending' = pending \ lost
        BY <1>3, <3>1 DEF DeleteVersion
      <4>2. at = clock + 1 /\ clock' = clock + 1
        BY <4>1 DEF Stamp
      <4>0. clock <= clock'
        BY <1>a, <4>2
      <4>3. CASE target # {}
        <5>1. left \in SUBSET AssignmentRow
          BY DEF TypeOK
        <5>2. \A w \in target :
                 /\ w \in Versions /\ w # v /\ w # None
                 /\ versions'[w] = "live" /\ sequence'[w] > 0 /\ revokeAt'[w] = 0
          BY <2>1, <2>2, <5>1, NewestValidInHistory DEF TypeOK
        <5>3. left \subseteq history'
              /\ \A r \in history' \ left :
                    r.version \in target /\ r.at = at
          BY <4>1, <4>3, RecordedRows
        <5>4. \A r \in history' \ left : Appended(r)
          <6> HIDE DEF left, target
          <6> QED
            BY <4>2, <5>2, <5>3 DEF Appended
        <5>5. QED
          BY <4>0, <5>3, <5>4
      <4>4. CASE target = {}
        <5>1. history' = left \cup AssignmentRows({<<latest, None>>}, at)
          BY <4>1, <4>4
        <5>2. \A r \in history' \ left : r.version = None /\ r.at = at
          BY <5>1 DEF AssignmentRows
        <5>3. \A r \in history' \ left : Appended(r)
          BY <4>2, <5>2 DEF Appended
        <5>4. QED
          BY <4>0, <5>1, <5>3
      <4>5. QED
        BY <4>3, <4>4
    <3>2. CASE v \notin Selected(history, latest)
      BY <1>3, <1>a, <3>2 DEF DeleteVersion
    <3>3. QED
      BY <3>1, <3>2
  <2>4. QED
    <3>1. history \cap history' \subseteq left
      BY <2>1, <2>2, <2>3 DEF Appended, StampsBehind, TypeOK, AssignmentRow
    <3>2. versions'[v] = "deleted"
      BY <2>1 DEF TypeOK
    <3>3. QED
      BY <2>2, <2>3, <3>1, <3>2 DEF HistoryStep
<1>4. ASSUME NEW v \in Versions, NEW delay \in Delays, NEW skip \in BOOLEAN,
             NEW keep \in BOOLEAN, RevokeVersion(v, delay, skip, keep)
      PROVE HistoryStep
  <2> DEFINE taken == NewlyRevoked(v, skip)
             revoked(at) == [w \in Versions |->
                                IF w \in taken THEN at + delay ELSE revokeAt[w]]
             from == [w \in Versions |->
                         IF w \in taken \ {v} THEN v ELSE inheritedFrom[w]]
             rollback(at) == {p \in ChannelsToRollBack(v, from) \X Versions :
                                p[2] \in NewestValid(history, revoked(at), p[1])}
             pairs(at) == IF keep THEN {} ELSE rollback(at)
  <2>1. PICK at \in 1..MaxClock :
          /\ Stamp(at)
          /\ revokeAt' = revoked(at)
          /\ RecordAssignments(history, pending, builds, pairs(at), at)
    BY <1>4 DEF RevokeVersion
  <2>2. at = clock + 1 /\ clock' = clock + 1
    BY <2>1 DEF Stamp
  <2>3. versions' = versions /\ sequence' = sequence
    BY <1>4 DEF RevokeVersion, lives
  <2>4. \A p \in pairs(at) :
           /\ p[2] # None /\ revokeAt'[p[2]] = 0
           /\ versions'[p[2]] = "live" /\ sequence'[p[2]] > 0
    <3>1. history \in SUBSET AssignmentRow
      BY DEF TypeOK
    <3>2. SUFFICES ASSUME NEW p \in rollback(at)
                   PROVE  /\ p[2] # None /\ revokeAt'[p[2]] = 0
                          /\ versions'[p[2]] = "live" /\ sequence'[p[2]] > 0
      OBVIOUS
    <3>3. p[2] \in NewestValid(history, revoked(at), p[1])
      OBVIOUS
    <3>4. /\ revoked(at)[p[2]] = 0
          /\ \E r \in history : r.version = p[2] /\ r.version # None
      <4> HIDE DEF revoked
      <4> QED
        BY <3>1, <3>3, NewestValidInHistory
    <3>5. QED
      BY <2>1, <2>3, <3>4 DEF AssignedComplete, Complete
  <2>5. history \subseteq history'
        /\ \A r \in history' \ history : \E p \in pairs(at) :
              r.version = p[2] /\ r.at = at
    <3> HIDE DEF pairs
    <3> QED
      BY <2>1, RecordedRows
  <2>6. \A r \in history' \ history : Appended(r)
    <3> HIDE DEF pairs
    <3> QED
      BY <2>2, <2>4, <2>5 DEF Appended
  <2>7. QED
    BY <1>a, <2>2, <2>3, <2>5, <2>6 DEF HistoryStep, AssignedComplete
<1>5. ASSUME NEW b \in Builds, NEW row \in BuildRow, UpdateBuild(b, row)
      PROVE HistoryStep
  <2> DEFINE v == VersionOfBuild[b]
             rows == [builds EXCEPT ![b] = row]
             latest == Latest[BucketOfVersion[v]]
             pairs(at) == IF ActiveAt(revokeAt'[v], at) THEN {<<latest, v>>} ELSE {}
  <2>1. v \in Versions
    BY RegistryAssumption
  <2>2. versions' = versions /\ versions[v] = "live"
    BY <1>5 DEF UpdateBuild, BuildsOfLive, lives
  <2>3. CASE Completes(rows, v)
    <3>1. CompleteVersion(v, rows)
      BY <1>5, <2>3 DEF UpdateBuild
    <3>2. PICK at \in 1..MaxClock :
            /\ Stamp(at)
            /\ RecordAssignments(history, pending, rows, pairs(at), at)
      BY <3>1 DEF CompleteVersion
    <3>3. sequence'[v] > 0
      BY <2>1, <3>1, RegistryAssumption DEF CompleteVersion, TypeOK
    <3>4. at = clock + 1 /\ clock' = clock + 1
      BY <3>2 DEF Stamp
    <3>5. history \subseteq history'
          /\ \A r \in history' \ history : \E p \in pairs(at) :
                r.version = p[2] /\ r.at = at
      <4> HIDE DEF pairs, rows
      <4> QED
        BY <3>2, RecordedRows
    <3>6. \A r \in history' \ history :
             r.version = v /\ r.at = at /\ ActiveAt(revokeAt'[v], at)
      BY <3>5
    <3>7. \A r \in history' \ history : Appended(r)
      <4> HIDE DEF v
      <4> QED
        BY <2>2, <3>3, <3>4, <3>6 DEF Appended, ActiveAt
    <3>8. QED
      BY <1>a, <2>2, <3>4, <3>5, <3>7 DEF HistoryStep, AssignedComplete
  <2>4. CASE ~Completes(rows, v)
    BY <1>5, <1>c, <2>2, <2>4 DEF UpdateBuild
  <2>5. QED
    BY <2>3, <2>4
<1>6. ASSUME NEW c \in Channels, NEW v \in Versions, AssignVersion(c, v)
      PROVE HistoryStep
  <2>1. PICK at \in 1..MaxClock :
          /\ Stamp(at)
          /\ RecordAssignments(history, pending, builds, {<<c, v>>}, at)
    BY <1>6 DEF AssignVersion
  <2>2. QED
    BY <1>6, <2>1, AssignmentAppends DEF AssignVersion, lives
<1>7. ASSUME NEW c \in Channels, NEW d \in Channels, AssignChannelVersion(c, d)
      PROVE HistoryStep
  <2>1. PICK v \in Selected(history, c) : AssignVersion(d, v)
    BY <1>7 DEF AssignChannelVersion
  <2>2. v \in Versions
    BY DEF Selected, Newest, RowsOf, TypeOK, AssignmentRow
  <2>3. QED
    BY <1>6, <2>1, <2>2
<1>8. ASSUME NEW c \in Channels, CreateChannel(c) PROVE HistoryStep
  <2>1. CASE UNCHANGED <<history, pending, clock>>
    BY <1>8, <1>c, <2>1 DEF CreateChannel
  <2>2. ASSUME NEW v \in Versions, NEW at \in 1..MaxClock, Stamp(at), Assignable(c, v),
               RecordAssignments(history, pending, builds, {<<c, v>>}, at)
        PROVE HistoryStep
    BY <1>8, <2>2, AssignmentAppends DEF CreateChannel
  <2>3. QED
    BY <1>8, <2>1, <2>2 DEF CreateChannel
<1>9. ASSUME NEW c \in Channels, ClearChannel(c) PROVE HistoryStep
  <2>1. PICK at \in 1..MaxClock :
          Stamp(at) /\ history' = history \cup AssignmentRows({<<c, None>>}, at)
    BY <1>9 DEF ClearChannel
  <2>2. versions' = versions
    BY <1>9 DEF ClearChannel, lives
  <2>3. \A r \in history' \ history : r.version = None /\ r.at = at
    BY <2>1 DEF AssignmentRows
  <2>4. QED
    <3>1. clock' = clock + 1 /\ at = clock + 1 /\ history \subseteq history'
      BY <2>1 DEF Stamp
    <3>2. \A r \in history' \ history : Appended(r)
      BY <2>3, <3>1 DEF Appended
    <3>3. QED
      BY <1>a, <2>2, <3>1, <3>2 DEF HistoryStep, AssignedComplete
<1>10. CASE \E b \in Buckets : CreateBucket(b)
  BY <1>10, <1>c DEF CreateBucket
<1>11. CASE \E v \in Versions : RestoreRevokedVersion(v)
  BY <1>11, <1>c DEF RestoreRevokedVersion, lives
<1>12. CASE \E b \in Builds, status \in BuildStatus, parent \in Versions \cup {None} :
              CreateBuild(b, status, parent)
  BY <1>12, <1>c DEF CreateBuild, lives
<1>13. CASE \E b \in Builds : DeleteBuild(b) \/ DeletePendingScan(b)
  BY <1>13, <1>c DEF DeleteBuild, DeletePendingScan, lives
<1>14. CASE \E c \in Channels : DeleteChannel(c)
  BY <1>14, <1>c DEF DeleteChannel
<1>15. CASE UNCHANGED vars
  BY <1>15, <1>c DEF vars, lives
<1>16. QED
  BY <1>1, <1>2, <1>3, <1>4, <1>5, <1>6, <1>7, <1>8, <1>9, <1>10, <1>11, <1>12,
     <1>13, <1>14, <1>15 DEF Next, UpdateChannel

\* Builds go with their version: the cascade takes them, and CreateBuild asks
\* for a living version.
LEMMA BuildsOfLiveStep == TypeOK /\ BuildsOfLive /\ [Next]_vars => BuildsOfLive'
<1> SUFFICES ASSUME TypeOK, BuildsOfLive, [Next]_vars PROVE BuildsOfLive'
  OBVIOUS
<1> DEFINE Kept == /\ \A v \in Versions : versions[v] = "live" => versions'[v] = "live"
                   /\ \A b \in Builds : builds[b] = None => builds'[b] = None
<1>1. \A b \in Builds : VersionOfBuild[b] \in Versions
  BY RegistryAssumption
<1>2. Kept => BuildsOfLive'
  BY <1>1 DEF BuildsOfLive
<1>3. UNCHANGED <<versions, builds>> => BuildsOfLive'
  BY <1>2
<1>4. ASSUME NEW b \in Buckets, DeleteBucket(b) PROVE BuildsOfLive'
  BY <1>1, <1>4 DEF DeleteBucket, BuildsOfLive, TypeOK, LiveVersions
<1>5. ASSUME NEW v \in Versions, CreateVersion(v) PROVE BuildsOfLive'
  BY <1>2, <1>5 DEF CreateVersion, TypeOK
<1>6. ASSUME NEW v \in Versions, DeleteVersion(v) PROVE BuildsOfLive'
  BY <1>1, <1>6 DEF DeleteVersion, BuildsOfLive, TypeOK
<1>7. ASSUME NEW b \in Builds, NEW status \in BuildStatus,
             NEW parent \in Versions \cup {None}, CreateBuild(b, status, parent)
      PROVE BuildsOfLive'
  BY <1>1, <1>7 DEF CreateBuild, BuildsOfLive, TypeOK, lives
<1>8. ASSUME NEW b \in Builds, NEW row \in BuildRow, UpdateBuild(b, row)
      PROVE BuildsOfLive'
  BY <1>1, <1>8 DEF UpdateBuild, BuildsOfLive, TypeOK, lives
<1>9. ASSUME NEW b \in Builds, DeleteBuild(b) PROVE BuildsOfLive'
  BY <1>2, <1>9 DEF DeleteBuild, TypeOK, lives
<1>10. ASSUME NEW c \in Channels, NEW v, AssignVersion(c, v) PROVE BuildsOfLive'
  BY <1>10, <1>3 DEF AssignVersion, lives
<1>11. ASSUME NEW c \in Channels, NEW d \in Channels, AssignChannelVersion(c, d)
       PROVE BuildsOfLive'
  BY <1>10, <1>11 DEF AssignChannelVersion
<1>12. CASE \E b \in Buckets : CreateBucket(b)
  BY <1>12, <1>3 DEF CreateBucket
<1>13. CASE \E v \in Versions : RestoreRevokedVersion(v)
  BY <1>13, <1>3 DEF RestoreRevokedVersion, lives
<1>14. CASE \E v \in Versions, delay \in Delays, skip, keep \in BOOLEAN :
              RevokeVersion(v, delay, skip, keep)
  BY <1>14, <1>3 DEF RevokeVersion, lives
<1>15. CASE \E b \in Builds : DeletePendingScan(b)
  BY <1>15, <1>3 DEF DeletePendingScan, lives
<1>16. CASE \E c \in Channels : CreateChannel(c) \/ ClearChannel(c) \/ DeleteChannel(c)
  BY <1>16, <1>3 DEF CreateChannel, ClearChannel, DeleteChannel, lives
<1>17. CASE UNCHANGED vars
  BY <1>17, <1>3 DEF vars, lives
<1>18. QED
  BY <1>4, <1>5, <1>6, <1>7, <1>8, <1>9, <1>10, <1>11, <1>12, <1>13, <1>14, <1>15,
     <1>16, <1>17 DEF Next, UpdateChannel

\* A version step leaves numbers with the living and apart from each other: a
\* completed version's number exceeds those of all its siblings.
LEMMA NumbersStep ==
    ASSUME IInv, TypeOK', VersionStep PROVE DeadUnnumbered' /\ SequencesDistinct'
<1> USE DEF IInv
<1>1. CASE \A v \in Versions :
              \/ versions'[v] = versions[v] /\ sequence'[v] = sequence[v]
              \/ versions'[v] = "deleted" /\ sequence'[v] = 0
              \/ versions[v] = "unborn" /\ versions'[v] = "live"
                 /\ sequence'[v] = sequence[v]
  <2>1. \A v \in Versions : versions'[v] = "live" =>
           /\ sequence'[v] = sequence[v]
           /\ sequence[v] > 0 => versions[v] = "live"
    BY <1>1 DEF DeadUnnumbered, TypeOK
  <2>2. DeadUnnumbered'
    BY <1>1 DEF DeadUnnumbered, TypeOK
  <2>3. SequencesDistinct'
    <3> SUFFICES ASSUME NEW v \in Versions, NEW w \in Versions,
                        versions'[v] = "live", versions'[w] = "live", v # w,
                        BucketOfVersion[v] = BucketOfVersion[w], sequence'[v] > 0
                 PROVE  sequence'[v] # sequence'[w]
      BY DEF SequencesDistinct, LiveVersions, Complete
    <3>1. CASE sequence[w] > 0
      BY <2>1, <3>1 DEF SequencesDistinct, LiveVersions, Complete
    <3>2. CASE ~(sequence[w] > 0)
      BY <2>1, <3>2
    <3>3. QED
      BY <3>1, <3>2
  <2>4. QED
    BY <2>2, <2>3
<1>2. CASE \E v \in Versions, n \in Nat \ {0} :
              /\ versions[v] = "live" /\ versions' = versions
              /\ ~Complete(v)
              /\ IsNextSequence(BucketOfVersion[v], n)
              /\ sequence' = [sequence EXCEPT ![v] = n]
  <2>1. PICK u \in Versions, n \in Nat \ {0} :
           /\ versions[u] = "live" /\ versions' = versions
           /\ IsNextSequence(BucketOfVersion[u], n)
           /\ sequence' = [sequence EXCEPT ![u] = n]
    BY <1>2
  <2>2. DeadUnnumbered'
    BY <2>1 DEF DeadUnnumbered, TypeOK
  <2>3. \A w \in Versions : versions[w] = "live"
             /\ BucketOfVersion[w] = BucketOfVersion[u] => sequence[w] < n
    BY <2>1 DEF IsNextSequence, LiveVersions
  <2>4. SequencesDistinct'
    <3> SUFFICES ASSUME NEW v \in Versions, NEW w \in Versions,
                        versions[v] = "live", versions[w] = "live", v # w,
                        BucketOfVersion[v] = BucketOfVersion[w], sequence'[v] > 0
                 PROVE  sequence'[v] # sequence'[w]
      BY <2>1 DEF SequencesDistinct, LiveVersions, Complete
    <3>1. CASE v = u
      BY <2>1, <2>3, <3>1 DEF TypeOK
    <3>2. CASE w = u
      BY <2>1, <2>3, <3>2 DEF TypeOK
    <3>3. CASE v # u /\ w # u
      BY <2>1, <3>3 DEF TypeOK, SequencesDistinct, LiveVersions, Complete
    <3>4. QED
      BY <3>1, <3>2, <3>3
  <2>5. QED
    BY <2>2, <2>4
<1>3. QED
  BY <1>1, <1>2 DEF VersionStep

\* A version that stays there keeps its number, once it has one.
LEMMA NumbersStand ==
    ASSUME IInv, VersionStep, NEW v \in Versions, Complete(v), versions'[v] # "deleted"
    PROVE  sequence'[v] = sequence[v]
<1>1. sequence[v] \in Nat /\ sequence \in [Versions -> Nat]
  BY DEF IInv, TypeOK
<1>2. QED
  BY <1>1 DEF VersionStep, Complete

\* Every operation preserves the inductive invariant.
LEMMA InvariantStep == IInv /\ [Next]_vars => IInv'
<1> SUFFICES ASSUME IInv, [Next]_vars PROVE IInv'
  OBVIOUS
<1>1. TypeOK'
  BY TypeStep DEF IInv
<1>2. VersionStep /\ BuildsOfLive'
  BY VersionStepOfNext, BuildsOfLiveStep DEF IInv
<1>3. HistoryStep
  BY HistoryStepOfNext
<1>4. DeadUnnumbered' /\ SequencesDistinct'
  BY <1>1, <1>2, NumbersStep
<1>5. AssignedComplete'
  <2> SUFFICES ASSUME NEW r \in history', r.version # None
               PROVE  versions'[r.version] = "live" /\ sequence'[r.version] > 0
    BY DEF AssignedComplete, Complete
  <2>1. CASE r \notin history
    BY <1>3, <2>1 DEF HistoryStep, Appended
  <2>2. CASE r \in history
    <3>1. /\ r.version \in Versions
          /\ versions'[r.version] = "live"
          /\ Complete(r.version)
      BY <1>3, <2>2 DEF HistoryStep, IInv, AssignedComplete, TypeOK, AssignmentRow
    <3>2. sequence'[r.version] = sequence[r.version]
      BY <1>2, <3>1, NumbersStand
    <3>3. QED
      BY <3>1, <3>2 DEF Complete
  <2>3. QED
    BY <2>1, <2>2
<1>6. StampsBehind'
  <2>1. clock \in Nat /\ clock' \in Nat /\ \A r \in history : r.at \in Nat
    BY <1>1 DEF IInv, TypeOK, AssignmentRow
  <2>2. QED
    BY <1>3, <2>1 DEF HistoryStep, Appended, IInv, StampsBehind
<1>7. QED
  BY <1>1, <1>2, <1>4, <1>5, <1>6 DEF IInv

\* The rows, the assignments and the numbers together are inductive.
THEOREM Invariance == Spec => []IInv
<1>1. Init => IInv
  BY DEF Init, IInv, TypeOK, Life, AssignedComplete, SequencesDistinct,
         DeadUnnumbered, BuildsOfLive, StampsBehind, LiveVersions, Complete
<1>2. QED
  BY <1>1, InvariantStep, PTL DEF Spec

\* Every assignment in the history names a surviving complete version, or none
\* (assignChannel refuses incomplete versions; the cascade takes the rows of a
\* deleted one).
THEOREM AssignedCompleteHolds == Spec => []AssignedComplete
<1>1. IInv => AssignedComplete
  BY DEF IInv
<1>2. QED
  BY <1>1, Invariance, PTL

\* No two surviving versions of a bucket carry the same number, although the
\* number of a deleted version is allotted again (NextVersionSequence).
THEOREM SequencesDistinctHolds == Spec => []SequencesDistinct
<1>1. IInv => SequencesDistinct
  BY DEF IInv
<1>2. QED
  BY <1>1, Invariance, PTL

\* A completed version is completed once and keeps its number while it lives,
\* whatever happens to its builds.
THEOREM CompletionStandsHolds == Spec => CompletionStands
<1> DEFINE Stands == \A v \in Versions :
              Complete(v) /\ versions'[v] = "live" => sequence'[v] = sequence[v]
<1>1. ASSUME IInv, [Next]_vars PROVE [Stands]_vars
  BY <1>1, VersionStepOfNext, NumbersStand DEF IInv
<1>2. QED
  BY <1>1, Invariance, PTL DEF Spec, CompletionStands

\* The assignment history loses no row but those a deleted version takes along
\* (ClearChannelAssignment, DeleteVersion).
THEOREM HistoryAppendOnlyHolds == Spec => HistoryAppendOnly
<1> DEFINE Grows == \A r \in history \ history' :
              r.version # None /\ versions'[r.version] = "deleted"
<1>1. ASSUME IInv, [Next]_vars PROVE [Grows]_vars
  BY <1>1, HistoryStepOfNext DEF HistoryStep, Appended
<1>2. QED
  BY <1>1, Invariance, PTL DEF Spec, HistoryAppendOnly

\* Neither completion nor a rollback ever assigns the managed channel to a
\* version whose revocation is in effect.
THEOREM LatestNeverRevokedHolds == Spec => LatestNeverRevoked
<1> DEFINE Valid == \A r \in history' \ history :
              r.channel \in Managed /\ r.version # None =>
                 revokeAt'[r.version] = 0 \/ r.at < revokeAt'[r.version]
<1>1. ASSUME IInv, [Next]_vars PROVE [Valid]_vars
  BY <1>1, HistoryStepOfNext DEF HistoryStep, Appended
<1>2. QED
  BY <1>1, Invariance, PTL DEF Spec, LatestNeverRevoked

-----------------------------------------------------------------------------
(* Revocation: what a step may do to a version that is revoked, and how far  *)
(* down the recorded ancestry a revocation reaches.                          *)

\* The columns of a revoked version stand, go with the version, or are cleared
\* by a restoration that covers it.
RevocationStep ==
    \A v \in Versions : Revoked(v) =>
        \/ revokeAt'[v] = revokeAt[v] /\ inheritedFrom'[v] = inheritedFrom[v]
        \/ revokeAt'[v] = 0 /\ versions'[v] = "deleted"
        \/ /\ revokeAt'[v] = 0
           /\ \E w \in Versions : RestoreRevokedVersion(w) /\ v \in Cleared(w)

\* Inheriting leaves a revoked version alone.
LEMMA InheritedSpares ==
    ASSUME TypeOK, NEW v \in Versions, NEW parent,
           InheritParentRevocation(v, parent)
    PROVE  RevocationStep
<1>1. CASE Inherits(v, parent)
  BY <1>1 DEF InheritParentRevocation, Inherits, RevocationStep, TypeOK
<1>2. CASE ~Inherits(v, parent)
  BY <1>2 DEF InheritParentRevocation, RevocationStep, revocation
<1>3. QED
  BY <1>1, <1>2

\* Every operation treats revoked versions in one of those ways.
LEMMA RevocationStepOfNext == TypeOK /\ [Next]_vars => RevocationStep
<1> SUFFICES ASSUME TypeOK, [Next]_vars PROVE RevocationStep
  OBVIOUS
<1>1. UNCHANGED revocation => RevocationStep
  BY DEF RevocationStep, revocation
<1>2. ASSUME NEW b \in Buckets, DeleteBucket(b) PROVE RevocationStep
  BY <1>2 DEF DeleteBucket, RevocationStep, TypeOK
<1>3. ASSUME NEW v \in Versions, DeleteVersion(v) PROVE RevocationStep
  BY <1>3 DEF DeleteVersion, RevocationStep, TypeOK
<1>4. ASSUME NEW v \in Versions, RestoreRevokedVersion(v) PROVE RevocationStep
  <2>1. \A w \in Versions :
           IF w \in Cleared(v) THEN revokeAt'[w] = 0
           ELSE revokeAt'[w] = revokeAt[w] /\ inheritedFrom'[w] = inheritedFrom[w]
    BY <1>4 DEF RestoreRevokedVersion
  <2>2. QED
    BY <1>4, <2>1 DEF RevocationStep
<1>5. ASSUME NEW v \in Versions, NEW delay \in Delays, NEW skip \in BOOLEAN,
             NEW keep \in BOOLEAN, RevokeVersion(v, delay, skip, keep)
      PROVE RevocationStep
  <2>1. \A w \in NewlyRevoked(v, skip) : ~Revoked(w)
    BY <1>5 DEF RevokeVersion, NewlyRevoked
  <2>2. \A w \in Versions \ NewlyRevoked(v, skip) :
           revokeAt'[w] = revokeAt[w] /\ inheritedFrom'[w] = inheritedFrom[w]
    BY <1>5 DEF RevokeVersion
  <2>3. QED
    BY <2>1, <2>2 DEF RevocationStep
<1>6. ASSUME NEW b \in Builds, NEW status \in BuildStatus,
             NEW parent \in Versions \cup {None}, CreateBuild(b, status, parent)
      PROVE RevocationStep
  BY <1>6, InheritedSpares, RegistryAssumption DEF CreateBuild
<1>7. ASSUME NEW b \in Builds, NEW row \in BuildRow, UpdateBuild(b, row)
      PROVE RevocationStep
  BY <1>7, InheritedSpares, RegistryAssumption DEF UpdateBuild
<1>8. ASSUME NEW c \in Channels, NEW v, AssignVersion(c, v) PROVE RevocationStep
  BY <1>8, <1>1 DEF AssignVersion
<1>9. ASSUME NEW c \in Channels, NEW d \in Channels, AssignChannelVersion(c, d)
      PROVE RevocationStep
  BY <1>8, <1>9 DEF AssignChannelVersion
<1>10. CASE \E b \in Buckets : CreateBucket(b)
  BY <1>10, <1>1 DEF CreateBucket
<1>11. CASE \E v \in Versions : CreateVersion(v)
  BY <1>11, <1>1 DEF CreateVersion
<1>12. CASE \E b \in Builds : DeleteBuild(b) \/ DeletePendingScan(b)
  BY <1>12, <1>1 DEF DeleteBuild, DeletePendingScan
<1>13. CASE \E c \in Channels : CreateChannel(c) \/ ClearChannel(c) \/ DeleteChannel(c)
  BY <1>13, <1>1 DEF CreateChannel, ClearChannel, DeleteChannel
<1>14. CASE UNCHANGED vars
  BY <1>14, <1>1 DEF vars, revocation
<1>15. QED
  BY <1>2, <1>3, <1>4, <1>5, <1>6, <1>7, <1>8, <1>9, <1>10, <1>11, <1>12, <1>13,
     <1>14 DEF Next, UpdateChannel

\* Whatever operation runs, the first revocation of a version stands until it is
\* cleared: neither a later RevokeVersion above it nor a parent recorded
\* afterwards replaces its time or its ancestor.
THEOREM FirstRevocationStandsHolds == Spec => FirstRevocationStands
<1> DEFINE Stands == \A v \in Versions : Revoked(v) /\ revokeAt'[v] # 0 =>
              revokeAt'[v] = revokeAt[v] /\ inheritedFrom'[v] = inheritedFrom[v]
<1>1. ASSUME TypeOK, [Next]_vars PROVE [Stands]_vars
  BY <1>1, RevocationStepOfNext DEF RevocationStep
<1>2. QED
  BY <1>1, TypeCorrect, PTL DEF Spec, FirstRevocationStands

\* An inherited revocation leaves a living version only with the manual one it
\* names: RestoreRevokedVersion refuses it, and clears it from its ancestor.
THEOREM InheritedLiftedWithAncestorHolds == Spec => InheritedLiftedWithAncestor
<1> DEFINE Lifted == \A v \in Versions :
          Revoked(v) /\ versions'[v] = "live" /\ revokeAt'[v] = 0
          /\ inheritedFrom[v] # None
          => LET a == inheritedFrom[v]
             IN  Revoked(a) /\ inheritedFrom[a] = None /\ revokeAt'[a] = 0
                 /\ versions'[a] = "live"
<1>1. ASSUME TypeOK, [Next]_vars PROVE [Lifted]_vars
  <2> SUFFICES ASSUME NEW v \in Versions, Revoked(v), versions'[v] = "live",
                      revokeAt'[v] = 0, inheritedFrom[v] # None
               PROVE  LET a == inheritedFrom[v]
                      IN  Revoked(a) /\ inheritedFrom[a] = None /\ revokeAt'[a] = 0
                          /\ versions'[a] = "live"
    OBVIOUS
  <2>1. PICK w \in Versions : RestoreRevokedVersion(w) /\ v \in Cleared(w)
    BY <1>1, RevocationStepOfNext DEF RevocationStep, Revoked, TypeOK
  <2>2. inheritedFrom[v] = w
    BY <2>1 DEF RestoreRevokedVersion, Cleared
  <2>3. versions'[w] = "live" /\ Revoked(w) /\ inheritedFrom[w] = None
    BY <2>1 DEF RestoreRevokedVersion, lives
  <2>4. revokeAt'[w] = 0
    BY <2>1 DEF RestoreRevokedVersion, Cleared
  <2>5. QED
    BY <2>2, <2>3, <2>4
<1>2. QED
  BY <1>1, TypeCorrect, PTL DEF Spec, InheritedLiftedWithAncestor

\* The descendants absorb one more generation.
LEMMA ChildrenDescend ==
    ASSUME NEW v \in Versions, NEW w \in {v} \cup Descendants(v)
    PROVE  Children(w) \subseteq Descendants(v)
<1> DEFINE children == [u \in Versions |-> Children(u)]
           Closed(S) == children[v] \subseteq S /\ \A u \in S : children[u] \subseteq S
<1>1. Descendants(v) = {u \in Versions : \A S \in SUBSET Versions : Closed(S) => u \in S}
  BY Zenon DEF Descendants
<1>2. w \in Versions
  BY <1>1
<1>3. Children(w) \subseteq Versions
  BY RegistryAssumption DEF Children
<1>4. children[w] = Children(w)
  BY <1>2
<1>5. ASSUME NEW S \in SUBSET Versions, Closed(S) PROVE children[w] \subseteq S
  <2> HIDE DEF children
  <2> QED
    BY <1>1, <1>5
<1>6. QED
  <2> HIDE DEF Closed, children
  <2> QED
    BY <1>1, <1>3, <1>4, <1>5

\* A revocation with descendants leaves no surviving child of a version it
\* revoked unrevoked, through any chain of recorded parents
\* (RevokeDescendants works down the whole ancestry).
THEOREM DescendantsRevokedHolds == Spec => DescendantsRevoked
<1> DEFINE Reached == \A v \in Versions, delay \in Delays, keep \in BOOLEAN :
          NewlyRevokedBy(v) /\ RevokeVersion(v, delay, FALSE, keep) =>
              \A w \in Versions : NewlyRevokedBy(w) =>
                  \A d \in Children(w) : versions[d] = "live" => Revoked(d)'
<1>1. ASSUME TypeOK, [Next]_vars PROVE [Reached]_vars
  <2> SUFFICES ASSUME NEW v \in Versions, NEW delay \in Delays, NEW keep \in BOOLEAN,
                      RevokeVersion(v, delay, FALSE, keep),
                      NEW w \in Versions, NewlyRevokedBy(w),
                      NEW d \in Children(w), versions[d] = "live"
               PROVE  Revoked(d)'
    OBVIOUS
  <2> DEFINE taken == NewlyRevoked(v, FALSE)
  <2>1. PICK at \in 1..MaxClock :
           revokeAt' = [u \in Versions |-> IF u \in taken THEN at + delay ELSE revokeAt[u]]
    BY DEF RevokeVersion
  <2>2. at + delay > 0 /\ d \in Versions
    BY RegistryAssumption DEF Children
  <2>3. taken = {v} \cup {u \in Descendants(v) \cap LiveVersions : ~Revoked(u)}
    BY DEF NewlyRevoked
  <2>4. w \in {v} \cup Descendants(v)
    BY <2>1, <2>3 DEF NewlyRevokedBy, Revoked
  <2>5. d \in Descendants(v) \cap LiveVersions
    BY <2>2, <2>4, ChildrenDescend DEF LiveVersions
  <2>6. CASE d \in taken
    BY <2>1, <2>2, <2>6 DEF Revoked
  <2>7. CASE d \notin taken
    BY <2>1, <2>2, <2>3, <2>5, <2>7 DEF Revoked
  <2>8. QED
    BY <2>6, <2>7
<1>2. QED
  BY <1>1, TypeCorrect, PTL DEF Spec, DescendantsRevoked

-----------------------------------------------------------------------------
(* Channels: a channel selects the newest of its rows, so what a step does    *)
(* to a selection depends on the rows a channel has, that no two of them     *)
(* carry one stamp, and that a channel not yet created has none.             *)

RowsWithinBucket ==
    \A r \in history : r.version # None =>
        BucketOfVersion[r.version] = BucketOfChannel[r.channel]
OneRowPerStamp ==
    \A r, s \in history : r.channel = s.channel /\ r.at = s.at => r = s
RowsOfBorn == \A r \in history : channels[r.channel] # "unborn"
BucketsHold ==
    /\ \A b \in Buckets : channels[Latest[b]] = buckets[b]
    /\ \A v \in Versions : versions[v] = "live" => buckets[BucketOfVersion[v]] = "live"
    /\ \A c \in Channels : channels[c] = "live" => buckets[BucketOfChannel[c]] = "live"

RowsInv ==
    /\ IInv
    /\ RowsWithinBucket
    /\ OneRowPerStamp
    /\ RowsOfBorn
    /\ BucketsHold

\* Buckets outlive what they hold: channels and versions are created in a living
\* bucket and go with it, and the managed channel lives exactly as long.
LEMMA BucketsHoldStep == TypeOK /\ BuildsOfLive /\ BucketsHold /\ [Next]_vars => BucketsHold'
<1> SUFFICES ASSUME TypeOK, BuildsOfLive, BucketsHold, [Next]_vars PROVE BucketsHold'
  OBVIOUS
<1> USE RegistryAssumption
<1>1. UNCHANGED lives => BucketsHold'
  BY DEF lives, BucketsHold
<1>2. ASSUME NEW b \in Buckets, CreateBucket(b) PROVE BucketsHold'
  <2>1. \A a \in Buckets : a # b => Latest[a] # Latest[b]
    OBVIOUS
  <2>2. QED
    BY <1>2, <2>1 DEF CreateBucket, BucketsHold, TypeOK
<1>3. ASSUME NEW b \in Buckets, DeleteBucket(b) PROVE BucketsHold'
  BY <1>3 DEF DeleteBucket, BucketsHold, TypeOK, LiveVersions
<1>4. ASSUME NEW v \in Versions, CreateVersion(v) PROVE BucketsHold'
  BY <1>4 DEF CreateVersion, BucketsHold, TypeOK
<1>5. ASSUME NEW v \in Versions, DeleteVersion(v) PROVE BucketsHold'
  BY <1>5 DEF DeleteVersion, BucketsHold, TypeOK
<1>6. ASSUME NEW c \in Channels, CreateChannel(c) PROVE BucketsHold'
  BY <1>6 DEF CreateChannel, BucketsHold, TypeOK, Managed
<1>7. ASSUME NEW c \in Channels, DeleteChannel(c) PROVE BucketsHold'
  BY <1>7 DEF DeleteChannel, BucketsHold, TypeOK, Managed
<1>8. ASSUME NEW c \in Channels, NEW v, AssignVersion(c, v) PROVE BucketsHold'
  BY <1>8, <1>1 DEF AssignVersion
<1>9. ASSUME NEW c \in Channels, NEW d \in Channels, AssignChannelVersion(c, d)
      PROVE BucketsHold'
  BY <1>8, <1>9 DEF AssignChannelVersion
<1>10. CASE \E v \in Versions : RestoreRevokedVersion(v)
  BY <1>10, <1>1 DEF RestoreRevokedVersion
<1>11. CASE \E v \in Versions, delay \in Delays, skip, keep \in BOOLEAN :
              RevokeVersion(v, delay, skip, keep)
  BY <1>11, <1>1 DEF RevokeVersion
<1>12. CASE \E b \in Builds, status \in BuildStatus, parent \in Versions \cup {None} :
              CreateBuild(b, status, parent)
  BY <1>12, <1>1 DEF CreateBuild
<1>13. CASE \E b \in Builds, row \in BuildRow : UpdateBuild(b, row)
  BY <1>13, <1>1 DEF UpdateBuild
<1>14. CASE \E b \in Builds : DeleteBuild(b) \/ DeletePendingScan(b)
  BY <1>14, <1>1 DEF DeleteBuild, DeletePendingScan
<1>15. CASE \E c \in Channels : ClearChannel(c)
  BY <1>15, <1>1 DEF ClearChannel
<1>16. CASE UNCHANGED vars
  BY <1>16, <1>1 DEF vars, lives
<1>17. QED
  BY <1>2, <1>3, <1>4, <1>5, <1>6, <1>7, <1>8, <1>9, <1>10, <1>11, <1>12, <1>13,
     <1>14, <1>15, <1>16 DEF Next, UpdateChannel

\* Channels are not unborn, and what a step adds to the history is one row at
\* most for each channel, of a version of the channel's bucket.
RowStep ==
    /\ \A c \in Channels : channels[c] # "unborn" => channels'[c] # "unborn"
    /\ \A r \in history' \ history :
          /\ channels'[r.channel] # "unborn"
          /\ r.version # None => BucketOfVersion[r.version] = BucketOfChannel[r.channel]
          /\ \A s \in history' \ history : r.channel = s.channel => r = s

\* The rollback selector finds one version at most.
LEMMA NewestValidUnique ==
    ASSUME OneRowPerStamp, TypeOK, NEW hist \in SUBSET history, NEW revoked, NEW c,
           NEW v \in NewestValid(hist, revoked, c), NEW w \in NewestValid(hist, revoked, c)
    PROVE  v = w
<1>1. PICK r \in hist : /\ r.channel = c /\ r.version = v
                        /\ r \in Newest({s \in RowsOf(hist, c) :
                                           s.version # None /\ revoked[s.version] = 0})
  BY DEF NewestValid, Newest, RowsOf
<1>2. PICK s \in hist : /\ s.channel = c /\ s.version = w
                        /\ s \in Newest({q \in RowsOf(hist, c) :
                                           q.version # None /\ revoked[q.version] = 0})
  BY DEF NewestValid, Newest, RowsOf
<1>3. r.at \in Nat /\ s.at \in Nat /\ r.at <= s.at /\ s.at <= r.at
  BY <1>1, <1>2 DEF Newest, TypeOK, AssignmentRow
<1>4. r = s
  BY <1>1, <1>2, <1>3 DEF OneRowPerStamp
<1>5. QED
  BY <1>1, <1>2, <1>4

\* A recording of at most one version for each channel is a row step.
LEMMA RecordedRowStep ==
    ASSUME NEW hist \in SUBSET history, NEW queue, NEW rows,
           NEW pairs \in SUBSET (Channels \X (Versions \cup {None})), NEW at,
           history' = hist \cup AssignmentRows(pairs, at),
           \A c \in Channels : channels[c] # "unborn" => channels'[c] # "unborn",
           \A p \in pairs : channels'[p[1]] # "unborn",
           \A p \in pairs : p[2] # None => BucketOfVersion[p[2]] = BucketOfChannel[p[1]],
           \A p, q \in pairs : p[1] = q[1] => p[2] = q[2]
    PROVE  RowStep
<1>1. \A r \in history' \ history : \E p \in pairs :
         r = [channel |-> p[1], at |-> at, version |-> p[2]]
  BY DEF AssignmentRows
<1>2. QED
  BY <1>1 DEF RowStep

\* An assignment to a user channel is one.
LEMMA AssignedRowStep ==
    ASSUME NEW c \in Channels, NEW v \in Versions, NEW at, Assignable(c, v),
           RecordAssignments(history, pending, builds, {<<c, v>>}, at),
           channels'[c] # "unborn",
           \A d \in Channels : channels[d] # "unborn" => channels'[d] # "unborn"
    PROVE  RowStep
<1> DEFINE pairs == {<<c, v>>}
<1>1. pairs \in SUBSET (Channels \X (Versions \cup {None}))
  OBVIOUS
<1>2. history' = history \cup AssignmentRows(pairs, at)
  BY DEF RecordAssignments
<1>3. /\ \A p \in pairs : channels'[p[1]] # "unborn"
      /\ \A p \in pairs : BucketOfVersion[p[2]] = BucketOfChannel[p[1]]
      /\ \A p, q \in pairs : p[1] = q[1] => p[2] = q[2]
  BY DEF Assignable
<1>4. QED
  <2> HIDE DEF pairs
  <2> QED
    BY <1>1, <1>2, <1>3, RecordedRowStep

\* Every operation adds rows of that kind only.
LEMMA RowStepOfNext == RowsInv /\ [Next]_vars => RowStep
<1> SUFFICES ASSUME RowsInv, [Next]_vars PROVE RowStep
  OBVIOUS
<1> USE DEF RowsInv, IInv
<1> DEFINE Stay == \A c \in Channels : channels[c] # "unborn" => channels'[c] # "unborn"
<1>1. Stay /\ history' \subseteq history => RowStep
  BY DEF RowStep
<1>2. UNCHANGED <<channels, history>> => RowStep
  BY <1>1
<1>3. ASSUME NEW b \in Buckets, CreateBucket(b) PROVE RowStep
  BY <1>1, <1>3 DEF CreateBucket, TypeOK
<1>4. ASSUME NEW b \in Buckets, DeleteBucket(b) PROVE RowStep
  BY <1>1, <1>4 DEF DeleteBucket, TypeOK
<1>5. ASSUME NEW v \in Versions, DeleteVersion(v) PROVE RowStep
  <2> DEFINE lost == {b \in Builds : VersionOfBuild[b] = v}
             left == {r \in history : r.version # v}
             latest == Latest[BucketOfVersion[v]]
             target == NewestValid(left, revokeAt, latest)
             moved == IF target # {} THEN {latest} \X target ELSE {<<latest, None>>}
  <2>1. channels' = channels /\ left \in SUBSET history /\ left \in SUBSET AssignmentRow
    BY <1>5 DEF DeleteVersion, TypeOK
  <2>2. CASE v \in Selected(history, latest)
    <3>1. PICK at \in 1..MaxClock : history' = left \cup AssignmentRows(moved, at)
      BY <1>5, <2>2 DEF DeleteVersion, RecordAssignments
    <3>2. \A w \in target : /\ w \in Versions
                            /\ BucketOfVersion[w] = BucketOfChannel[latest]
      BY <2>1, NewestValidInHistory DEF RowsWithinBucket
    <3>3. latest \in Channels /\ channels[latest] = "live"
      BY <1>5, RegistryAssumption DEF DeleteVersion, BucketsHold
    <3>4. \A w, u \in target : w = u
      <4> HIDE DEF left, latest
      <4> QED
        BY <2>1, NewestValidUnique
    <3>5. /\ moved \in SUBSET (Channels \X (Versions \cup {None}))
          /\ \A p \in moved : channels'[p[1]] # "unborn"
          /\ \A p \in moved : p[2] # None => BucketOfVersion[p[2]] = BucketOfChannel[p[1]]
          /\ \A p, q \in moved : p[1] = q[1] => p[2] = q[2]
      <4> HIDE DEF target, latest
      <4> QED
        BY <2>1, <3>2, <3>3, <3>4
    <3>6. QED
      <4> HIDE DEF moved, left
      <4> QED
        BY <2>1, <3>1, <3>5, RecordedRowStep
  <2>3. CASE v \notin Selected(history, latest)
    BY <1>1, <1>5, <2>1, <2>3 DEF DeleteVersion
  <2>4. QED
    BY <2>2, <2>3
<1>6. ASSUME NEW v \in Versions, NEW delay \in Delays, NEW skip \in BOOLEAN,
             NEW keep \in BOOLEAN, RevokeVersion(v, delay, skip, keep)
      PROVE RowStep
  <2> DEFINE taken == NewlyRevoked(v, skip)
             revoked(at) == [w \in Versions |->
                                IF w \in taken THEN at + delay ELSE revokeAt[w]]
             from == [w \in Versions |->
                         IF w \in taken \ {v} THEN v ELSE inheritedFrom[w]]
             rollback(at) == {p \in ChannelsToRollBack(v, from) \X Versions :
                                p[2] \in NewestValid(history, revoked(at), p[1])}
             pairs(at) == IF keep THEN {} ELSE rollback(at)
  <2>1. channels' = channels
    BY <1>6 DEF RevokeVersion, lives
  <2>2. PICK at \in 1..MaxClock : history' = history \cup AssignmentRows(pairs(at), at)
    BY <1>6 DEF RevokeVersion, RecordAssignments
  <2>3. \A p \in pairs(at) :
           /\ p \in Channels \X Versions /\ channels[p[1]] = "live"
           /\ p[2] \in NewestValid(history, revoked(at), p[1])
    BY DEF ChannelsToRollBack, LiveChannels
  <2>4. history \in SUBSET AssignmentRow /\ history \in SUBSET history
    BY DEF TypeOK
  <2>5. ASSUME NEW p \in pairs(at), NEW q \in pairs(at), p[1] = q[1]
        PROVE  /\ BucketOfVersion[p[2]] = BucketOfChannel[p[1]]
               /\ p[2] = q[2]
    <3> HIDE DEF pairs, revoked
    <3>1. p[2] \in NewestValid(history, revoked(at), p[1])
          /\ q[2] \in NewestValid(history, revoked(at), p[1])
      BY <2>3, <2>5
    <3>2. p[2] = q[2]
      BY <2>4, <3>1, NewestValidUnique
    <3>3. BucketOfVersion[p[2]] = BucketOfChannel[p[1]]
      BY <2>4, <3>1, NewestValidInHistory DEF RowsWithinBucket
    <3>4. QED
      BY <3>2, <3>3
  <2>6. pairs(at) \in SUBSET (Channels \X (Versions \cup {None}))
        /\ \A p \in pairs(at) : channels'[p[1]] # "unborn"
    <3> HIDE DEF pairs
    <3> QED
      BY <2>1, <2>3
  <2>7. QED
    <3> HIDE DEF pairs
    <3> QED
      BY <2>1, <2>2, <2>4, <2>5, <2>6, RecordedRowStep
<1>7. ASSUME NEW b \in Builds, NEW row \in BuildRow, UpdateBuild(b, row)
      PROVE RowStep
  <2> DEFINE v == VersionOfBuild[b]
             rows == [builds EXCEPT ![b] = row]
             latest == Latest[BucketOfVersion[v]]
             pairs(at) == IF ActiveAt(revokeAt'[v], at) THEN {<<latest, v>>} ELSE {}
  <2>1. channels' = channels
    BY <1>7 DEF UpdateBuild, lives
  <2>2. CASE Completes(rows, v)
    <3>1. CompleteVersion(v, rows)
      BY <1>7, <2>2 DEF UpdateBuild
    <3>2. PICK at \in 1..MaxClock : history' = history \cup AssignmentRows(pairs(at), at)
      BY <3>1 DEF CompleteVersion, RecordAssignments
    <3>3. /\ v \in Versions /\ latest \in Channels
          /\ BucketOfChannel[latest] = BucketOfVersion[v]
          /\ channels[latest] = "live"
      BY <1>7, RegistryAssumption DEF UpdateBuild, BuildsOfLive, BucketsHold
    <3>4. /\ pairs(at) \in SUBSET (Channels \X (Versions \cup {None}))
          /\ \A p \in pairs(at) : channels'[p[1]] # "unborn"
          /\ \A p \in pairs(at) : BucketOfVersion[p[2]] = BucketOfChannel[p[1]]
          /\ \A p, q \in pairs(at) : p[1] = q[1] => p[2] = q[2]
      <4> HIDE DEF v, latest
      <4> QED
        BY <2>1, <3>3
    <3>5. QED
      <4> HIDE DEF pairs
      <4> QED
        BY <2>1, <3>2, <3>4, RecordedRowStep
  <2>3. CASE ~Completes(rows, v)
    BY <1>2, <1>7, <2>1, <2>3 DEF UpdateBuild
  <2>4. QED
    BY <2>2, <2>3
<1>8. ASSUME NEW c \in Channels, NEW v \in Versions, AssignVersion(c, v) PROVE RowStep
  <2>1. channels' = channels /\ channels[c] = "live" /\ Assignable(c, v)
    BY <1>8 DEF AssignVersion, lives
  <2>2. PICK at : RecordAssignments(history, pending, builds, {<<c, v>>}, at)
    BY <1>8 DEF AssignVersion
  <2>3. QED
    BY <2>1, <2>2, AssignedRowStep
<1>9. ASSUME NEW c \in Channels, NEW d \in Channels, AssignChannelVersion(c, d)
      PROVE RowStep
  <2>1. PICK v \in Selected(history, c) : AssignVersion(d, v)
    BY <1>9 DEF AssignChannelVersion
  <2>2. v \in Versions
    BY DEF Selected, Newest, RowsOf, TypeOK, AssignmentRow
  <2>3. QED
    BY <1>8, <2>1, <2>2
<1>10. ASSUME NEW c \in Channels, CreateChannel(c) PROVE RowStep
  <2>1. Stay /\ channels'[c] # "unborn"
    BY <1>10 DEF CreateChannel, TypeOK
  <2>2. CASE UNCHANGED history
    BY <1>1, <2>1, <2>2
  <2>3. ASSUME NEW v \in Versions, NEW at, Assignable(c, v),
               RecordAssignments(history, pending, builds, {<<c, v>>}, at)
        PROVE RowStep
    BY <2>1, <2>3, AssignedRowStep
  <2>4. QED
    BY <1>10, <2>2, <2>3 DEF CreateChannel
<1>11. ASSUME NEW c \in Channels, ClearChannel(c) PROVE RowStep
  <2>1. PICK at : history' = history \cup AssignmentRows({<<c, None>>}, at)
    BY <1>11 DEF ClearChannel
  <2>2. channels' = channels /\ channels[c] = "live"
    BY <1>11 DEF ClearChannel, lives
  <2>3. \A r \in history' \ history : r = [channel |-> c, at |-> at, version |-> None]
    BY <2>1 DEF AssignmentRows
  <2>4. QED
    BY <2>2, <2>3 DEF RowStep
<1>12. ASSUME NEW c \in Channels, DeleteChannel(c) PROVE RowStep
  BY <1>1, <1>12 DEF DeleteChannel, TypeOK
<1>13. CASE \E v \in Versions : CreateVersion(v) \/ RestoreRevokedVersion(v)
  BY <1>13, <1>2 DEF CreateVersion, RestoreRevokedVersion, lives
<1>14. CASE \E b \in Builds, status \in BuildStatus, parent \in Versions \cup {None} :
              CreateBuild(b, status, parent)
  BY <1>14, <1>2 DEF CreateBuild, lives
<1>15. CASE \E b \in Builds : DeleteBuild(b) \/ DeletePendingScan(b)
  BY <1>15, <1>2 DEF DeleteBuild, DeletePendingScan, lives
<1>16. CASE UNCHANGED vars
  BY <1>16, <1>2 DEF vars
<1>17. QED
  BY <1>3, <1>4, <1>5, <1>6, <1>7, <1>8, <1>9, <1>10, <1>11, <1>12, <1>13, <1>14,
     <1>15, <1>16 DEF Next, UpdateChannel

\* Every operation preserves what is said of the rows: new ones carry the next
\* stamp, which none of the old ones has reached.
LEMMA RowsInvStep == RowsInv /\ [Next]_vars => RowsInv'
<1> SUFFICES ASSUME RowsInv, [Next]_vars PROVE RowsInv'
  OBVIOUS
<1>1. IInv' /\ BucketsHold' /\ RowStep /\ HistoryStep
  BY InvariantStep, BucketsHoldStep, RowStepOfNext, HistoryStepOfNext DEF RowsInv, IInv
<1>2. \A r \in history : r \in AssignmentRow /\ r.at < clock + 1 /\ r.channel \in Channels
  BY DEF RowsInv, IInv, TypeOK, StampsBehind, AssignmentRow
<1>3. \A r \in history' \ history : r.at = clock + 1
  BY <1>1 DEF HistoryStep, Appended
<1>4. RowsWithinBucket'
  BY <1>1 DEF RowStep, RowsWithinBucket, RowsInv
<1>5. RowsOfBorn'
  BY <1>1, <1>2 DEF RowStep, RowsOfBorn, RowsInv
<1>6. OneRowPerStamp'
  <2> SUFFICES ASSUME NEW r \in history', NEW s \in history',
                      r.channel = s.channel, r.at = s.at
               PROVE  r = s
    BY DEF OneRowPerStamp
  <2>1. CASE r \in history /\ s \in history
    BY <2>1 DEF RowsInv, OneRowPerStamp
  <2>2. CASE r \notin history /\ s \notin history
    BY <1>1, <2>2 DEF RowStep
  <2>3. CASE (r \in history) # (s \in history)
    <3>1. clock \in Nat
      BY DEF RowsInv, IInv, TypeOK
    <3>2. r.at # s.at
      BY <1>2, <1>3, <2>3, <3>1 DEF AssignmentRow
    <3>3. QED
      BY <3>2
  <2>4. QED
    BY <2>1, <2>2, <2>3
<1>7. QED
  BY <1>1, <1>4, <1>5, <1>6 DEF RowsInv

\* Rows are of channels that were created and versions of their bucket, and a
\* channel has one row for each stamp.
THEOREM RowsInvariance == Spec => []RowsInv
<1>1. Init => IInv
  BY DEF Init, IInv, TypeOK, Life, AssignedComplete, SequencesDistinct,
         DeadUnnumbered, BuildsOfLive, StampsBehind, LiveVersions, Complete
<1>2. Init => RowsInv
  BY <1>1, RegistryAssumption
  DEF Init, RowsInv, RowsWithinBucket, OneRowPerStamp, RowsOfBorn, BucketsHold
<1>3. QED
  BY <1>2, RowsInvStep, PTL DEF Spec

\* A set of naturals has a least element.
LEMMA LeastOfNat ==
    ASSUME NEW T \in SUBSET Nat, T # {}
    PROVE  \E x \in T : \A y \in T : x <= y
<1> DEFINE R == OpToRel(<, Nat)
<1>1. IsWellFoundedOn(R, Nat)
  BY NatLessThanWellFounded
<1>2. PICK x \in T : \A y \in T : ~(<<y, x>> \in R)
  <2> HIDE DEF R
  <2> QED
    BY <1>1, WFMin
<1>3. \A x1, y \in Nat : x1 < y => <<x1, y>> \in R
  BY Zenon DEF OpToRel
<1>4. ASSUME NEW y \in T PROVE x <= y
  <2>1. x \in Nat /\ y \in Nat
    OBVIOUS
  <2>2. ~(y < x)
    BY <1>2, <1>3, <2>1, Zenon
  <2>3. QED
    BY <2>1, <2>2
<1>5. QED
  BY <1>4

\* However many rows there are, one of them is the newest: none is ahead of the
\* clock.
LEMMA NewestExists ==
    ASSUME RowsInv, NEW rows \in SUBSET history, rows # {}
    PROVE  \E r \in rows : \A s \in rows : s.at <= r.at
<1> DEFINE T == {clock - r.at : r \in rows}
<1>1. clock \in Nat /\ \A r \in rows : r.at \in Nat /\ r.at <= clock
  BY DEF RowsInv, IInv, TypeOK, StampsBehind, AssignmentRow
<1>2. T \in SUBSET Nat /\ T # {}
  BY <1>1
<1>3. PICK x \in T : \A y \in T : x <= y
  <2> HIDE DEF T
  <2> QED
    BY <1>2, LeastOfNat
<1>4. PICK r \in rows : x = clock - r.at
  OBVIOUS
<1>5. ASSUME NEW s \in rows PROVE s.at <= r.at
  <2>1. clock - r.at <= clock - s.at
    BY <1>3, <1>4
  <2>2. QED
    BY <1>1, <2>1
<1>6. QED
  BY <1>5

\* Removing the rows of a version the channel does not select leaves its
\* selection alone.
LEMMA SelectedOfLeft ==
    ASSUME RowsInv, NEW c, NEW v \in Versions, v \notin Selected(history, c),
           NEW left, left = {r \in history : r.version # v}
    PROVE  Selected(left, c) = Selected(history, c)
<1> DEFINE all == RowsOf(history, c)
           some == RowsOf(left, c)
<1>1. some = {r \in all : r.version # v} /\ all \in SUBSET history
  BY DEF RowsOf
<1>2. \A r \in Newest(all) : r.version # v
  BY RegistryAssumption DEF Selected
<1>3. Newest(all) \subseteq Newest(some)
  BY <1>1, <1>2 DEF Newest
<1>4. ASSUME NEW s \in Newest(some) PROVE s \in Newest(all)
  <2>1. s \in all
    BY <1>1 DEF Newest
  <2>2. PICK r \in all : \A q \in all : q.at <= r.at
    BY <1>1, <2>1, NewestExists
  <2>3. r \in some
    BY <1>1, <1>2, <2>2 DEF Newest
  <2>4. r.at <= s.at
    BY <2>3 DEF Newest
  <2>5. \A q \in all : q.at \in Nat
    BY <1>1 DEF RowsInv, IInv, TypeOK, AssignmentRow
  <2>6. \A q \in all : q.at <= s.at
    BY <2>1, <2>2, <2>4, <2>5
  <2>7. QED
    BY <2>1, <2>6 DEF Newest
<1>5. Newest(all) = Newest(some)
  BY <1>3, <1>4
<1>6. QED
  BY <1>5 DEF Selected

\* A channel no pair of a recording names keeps its rows.
LEMMA RecordedKeeps ==
    ASSUME NEW hist, NEW pairs, NEW at, history' = hist \cup AssignmentRows(pairs, at),
           NEW c, \A p \in pairs : p[1] # c
    PROVE  RowsOf(history', c) = RowsOf(hist, c)
  BY DEF RowsOf, AssignmentRows

\* A stamp ahead of every row, and a recording that sends a channel to one version
\* or to none.
Ahead(hist, at) == at \in Nat /\ \A r \in hist : r.at \in Nat /\ r.at < at
Sends(pairs, c, w) == <<c, w>> \in pairs /\ \A p \in pairs : p[1] = c => p[2] = w

\* A channel a recording names selects what was recorded.
LEMMA RecordedSelects ==
    ASSUME NEW hist, NEW pairs, NEW at, Ahead(hist, at),
           history' = hist \cup AssignmentRows(pairs, at),
           NEW c, NEW w, Sends(pairs, c, w)
    PROVE  Selected(history', c) = {w} \ {None}
<1> DEFINE new == [channel |-> c, at |-> at, version |-> w]
<1>1. new \in RowsOf(history', c)
  BY DEF RowsOf, AssignmentRows, Sends
<1>2. \A r \in RowsOf(history', c) : r \in hist \/ r = new
  BY DEF RowsOf, AssignmentRows, Sends
<1>3. new.at = at /\ new.version = w
  OBVIOUS
<1>4. Newest(RowsOf(history', c)) = {new}
  <2> HIDE DEF new
  <2>1. \A r \in RowsOf(history', c) : r.at <= new.at
    BY <1>2, <1>3 DEF Ahead
  <2>2. ASSUME NEW r \in Newest(RowsOf(history', c)) PROVE r = new
    <3>1. new.at <= r.at /\ (r \in hist \/ r = new)
      BY <1>1, <1>2, <2>2 DEF Newest
    <3>2. QED
      BY <1>3, <3>1 DEF Ahead
  <2>3. QED
    BY <1>1, <2>1, <2>2 DEF Newest
<1>5. QED
  BY <1>3, <1>4 DEF Selected

\* The next stamp is ahead of every row there is.
LEMMA NextStampNewer ==
    ASSUME RowsInv, NEW at, at = clock + 1, NEW hist \in SUBSET history
    PROVE  Ahead(hist, at)
  BY DEF RowsInv, IInv, TypeOK, StampsBehind, AssignmentRow, Ahead

\* A channel was moved as it should be: to an unrevoked version, or to none where
\* its history holds none.
ValidMove(c) ==
    /\ \A w \in Selected(history', c) : revokeAt'[w] = 0
    /\ Selected(history', c) = {} => NewestValid(history', revokeAt', c) = {}
QueuedFor(c) == \A w \in Selected(history', c) : DoneBuildsOf(builds', w) \subseteq pending'

\* A deletion moves the managed channel if it selects the version, and no other.
LEMMA DeletionMoves ==
    ASSUME RowsInv, NEW v \in Versions, DeleteVersion(v),
           NEW c \in Channels, channels[c] = "live"
    PROVE  Selected(history', c) = Selected(history, c) \/ (ValidMove(c) /\ QueuedFor(c))
<1>0. TypeOK /\ OneRowPerStamp /\ RowsWithinBucket
  BY DEF RowsInv, IInv
<1> DEFINE lost == {b \in Builds : VersionOfBuild[b] = v}
           left == {r \in history : r.version # v}
           latest == Latest[BucketOfVersion[v]]
           target == NewestValid(left, revokeAt, latest)
           moved == IF target # {} THEN {latest} \X target ELSE {<<latest, None>>}
<1>1. left \in SUBSET history /\ left \in SUBSET AssignmentRow
  BY <1>0 DEF TypeOK
<1>2. \A w, u \in target : w = u
  <2> HIDE DEF left, latest
  <2> QED
    BY <1>0, <1>1, NewestValidUnique
<1>3. \A w \in target : w \in Versions /\ w # v /\ revokeAt[w] = 0
  BY <1>1, NewestValidInHistory
<1>4. \A p, q \in moved : p[1] = q[1] => p[2] = q[2]
  <2> HIDE DEF target, latest
  <2> QED
    BY <1>2
<1>5. CASE v \notin Selected(history, c)
  <2>1. Selected(left, c) = Selected(history, c)
    <3> HIDE DEF left
    <3> QED
      BY <1>5, SelectedOfLeft DEF left
  <2>2. CASE history' = left
    BY <2>1, <2>2
  <2>3. CASE v \in Selected(history, latest)
    <3>1. PICK at \in 1..MaxClock :
             at = clock + 1 /\ history' = left \cup AssignmentRows(moved, at)
      BY <2>3 DEF DeleteVersion, RecordAssignments, Stamp
    <3>2. c # latest
      BY <1>5, <2>3
    <3>3. \A p \in moved : p[1] = latest
      <4> HIDE DEF target, latest
      <4> QED
        OBVIOUS
    <3>4. RowsOf(history', c) = RowsOf(left, c)
      <4> HIDE DEF left, moved, latest
      <4> QED
        BY <3>1, <3>2, <3>3, RecordedKeeps
    <3>5. QED
      BY <2>1, <3>4 DEF Selected
  <2>4. QED
    BY <2>2, <2>3 DEF DeleteVersion
<1>6. CASE v \in Selected(history, c)
  <2>1. c \in Managed
    BY <1>6 DEF DeleteVersion, SelectedByUserChannel, LiveChannels
  <2>2. PICK r \in history : r.channel = c /\ r.version = v
    BY <1>6 DEF Selected, Newest, RowsOf
  <2>3. c = latest
    BY <1>0, <2>1, <2>2, RegistryAssumption DEF Managed, RowsWithinBucket
  <2>4. PICK at \in 1..MaxClock :
           /\ Stamp(at)
           /\ IF target # {}
              THEN RecordAssignments(left, pending \ lost, builds, {latest} \X target, at)
              ELSE /\ history' = left \cup AssignmentRows({<<latest, None>>}, at)
                   /\ pending' = pending \ lost
    BY <1>6, <2>3 DEF DeleteVersion
  <2>5. at = clock + 1 /\ history' = left \cup AssignmentRows(moved, at)
    BY <2>4 DEF RecordAssignments, Stamp
  <2>6. \A w : <<c, w>> \in moved => Selected(history', c) = {w} \ {None}
    <3>1. \A p, q \in moved : p[1] = c /\ p[2] = q[2]
      <4> HIDE DEF target, latest
      <4> QED
        BY <1>2, <2>3
    <3>2. Ahead(left, at)
      <4> HIDE DEF left, moved
      <4> QED
        BY <1>1, <2>5, NextStampNewer
    <3>3. ASSUME NEW w, <<c, w>> \in moved PROVE Selected(history', c) = {w} \ {None}
      <4>1. Sends(moved, c, w)
        <5> HIDE DEF moved
        <5> QED
          BY <3>1, <3>3 DEF Sends
      <4>2. QED
        <5> HIDE DEF left, moved
        <5> QED
          BY <2>5, <3>2, <4>1, RecordedSelects
    <3>4. QED
      BY <3>3
  <2>7. revokeAt' = [revokeAt EXCEPT ![v] = 0]
    BY DEF DeleteVersion
  <2>8. CASE target # {}
    <3>1. PICK t \in target : TRUE
      BY <2>8
    <3>2. <<c, t>> \in moved
      BY <2>3, <2>8, <3>1
    <3>3. t \in Versions /\ t # v /\ t # None /\ revokeAt[t] = 0
      BY <1>3, <3>1, RegistryAssumption
    <3>4. Selected(history', c) = {t}
      <4> HIDE DEF moved
      <4> QED
        BY <2>6, <3>2, <3>3
    <3>5. DoneBuildsOf(builds, t) \subseteq pending'
      <4>1. pending' = (pending \ lost)
               \cup UNION {DoneBuildsOf(builds, p[2]) : p \in {latest} \X target}
        BY <2>4, <2>8 DEF RecordAssignments
      <4>2. <<latest, t>> \in {latest} \X target
        BY <3>1
      <4>3. QED
        <5> HIDE DEF target, latest
        <5> QED
          BY <4>1, <4>2
    <3>6. DoneBuildsOf(builds', t) \subseteq DoneBuildsOf(builds, t)
      BY <3>3 DEF DeleteVersion, DoneBuildsOf, BuildsOf
    <3>7. QED
      BY <1>0, <2>7, <3>3, <3>4, <3>5, <3>6 DEF ValidMove, QueuedFor, TypeOK
  <2>9. CASE target = {}
    <3>1. <<c, None>> \in moved
      BY <2>3, <2>9
    <3>2. Selected(history', c) = {}
      <4> HIDE DEF moved
      <4> QED
        BY <2>6, <3>1
    <3>3. history' = left \cup AssignmentRows({<<latest, None>>}, at)
          /\ \A s \in AssignmentRows({<<latest, None>>}, at) : s.version = None
      BY <2>4, <2>9 DEF AssignmentRows
    <3>4. \A s \in RowsOf(left, c) : s.version # None =>
             (revokeAt'[s.version] = 0 <=> revokeAt[s.version] = 0)
      BY <1>0, <1>1, <2>7 DEF RowsOf, AssignmentRow, TypeOK
    <3>5. {s \in RowsOf(history', c) : s.version # None /\ revokeAt'[s.version] = 0}
             = {s \in RowsOf(left, c) : s.version # None /\ revokeAt[s.version] = 0}
      <4> HIDE DEF left
      <4> QED
        BY <3>3, <3>4 DEF RowsOf
    <3>6. NewestValid(history', revokeAt', c) = NewestValid(left, revokeAt, c)
      <4> HIDE DEF left
      <4> QED
        BY <3>5 DEF NewestValid
    <3>7. QED
      BY <2>3, <2>9, <3>2, <3>6 DEF ValidMove, QueuedFor
  <2>10. QED
    BY <2>8, <2>9
<1>7. QED
  BY <1>5, <1>6

\* A revocation moves the channels it is asked to roll back, where there is a
\* version to move them to, and no other.
LEMMA RevocationMoves ==
    ASSUME RowsInv, NEW v \in Versions, NEW delay \in Delays, NEW skip \in BOOLEAN,
           NEW keep \in BOOLEAN, RevokeVersion(v, delay, skip, keep),
           NEW c \in Channels, channels[c] = "live"
    PROVE  \/ /\ Selected(history', c) # {} /\ ValidMove(c) /\ QueuedFor(c)
           \/ /\ RowsOf(history', c) = RowsOf(history, c)
              /\ \/ keep
                 \/ NewestValid(history', revokeAt', c) = {}
                 \/ \A w \in Selected(history, c) : ~NewlyRevokedBy(w)
<1>0. TypeOK /\ OneRowPerStamp /\ RowsWithinBucket
  BY DEF RowsInv, IInv
<1> DEFINE taken == NewlyRevoked(v, skip)
           revoked(at) == [w \in Versions |->
                              IF w \in taken THEN at + delay ELSE revokeAt[w]]
           from == [w \in Versions |->
                       IF w \in taken \ {v} THEN v ELSE inheritedFrom[w]]
           rollback(at) == {p \in ChannelsToRollBack(v, from) \X Versions :
                              p[2] \in NewestValid(history, revoked(at), p[1])}
           pairs(at) == IF keep THEN {} ELSE rollback(at)
<1>1. PICK at \in 1..MaxClock :
         /\ Stamp(at)
         /\ revokeAt' = revoked(at)
         /\ RecordAssignments(history, pending, builds, pairs(at), at)
  BY DEF RevokeVersion
<1>2. /\ at = clock + 1 /\ builds' = builds
      /\ history' = history \cup AssignmentRows(pairs(at), at)
      /\ pending' = pending \cup UNION {DoneBuildsOf(builds, p[2]) : p \in pairs(at)}
  BY <1>1 DEF RecordAssignments, Stamp, RevokeVersion
<1>3. history \in SUBSET AssignmentRow /\ history \in SUBSET history
  BY <1>0 DEF TypeOK
<1>4. \A p \in pairs(at) : p[2] \in NewestValid(history, revokeAt', p[1])
  BY <1>1
<1>5. \A p \in pairs(at) : p[2] \in Versions /\ p[2] # None /\ revokeAt'[p[2]] = 0
  <2> HIDE DEF pairs
  <2> QED
    BY <1>3, <1>4, NewestValidInHistory, RegistryAssumption
<1>6. \A p, q \in pairs(at) : p[1] = q[1] => p[2] = q[2]
  <2> HIDE DEF pairs
  <2> QED
    BY <1>0, <1>3, <1>4, NewestValidUnique
<1>7. CASE \E p \in pairs(at) : p[1] = c
  <2>1. PICK p \in pairs(at) : p[1] = c
    BY <1>7
  <2>2. Selected(history', c) = {p[2]}
    <3>1. Ahead(history, at)
      BY <1>2, <1>3, NextStampNewer
    <3>2. <<c, p[2]>> \in pairs(at)
      BY <2>1
    <3>3. Sends(pairs(at), c, p[2])
      <4> HIDE DEF pairs
      <4> QED
        BY <1>6, <2>1, <3>2 DEF Sends
    <3>4. Selected(history', c) = {p[2]} \ {None}
      <4> HIDE DEF pairs
      <4> QED
        BY <1>2, <3>1, <3>3, RecordedSelects
    <3>5. QED
      <4> HIDE DEF pairs
      <4> QED
        BY <1>5, <2>1, <3>4
  <2>3. DoneBuildsOf(builds', p[2]) \subseteq pending'
    <3> HIDE DEF pairs
    <3> QED
      BY <1>2, <2>1
  <2>4. QED
    <3> HIDE DEF pairs
    <3> QED
      BY <1>5, <2>1, <2>2, <2>3 DEF ValidMove, QueuedFor
<1>8. CASE \A p \in pairs(at) : p[1] # c
  <2>1. RowsOf(history', c) = RowsOf(history, c)
    <3> HIDE DEF pairs
    <3> QED
      BY <1>2, <1>8, RecordedKeeps
  <2>2. ASSUME ~keep, NEW w \in Selected(history, c), NewlyRevokedBy(w)
        PROVE  NewestValid(history', revokeAt', c) = {}
    <3>1. w \in Versions
      BY <1>3 DEF Selected, Newest, RowsOf, AssignmentRow
    <3>2. w \in taken
      BY <1>1, <2>2, <3>1 DEF NewlyRevokedBy, Revoked
    <3>3. w = v \/ from[w] = v
      BY <3>1, <3>2
    <3>4. c \in ChannelsToRollBack(v, from)
      <4> HIDE DEF from
      <4> QED
        BY <2>2, <3>3 DEF ChannelsToRollBack, LiveChannels
    <3>5. ASSUME NEW t \in NewestValid(history, revokeAt', c) PROVE FALSE
      <4>1. t \in Versions
        BY <1>3, NewestValidInHistory
      <4>2. <<c, t>> \in rollback(at)
        <5> HIDE DEF from
        <5> QED
          BY <1>1, <3>4, <3>5, <4>1
      <4>3. <<c, t>> \in pairs(at)
        BY <2>2, <4>2
      <4>4. QED
        <5> HIDE DEF pairs
        <5> QED
          BY <1>8, <4>3
    <3>6. NewestValid(history', revokeAt', c) = NewestValid(history, revokeAt', c)
      BY <2>1 DEF NewestValid
    <3>7. QED
      BY <3>5, <3>6
  <2>3. QED
    BY <2>1, <2>2
<1>9. QED
  BY <1>7, <1>8

\* A revocation with rollback leaves no live channel on a version it revokes,
\* inherited ones included, while the channel's history holds a valid one.
THEOREM RevokedChannelsRollBackHolds == Spec => RevokedChannelsRollBack
<1> DEFINE Left == \A v \in Versions, delay \in Delays, skip \in BOOLEAN :
          NewlyRevokedBy(v) /\ RevokeVersion(v, delay, skip, FALSE) =>
              \A c \in LiveChannels : \A w \in Selected(history', c) :
                  NewlyRevokedBy(w) => NewestValid(history', revokeAt', c) = {}
<1>1. ASSUME RowsInv, [Next]_vars PROVE [Left]_vars
  <2> SUFFICES ASSUME NEW v \in Versions, NEW delay \in Delays, NEW skip \in BOOLEAN,
                      RevokeVersion(v, delay, skip, FALSE),
                      NEW c \in LiveChannels, NEW w \in Selected(history', c),
                      NewlyRevokedBy(w)
               PROVE  NewestValid(history', revokeAt', c) = {}
    OBVIOUS
  <2>1. c \in Channels /\ channels[c] = "live"
    BY DEF LiveChannels
  <2>2. CASE ValidMove(c)
    BY <2>2 DEF ValidMove, NewlyRevokedBy, Revoked
  <2>3. CASE RowsOf(history', c) = RowsOf(history, c)
             /\ \A u \in Selected(history, c) : ~NewlyRevokedBy(u)
    BY <2>3 DEF Selected
  <2>4. QED
    BY <1>1, <2>1, <2>2, <2>3, RevocationMoves
<1>2. QED
  BY <1>1, RowsInvariance, PTL DEF Spec, RevokedChannelsRollBack

\* Deleting a bucket takes no row of a channel that stays: the rows of a channel
\* are of versions of its own bucket.
LEMMA CascadeKeepsRows ==
    ASSUME RowsInv, NEW b \in Buckets, DeleteBucket(b),
           NEW c \in Channels, channels'[c] = "live"
    PROVE  channels[c] = "live" /\ RowsOf(history', c) = RowsOf(history, c)
<1>1. channels[c] = "live" /\ BucketOfChannel[c] # b
  BY DEF DeleteBucket
<1>2. \A r \in history : r.channel = c => r \in history'
  <2> SUFFICES ASSUME NEW r \in history, r.channel = c,
                      r.version \in LiveVersions, BucketOfVersion[r.version] = b
               PROVE  FALSE
    BY DEF DeleteBucket
  <2>1. r.version # None
    BY RegistryAssumption DEF LiveVersions
  <2>2. QED
    BY <1>1, <2>1 DEF RowsInv, RowsWithinBucket
<1>3. history' \subseteq history
  BY DEF DeleteBucket
<1>4. QED
  BY <1>1, <1>2, <1>3 DEF RowsOf

\* When a revocation or a deletion moves a channel it lands on an unrevoked
\* version, and it is emptied only when its history holds none.
THEOREM RollbackLandsOnValidHolds == Spec => RollbackLandsOnValid
<1> DEFINE Lands == \A c \in LiveChannels :
          /\ \E v \in Versions : \/ NewlyRevokedBy(v) /\ sequence'[v] = sequence[v]
                                \/ versions'[v] # versions[v]
          /\ channels'[c] = "live"
          /\ Selected(history', c) # Selected(history, c)
          => /\ \A v \in Selected(history', c) : revokeAt'[v] = 0
             /\ Selected(history', c) = {}
                   => NewestValid(history', revokeAt', c) = {}
<1>1. ASSUME RowsInv, [Next]_vars PROVE [Lands]_vars
  <2> SUFFICES ASSUME NEW c \in Channels, channels[c] = "live",
                      NEW v \in Versions,
                      \/ NewlyRevokedBy(v) /\ sequence'[v] = sequence[v]
                      \/ versions'[v] # versions[v],
                      channels'[c] = "live",
                      Selected(history', c) # Selected(history, c)
               PROVE  ValidMove(c)
    BY DEF ValidMove, LiveChannels
  <2>1. history' # history /\ RowsOf(history', c) # RowsOf(history, c)
    BY DEF Selected
  <2>2. ASSUME NEW b \in Buckets, DeleteBucket(b) PROVE FALSE
    BY <1>1, <2>1, <2>2, CascadeKeepsRows
  <2>3. ASSUME NEW u \in Versions, DeleteVersion(u) PROVE ValidMove(c)
    BY <1>1, <2>3, DeletionMoves
  <2>4. ASSUME NEW u \in Versions, NEW delay \in Delays, NEW skip \in BOOLEAN,
               NEW keep \in BOOLEAN, RevokeVersion(u, delay, skip, keep)
        PROVE  ValidMove(c)
    BY <1>1, <2>1, <2>4, RevocationMoves
  <2>5. ASSUME NEW b \in Builds, NEW row \in BuildRow, UpdateBuild(b, row) PROVE FALSE
    <3> DEFINE u == VersionOfBuild[b]
               rows == [builds EXCEPT ![b] = row]
    <3>1. Completes(rows, u) /\ CompleteVersion(u, rows)
      BY <2>1, <2>5 DEF UpdateBuild
    <3>2. u \in Versions /\ sequence \in [Versions -> Nat] /\ revokeAt \in [Versions -> Nat]
      BY <1>1, RegistryAssumption DEF RowsInv, IInv, TypeOK
    <3>3. sequence'[u] # sequence[u]
      <4>1. PICK n \in 1..MaxSequence : sequence' = [sequence EXCEPT ![u] = n]
        BY <3>1 DEF CompleteVersion
      <4>2. ~(sequence[u] > 0)
        BY <3>1 DEF Completes, Complete
      <4>3. QED
        BY <3>2, <4>1, <4>2, RegistryAssumption
    <3>4. versions' = versions /\ InheritParentRevocation(u, row.parent)
      BY <2>5 DEF UpdateBuild, lives
    <3>5. \A w \in Versions \ {u} : revokeAt'[w] = revokeAt[w]
      BY <3>2, <3>4 DEF InheritParentRevocation, revocation
    <3>6. QED
      BY <3>3, <3>4, <3>5 DEF NewlyRevokedBy, Revoked
  <2>6. UNCHANGED <<versions, revokeAt>> => FALSE
    BY DEF NewlyRevokedBy, Revoked
  <2>7. CASE \E d \in Channels : CreateChannel(d) \/ ClearChannel(d) \/ DeleteChannel(d)
    BY <2>1, <2>6, <2>7 DEF CreateChannel, ClearChannel, DeleteChannel, lives, revocation
  <2>8. CASE \E d \in Channels, w \in Versions : UpdateChannel(d, w)
    BY <2>6, <2>8 DEF UpdateChannel, AssignVersion, lives, revocation
  <2>9. CASE \E d, e \in Channels : AssignChannelVersion(d, e)
    BY <2>6, <2>9 DEF AssignChannelVersion, AssignVersion, lives, revocation
  <2>10. CASE \/ \E b \in Buckets : CreateBucket(b)
              \/ \E w \in Versions : CreateVersion(w) \/ RestoreRevokedVersion(w)
              \/ \E b \in Builds, status \in BuildStatus, parent \in Versions \cup {None} :
                    CreateBuild(b, status, parent)
              \/ \E b \in Builds : DeleteBuild(b) \/ DeletePendingScan(b)
    BY <2>1, <2>10 DEF CreateBucket, CreateVersion, RestoreRevokedVersion, CreateBuild,
                       DeleteBuild, DeletePendingScan
  <2>11. CASE UNCHANGED vars
    BY <2>1, <2>11 DEF vars
  <2>12. QED
    BY <1>1, <2>2, <2>3, <2>4, <2>5, <2>7, <2>8, <2>9, <2>10, <2>11 DEF Next
<1>2. QED
  BY <1>1, RowsInvariance, PTL DEF Spec, RollbackLandsOnValid

-----------------------------------------------------------------------------
(* Scans: what a step makes a channel select is queued by that step, and      *)
(* what it finishes below a selection is queued too.                          *)

\* Assigning one version moves one channel and queues the done builds.
LEMMA AssignedSelects ==
    ASSUME RowsInv, NEW rows, rows = builds', NEW d, NEW v, NEW at, at = clock + 1,
           RecordAssignments(history, pending, rows, {<<d, v>>}, at), NEW c
    PROVE  Selected(history', c) = Selected(history, c) \/ QueuedFor(c)
<1> DEFINE pairs == {<<d, v>>}
<1>1. history' = history \cup AssignmentRows(pairs, at)
      /\ DoneBuildsOf(rows, v) \subseteq pending'
  BY DEF RecordAssignments
<1>2. CASE c # d
  <2>1. \A p \in pairs : p[1] # c
    BY <1>2
  <2>2. RowsOf(history', c) = RowsOf(history, c)
    <3> HIDE DEF pairs
    <3> QED
      BY <1>1, <2>1, RecordedKeeps
  <2>3. QED
    BY <2>2 DEF Selected
<1>3. CASE c = d
  <2>1. Sends(pairs, c, v)
    BY <1>3 DEF Sends
  <2>2. history \in SUBSET history
    OBVIOUS
  <2>3. Ahead(history, at)
    BY <2>2, NextStampNewer
  <2>4. Selected(history', c) \subseteq {v}
    <3>1. Selected(history', c) = {v} \ {None}
      <4> HIDE DEF pairs
      <4> QED
        BY <1>1, <2>1, <2>3, RecordedSelects
    <3>2. QED
      BY <3>1
  <2>5. QED
    BY <1>1, <2>4 DEF QueuedFor
<1>4. QED
  BY <1>2, <1>3

\* A live channel selects after a step what it selected before it, or a version
\* whose done builds that step queued.
SelectionStep ==
    \A c \in Channels : channels'[c] = "live" =>
        \/ channels[c] = "live" /\ Selected(history', c) = Selected(history, c)
        \/ QueuedFor(c)

LEMMA SelectionStepOfNext == RowsInv /\ [Next]_vars => SelectionStep
<1> SUFFICES ASSUME RowsInv, [Next]_vars, NEW c \in Channels, channels'[c] = "live"
             PROVE  \/ channels[c] = "live" /\ Selected(history', c) = Selected(history, c)
                    \/ QueuedFor(c)
  BY DEF SelectionStep
<1> DEFINE Moved == \/ channels[c] = "live" /\ Selected(history', c) = Selected(history, c)
                    \/ QueuedFor(c)
<1>0. TypeOK /\ RowsOfBorn /\ BucketsHold
  BY DEF RowsInv, IInv
<1>1. UNCHANGED <<channels, history>> => Moved
  OBVIOUS
<1>2. channels[c] = "unborn" /\ history' = history => QueuedFor(c)
  <2>1. channels[c] = "unborn" => RowsOf(history, c) = {}
    BY <1>0 DEF RowsOfBorn, RowsOf
  <2>2. QED
    BY <2>1 DEF QueuedFor, Selected, Newest
<1>3. ASSUME NEW d \in Channels, NEW v \in Versions, NEW at, Stamp(at),
             RecordAssignments(history, pending, builds, {<<d, v>>}, at), builds' = builds
      PROVE  Selected(history', c) = Selected(history, c) \/ QueuedFor(c)
  <2>1. at = clock + 1
    BY <1>3 DEF Stamp
  <2>2. QED
    BY <1>3, <2>1, AssignedSelects
<1>4. ASSUME NEW b \in Buckets, CreateBucket(b) PROVE Moved
  <2>1. history' = history /\ channels' = [channels EXCEPT ![Latest[b]] = "live"]
    BY <1>4 DEF CreateBucket
  <2>2. CASE c = Latest[b]
    BY <1>0, <1>2, <1>4, <2>1, <2>2 DEF BucketsHold, CreateBucket
  <2>3. CASE c # Latest[b]
    BY <1>0, <2>1, <2>3 DEF TypeOK
  <2>4. QED
    BY <2>2, <2>3
<1>5. ASSUME NEW b \in Buckets, DeleteBucket(b) PROVE Moved
  BY <1>5, CascadeKeepsRows DEF Selected
<1>6. ASSUME NEW v \in Versions, DeleteVersion(v) PROVE Moved
  <2>1. channels[c] = "live"
    BY <1>6 DEF DeleteVersion
  <2>2. QED
    BY <1>6, <2>1, DeletionMoves
<1>7. ASSUME NEW v \in Versions, NEW delay \in Delays, NEW skip \in BOOLEAN,
             NEW keep \in BOOLEAN, RevokeVersion(v, delay, skip, keep)
      PROVE  Moved
  <2>1. channels[c] = "live"
    BY <1>7 DEF RevokeVersion, lives
  <2>2. QED
    BY <1>7, <2>1, RevocationMoves DEF Selected
<1>8. ASSUME NEW b \in Builds, NEW row \in BuildRow, UpdateBuild(b, row) PROVE Moved
  <2> DEFINE v == VersionOfBuild[b]
             rows == [builds EXCEPT ![b] = row]
             latest == Latest[BucketOfVersion[v]]
  <2>1. channels[c] = "live" /\ builds' = rows
    BY <1>8 DEF UpdateBuild, lives
  <2>2. CASE Completes(rows, v)
    <3>1. PICK at \in 1..MaxClock :
             /\ Stamp(at)
             /\ RecordAssignments(history, pending, rows,
                   IF ActiveAt(revokeAt'[v], at) THEN {<<latest, v>>} ELSE {}, at)
      BY <1>8, <2>2 DEF UpdateBuild, CompleteVersion
    <3>2. CASE ActiveAt(revokeAt'[v], at)
      <4>1. RecordAssignments(history, pending, rows, {<<latest, v>>}, at)
        BY <3>1, <3>2
      <4>2. at = clock + 1
        BY <3>1 DEF Stamp
      <4>3. QED
        <5> HIDE DEF rows, v, latest
        <5> QED
          BY <2>1, <4>1, <4>2, AssignedSelects
    <3>3. CASE ~ActiveAt(revokeAt'[v], at)
      <4>1. history' = history
        BY <3>1, <3>3 DEF RecordAssignments, AssignmentRows
      <4>2. QED
        BY <2>1, <4>1
    <3>4. QED
      BY <3>2, <3>3
  <2>3. CASE ~Completes(rows, v)
    BY <1>8, <2>1, <2>3 DEF UpdateBuild
  <2>4. QED
    BY <2>2, <2>3
<1>9. ASSUME NEW d \in Channels, NEW v \in Versions, AssignVersion(d, v) PROVE Moved
  <2>1. channels' = channels /\ builds' = builds
    BY <1>9 DEF AssignVersion, lives
  <2>2. QED
    BY <1>3, <1>9, <2>1 DEF AssignVersion
<1>10. ASSUME NEW d \in Channels, NEW e \in Channels, AssignChannelVersion(d, e) PROVE Moved
  <2>1. PICK v \in Selected(history, d) : AssignVersion(e, v)
    BY <1>10 DEF AssignChannelVersion
  <2>2. v \in Versions
    BY <1>0 DEF Selected, Newest, RowsOf, TypeOK, AssignmentRow
  <2>3. QED
    BY <1>9, <2>1, <2>2
<1>11. ASSUME NEW d \in Channels, CreateChannel(d) PROVE Moved
  <2>1. channels' = [channels EXCEPT ![d] = "live"] /\ channels[d] = "unborn"
        /\ builds' = builds
    BY <1>11 DEF CreateChannel
  <2>2. channels[c] = "live" \/ c = d
    BY <1>0, <2>1 DEF TypeOK
  <2>3. CASE UNCHANGED history
    BY <1>2, <2>1, <2>2, <2>3
  <2>4. ASSUME NEW v \in Versions, NEW at, Stamp(at),
               RecordAssignments(history, pending, builds, {<<d, v>>}, at)
        PROVE  Moved
    <3>1. CASE c # d
      BY <1>3, <2>1, <2>2, <2>4, <3>1
    <3>2. CASE c = d
      <4>1. DoneBuildsOf(builds, v) \subseteq pending' /\ at = clock + 1
        BY <2>4 DEF RecordAssignments, Stamp
      <4>2. RowsOf(history, c) = {}
        BY <1>0, <2>1, <3>2 DEF RowsOfBorn, RowsOf
      <4>3. \A r \in RowsOf(history', c) : r.version = v
        BY <2>4, <4>2 DEF RecordAssignments, AssignmentRows, RowsOf
      <4>4. Selected(history', c) \subseteq {v}
        BY <4>3 DEF Selected, Newest
      <4>5. QED
        BY <2>1, <4>1, <4>4 DEF QueuedFor
    <3>3. QED
      BY <3>1, <3>2
  <2>5. QED
    BY <1>11, <2>3, <2>4 DEF CreateChannel
<1>12. ASSUME NEW d \in Channels, ClearChannel(d) PROVE Moved
  <2> DEFINE pairs == {<<d, None>>}
  <2>1. PICK at : at = clock + 1 /\ history' = history \cup AssignmentRows(pairs, at)
    BY <1>12 DEF ClearChannel, Stamp
  <2>2. channels' = channels
    BY <1>12 DEF ClearChannel, lives
  <2>3. CASE c # d
    <3>1. \A p \in pairs : p[1] # c
      BY <2>3
    <3>2. RowsOf(history', c) = RowsOf(history, c)
      <4> HIDE DEF pairs
      <4> QED
        BY <2>1, <3>1, RecordedKeeps
    <3>3. QED
      BY <2>2, <3>2 DEF Selected
  <2>4. CASE c = d
    <3>1. Sends(pairs, c, None) /\ history \in SUBSET history
      BY <2>4 DEF Sends
    <3>2. Selected(history', c) = {None} \ {None}
      <4> HIDE DEF pairs
      <4> QED
        BY <2>1, <3>1, NextStampNewer, RecordedSelects
    <3>3. QED
      BY <3>2 DEF QueuedFor
  <2>5. QED
    BY <2>3, <2>4
<1>13. ASSUME NEW d \in Channels, DeleteChannel(d) PROVE Moved
  BY <1>0, <1>13 DEF DeleteChannel, TypeOK
<1>14. CASE \/ \E v \in Versions : CreateVersion(v) \/ RestoreRevokedVersion(v)
            \/ \E b \in Builds, status \in BuildStatus, parent \in Versions \cup {None} :
                  CreateBuild(b, status, parent)
            \/ \E b \in Builds : DeleteBuild(b) \/ DeletePendingScan(b)
  BY <1>1, <1>14 DEF CreateVersion, RestoreRevokedVersion, CreateBuild,
                     DeleteBuild, DeletePendingScan, lives
<1>15. CASE UNCHANGED vars
  BY <1>1, <1>15 DEF vars
<1>16. QED
  BY <1>4, <1>5, <1>6, <1>7, <1>8, <1>9, <1>10, <1>11, <1>12, <1>13, <1>14, <1>15
  DEF Next, UpdateChannel

\* The row of a build that stays changes only when the build is updated.
LEMMA OnlyUpdateChanges ==
    ASSUME TypeOK, [Next]_vars, NEW b \in Builds, builds[b] # None, builds'[b] # None,
           builds'[b] # builds[b]
    PROVE  \E row \in BuildRow : UpdateBuild(b, row)
<1>1. ASSUME NEW x \in Builds, NEW row \in BuildRow, UpdateBuild(x, row)
      PROVE  UpdateBuild(b, row)
  BY <1>1 DEF UpdateBuild, TypeOK
<1>2. ASSUME NEW x \in Builds, NEW status \in BuildStatus,
             NEW parent \in Versions \cup {None}, CreateBuild(x, status, parent)
      PROVE  FALSE
  BY <1>2 DEF CreateBuild, TypeOK
<1>3. CASE \/ \E x \in Buckets : CreateBucket(x) \/ DeleteBucket(x)
           \/ \E v \in Versions :
                 CreateVersion(v) \/ DeleteVersion(v) \/ RestoreRevokedVersion(v)
           \/ \E v \in Versions, delay \in Delays, skip, keep \in BOOLEAN :
                 RevokeVersion(v, delay, skip, keep)
           \/ \E x \in Builds : DeleteBuild(x) \/ DeletePendingScan(x)
  BY <1>3 DEF CreateBucket, DeleteBucket, CreateVersion, DeleteVersion,
              RestoreRevokedVersion, RevokeVersion, DeleteBuild, DeletePendingScan, TypeOK
<1>4. CASE \/ \E c \in Channels, v \in Versions : UpdateChannel(c, v)
           \/ \E c, d \in Channels : AssignChannelVersion(c, d)
           \/ \E c \in Channels : CreateChannel(c) \/ ClearChannel(c) \/ DeleteChannel(c)
  BY <1>4 DEF UpdateChannel, AssignChannelVersion, AssignVersion, CreateChannel,
              ClearChannel, DeleteChannel
<1>5. CASE UNCHANGED vars
  BY <1>5 DEF vars
<1>6. QED
  BY <1>1, <1>2, <1>3, <1>4, <1>5 DEF Next

\* A build that becomes eligible for scanning is queued by the step that made it
\* so, whether it finished or a channel came to select its version.
THEOREM EligibleQueuedHolds == Spec => EligibleQueued
<1> DEFINE Queued == \A b \in Builds : Eligible(b)' /\ ~Eligible(b) /\ builds[b] # None
                        => b \in pending'
<1>1. ASSUME RowsInv, [Next]_vars PROVE [Queued]_vars
  <2> SUFFICES ASSUME NEW b \in Builds, Eligible(b)', ~Eligible(b), builds[b] # None
               PROVE  b \in pending'
    OBVIOUS
  <2> DEFINE v == VersionOfBuild[b]
  <2>1. PICK c \in Channels : channels'[c] = "live" /\ v \in Selected(history', c)
    BY DEF Eligible, LiveChannels
  <2>2. builds'[b] # None /\ builds'[b].status = "done"
    BY DEF Eligible
  <2>3. CASE QueuedFor(c)
    BY <2>1, <2>2, <2>3 DEF QueuedFor, DoneBuildsOf, BuildsOf
  <2>4. CASE channels[c] = "live" /\ Selected(history', c) = Selected(history, c)
    <3>1. v \in Selected(history, c) /\ c \in LiveChannels
      BY <2>1, <2>4 DEF LiveChannels
    <3>2. Complete(v)
      BY <1>1, <3>1 DEF RowsInv, IInv, AssignedComplete, Selected, Newest, RowsOf
    <3>3. builds[b].status # "done"
      BY <3>1, <3>2 DEF Eligible
    <3>4. TypeOK
      BY <1>1 DEF RowsInv, IInv
    <3>5. PICK row \in BuildRow : UpdateBuild(b, row)
      BY <1>1, <2>2, <3>3, <3>4, OnlyUpdateChanges
    <3>6. builds' = [builds EXCEPT ![b] = row] /\ row.status = "done"
      BY <2>2, <3>4, <3>5 DEF UpdateBuild, TypeOK
    <3>7. EnqueueFinished(b, builds')
      BY <3>2, <3>5, <3>6 DEF UpdateBuild, Completes
    <3>8. QED
      BY <2>2, <3>1, <3>2, <3>3, <3>7 DEF EnqueueFinished
  <2>5. QED
    BY <1>1, <2>1, <2>3, <2>4, SelectionStepOfNext DEF SelectionStep
<1>2. QED
  BY <1>1, RowsInvariance, PTL DEF Spec, EligibleQueued

=============================================================================
