---------------------------- MODULE BagDrop_proofs ----------------------------
(***************************************************************************)
(* No mirrored bucket is ever left without an association that answers for   *)
(* it, for any number of buckets, versions, edits, requests and faults.      *)
(*                                                                         *)
(* The association is marked before the first call to the destination is     *)
(* made, the mark outlives every request, and it is lifted only by the step  *)
(* that follows a deletion, before anything else can be made there.          *)
(*                                                                         *)
(* Then that a recorded success is a full mirror of what the pass has read,  *)
(* and the types of all variables.                                          *)
(***************************************************************************)
EXTENDS BagDrop, TLAPS

\* The parts of the state that the two arguments read, and no more of their types.
Shape ==
    /\ assoc \in [Buckets -> Association]
    /\ DOMAIN remote = Buckets
    /\ DOMAIN pass = {"at", "bucket", "todo", "listed", "snapshot",
                      "half", "begun", "skipped", "failed"}
    /\ pass.todo \subseteq Buckets

\* A pass that may call the destination for a bucket has marked its
\* association, and the mark stands.
Marked ==
    pass.at \in {"mirror", "drift", "record"} =>
        pass.bucket \in Buckets /\ assoc[pass.bucket].attempted

\* A pass about to lift the mark has seen the bucket deleted.
Deleted ==
    pass.at = "unlink" => pass.bucket \in Buckets /\ remote[pass.bucket] = Gone

IInv == Shape /\ Marked /\ Deleted /\ NoOrphanMirror

LEMMA InitIInv == Init => IInv
  <1> SUFFICES ASSUME Init PROVE IInv
    OBVIOUS
  <1> DEFINE active == [None EXCEPT !.state = "active"]
  <1>1. None \in Association
    BY DEF None, Association
  <1>2. active \in Association
    BY <1>1 DEF Association
  <1>3. assoc = [b \in Buckets |-> IF b \in Associated THEN active ELSE None]
    BY DEF Init
  <1> HIDE DEF active
  <1>4. assoc \in [Buckets -> Association]
    BY <1>1, <1>2, <1>3
  <1>5. pass = Idle /\ remote = [b \in Buckets |-> Gone]
    BY DEF Init
  <1> QED
    BY <1>4, <1>5 DEF IInv, Shape, Marked, Deleted, NoOrphanMirror, Idle

\* Steps that touch neither the destination nor the pass and keep every mark.
LEMMA MarksStay ==
    ASSUME IInv, UNCHANGED <<remote, pass>>, assoc' \in [Buckets -> Association],
           \A b \in Buckets : assoc[b].attempted => assoc'[b].attempted
    PROVE  IInv'
  BY DEF IInv, Shape, Marked, Deleted, NoOrphanMirror

\* The pass ends, or moves on to the next association.
LEMMA PassMovesOn ==
    ASSUME IInv, UNCHANGED remote, assoc' \in [Buckets -> Association],
           \A b \in Buckets : assoc[b].attempted => assoc'[b].attempted,
           \/ pass' = Idle
           \/ /\ DOMAIN pass' = DOMAIN pass
              /\ pass'.at \notin {"mirror", "drift", "record", "unlink"}
              /\ pass'.todo \subseteq Buckets
    PROVE  IInv'
  <1>1. CASE pass' = Idle
    BY <1>1 DEF IInv, Shape, Marked, Deleted, NoOrphanMirror, Idle
  <1>2. CASE pass' # Idle
    BY <1>2 DEF IInv, Shape, Marked, Deleted, NoOrphanMirror
  <1> QED  BY <1>1, <1>2

\* Recording a result changes the synced field and keeps the mark.
LEMMA SyncedKeepsMarks ==
    ASSUME assoc \in [Buckets -> Association], NEW b \in Buckets,
           NEW how \in {"never", "synced", "error"},
           assoc' = [assoc EXCEPT ![b].synced = how]
    PROVE  /\ assoc' \in [Buckets -> Association]
           /\ \A c \in Buckets : assoc'[c].attempted = assoc[c].attempted
  BY DEF Association

LEMMA FailsKeeps ==
    ASSUME IInv, pass.at \in {"mirror", "drift"}, NEW unaudited \in BOOLEAN,
           Fails(unaudited)
    PROVE  /\ assoc' \in [Buckets -> Association]
           /\ \A c \in Buckets : assoc'[c].attempted = assoc[c].attempted
           /\ \/ pass' = Idle
              \/ /\ DOMAIN pass' = DOMAIN pass
                 /\ pass'.at = "next"
                 /\ pass'.todo = pass.todo
  <1>1. pass.bucket \in Buckets
    BY DEF IInv, Marked
  <1>2. assoc' = [assoc EXCEPT ![pass.bucket].synced = "error"]
    BY DEF Fails
  <1>3. CASE unaudited
    BY <1>1, <1>2, <1>3, SyncedKeepsMarks DEF Fails, EndPass, IInv, Shape
  <1>4. CASE ~ unaudited
    <2>1. pass' = [pass EXCEPT !.at = "next", !.bucket = Gone, !.failed = TRUE]
      BY <1>4 DEF Fails
    <2>2. DOMAIN pass' = DOMAIN pass /\ pass'.at = "next" /\ pass'.todo = pass.todo
      BY <2>1 DEF IInv, Shape
    <2> QED  BY <1>1, <1>2, <2>2, SyncedKeepsMarks DEF IInv, Shape
  <1> QED  BY <1>3, <1>4

\* A call to the destination concerns the bucket of the pass, which is marked,
\* whether it succeeds or fails, with its effect or without it.
LEMMA MutateKeeps ==
    ASSUME IInv, pass.at \in {"mirror", "drift"}, NEW mirror, NEW then,
           Mutate(mirror, then), DOMAIN then = DOMAIN pass,
           then.bucket = pass.bucket, then.todo = pass.todo,
           then.at = pass.at \/ (then.at = "unlink" /\ mirror = Gone)
    PROVE  IInv'
  <1>1. pass.bucket \in Buckets /\ assoc[pass.bucket].attempted
    BY DEF IInv, Marked
  <1>2. CASE /\ remote' = [remote EXCEPT ![pass.bucket] = mirror]
             /\ pass' = then
             /\ UNCHANGED assoc
    <2>1. DOMAIN remote' = Buckets /\ remote'[pass.bucket] = mirror
          /\ \A b \in Buckets \ {pass.bucket} : remote'[b] = remote[b]
      BY <1>1, <1>2 DEF IInv, Shape
    <2>2. Shape'
      BY <1>2, <2>1 DEF IInv, Shape
    <2>3. Marked' /\ Deleted'
      BY <1>1, <1>2, <2>1 DEF Marked, Deleted
    <2>4. NoOrphanMirror'
      BY <1>1, <1>2, <2>1 DEF IInv, NoOrphanMirror
    <2> QED  BY <2>2, <2>3, <2>4 DEF IInv
  <1>3. CASE /\ remote' \in {remote, [remote EXCEPT ![pass.bucket] = mirror]}
             /\ \E unaudited \in BOOLEAN : Fails(unaudited)
    <2>1. /\ assoc' \in [Buckets -> Association]
          /\ \A c \in Buckets : assoc'[c].attempted = assoc[c].attempted
          /\ \/ pass' = Idle
             \/ /\ DOMAIN pass' = DOMAIN pass
                /\ pass'.at = "next"
                /\ pass'.todo = pass.todo
      BY <1>3, FailsKeeps
    <2>2. DOMAIN remote' = Buckets
          /\ \A b \in Buckets \ {pass.bucket} : remote'[b] = remote[b]
      BY <1>1, <1>3 DEF IInv, Shape
    <2>3. NoOrphanMirror'
      BY <1>1, <2>1, <2>2 DEF IInv, NoOrphanMirror
    <2>4. CASE pass' = Idle
      BY <2>1, <2>2, <2>3, <2>4 DEF IInv, Shape, Marked, Deleted, Idle
    <2>5. CASE pass' # Idle
      BY <2>1, <2>2, <2>3, <2>5 DEF IInv, Shape, Marked, Deleted
    <2> QED  BY <2>4, <2>5
  <1> QED  BY <1>2, <1>3 DEF Mutate, store

-----------------------------------------------------------------------------
\* The service.

LEMMA AssociatePutKeeps ==
    ASSUME IInv, NEW b \in Buckets, AssociatePut(b)
    PROVE  IInv'
  <1>1. UNCHANGED <<remote, pass>>
    BY DEF AssociatePut
  <1>2. CASE config = "absent"
    BY <1>1, <1>2, MarksStay DEF AssociatePut, IInv, Shape
  <1>3. CASE config # "absent"
    <2> DEFINE row == [assoc[b] EXCEPT !.state = "active",
                          !.synced = IF assoc[b].synced = "error" THEN "never"
                                     ELSE assoc[b].synced]
    <2>1. assoc[b] \in Association
      BY DEF IInv, Shape
    <2>2. row \in Association /\ row.attempted = assoc[b].attempted
      BY <2>1 DEF Association
    <2>3. assoc' = [assoc EXCEPT ![b] = row]
      BY <1>3 DEF AssociatePut
    <2> HIDE DEF row
    <2>4. assoc' \in [Buckets -> Association]
          /\ \A c \in Buckets : assoc'[c].attempted = assoc[c].attempted
      BY <2>2, <2>3 DEF IInv, Shape
    <2> QED  BY <1>1, <2>4, MarksStay
  <1> QED  BY <1>2, <1>3

LEMMA UnassociateKeeps ==
    ASSUME IInv, NEW b \in Buckets, Unassociate(b)
    PROVE  IInv'
  <1> DEFINE row == IF assoc[b].attempted
                    THEN [assoc[b] EXCEPT !.state = "pending_removal"] ELSE None
  <1>1. UNCHANGED <<remote, pass>>
    BY DEF Unassociate
  <1>2. assoc[b] \in Association
    BY DEF IInv, Shape
  <1>3. row \in Association /\ (assoc[b].attempted => row.attempted)
    BY <1>2 DEF Association, None
  <1>4. assoc' = [assoc EXCEPT ![b] = row]
    BY DEF Unassociate
  <1> HIDE DEF row
  <1>5. assoc' \in [Buckets -> Association]
        /\ \A c \in Buckets : assoc[c].attempted => assoc'[c].attempted
    BY <1>3, <1>4 DEF IInv, Shape
  <1> QED  BY <1>1, <1>5, MarksStay

\* The statement is refused while any association is marked.
LEMMA DeleteConfigKeeps ==
    ASSUME IInv, DeleteConfig
    PROVE  IInv'
  <1>1. UNCHANGED <<remote, pass>>
    BY DEF DeleteConfig
  <1>2. CASE \E b \in Buckets : Blocking(b)
    BY <1>1, <1>2, MarksStay DEF DeleteConfig, IInv, Shape
  <1>3. CASE ~ \E b \in Buckets : Blocking(b)
    <2>1. assoc' = [b \in Buckets |-> None]
      BY <1>3 DEF DeleteConfig
    <2>2. \A b \in Buckets : ~ assoc[b].attempted
      BY <1>3 DEF Blocking
    <2>3. None \in Association
      BY DEF None, Association
    <2> QED  BY <1>1, <2>1, <2>2, <2>3, MarksStay
  <1> QED  BY <1>2, <1>3

LEMMA ServiceKeeps ==
    ASSUME IInv,
           \/ Enable \/ Disable \/ DeleteConfigRead \/ DeleteConfig \/ Reconcile
           \/ \E b \in Buckets : \/ AssociateRead(b) \/ AssociatePut(b)
                                 \/ Unassociate(b) \/ LocalEdit(b)
    PROVE  IInv'
  <1>1. CASE UNCHANGED <<assoc, remote, pass>>
    BY <1>1, MarksStay DEF IInv, Shape
  <1>2. CASE DeleteConfig
    BY <1>2, DeleteConfigKeeps
  <1>3. CASE \E b \in Buckets : AssociatePut(b) \/ Unassociate(b)
    BY <1>3, AssociatePutKeeps, UnassociateKeeps
  <1> QED
    BY <1>1, <1>2, <1>3
    DEF Enable, Disable, DeleteConfigRead, Reconcile, AssociateRead, LocalEdit, store

\* Someone else changes a bucket that is there.
LEMMA DriftKeeps ==
    ASSUME IInv, NEW b \in Buckets, Drift(b)
    PROVE  IInv'
  <1>1. PICK mirror : remote' = [remote EXCEPT ![b] = mirror]
    <2>1. \E mirror : remote' = [remote EXCEPT ![b] = mirror]
      BY DEF Drift
    <2> QED  BY <2>1
  <1>2. pass = Idle /\ remote[b] # Gone /\ UNCHANGED <<assoc, pass>>
    BY DEF Drift, store
  <1>3. DOMAIN remote' = Buckets /\ \A c \in Buckets \ {b} : remote'[c] = remote[c]
    BY <1>1 DEF IInv, Shape
  <1> QED
    BY <1>2, <1>3 DEF IInv, Shape, Marked, Deleted, NoOrphanMirror, Idle

-----------------------------------------------------------------------------
\* The loop.

\* A pass that begins has no bucket in hand.
LEMMA BeginKeeps ==
    ASSUME IInv, UNCHANGED <<assoc, remote>>, Begin
    PROVE  IInv'
  <1>1. CASE pass' = [Idle EXCEPT !.at = "list"]
    <2>1. DOMAIN pass' = DOMAIN pass /\ pass'.at = "list" /\ pass'.todo = {}
      BY <1>1 DEF Idle, IInv, Shape
    <2> QED  BY <2>1, PassMovesOn DEF IInv, Shape
  <1>2. CASE UNCHANGED pass
    BY <1>2, MarksStay DEF IInv, Shape
  <1> QED  BY <1>1, <1>2 DEF Begin

LEMMA LoopKeeps ==
    ASSUME IInv, Tick \/ TakeTrigger \/ BackoffEnds \/ Restart
    PROVE  IInv'
  <1>1. UNCHANGED <<assoc, remote>>
    BY DEF Tick, TakeTrigger, BackoffEnds, Restart, store
  <1>2. CASE Begin
    BY <1>1, <1>2, BeginKeeps
  <1>3. CASE UNCHANGED pass
    BY <1>1, <1>3, MarksStay DEF IInv, Shape
  <1>4. CASE pass' = Idle
    BY <1>1, <1>4, PassMovesOn DEF IInv, Shape
  <1> QED  BY <1>2, <1>3, <1>4 DEF Tick, TakeTrigger, BackoffEnds, Restart

-----------------------------------------------------------------------------
\* The pass, up to the first call for a bucket.

LEMMA ReadingKeeps ==
    ASSUME IInv,
           \/ List \/ Finish
           \/ \E b \in Buckets : ReadVersions(b) \/ ReadChannels(b)
    PROVE  IInv'
  <1>1. UNCHANGED <<assoc, remote>>
    BY DEF List, Finish, ReadVersions, ReadChannels, store
  <1>2. CASE List
    <2>1. /\ DOMAIN pass' = DOMAIN pass
          /\ pass'.at = "read"
          /\ pass'.todo = {b \in Buckets : assoc[b].state # "none"}
      BY <1>2 DEF List, IInv, Shape
    <2> QED  BY <1>1, <2>1, PassMovesOn DEF IInv, Shape
  <1>3. ASSUME NEW b \in Buckets, ReadVersions(b)
        PROVE  IInv'
    <2>1. pass.at = "read"
      BY <1>3 DEF ReadVersions
    <2>2. /\ DOMAIN pass' = DOMAIN pass
          /\ pass'.at = pass.at
          /\ pass'.todo = pass.todo
      BY <1>3 DEF ReadVersions, IInv, Shape
    <2> QED  BY <1>1, <2>1, <2>2, PassMovesOn DEF IInv, Shape
  <1>4. ASSUME NEW b \in Buckets, ReadChannels(b)
        PROVE  IInv'
    <2>1. pass.at = "read"
      BY <1>4 DEF ReadChannels
    <2>2. \/ pass' = Idle
          \/ /\ DOMAIN pass' = DOMAIN pass
             /\ pass'.at = pass.at
             /\ pass'.todo = pass.todo
      BY <1>4 DEF ReadChannels, EndPass, IInv, Shape
    <2> QED  BY <1>1, <2>1, <2>2, PassMovesOn DEF IInv, Shape
  <1>5. CASE Finish
    BY <1>1, <1>5, PassMovesOn DEF Finish, EndPass, IInv, Shape
  <1> QED  BY <1>2, <1>3, <1>4, <1>5

\* The mark is made in the step that turns to the bucket.
LEMMA AttemptKeeps ==
    ASSUME IInv, NEW b \in Buckets, Attempt(b)
    PROVE  IInv'
  <1> DEFINE marked == [assoc EXCEPT ![b].attempted = TRUE]
  <1>1. UNCHANGED remote
    BY DEF Attempt
  <1>2. /\ marked \in [Buckets -> Association]
        /\ marked[b].attempted
        /\ \A c \in Buckets : assoc[c].attempted => marked[c].attempted
    BY DEF IInv, Shape, Association
  <1>3. CASE assoc[b].state = "none"
    BY <1>1, <1>3, PassMovesOn DEF Attempt, EndPass, IInv, Shape
  <1>4. CASE /\ assoc' = marked
             /\ pass' = [pass EXCEPT !.at = "mirror", !.bucket = b, !.skipped = {},
                                     !.todo = @ \ {b}, !.begun = "yes"]
    <2>1. /\ DOMAIN pass' = DOMAIN pass
          /\ pass'.at = "mirror"
          /\ pass'.bucket = b
          /\ pass'.todo = pass.todo \ {b}
      BY <1>4 DEF IInv, Shape
    <2> HIDE DEF marked
    <2> QED
      BY <1>1, <1>2, <1>4, <2>1 DEF IInv, Shape, Marked, Deleted, NoOrphanMirror
  <1>5. CASE /\ assoc' = [marked EXCEPT ![b].synced = "error"]
             /\ pass' = [pass EXCEPT !.at = "next", !.todo = @ \ {b},
                                     !.begun = "failed", !.failed = TRUE]
    <2>1. /\ DOMAIN pass' = DOMAIN pass
          /\ pass'.at = "next"
          /\ pass'.todo = pass.todo \ {b}
      BY <1>5 DEF IInv, Shape
    <2> HIDE DEF marked
    <2>2. /\ assoc' \in [Buckets -> Association]
          /\ \A c \in Buckets : assoc'[c].attempted = marked[c].attempted
      BY <1>2, <1>5 DEF Association
    <2> QED  BY <1>1, <1>2, <2>1, <2>2, PassMovesOn DEF IInv, Shape
  <1> QED  BY <1>3, <1>4, <1>5 DEF Attempt

-----------------------------------------------------------------------------
\* The calls for the bucket in hand.

LEMMA DeleteBucketKeeps ==
    ASSUME IInv, DeleteBucket
    PROVE  IInv'
  <1> DEFINE then == [pass EXCEPT !.at = "unlink"]
  <1>1. pass.at = "mirror" /\ Mutate(Gone, then)
    BY DEF DeleteBucket
  <1>2. /\ DOMAIN then = DOMAIN pass
        /\ then.bucket = pass.bucket
        /\ then.todo = pass.todo
        /\ then.at = "unlink"
    BY DEF IInv, Shape
  <1> HIDE DEF then
  <1> QED  BY <1>1, <1>2, MutateKeeps

\* Nothing can have been made there since the deletion.
LEMMA UnlinkKeeps ==
    ASSUME IInv, Unlink
    PROVE  IInv'
  <1>1. pass.bucket \in Buckets /\ remote[pass.bucket] = Gone
    BY DEF Unlink, IInv, Deleted
  <1>2. /\ DOMAIN pass' = DOMAIN pass
        /\ pass'.at = "next"
        /\ pass'.todo = pass.todo
    BY DEF Unlink, IInv, Shape
  <1>3. assoc' = [assoc EXCEPT ![pass.bucket] = None] /\ UNCHANGED remote
    BY DEF Unlink
  <1>4. None \in Association
    BY DEF None, Association
  <1> QED
    BY <1>1, <1>2, <1>3, <1>4 DEF IInv, Shape, Marked, Deleted, NoOrphanMirror

LEMMA MutatePassKeeps ==
    ASSUME IInv, pass.at \in {"mirror", "drift"}, NEW mirror, Mutate(mirror, pass)
    PROVE  IInv'
  BY MutateKeeps

LEMMA VersionStepKeeps ==
    ASSUME IInv, VersionStep
    PROVE  IInv'
  <1>1. PICK v \in Versions :
          \/ CreateVersion(v) \/ RestoreVersion(v) \/ RevokeVersion(v) \/ DeleteVersion(v)
          \/ \E c \in Components : \/ CreateBuild(v, c) \/ RunBuild(v, c)
                                   \/ UploadSbom(v, c) \/ FinishBuild(v, c)
                                   \/ DeleteBuild(v, c)
    BY DEF VersionStep
  <1>2. CASE CreateVersion(v) \/ RestoreVersion(v)
    BY <1>2, MutatePassKeeps DEF CreateVersion, RestoreVersion, Visited, Mirroring
  <1>3. CASE RevokeVersion(v)
    <2>1. pass.at = "mirror"
      BY <1>3 DEF RevokeVersion, Open, Visited, Mirroring
    <2>2. \E pointer : Mutate([Target EXCEPT !.revoked = @ \cup {v}, !.pointer = pointer],
                             pass)
      BY <1>3 DEF RevokeVersion
    <2> QED  BY <2>1, <2>2, MutatePassKeeps
  <1>4. CASE DeleteVersion(v)
    BY <1>4, MutatePassKeeps DEF DeleteVersion
  <1>5. ASSUME NEW c \in Components, CreateBuild(v, c) \/ RunBuild(v, c) \/ FinishBuild(v, c)
        PROVE  IInv'
    <2>1. pass.at = "mirror"
      BY <1>5 DEF CreateBuild, RunBuild, FinishBuild, Building, Open, Visited, Mirroring
    <2> QED  BY <1>5, <2>1, MutatePassKeeps DEF CreateBuild, RunBuild, FinishBuild
  <1>6. ASSUME NEW c \in Components, UploadSbom(v, c)
        PROVE  IInv'
    <2>1. pass.at = "mirror"
      BY <1>6 DEF UploadSbom, Building, Open, Visited, Mirroring
    <2>2. CASE Mutate([Target EXCEPT !.sboms[v] = @ \cup {c}], pass)
      BY <2>1, <2>2, MutatePassKeeps
    <2>3. CASE /\ pass' = [pass EXCEPT !.skipped = @ \cup {<<v, c>>}]
               /\ UNCHANGED <<store, local, remote, loop>>
      <3>1. /\ DOMAIN pass' = DOMAIN pass
            /\ pass'.at = pass.at
            /\ pass'.bucket = pass.bucket
            /\ pass'.todo = pass.todo
        BY <2>3 DEF IInv, Shape
      <3>2. UNCHANGED <<assoc, remote>>
        BY <2>3 DEF store
      <3> QED  BY <3>1, <3>2 DEF IInv, Shape, Marked, Deleted, NoOrphanMirror
    <2> QED  BY <1>6, <2>2, <2>3 DEF UploadSbom
  <1>7. ASSUME NEW c \in Components, DeleteBuild(v, c)
        PROVE  IInv'
    BY <1>7, MutatePassKeeps DEF DeleteBuild
  <1> QED  BY <1>1, <1>2, <1>3, <1>4, <1>5, <1>6, <1>7

LEMMA ChannelStepKeeps ==
    ASSUME IInv, CreateBucket \/ CreateChannel \/ AssignChannel \/ DeleteChannel
    PROVE  IInv'
  <1>1. pass.at = "mirror"
    BY DEF CreateBucket, CreateChannel, AssignChannel, DeleteChannel, ChannelsTurn, Mirroring
  <1>2. CASE CreateBucket \/ CreateChannel \/ DeleteChannel
    BY <1>1, <1>2, MutatePassKeeps DEF CreateBucket, CreateChannel, DeleteChannel
  <1>3. CASE Fails(FALSE) /\ UNCHANGED remote
    <2>1. /\ assoc' \in [Buckets -> Association]
          /\ \A c \in Buckets : assoc'[c].attempted = assoc[c].attempted
          /\ \/ pass' = Idle
             \/ /\ DOMAIN pass' = DOMAIN pass
                /\ pass'.at = "next"
                /\ pass'.todo = pass.todo
      BY <1>1, <1>3, FailsKeeps
    <2> QED  BY <1>3, <2>1, PassMovesOn DEF IInv, Shape
  <1>4. CASE Mutate([Target EXCEPT !.pointer = Source.pointer], pass)
    BY <1>1, <1>4, MutatePassKeeps
  <1> QED  BY <1>2, <1>3, <1>4 DEF AssignChannel

\* The mirror is complete as far as the pass goes: nothing is sent.
LEMMA ChecksKeep ==
    ASSUME IInv, ChannelsMirrored \/ Mirrored
    PROVE  IInv'
  <1>1. pass.at \in {"mirror", "drift"} /\ UNCHANGED <<assoc, remote>>
    BY DEF ChannelsMirrored, Mirrored, Mirroring, store
  <1>2. /\ DOMAIN pass' = DOMAIN pass
        /\ pass'.at \in {"drift", "record"}
        /\ pass'.bucket = pass.bucket
        /\ pass'.todo = pass.todo
    BY DEF ChannelsMirrored, Mirrored, IInv, Shape
  <1> QED  BY <1>1, <1>2 DEF IInv, Shape, Marked, Deleted, NoOrphanMirror

LEMMA RecordKeeps ==
    ASSUME IInv, Record
    PROVE  IInv'
  <1>1. pass.bucket \in Buckets /\ UNCHANGED remote
    BY DEF Record, IInv, Marked
  <1>2. /\ assoc' \in [Buckets -> Association]
        /\ \A c \in Buckets : assoc'[c].attempted = assoc[c].attempted
    BY <1>1, SyncedKeepsMarks DEF Record, IInv, Shape
  <1>3. \/ pass' = Idle
        \/ pass' = [pass EXCEPT !.at = "next", !.bucket = Gone]
    BY DEF Record, EndPass
  <1>4. \/ pass' = Idle
        \/ /\ DOMAIN pass' = DOMAIN pass
           /\ pass'.at = "next"
           /\ pass'.todo = pass.todo
    BY <1>3 DEF IInv, Shape
  <1> QED  BY <1>1, <1>2, <1>4, PassMovesOn DEF IInv, Shape

LEMMA NextIInv == IInv /\ [Next]_vars => IInv'
  <1> SUFFICES ASSUME IInv, [Next]_vars PROVE IInv'
    OBVIOUS
  <1>1. CASE UNCHANGED vars
    BY <1>1, MarksStay DEF vars, store, IInv, Shape
  <1>2. CASE \/ Enable \/ Disable \/ DeleteConfigRead \/ DeleteConfig \/ Reconcile
             \/ \E b \in Buckets : \/ AssociateRead(b) \/ AssociatePut(b)
                                   \/ Unassociate(b) \/ LocalEdit(b)
    BY <1>2, ServiceKeeps
  <1>3. CASE \E b \in Buckets : Drift(b)
    BY <1>3, DriftKeeps
  <1>4. CASE Tick \/ TakeTrigger \/ BackoffEnds \/ Restart
    BY <1>4, LoopKeeps
  <1>5. CASE PassStep
    BY <1>5, ReadingKeeps, AttemptKeeps, DeleteBucketKeeps, UnlinkKeeps, VersionStepKeeps,
       ChannelStepKeeps, ChecksKeep, RecordKeeps
    DEF PassStep
  <1> QED  BY <1>1, <1>2, <1>3, <1>4, <1>5 DEF Next

-----------------------------------------------------------------------------
\* The association in hand is marked, one about to be unlinked has its bucket
\* deleted (reconcileAssociation, deleteAssociatedBucket).
THEOREM Invariance == Spec => []IInv
  BY InitIInv, NextIInv, PTL DEF Spec

\* Every bucket at the destination has an association that was attempted and
\* so blocks the deletion of the configuration until the destination has
\* deleted the bucket (DeleteBagDropConfig, RemoveBagDropAssociation).
THEOREM NoOrphanMirrorHolds == Spec => []NoOrphanMirror
  <1>1. IInv => NoOrphanMirror
    BY DEF IInv
  <1> QED
    BY <1>1, Invariance, PTL

-----------------------------------------------------------------------------
(* What a recorded success means: the destination holds the snapshot.         *)

\* What a local bucket or a snapshot of it holds, and what a bucket at the
\* destination holds: revocations of its versions and SBOMs of its builds.
Held == {held \in Content :
            /\ held.revoked \subseteq held.versions
            /\ \A v \in Versions : held.sboms[v] \subseteq held.builds[v]}
Kept == {mirror \in Mirror :
            /\ mirror.revoked \subseteq mirror.versions
            /\ \A v \in Versions, c \in Components :
                  /\ v \notin mirror.versions => mirror.builds[v][c] = "absent"
                  /\ c \in mirror.sboms[v] => mirror.builds[v][c] # "absent"}

\* The destination has what the snapshot has, and the channel unless it is on a
\* version the snapshot lacks.
Carries(mirror, held) ==
    /\ \A v \in held.versions :
          /\ v \in mirror.versions
          /\ v \in held.revoked <=> v \in mirror.revoked
          /\ \A c \in held.builds[v] : mirror.builds[v][c] = "done"
    /\ held.pointer \in held.versions \cup {NoChannel, Unassigned}
          => mirror.pointer = held.pointer

ContentsInv ==
    /\ local \in [Buckets -> Held \cup {Gone}]
    /\ remote \in [Buckets -> Kept \cup {Gone}]

\* The snapshots are of the buckets listed as active, and every one is read
\* before the pass turns to the first bucket.
SnapshotInv ==
    /\ pass.snapshot \in [Buckets -> Held \cup {Gone, Unread}]
    /\ pass.half # Gone => pass.half \in Buckets /\ pass.snapshot[pass.half] \in Held
    /\ pass.listed \in [Buckets -> {"none", "active", "pending_removal"}]
    /\ \A b \in pass.todo : pass.listed[b] # "none"
    /\ pass.at \in {"mirror", "drift", "record"} => pass.listed[pass.bucket] # "none"
    /\ pass.at \notin {"idle", "list", "read"} => ToRead = {}

\* A pass that removes drift has sent everything, and one about to record has
\* removed it.
ProgressInv ==
    /\ pass.at \in {"drift", "record"} =>
          Source \in Held /\ Target \in Kept /\ Carries(Target, Source)
    /\ pass.at = "record" =>
          /\ Target.versions \subseteq Source.versions
          /\ \A v \in Source.versions : StrayBuilds(v) = {}

MirrorInv == IInv /\ ContentsInv /\ SnapshotInv /\ ProgressInv

\* What is done to a bucket at the destination keeps it well formed.
LEMMA EmptyMirrorKept == EmptyMirror \in Kept
  BY DEF EmptyMirror, Kept, Mirror, Status

LEMMA WithVersionKept ==
    ASSUME NEW m \in Kept, NEW v \in Versions
    PROVE  [m EXCEPT !.versions = @ \cup {v}] \in Kept
  BY DEF Kept, Mirror

LEMMA RevokedKept ==
    ASSUME NEW m \in Kept, NEW revoked \in SUBSET m.versions
    PROVE  [m EXCEPT !.revoked = revoked] \in Kept
  BY DEF Kept, Mirror

LEMMA PointedKept ==
    ASSUME NEW m \in Kept, NEW pointer \in Versions \cup {NoChannel, Unassigned}
    PROVE  [m EXCEPT !.pointer = pointer] \in Kept
  BY DEF Kept, Mirror

LEMMA BuildKept ==
    ASSUME NEW m \in Kept, NEW v \in m.versions, NEW c \in Components,
           NEW status \in Status \ {"absent"}
    PROVE  [m EXCEPT !.builds[v][c] = status] \in Kept
  BY DEF Kept, Mirror

LEMMA UploadKept ==
    ASSUME NEW m \in Kept, NEW v \in Versions, NEW c \in Components,
           m.builds[v][c] # "absent"
    PROVE  [m EXCEPT !.sboms[v] = @ \cup {c}] \in Kept
  BY DEF Kept, Mirror

LEMMA RemovedBuildKept ==
    ASSUME NEW m \in Kept, NEW v \in Versions, NEW c \in Components
    PROVE  [m EXCEPT !.builds[v][c] = "absent", !.sboms[v] = @ \ {c}] \in Kept
<1> DEFINE builds == [m.builds EXCEPT ![v][c] = "absent"]
           sboms == [m.sboms EXCEPT ![v] = @ \ {c}]
           kept == [m EXCEPT !.builds = builds, !.sboms = sboms]
<1>1. /\ builds \in [Versions -> [Components -> Status]]
      /\ \A u \in Versions, d \in Components :
            builds[u][d] = IF u = v /\ d = c THEN "absent" ELSE m.builds[u][d]
  BY DEF Kept, Mirror, Status
<1>2. /\ sboms \in [Versions -> SUBSET Components]
      /\ \A u \in Versions : sboms[u] = IF u = v THEN m.sboms[u] \ {c} ELSE m.sboms[u]
  BY DEF Kept, Mirror
<1>3. /\ kept \in Mirror
      /\ kept.builds = builds /\ kept.sboms = sboms
      /\ kept.versions = m.versions /\ kept.revoked = m.revoked
  <2> HIDE DEF builds, sboms
  <2> QED
    BY <1>1, <1>2 DEF Kept, Mirror
<1>4. kept \in Kept
  <2> HIDE DEF builds, sboms, kept
  <2>1. ASSUME NEW u \in Versions, NEW d \in Components
        PROVE  /\ u \notin m.versions => builds[u][d] = "absent"
               /\ d \in sboms[u] => builds[u][d] # "absent"
    BY <1>1, <1>2 DEF Kept
  <2>2. QED
    BY <1>3, <2>1 DEF Kept
<1>5. QED
  BY <1>4

LEMMA WithoutKept ==
    ASSUME NEW m \in Kept, NEW v \in Versions
    PROVE  Without(m, v) \in Kept
<1> DEFINE builds == [m.builds EXCEPT ![v] = [c \in Components |-> "absent"]]
           sboms == [m.sboms EXCEPT ![v] = {}]
           versions == m.versions \ {v}
           revoked == m.revoked \ {v}
           pointer == IF m.pointer = v THEN Unassigned ELSE m.pointer
           kept == [m EXCEPT !.versions = versions, !.revoked = revoked, !.sboms = sboms,
                             !.builds = builds, !.pointer = pointer]
<1>1. /\ builds \in [Versions -> [Components -> Status]]
      /\ \A u \in Versions, d \in Components :
            builds[u][d] = IF u = v THEN "absent" ELSE m.builds[u][d]
  BY DEF Kept, Mirror, Status
<1>2. /\ sboms \in [Versions -> SUBSET Components]
      /\ \A u \in Versions : sboms[u] = IF u = v THEN {} ELSE m.sboms[u]
  BY DEF Kept, Mirror
<1>3. /\ versions \in SUBSET Versions /\ revoked \in SUBSET Versions
      /\ revoked \subseteq versions
      /\ pointer \in Versions \cup {NoChannel, Unassigned}
      /\ \A u \in Versions : u \notin versions => u = v \/ u \notin m.versions
  BY DEF Kept, Mirror
<1>4. kept \in Mirror
  <2> HIDE DEF builds, sboms, versions, revoked, pointer
  <2> QED
    BY <1>1, <1>2, <1>3 DEF Kept, Mirror
<1>5. /\ kept.builds = builds /\ kept.sboms = sboms /\ kept.versions = versions
      /\ kept.revoked = revoked
  <2> HIDE DEF builds, sboms, versions, revoked, pointer
  <2> QED
    BY DEF Kept, Mirror
<1>6. kept \in Kept
  <2> HIDE DEF builds, sboms, versions, revoked, pointer, kept
  <2>1. ASSUME NEW u \in Versions, NEW d \in Components
        PROVE  /\ u \notin versions => builds[u][d] = "absent"
               /\ d \in sboms[u] => builds[u][d] # "absent"
    BY <1>1, <1>2, <1>3 DEF Kept
  <2>2. /\ kept.revoked \subseteq kept.versions
        /\ \A u \in Versions, d \in Components :
              /\ u \notin kept.versions => kept.builds[u][d] = "absent"
              /\ d \in kept.sboms[u] => kept.builds[u][d] # "absent"
    BY <1>3, <1>5, <2>1
  <2>3. QED
    BY <1>4, <2>2 DEF Kept
<1>7. QED
  BY <1>6 DEF Without

LEMMA AddedKept ==
    ASSUME NEW m \in Kept, NEW v \in Versions
    PROVE  [m EXCEPT !.versions = @ \cup {v}, !.builds[v] = [c \in Components |-> "done"],
                     !.pointer = v] \in Kept
  BY DEF Kept, Mirror, Status

-----------------------------------------------------------------------------
\* The three parts that are preserved besides IInv.
Sound == ContentsInv /\ SnapshotInv /\ ProgressInv

\* A pass that is not under way, or begins, has read nothing.
LEMMA IdleSound ==
    ASSUME ContentsInv', pass' = Idle \/ pass' = [Idle EXCEPT !.at = "list"]
    PROVE  Sound'
<1>1. /\ pass'.at \in {"idle", "list"} /\ pass'.half = Gone /\ pass'.todo = {}
      /\ pass'.snapshot = [b \in Buckets |-> Unread]
      /\ pass'.listed = [b \in Buckets |-> "none"]
  BY DEF Idle
<1>2. SnapshotInv'
  BY <1>1 DEF SnapshotInv
<1>3. QED
  BY <1>1, <1>2 DEF Sound, ProgressInv

\* What a pass has read stands until it ends.
LEMMA ReadStands ==
    ASSUME SnapshotInv, pass.at \in {"next", "mirror", "drift", "unlink", "record"},
           pass'.snapshot = pass.snapshot, pass'.half = pass.half,
           pass'.listed = pass.listed, pass'.todo \subseteq pass.todo,
           \/ pass'.at \in {"next", "unlink"}
           \/ /\ pass'.at \in {"mirror", "drift", "record"}
              /\ pass'.bucket = pass.bucket /\ pass.at \in {"mirror", "drift", "record"}
    PROVE  SnapshotInv'
<1>1. ToRead' = ToRead
  BY DEF ToRead
<1>2. QED
  BY <1>1 DEF SnapshotInv

\* Steps of the service and of others.
LEMMA OthersSound ==
    ASSUME MirrorInv,
           \/ Enable \/ Disable \/ DeleteConfigRead \/ DeleteConfig \/ Reconcile
           \/ \E b \in Buckets : \/ AssociateRead(b) \/ AssociatePut(b)
                                 \/ Unassociate(b) \/ LocalEdit(b)
    PROVE  Sound'
<1>1. UNCHANGED <<remote, pass>>
  BY DEF Enable, Disable, DeleteConfigRead, DeleteConfig, Reconcile, AssociateRead,
         AssociatePut, Unassociate, LocalEdit, store
<1>2. SnapshotInv' /\ ProgressInv'
  BY <1>1 DEF MirrorInv, SnapshotInv, ProgressInv, ToRead, Source, Target, StrayBuilds
<1>3. ContentsInv'
  <2>1. CASE UNCHANGED local
    BY <1>1, <2>1 DEF MirrorInv, ContentsInv
  <2>2. CASE \E b \in Buckets : LocalEdit(b)
    <3>1. PICK b \in Buckets : \E new \in Contents[b] \cup {Gone} :
             local' = [local EXCEPT ![b] = new]
      BY <2>2 DEF LocalEdit
    <3>2. PICK new \in Contents[b] \cup {Gone} : local' = [local EXCEPT ![b] = new]
      BY <3>1
    <3>3. new \in Held \cup {Gone}
      BY <3>2, ContentsAssumption DEF Held
    <3>4. QED
      BY <1>1, <3>2, <3>3 DEF MirrorInv, ContentsInv
  <2>3. QED
    BY <2>1, <2>2 DEF Enable, Disable, DeleteConfigRead, DeleteConfig, Reconcile,
                      AssociateRead, AssociatePut, Unassociate
<1>4. QED
  BY <1>2, <1>3 DEF Sound

\* Someone else acts at the destination only while no pass is under way.
LEMMA DriftSound ==
    ASSUME MirrorInv, NEW b \in Buckets, Drift(b)
    PROVE  Sound'
<1>1. pass = Idle /\ pass' = pass /\ local' = local /\ remote[b] \in Kept
  BY DEF Drift, MirrorInv, ContentsInv
<1>0. SUFFICES ContentsInv'
  BY <1>1, IdleSound
<1>2. PICK v \in Versions :
         \/ remote' = [remote EXCEPT ![b] = Without(remote[b], v)]
         \/ /\ v \in remote[b].versions
            /\ remote' = [remote EXCEPT ![b].revoked = @ \cup {v}]
         \/ remote' = [remote EXCEPT ![b].versions = @ \cup {v},
                              ![b].builds[v] = [c \in Components |-> "done"],
                              ![b].pointer = v]
  BY DEF Drift
<1> DEFINE revoked == [remote[b] EXCEPT !.revoked = @ \cup {v}]
           added == [remote[b] EXCEPT !.versions = @ \cup {v},
                                      !.builds[v] = [c \in Components |-> "done"],
                                      !.pointer = v]
<1>3. remote \in [Buckets -> Kept \cup {Gone}]
  BY DEF MirrorInv, ContentsInv
<1>4. CASE remote' = [remote EXCEPT ![b] = Without(remote[b], v)]
  BY <1>1, <1>3, <1>4, WithoutKept DEF MirrorInv, ContentsInv
<1>5. CASE v \in remote[b].versions /\ remote' = [remote EXCEPT ![b] = revoked]
  <2>1. remote[b].revoked \cup {v} \in SUBSET remote[b].versions
    BY <1>1, <1>5 DEF Kept
  <2>2. revoked \in Kept
    BY <1>1, <2>1, RevokedKept
  <2> HIDE DEF revoked
  <2> QED
    BY <1>1, <1>3, <1>5, <2>2 DEF MirrorInv, ContentsInv
<1>6. CASE remote' = [remote EXCEPT ![b] = added]
  <2>1. added \in Kept
    BY <1>1, AddedKept
  <2> HIDE DEF added
  <2> QED
    BY <1>1, <1>3, <1>6, <2>1 DEF MirrorInv, ContentsInv
<1>7. QED
  BY <1>2, <1>4, <1>5, <1>6

LEMMA LoopSound ==
    ASSUME MirrorInv, Tick \/ TakeTrigger \/ BackoffEnds \/ Restart
    PROVE  Sound'
<1>1. UNCHANGED <<local, remote>>
  BY DEF Tick, TakeTrigger, BackoffEnds, Restart
<1>2. ContentsInv'
  BY <1>1 DEF MirrorInv, ContentsInv
<1>3. CASE pass' = Idle \/ pass' = [Idle EXCEPT !.at = "list"]
  BY <1>2, <1>3, IdleSound
<1>4. CASE UNCHANGED pass
  BY <1>1, <1>2, <1>4
  DEF MirrorInv, Sound, SnapshotInv, ProgressInv, ToRead, Source, Target, StrayBuilds
<1>5. QED
  BY <1>3, <1>4 DEF Tick, TakeTrigger, BackoffEnds, Restart, Begin

\* Reading: a snapshot is what the bucket held, without its channel until that is
\* read too.
LEMMA ReadingSound ==
    ASSUME MirrorInv,
           \/ List \/ Finish
           \/ \E b \in Buckets : ReadVersions(b) \/ ReadChannels(b)
    PROVE  Sound'
<1>1. UNCHANGED <<local, remote>>
  BY DEF List, Finish, ReadVersions, ReadChannels
<1>2. ContentsInv' /\ ContentsInv /\ SnapshotInv /\ Shape
  BY <1>1 DEF MirrorInv, ContentsInv, IInv
<1>3. CASE List
  <2>1. /\ pass'.at = "read" /\ pass'.snapshot = pass.snapshot /\ pass'.half = pass.half
        /\ pass'.listed = [b \in Buckets |-> assoc[b].state]
        /\ pass'.todo = {b \in Buckets : assoc[b].state # "none"}
    BY <1>2, <1>3 DEF List, Shape
  <2>2. \A b \in Buckets : assoc[b].state \in {"none", "active", "pending_removal"}
    BY <1>2 DEF Shape, Association
  <2>3. SnapshotInv'
    BY <1>2, <2>1, <2>2 DEF SnapshotInv
  <2>4. QED
    BY <1>2, <2>1, <2>3 DEF Sound, ProgressInv
<1>4. ASSUME NEW b \in Buckets, ReadVersions(b)
      PROVE  Sound'
  <2> DEFINE read == IF local[b] = Gone THEN Gone ELSE [local[b] EXCEPT !.pointer = NoChannel]
  <2>1. pass.at = "read" /\ pass.half = Gone /\ b # Gone
    BY <1>4, BagDropAssumption DEF ReadVersions
  <2>2. /\ pass'.at = "read" /\ pass'.listed = pass.listed /\ pass'.todo = pass.todo
        /\ pass'.snapshot = [pass.snapshot EXCEPT ![b] = read]
        /\ pass'.half = IF local[b] = Gone THEN Gone ELSE b
    BY <1>2, <1>4, <2>1 DEF ReadVersions, Shape
  <2>3. local[b] # Gone => read \in Held
    BY <1>2 DEF ContentsInv, Held, Content
  <2>4. local[b] = Gone => read = Gone
    OBVIOUS
  <2>5. SnapshotInv'
    <3> HIDE DEF read
    <3> QED
      BY <1>2, <2>1, <2>2, <2>3, <2>4 DEF SnapshotInv
  <2>6. QED
    BY <1>2, <2>2, <2>5 DEF Sound, ProgressInv
<1>5. ASSUME NEW b \in Buckets, ReadChannels(b)
      PROVE  Sound'
  <2>1. CASE pass' = Idle
    BY <1>2, <2>1, IdleSound
  <2>2. CASE pass' = [pass EXCEPT !.half = Gone,
                         !.snapshot[b].pointer = IF local[b] = Gone THEN @
                                                 ELSE local[b].pointer]
    <3> DEFINE held == pass.snapshot[b]
               read == [held EXCEPT !.pointer = IF local[b] = Gone THEN held.pointer
                                                ELSE local[b].pointer]
    <3>1. pass.at = "read" /\ pass.half = b /\ b # Gone
      BY <1>5, BagDropAssumption DEF ReadChannels
    <3>2. /\ pass'.at = "read" /\ pass'.listed = pass.listed /\ pass'.todo = pass.todo
          /\ pass'.snapshot = [pass.snapshot EXCEPT ![b] = read]
          /\ pass'.half = Gone
      BY <1>2, <2>2, <3>1 DEF Shape
    <3>3. held \in Held
      BY <1>2, <3>1 DEF SnapshotInv
    <3>4. read \in Held
      <4>1. (IF local[b] = Gone THEN held.pointer ELSE local[b].pointer)
               \in Versions \cup {NoChannel, Unassigned}
        BY <1>2, <3>3 DEF ContentsInv, Held, Content
      <4>2. QED
        BY <3>3, <4>1 DEF Held, Content
    <3>5. SnapshotInv'
      <4> HIDE DEF read, held
      <4> QED
        BY <1>2, <3>1, <3>2, <3>4 DEF SnapshotInv
    <3>6. QED
      BY <1>2, <3>2, <3>5 DEF Sound, ProgressInv
  <2>3. QED
    BY <1>5, <2>1, <2>2 DEF ReadChannels, EndPass
<1>6. CASE Finish
  BY <1>2, <1>6, IdleSound DEF Finish, EndPass
<1>7. QED
  BY <1>3, <1>4, <1>5, <1>6

\* The pass turns to a bucket once every listed one is read.
LEMMA AttemptSound ==
    ASSUME MirrorInv, NEW b \in Buckets, Attempt(b)
    PROVE  Sound'
<1>1. UNCHANGED <<local, remote>> /\ ContentsInv' /\ SnapshotInv /\ Shape
  BY DEF Attempt, MirrorInv, ContentsInv, IInv
<1>2. ToRead = {} /\ b \in pass.todo
  BY <1>1 DEF Attempt, SnapshotInv
<1>3. CASE pass' = Idle
  BY <1>1, <1>3, IdleSound
<1>4. CASE \/ pass' = [pass EXCEPT !.at = "mirror", !.bucket = b, !.skipped = {},
                                   !.todo = @ \ {b}, !.begun = "yes"]
           \/ pass' = [pass EXCEPT !.at = "next", !.todo = @ \ {b},
                                   !.begun = "failed", !.failed = TRUE]
  <2>1. /\ pass'.snapshot = pass.snapshot /\ pass'.half = pass.half
        /\ pass'.listed = pass.listed /\ pass'.todo = pass.todo \ {b}
        /\ \/ pass'.at = "mirror" /\ pass'.bucket = b
           \/ pass'.at = "next"
    BY <1>1, <1>4 DEF Shape
  <2>2. ToRead' = ToRead
    BY <2>1 DEF ToRead
  <2>3. SnapshotInv'
    BY <1>1, <1>2, <2>1, <2>2 DEF SnapshotInv
  <2>4. QED
    BY <1>1, <2>1, <2>3 DEF Sound, ProgressInv
<1>5. QED
  BY <1>3, <1>4 DEF Attempt, EndPass

\* A call that fails ends what the pass does for the bucket.
LEMMA FailsSound ==
    ASSUME MirrorInv, ContentsInv', pass.at \in {"mirror", "drift"},
           NEW unaudited \in BOOLEAN, Fails(unaudited)
    PROVE  Sound'
<1>1. CASE pass' = Idle
  BY <1>1, IdleSound
<1>2. CASE pass' = [pass EXCEPT !.at = "next", !.bucket = Gone, !.failed = TRUE]
  <2>1. /\ pass'.at = "next" /\ pass'.snapshot = pass.snapshot /\ pass'.half = pass.half
        /\ pass'.listed = pass.listed /\ pass'.todo = pass.todo
    BY <1>2 DEF MirrorInv, IInv, Shape
  <2>2. SnapshotInv'
    BY <2>1, ReadStands DEF MirrorInv
  <2>3. QED
    BY <2>1, <2>2 DEF Sound, ProgressInv
<1>3. QED
  BY <1>1, <1>2 DEF Fails, EndPass

\* A call keeps the bucket in hand well formed and, once everything is sent, still
\* carrying the snapshot.
LEMMA MutateSound ==
    ASSUME MirrorInv, pass.at \in {"mirror", "drift"}, NEW mirror \in Kept,
           Mutate(mirror, pass), pass.at = "drift" => Carries(mirror, Source)
    PROVE  Sound'
<1>1. pass.bucket \in Buckets /\ remote \in [Buckets -> Kept \cup {Gone}]
  BY DEF MirrorInv, IInv, Marked, ContentsInv
<1>2. /\ local' = local
      /\ remote' = remote \/ remote' = [remote EXCEPT ![pass.bucket] = mirror]
  BY DEF Mutate, Fails
<1>3. ContentsInv'
  BY <1>1, <1>2 DEF MirrorInv, ContentsInv
<1>4. CASE remote' = [remote EXCEPT ![pass.bucket] = mirror] /\ pass' = pass
  <2>1. Target' = mirror /\ Source' = Source
    BY <1>1, <1>4 DEF Target, Source
  <2>2. SnapshotInv' /\ pass'.at # "record"
    BY <1>4 DEF MirrorInv, SnapshotInv, ToRead
  <2>3. pass'.at = "drift" => Source' \in Held /\ Carries(Target', Source')
    BY <1>4, <2>1 DEF MirrorInv, ProgressInv
  <2>4. QED
    BY <1>3, <2>1, <2>2, <2>3 DEF Sound, ProgressInv
<1>5. CASE \E unaudited \in BOOLEAN : Fails(unaudited)
  BY <1>3, <1>5, FailsSound
<1>6. QED
  BY <1>4, <1>5 DEF Mutate

LEMMA DeleteBucketSound ==
    ASSUME MirrorInv, DeleteBucket
    PROVE  Sound'
<1>1. /\ pass.at = "mirror" /\ pass.bucket \in Buckets
      /\ remote \in [Buckets -> Kept \cup {Gone}]
  BY DEF DeleteBucket, MirrorInv, IInv, Marked, ContentsInv
<1>2. /\ local' = local
      /\ remote' = remote \/ remote' = [remote EXCEPT ![pass.bucket] = Gone]
  BY DEF DeleteBucket, Mutate, Fails
<1>3. ContentsInv'
  BY <1>1, <1>2 DEF MirrorInv, ContentsInv
<1>4. CASE pass' = [pass EXCEPT !.at = "unlink"]
  <2>1. /\ pass'.at = "unlink" /\ pass'.snapshot = pass.snapshot /\ pass'.half = pass.half
        /\ pass'.listed = pass.listed /\ pass'.todo = pass.todo
    BY <1>4 DEF MirrorInv, IInv, Shape
  <2>2. SnapshotInv'
    BY <1>1, <2>1, ReadStands DEF MirrorInv
  <2>3. QED
    BY <1>3, <2>1, <2>2 DEF Sound, ProgressInv
<1>5. CASE \E unaudited \in BOOLEAN : Fails(unaudited)
  BY <1>1, <1>3, <1>5, FailsSound
<1>6. QED
  BY <1>4, <1>5 DEF DeleteBucket, Mutate

\* The results are recorded, and the pass turns to the next bucket.
LEMMA RecordedSound ==
    ASSUME MirrorInv, Unlink \/ Record
    PROVE  Sound'
<1>1. UNCHANGED <<local, remote>> /\ pass.at \in {"unlink", "record"}
  BY DEF Unlink, Record
<1>2. ContentsInv'
  BY <1>1 DEF MirrorInv, ContentsInv
<1>3. CASE pass' = Idle
  BY <1>2, <1>3, IdleSound
<1>4. CASE pass' = [pass EXCEPT !.at = "next", !.bucket = Gone]
  <2>1. /\ pass'.at = "next" /\ pass'.snapshot = pass.snapshot /\ pass'.half = pass.half
        /\ pass'.listed = pass.listed /\ pass'.todo = pass.todo
    BY <1>4 DEF MirrorInv, IInv, Shape
  <2>2. SnapshotInv'
    BY <1>1, <2>1, ReadStands DEF MirrorInv
  <2>3. QED
    BY <1>2, <2>1, <2>2 DEF Sound, ProgressInv
<1>5. QED
  BY <1>3, <1>4 DEF Unlink, Record, EndPass

-----------------------------------------------------------------------------
\* While a pass mirrors a bucket it holds a snapshot of it.
LEMMA InHand ==
    ASSUME MirrorInv, pass.at \in {"mirror", "drift"}
    PROVE  /\ pass.bucket \in Buckets
           /\ Target # Gone => Target \in Kept
           /\ Mirroring => Source \in Held
<1>1. pass.bucket \in Buckets
  BY DEF MirrorInv, IInv, Marked
<1>2. Target # Gone => Target \in Kept
  BY <1>1 DEF MirrorInv, ContentsInv, Target
<1>3. ASSUME Mirroring PROVE Source \in Held
  <2>1. pass.listed[pass.bucket] = "active" /\ Source # Gone
    BY <1>1, <1>3 DEF Mirroring, Owed, MirrorInv, SnapshotInv
  <2>2. Source # Unread
    BY <1>1, <1>3, <2>1 DEF Mirroring, MirrorInv, SnapshotInv, ToRead, Source
  <2>3. QED
    BY <1>1, <2>1, <2>2 DEF MirrorInv, SnapshotInv, Source
<1>4. QED
  BY <1>1, <1>2, <1>3

\* A call made while a version is supplied, which need only keep the bucket well
\* formed.
LEMMA SupplySound ==
    ASSUME MirrorInv, pass.at = "mirror", NEW mirror \in Kept, Mutate(mirror, pass)
    PROVE  Sound'
  BY MutateSound

\* What is removed as drift is not of the snapshot.
LEMMA WithoutCarries ==
    ASSUME NEW held \in Held, NEW m \in Kept, Carries(m, held),
           NEW v \in Versions, v \notin held.versions
    PROVE  Carries(Without(m, v), held)
<1> DEFINE w == Without(m, v)
<1>1. /\ w.versions = m.versions \ {v} /\ w.revoked = m.revoked \ {v}
      /\ \A u \in Versions \ {v} : w.builds[u] = m.builds[u]
      /\ w.pointer = IF m.pointer = v THEN Unassigned ELSE m.pointer
  BY DEF Without, Kept, Mirror
<1>2. held.versions \subseteq Versions
  BY DEF Held, Content
<1>3. v # NoChannel
  BY BagDropAssumption DEF Versions
<1> HIDE DEF w
<1>4. ASSUME NEW u \in held.versions
      PROVE  /\ u \in w.versions
             /\ u \in held.revoked <=> u \in w.revoked
             /\ \A c \in held.builds[u] : w.builds[u][c] = "done"
  BY <1>1, <1>2 DEF Carries
<1>5. held.pointer \in held.versions \cup {NoChannel, Unassigned}
        => w.pointer = held.pointer
  BY <1>1, <1>3 DEF Carries
<1>6. Carries(w, held)
  BY <1>4, <1>5 DEF Carries
<1>7. QED
  BY <1>6 DEF w

LEMMA RemovedBuildCarries ==
    ASSUME NEW held \in Held, NEW m \in Kept, Carries(m, held),
           NEW v \in Versions, NEW c \in Components, c \notin held.builds[v]
    PROVE  Carries([m EXCEPT !.builds[v][c] = "absent", !.sboms[v] = @ \ {c}], held)
<1> DEFINE w == [m EXCEPT !.builds[v][c] = "absent", !.sboms[v] = @ \ {c}]
<1>1. /\ w.versions = m.versions /\ w.revoked = m.revoked /\ w.pointer = m.pointer
      /\ \A u \in Versions, d \in Components :
            w.builds[u][d] = IF u = v /\ d = c THEN "absent" ELSE m.builds[u][d]
  BY DEF Kept, Mirror
<1>2. held.versions \subseteq Versions /\ \A u \in Versions : held.builds[u] \subseteq Components
  BY DEF Held, Content
<1> HIDE DEF w
<1>3. \A u \in held.versions : \A d \in held.builds[u] : w.builds[u][d] = "done"
  BY <1>1, <1>2 DEF Carries
<1>4. Carries(w, held)
  BY <1>1, <1>3 DEF Carries
<1>5. QED
  BY <1>4 DEF w

LEMMA VersionStepSound ==
    ASSUME MirrorInv, VersionStep
    PROVE  Sound'
<1>1. PICK v \in Versions :
        \/ CreateVersion(v) \/ RestoreVersion(v) \/ RevokeVersion(v) \/ DeleteVersion(v)
        \/ \E c \in Components : \/ CreateBuild(v, c) \/ RunBuild(v, c)
                                 \/ UploadSbom(v, c) \/ FinishBuild(v, c)
                                 \/ DeleteBuild(v, c)
  BY DEF VersionStep
<1>2. Visited(v) => pass.at = "mirror" /\ Target \in Kept /\ Source \in Held
  BY InHand DEF Visited, Mirroring
<1>3. pass.at = "drift" => Source \in Held /\ Target \in Kept /\ Carries(Target, Source)
  BY DEF MirrorInv, ProgressInv
<1>4. CASE CreateVersion(v)
  BY <1>2, <1>4, WithVersionKept, SupplySound DEF CreateVersion
<1>5. CASE RestoreVersion(v)
  <2>1. Target.revoked \ {v} \in SUBSET Target.versions
    BY <1>2, <1>5 DEF RestoreVersion, Kept
  <2>2. QED
    BY <1>2, <1>5, <2>1, RevokedKept, SupplySound DEF RestoreVersion
<1>6. CASE RevokeVersion(v)
  <2>1. Target \in Kept /\ pass.at = "mirror" /\ v \in Target.versions
    BY <1>2, <1>6 DEF RevokeVersion, Open
  <2>2. PICK pointer \in {Target.pointer} \cup {Unassigned} :
           Mutate([Target EXCEPT !.revoked = @ \cup {v}, !.pointer = pointer], pass)
    BY <1>6 DEF RevokeVersion
  <2> DEFINE revoked == [Target EXCEPT !.revoked = @ \cup {v}]
             pointed == [revoked EXCEPT !.pointer = pointer]
  <2>3. Target.revoked \cup {v} \in SUBSET Target.versions
        /\ pointer \in Versions \cup {NoChannel, Unassigned}
    BY <2>1 DEF Kept, Mirror
  <2>4. revoked \in Kept
    BY <2>1, <2>3, RevokedKept
  <2>5. pointed \in Kept
    <3> HIDE DEF revoked
    <3> QED
      BY <2>3, <2>4, PointedKept
  <2>6. pointed = [Target EXCEPT !.revoked = @ \cup {v}, !.pointer = pointer]
    BY <2>1 DEF Kept, Mirror
  <2>7. QED
    BY <2>1, <2>2, <2>5, <2>6, SupplySound
<1>7. CASE DeleteVersion(v)
  <2>1. Without(Target, v) \in Kept /\ Carries(Without(Target, v), Source)
    BY <1>3, <1>7, WithoutKept, WithoutCarries DEF DeleteVersion
  <2>2. QED
    BY <1>7, <2>1, MutateSound DEF DeleteVersion
<1>8. ASSUME NEW c \in Components, CreateBuild(v, c) \/ RunBuild(v, c) \/ FinishBuild(v, c)
      PROVE  Sound'
  <2>1. pass.at = "mirror" /\ Target \in Kept /\ v \in Target.versions
    BY <1>2, <1>8 DEF CreateBuild, RunBuild, FinishBuild, Building, Open
  <2>2. PICK status \in {"pending", "running", "done"} :
           Mutate([Target EXCEPT !.builds[v][c] = status], pass)
    BY <1>8 DEF CreateBuild, RunBuild, FinishBuild
  <2>3. status \in Status \ {"absent"}
    BY DEF Status
  <2>4. [Target EXCEPT !.builds[v][c] = status] \in Kept
    BY <2>1, <2>3, BuildKept
  <2>5. QED
    BY <2>1, <2>2, <2>4, SupplySound
<1>9. ASSUME NEW c \in Components, UploadSbom(v, c)
      PROVE  Sound'
  <2>1. pass.at = "mirror" /\ Target \in Kept /\ Target.builds[v][c] = "running"
    BY <1>2, <1>9 DEF UploadSbom, Building, Open
  <2>2. CASE Mutate([Target EXCEPT !.sboms[v] = @ \cup {c}], pass)
    BY <2>1, <2>2, UploadKept, SupplySound
  <2>3. CASE /\ pass' = [pass EXCEPT !.skipped = @ \cup {<<v, c>>}]
             /\ UNCHANGED <<store, local, remote, loop>>
    <3>1. /\ pass'.at = pass.at /\ pass'.bucket = pass.bucket
          /\ pass'.snapshot = pass.snapshot /\ pass'.half = pass.half
          /\ pass'.listed = pass.listed /\ pass'.todo = pass.todo
      BY <2>3 DEF MirrorInv, IInv, Shape
    <3>2. SnapshotInv'
      BY <2>1, <3>1, ReadStands DEF MirrorInv
    <3>3. QED
      BY <2>1, <2>3, <3>1, <3>2 DEF MirrorInv, Sound, ContentsInv, ProgressInv
  <2>4. QED
    BY <1>9, <2>2, <2>3 DEF UploadSbom
<1>10. ASSUME NEW c \in Components, DeleteBuild(v, c)
       PROVE  Sound'
  <2> DEFINE left == [Target EXCEPT !.builds[v][c] = "absent", !.sboms[v] = @ \ {c}]
  <2>1. pass.at = "drift" /\ c \notin Source.builds[v] /\ Mutate(left, pass)
    BY <1>10 DEF DeleteBuild, StrayBuilds
  <2>2. left \in Kept /\ Carries(left, Source)
    BY <1>3, <2>1, RemovedBuildKept, RemovedBuildCarries
  <2> HIDE DEF left
  <2>3. QED
    BY <2>1, <2>2, MutateSound
<1>11. QED
  BY <1>1, <1>4, <1>5, <1>6, <1>7, <1>8, <1>9, <1>10

LEMMA ChannelStepSound ==
    ASSUME MirrorInv, CreateBucket \/ CreateChannel \/ AssignChannel \/ DeleteChannel
    PROVE  Sound'
<1>1. pass.at = "mirror" /\ Mirroring /\ Source \in Held
  BY InHand DEF CreateBucket, CreateChannel, AssignChannel, DeleteChannel, ChannelsTurn,
                Mirroring
<1>2. CASE CreateBucket
  BY <1>1, <1>2, EmptyMirrorKept, SupplySound DEF CreateBucket
<1>3. CASE ChannelsTurn /\ \E pointer \in Versions \cup {NoChannel, Unassigned} :
                              Mutate([Target EXCEPT !.pointer = pointer], pass)
  <2>1. Target \in Kept
    BY <1>1, <1>3, InHand DEF ChannelsTurn
  <2>2. QED
    BY <1>1, <1>3, <2>1, PointedKept, SupplySound
<1>4. CASE Fails(FALSE) /\ UNCHANGED remote
  <2>1. ContentsInv'
    BY <1>4 DEF Fails, MirrorInv, ContentsInv
  <2>2. QED
    BY <1>1, <1>4, <2>1, FailsSound
<1>5. Source.pointer \in Versions \cup {NoChannel, Unassigned}
  BY <1>1 DEF Held, Content
<1>6. QED
  BY <1>2, <1>3, <1>4, <1>5 DEF CreateChannel, AssignChannel, DeleteChannel

\* Everything is sent when no version lags and the channels agree; nothing stray is
\* left when the checks of drift pass.
LEMMA ChecksSound ==
    ASSUME MirrorInv, ChannelsMirrored \/ Mirrored
    PROVE  Sound'
<1>1. /\ UNCHANGED <<local, remote>> /\ ContentsInv'
      /\ pass.at \in {"mirror", "drift"}
  BY DEF ChannelsMirrored, Mirrored, Mirroring, MirrorInv, ContentsInv
<1>2. /\ pass'.at = IF ChannelsMirrored THEN "drift" ELSE "record"
      /\ pass'.bucket = pass.bucket
      /\ pass'.snapshot = pass.snapshot /\ pass'.half = pass.half
      /\ pass'.listed = pass.listed /\ pass'.todo = pass.todo
  BY DEF ChannelsMirrored, Mirrored, Mirroring, MirrorInv, IInv, Shape
<1>3. SnapshotInv'
  BY <1>1, <1>2, ReadStands DEF MirrorInv
<1>4. Source' = Source /\ Target' = Target
  BY <1>1, <1>2 DEF Source, Target
<1>5. CASE ChannelsMirrored
  <2>1. Source \in Held /\ Target \in Kept
    BY <1>1, <1>5, InHand DEF ChannelsMirrored
  <2>2. \A v \in Source.versions : VersionMirrored(v)
    BY <1>5 DEF ChannelsMirrored, Lagging
  <2>3. Carries(Target, Source)
    BY <1>5, <2>2 DEF Carries, VersionMirrored, ChannelsMirrored
  <2>4. Carries(Target', Source')
    BY <1>4, <2>3 DEF Carries
  <2>5. QED
    BY <1>1, <1>2, <1>3, <1>4, <1>5, <2>1, <2>4 DEF Sound, ProgressInv
<1>6. CASE Mirrored
  <2>1. pass.at = "drift" /\ pass'.at = "record"
    BY <1>2, <1>6 DEF Mirrored, ChannelsMirrored, Mirroring
  <2>2. Source \in Held /\ Target \in Kept /\ Carries(Target, Source)
    BY <2>1 DEF MirrorInv, ProgressInv
  <2>3. Carries(Target', Source')
    BY <1>4, <2>2 DEF Carries
  <2>4. /\ Target'.versions \subseteq Source'.versions
        /\ \A v \in Source'.versions : StrayBuilds(v)' = {}
    BY <1>4, <1>6 DEF Mirrored, StrayBuilds
  <2>5. QED
    BY <1>1, <1>3, <1>4, <2>1, <2>2, <2>3, <2>4 DEF Sound, ProgressInv
<1>7. QED
  BY <1>5, <1>6

LEMMA NextMirrorInv == MirrorInv /\ [Next]_vars => MirrorInv'
<1> SUFFICES ASSUME MirrorInv, [Next]_vars PROVE MirrorInv'
  OBVIOUS
<1>1. IInv'
  BY NextIInv DEF MirrorInv
<1>2. Sound'
  <2>1. CASE UNCHANGED vars
    BY <2>1 DEF vars, MirrorInv, Sound, ContentsInv, SnapshotInv, ProgressInv, ToRead,
                Source, Target, StrayBuilds
  <2>2. CASE \/ Enable \/ Disable \/ DeleteConfigRead \/ DeleteConfig \/ Reconcile
             \/ \E b \in Buckets : \/ AssociateRead(b) \/ AssociatePut(b)
                                   \/ Unassociate(b) \/ LocalEdit(b)
    BY <2>2, OthersSound
  <2>3. CASE \E b \in Buckets : Drift(b)
    BY <2>3, DriftSound
  <2>4. CASE Tick \/ TakeTrigger \/ BackoffEnds \/ Restart
    BY <2>4, LoopSound
  <2>5. CASE PassStep
    BY <2>5, ReadingSound, AttemptSound, DeleteBucketSound, RecordedSound,
       VersionStepSound, ChannelStepSound, ChecksSound
    DEF PassStep
  <2>6. QED
    BY <2>1, <2>2, <2>3, <2>4, <2>5 DEF Next
<1>3. QED
  BY <1>1, <1>2 DEF MirrorInv, Sound

\* The snapshot in hand is of a bucket as it was, and the destination has all of it
\* from the removal of drift on (reconcileBucket, deleteRemoteDrift).
THEOREM MirrorInvariance == Spec => []MirrorInv
<1>1. Init => MirrorInv
  <2> SUFFICES ASSUME Init PROVE MirrorInv
    OBVIOUS
  <2>1. local \in [Buckets -> Held \cup {Gone}]
    <3>1. /\ DOMAIN local = Buckets /\ local = [b \in Buckets |-> local[b]]
          /\ \A b \in Buckets : local[b] \in Contents[b]
      BY DEF Init
    <3>2. \A b \in Buckets : local[b] \in Held
      BY <3>1, ContentsAssumption DEF Held
    <3>3. QED
      BY <3>1, <3>2
  <2>2. pass = Idle /\ remote = [b \in Buckets |-> Gone]
    BY DEF Init
  <2>3. ContentsInv /\ SnapshotInv /\ ProgressInv
    BY <2>1, <2>2 DEF ContentsInv, SnapshotInv, ProgressInv, Idle
  <2>4. QED
    BY <2>3, InitIInv DEF MirrorInv
<1>2. QED
  BY <1>1, NextMirrorInv, PTL DEF Spec

\* A pass goes on from "record" only by recording.
LEMMA OnlyRecordRecords ==
    ASSUME [Next]_vars, pass.at = "record", pass'.at = "next"
    PROVE  Record
<1>1. UNCHANGED pass => FALSE
  OBVIOUS
<1>2. pass' = Idle \/ pass' = [Idle EXCEPT !.at = "list"] => FALSE
  BY DEF Idle
<1>3. pass # Idle
  BY DEF Idle
<1>4. CASE \/ Enable \/ Disable \/ DeleteConfigRead \/ DeleteConfig \/ Reconcile
           \/ \E b \in Buckets : \/ AssociateRead(b) \/ AssociatePut(b) \/ Unassociate(b)
                                 \/ LocalEdit(b) \/ Drift(b)
           \/ UNCHANGED vars
  BY <1>1, <1>4 DEF Enable, Disable, DeleteConfigRead, DeleteConfig, Reconcile, AssociateRead,
                    AssociatePut, Unassociate, LocalEdit, Drift, vars
<1>5. CASE Tick \/ TakeTrigger \/ BackoffEnds \/ Restart
  BY <1>1, <1>2, <1>5 DEF Tick, TakeTrigger, BackoffEnds, Restart, Begin
<1>6. ~ Mirroring /\ ~ ChannelsTurn /\ \A v \in Versions : ~ Visited(v) /\ ~ Open(v)
  BY DEF Mirroring, ChannelsTurn, Visited, Open
<1>7. ~ VersionStep
  BY <1>6 DEF VersionStep, CreateVersion, RestoreVersion, RevokeVersion, DeleteVersion,
              CreateBuild, RunBuild, UploadSbom, FinishBuild, DeleteBuild, Building
<1>8. CASE PassStep
  BY <1>6, <1>7, <1>8 DEF PassStep, List, ReadVersions, ReadChannels, Attempt, Finish,
     DeleteBucket, Unlink, CreateBucket, CreateChannel, AssignChannel, DeleteChannel,
     ChannelsMirrored, Mirrored
<1>9. QED
  BY <1>4, <1>5, <1>8 DEF Next

\* A recorded success means the destination holds the snapshot, from whatever
\* earlier passes and others had left there (RecordBagDropAssociationSuccess after
\* reconcileBucket).
THEOREM SyncedMirrorsHolds == Spec => SyncedMirrors
<1> DEFINE Holds ==
      pass.at = "record" /\ pass'.at = "next" /\ assoc'[pass.bucket].synced = "synced" =>
         /\ Target.versions = Source.versions
         /\ Target.revoked = Source.revoked
         /\ \A v \in Versions, c \in Components :
              Target.builds[v][c] = IF v \in Source.versions /\ c \in Source.builds[v]
                                    THEN "done" ELSE "absent"
         /\ \A v \in Source.versions : Target.sboms[v] = Source.sboms[v]
         /\ Source.pointer \in Source.versions \cup {NoChannel, Unassigned}
                => Target.pointer = Source.pointer
<1>1. ASSUME MirrorInv, [Next]_vars PROVE [Holds]_vars
  <2> SUFFICES ASSUME pass.at = "record", pass'.at = "next",
                      assoc'[pass.bucket].synced = "synced"
               PROVE  Holds
    OBVIOUS
  <2>1. Source \in Held /\ Target \in Kept /\ Carries(Target, Source)
    BY <1>1 DEF MirrorInv, ProgressInv
  <2>2. Target.versions \subseteq Source.versions
        /\ \A v \in Source.versions : StrayBuilds(v) = {}
    BY <1>1 DEF MirrorInv, ProgressInv
  <2>3. Source.versions \subseteq Versions
        /\ \A v \in Versions : Source.builds[v] \subseteq Components
    BY <2>1 DEF Held, Content
  <2>4. Target.versions = Source.versions
    BY <2>1, <2>2 DEF Carries
  <2>5. Target.revoked = Source.revoked
    BY <2>1, <2>4 DEF Carries, Held, Kept
  <2>6. ASSUME NEW v \in Versions, NEW c \in Components
        PROVE  Target.builds[v][c] = IF v \in Source.versions /\ c \in Source.builds[v]
                                     THEN "done" ELSE "absent"
    BY <2>1, <2>2, <2>4 DEF Carries, StrayBuilds, Kept
  <2>7. ~ Surfaced
    <3>1. pass.bucket \in Buckets /\ assoc \in [Buckets -> Association]
      BY <1>1 DEF MirrorInv, IInv, Shape, Marked
    <3>2. Surfaced /\ Record => assoc'[pass.bucket].synced = "error"
      BY <3>1 DEF Record, Association
    <3>3. Record
      BY <1>1, OnlyRecordRecords
    <3>4. QED
      BY <3>2, <3>3
  <2>8. ASSUME NEW v \in Source.versions
        PROVE  Target.sboms[v] = Source.sboms[v]
    <3>1. Target.sboms[v] \subseteq Components /\ Source.sboms[v] \subseteq Source.builds[v]
      BY <2>1, <2>3 DEF Kept, Mirror, Held
    <3>2. \A c \in Source.builds[v] : c \in Source.sboms[v] <=> c \in Target.sboms[v]
      BY <2>7 DEF Surfaced
    <3>3. \A c \in Components \ Source.builds[v] : Target.builds[v][c] = "absent"
      BY <2>3, <2>6
    <3>4. \A c \in Target.sboms[v] : c \in Source.builds[v]
      BY <2>1, <2>3, <3>1, <3>3 DEF Kept
    <3>5. QED
      BY <3>1, <3>2, <3>4
  <2>9. QED
    BY <2>1, <2>4, <2>5, <2>6, <2>8 DEF Carries
<1>2. QED
  BY <1>1, MirrorInvariance, PTL DEF Spec, SyncedMirrors

-----------------------------------------------------------------------------
(* Types *)

Loop == [paused : BOOLEAN, pending : BOOLEAN, backoff : BOOLEAN]
Spent == [calls : 0..MaxCalls, edits : 0..MaxEdits, faults : 0..MaxFaults]

\* What MirrorInv leaves untyped.
Rest ==
    /\ config \in {"absent", "disabled", "enabled"}
    /\ asked \subseteq Request
    /\ pass \in Pass
    /\ loop \in Loop
    /\ spent \in Spent

LEMMA IdleIsPass == Idle \in Pass
  BY DEF Idle, Pass

LEMMA InitRest == Init => Rest
  BY BagDropAssumption, IdleIsPass DEF Init, Rest, Loop, Spent

\* A bound is spent one by one.
LEMMA SpendTyped ==
    ASSUME spent \in Spent,
           \/ Spend("calls", MaxCalls) \/ Spend("edits", MaxEdits) \/ Spend("faults", MaxFaults)
    PROVE  spent' \in Spent
<1> USE BagDropAssumption
<1>1. CASE Spend("calls", MaxCalls)
  BY <1>1 DEF Spend, Spent
<1>2. CASE Spend("edits", MaxEdits)
  BY <1>2 DEF Spend, Spent
<1>3. CASE Spend("faults", MaxFaults)
  BY <1>3 DEF Spend, Spent
<1> QED  BY <1>1, <1>2, <1>3

LEMMA ServiceTyped ==
    ASSUME Rest,
           \/ Enable \/ Disable \/ DeleteConfigRead \/ DeleteConfig \/ Reconcile
           \/ \E b \in Buckets : \/ AssociateRead(b) \/ AssociatePut(b) \/ Unassociate(b)
                                 \/ LocalEdit(b) \/ Drift(b)
    PROVE  Rest'
<1>1. pass' = pass
  BY DEF Enable, Disable, DeleteConfigRead, DeleteConfig, Reconcile, AssociateRead, AssociatePut,
         Unassociate, LocalEdit, Drift
<1>2. spent' \in Spent
  <2>1. spent' = spent \/ Spend("calls", MaxCalls) \/ Spend("edits", MaxEdits)
    BY DEF Enable, Disable, DeleteConfigRead, DeleteConfig, Reconcile, AssociateRead,
           AssociatePut, Unassociate, LocalEdit, Drift, Call
  <2> QED  BY <2>1, SpendTyped DEF Rest
<1>3. config' \in {"absent", "disabled", "enabled"}
  BY DEF Rest, Enable, Disable, DeleteConfigRead, DeleteConfig, Reconcile, AssociateRead,
         AssociatePut, Unassociate, LocalEdit, Drift, store
<1>4. asked' \subseteq Request
  <2>1. asked' \subseteq asked \/ (\E b \in Buckets :
           asked' = asked \cup {[op |-> "associate", bucket |-> b]})
        \/ asked' = asked \cup {[op |-> "delete", bucket |-> Gone]}
    BY DEF Enable, Disable, DeleteConfigRead, DeleteConfig, Reconcile, AssociateRead,
           AssociatePut, Unassociate, LocalEdit, Drift, store
  <2> QED  BY <2>1 DEF Rest, Request
<1>5. loop' \in Loop
  <2>1. loop' = loop \/ Trigger
    BY DEF Enable, Disable, DeleteConfigRead, DeleteConfig, Reconcile, AssociateRead,
           AssociatePut, Unassociate, LocalEdit, Drift
  <2> QED  BY <2>1 DEF Rest, Loop, Trigger
<1> QED  BY <1>1, <1>2, <1>3, <1>4, <1>5 DEF Rest

LEMMA EndPassTyped ==
    ASSUME Rest, NEW failed \in BOOLEAN, NEW unaudited \in BOOLEAN, EndPass(failed, unaudited)
    PROVE  pass' \in Pass /\ loop' \in Loop
  BY IdleIsPass DEF Rest, EndPass, Loop

LEMMA LoopTyped ==
    ASSUME Rest, Tick \/ TakeTrigger \/ BackoffEnds \/ Restart
    PROVE  Rest'
<1>1. UNCHANGED <<config, asked>>
  BY DEF Tick, TakeTrigger, BackoffEnds, Restart, store
<1>2. spent' \in Spent
  <2>1. spent' = spent \/ Spend("faults", MaxFaults)
    BY DEF Tick, TakeTrigger, BackoffEnds, Restart, Fault
  <2> QED  BY <2>1, SpendTyped DEF Rest
<1>3. Begin => pass' \in Pass
  BY IdleIsPass DEF Begin, Rest, Pass
<1>4. CASE Tick
  BY <1>1, <1>2, <1>3, <1>4 DEF Tick, Rest, Loop
<1>5. CASE TakeTrigger
  <2>1. pass' \in Pass
    BY <1>3, <1>5 DEF TakeTrigger, Rest
  <2>2. (CASE config = "absent" -> TRUE [] config = "disabled" -> FALSE
           [] OTHER -> loop.backoff) \in BOOLEAN
    BY DEF Rest, Loop
  <2>3. loop' \in Loop
    BY <1>5, <2>2 DEF TakeTrigger, Rest, Loop
  <2> QED  BY <1>1, <1>2, <2>1, <2>3 DEF Rest
<1>6. CASE BackoffEnds
  BY <1>1, <1>2, <1>6 DEF BackoffEnds, Rest, Loop
<1>7. CASE Restart
  BY <1>1, <1>2, <1>7, IdleIsPass DEF Restart, Rest, Loop
<1> QED  BY <1>4, <1>5, <1>6, <1>7

\* The lists and the snapshot of the pass.
LEMMA ReadingTyped ==
    ASSUME Rest, MirrorInv, MirrorInv',
           List \/ Finish \/ \E b \in Buckets : ReadVersions(b) \/ ReadChannels(b)
    PROVE  pass' \in Pass /\ loop' \in Loop
<1>1. pass'.snapshot \in [Buckets -> Content \cup {Gone, Unread}]
  BY DEF MirrorInv, SnapshotInv, Held
<1>2. CASE List
  <2>1. [b \in Buckets |-> assoc[b].state]
           \in [Buckets -> {"none", "active", "pending_removal"}]
    BY DEF MirrorInv, IInv, Shape, Association
  <2>2. QED
    BY <1>2, <2>1 DEF List, Rest, Pass
<1>3. CASE Finish
  <2>1. pass.failed \in BOOLEAN
    BY DEF Rest, Pass
  <2>2. QED
    BY <1>3, <2>1, EndPassTyped DEF Finish
<1>4. ASSUME NEW b \in Buckets, ReadVersions(b)
      PROVE  pass' \in Pass /\ loop' \in Loop
  <2>1. PICK read : \/ pass' = [pass EXCEPT !.snapshot = read]
                    \/ pass' = [pass EXCEPT !.snapshot = read, !.half = b]
    BY <1>4 DEF ReadVersions
  <2>2. pass' \in Pass
    BY <1>1, <2>1 DEF Rest, Pass
  <2>3. QED
    BY <1>4, <2>2 DEF ReadVersions, Rest
<1>5. ASSUME NEW b \in Buckets, ReadChannels(b)
      PROVE  pass' \in Pass /\ loop' \in Loop
  <2>1. CASE EndPass(TRUE, FALSE)
    BY <2>1, EndPassTyped
  <2>2. CASE ~ EndPass(TRUE, FALSE)
    <3>1. PICK read : pass' = [pass EXCEPT !.half = Gone, !.snapshot = read]
      BY <1>5, <2>2 DEF ReadChannels
    <3>2. pass' \in Pass
      BY <1>1, <3>1 DEF Rest, Pass
    <3>3. QED
      BY <1>5, <2>2, <3>2 DEF ReadChannels, Rest
  <2>3. QED
    BY <2>1, <2>2
<1>6. QED
  BY <1>2, <1>3, <1>4, <1>5

LEMMA AttemptTyped ==
    ASSUME Rest, NEW b \in Buckets, Attempt(b)
    PROVE  pass' \in Pass /\ loop' \in Loop /\ spent' \in Spent
<1>1. CASE assoc[b].state = "none"
  BY <1>1, EndPassTyped DEF Attempt, Rest
<1>2. CASE assoc[b].state # "none"
  <2>1. loop' = loop
    BY <1>2 DEF Attempt
  <2>2. spent' = spent \/ Spend("faults", MaxFaults)
    BY <1>2 DEF Attempt, Fault
  <2>3. \/ pass' = [pass EXCEPT !.at = "mirror", !.bucket = b, !.skipped = {},
                                !.todo = @ \ {b}, !.begun = "yes"]
        \/ pass' = [pass EXCEPT !.at = "next", !.todo = @ \ {b},
                                !.begun = "failed", !.failed = TRUE]
    BY <1>2 DEF Attempt
  <2>4. pass' \in Pass
    <3>1. pass \in Pass /\ pass.todo \ {b} \in SUBSET Buckets
      BY DEF Rest, Pass
    <3>2. [pass EXCEPT !.at = "mirror", !.bucket = b, !.skipped = {},
                       !.todo = @ \ {b}, !.begun = "yes"] \in Pass
      BY <3>1 DEF Pass
    <3>3. [pass EXCEPT !.at = "next", !.todo = @ \ {b},
                       !.begun = "failed", !.failed = TRUE] \in Pass
      BY <3>1 DEF Pass
    <3>4. QED
      BY <2>3, <3>2, <3>3
  <2>5. QED
    BY <2>1, <2>2, <2>4, SpendTyped DEF Rest
<1>3. QED
  BY <1>1, <1>2

LEMMA FailsTyped ==
    ASSUME Rest, NEW unaudited \in BOOLEAN, Fails(unaudited)
    PROVE  pass' \in Pass /\ loop' \in Loop
<1>1. CASE unaudited
  BY <1>1, EndPassTyped DEF Fails
<1>2. CASE ~ unaudited
  <2>1. [pass EXCEPT !.at = "next", !.bucket = Gone, !.failed = TRUE] \in Pass
    BY DEF Rest, Pass
  <2>2. QED
    BY <1>2, <2>1 DEF Fails, Rest
<1>3. QED
  BY <1>1, <1>2

\* Whatever is sent, and whether or not it fails.
LEMMA MutateTyped ==
    ASSUME Rest, NEW mirror, NEW then, then \in Pass, Mutate(mirror, then)
    PROVE  pass' \in Pass /\ loop' \in Loop /\ spent' \in Spent
<1>1. CASE pass' = then /\ UNCHANGED <<loop, spent>>
  BY <1>1 DEF Rest
<1>2. CASE Fault /\ \E unaudited \in BOOLEAN : Fails(unaudited)
  BY <1>2, FailsTyped, SpendTyped DEF Fault, Rest
<1>3. QED
  BY <1>1, <1>2 DEF Mutate

LEMMA MutatePassTyped ==
    ASSUME Rest, \E mirror : Mutate(mirror, pass)
    PROVE  pass' \in Pass /\ loop' \in Loop /\ spent' \in Spent
  BY MutateTyped DEF Rest

LEMMA VersionStepTyped ==
    ASSUME Rest, VersionStep
    PROVE  pass' \in Pass /\ loop' \in Loop /\ spent' \in Spent
<1>1. PICK v \in Versions :
        \/ CreateVersion(v) \/ RestoreVersion(v) \/ RevokeVersion(v) \/ DeleteVersion(v)
        \/ \E c \in Components : \/ CreateBuild(v, c) \/ RunBuild(v, c)
                                 \/ UploadSbom(v, c) \/ FinishBuild(v, c)
                                 \/ DeleteBuild(v, c)
  BY DEF VersionStep
<1>2. \/ \E mirror : Mutate(mirror, pass)
      \/ \E c \in Components : /\ Fault
                               /\ pass' = [pass EXCEPT !.skipped = @ \cup {<<v, c>>}]
                               /\ UNCHANGED loop
  <2>1. CASE CreateVersion(v) \/ RestoreVersion(v) \/ RevokeVersion(v) \/ DeleteVersion(v)
    BY <2>1 DEF CreateVersion, RestoreVersion, RevokeVersion, DeleteVersion
  <2>2. CASE \E c \in Components : \/ CreateBuild(v, c) \/ RunBuild(v, c)
                                   \/ FinishBuild(v, c) \/ DeleteBuild(v, c)
    BY <2>2 DEF CreateBuild, RunBuild, FinishBuild, DeleteBuild
  <2>3. CASE \E c \in Components : UploadSbom(v, c)
    BY <2>3 DEF UploadSbom
  <2>4. QED
    BY <1>1, <2>1, <2>2, <2>3
<1>3. CASE \E mirror : Mutate(mirror, pass)
  BY <1>3, MutatePassTyped
<1>4. ASSUME NEW c \in Components, Fault,
             pass' = [pass EXCEPT !.skipped = @ \cup {<<v, c>>}], UNCHANGED loop
      PROVE  pass' \in Pass /\ loop' \in Loop /\ spent' \in Spent
  <2>1. pass' \in Pass
    BY <1>4 DEF Rest, Pass
  <2>2. QED
    BY <1>4, <2>1, SpendTyped DEF Fault, Rest
<1>5. QED
  BY <1>2, <1>3, <1>4

LEMMA BucketStepTyped ==
    ASSUME Rest,
           \/ DeleteBucket \/ Unlink \/ CreateBucket
           \/ CreateChannel \/ AssignChannel \/ DeleteChannel
           \/ ChannelsMirrored \/ Mirrored \/ Record
    PROVE  pass' \in Pass /\ loop' \in Loop /\ spent' \in Spent
<1>1. CASE CreateBucket \/ CreateChannel \/ DeleteChannel
  BY <1>1, MutatePassTyped DEF CreateBucket, CreateChannel, DeleteChannel
<1>2. CASE DeleteBucket
  <2>1. [pass EXCEPT !.at = "unlink"] \in Pass
    BY DEF Rest, Pass
  <2>2. QED
    BY <1>2, <2>1, MutateTyped DEF DeleteBucket
<1>3. CASE AssignChannel
  <2>1. (Fails(FALSE) /\ spent' = spent) \/ \E mirror : Mutate(mirror, pass)
    BY <1>3 DEF AssignChannel
  <2>2. QED
    BY <2>1, FailsTyped, MutatePassTyped DEF Rest
<1>4. CASE Unlink \/ ChannelsMirrored \/ Mirrored
  BY <1>4 DEF Unlink, ChannelsMirrored, Mirrored, Rest, Pass
<1>5. CASE Record
  <2>1. \/ EndPass(TRUE, FALSE)
        \/ pass' = [pass EXCEPT !.at = "next", !.bucket = Gone] /\ UNCHANGED loop
    BY <1>5 DEF Record
  <2>2. pass' = [pass EXCEPT !.at = "next", !.bucket = Gone] => pass' \in Pass
    BY DEF Rest, Pass
  <2>3. QED
    BY <1>5, <2>1, <2>2, EndPassTyped DEF Record, Rest
<1>6. QED
  BY <1>1, <1>2, <1>3, <1>4, <1>5

LEMMA NextRest ==
    ASSUME Rest, MirrorInv, MirrorInv', [Next]_vars
    PROVE  Rest'
<1>1. CASE UNCHANGED vars
  BY <1>1 DEF vars, store, Rest
<1>2. CASE \/ Enable \/ Disable \/ DeleteConfigRead \/ DeleteConfig \/ Reconcile
           \/ \E b \in Buckets : \/ AssociateRead(b) \/ AssociatePut(b) \/ Unassociate(b)
                                 \/ LocalEdit(b) \/ Drift(b)
  BY <1>2, ServiceTyped
<1>3. CASE Tick \/ TakeTrigger \/ BackoffEnds \/ Restart
  BY <1>3, LoopTyped
<1>4. CASE PassStep
  <2>1. UNCHANGED <<config, asked>>
    <3>1. (\E mirror, then : Mutate(mirror, then)) => UNCHANGED <<config, asked>>
      BY DEF Mutate, Fails, store
    <3>2. VersionStep => UNCHANGED <<config, asked>>
      <4>1. VersionStep => (\E mirror, then : Mutate(mirror, then)) \/ UNCHANGED store
        BY DEF VersionStep, CreateVersion, RestoreVersion, RevokeVersion, DeleteVersion,
               CreateBuild, RunBuild, UploadSbom, FinishBuild, DeleteBuild
      <4>2. QED
        BY <3>1, <4>1 DEF store
    <3>3. DeleteBucket \/ CreateBucket \/ CreateChannel \/ DeleteChannel \/ AssignChannel
             => UNCHANGED <<config, asked>>
      BY <3>1 DEF DeleteBucket, CreateBucket, CreateChannel, DeleteChannel, AssignChannel, Fails
    <3>4. QED
      BY <1>4, <3>2, <3>3 DEF PassStep, List, ReadVersions, ReadChannels, Attempt, Finish,
         Unlink, ChannelsMirrored, Mirrored, Record, store
  <2>2. CASE List \/ Finish \/ \E b \in Buckets : ReadVersions(b) \/ ReadChannels(b)
    <3>1. UNCHANGED spent
      BY <2>2 DEF List, Finish, ReadVersions, ReadChannels
    <3>2. QED
      BY <2>1, <2>2, <3>1, ReadingTyped DEF Rest
  <2>3. CASE \E b \in Buckets : Attempt(b)
    BY <2>1, <2>3, AttemptTyped DEF Rest
  <2>4. CASE VersionStep
    BY <2>1, <2>4, VersionStepTyped DEF Rest
  <2>5. CASE \/ DeleteBucket \/ Unlink \/ CreateBucket
             \/ CreateChannel \/ AssignChannel \/ DeleteChannel
             \/ ChannelsMirrored \/ Mirrored \/ Record
    BY <2>1, <2>5, BucketStepTyped DEF Rest
  <2>6. QED
    BY <1>4, <2>2, <2>3, <2>4, <2>5 DEF PassStep
<1>5. QED
  BY <1>1, <1>2, <1>3, <1>4 DEF Next

\* Every variable keeps its type, the requests, the loop and the pass of
\* bagdrop/service.go and bagdrop/reconcile.go included.
THEOREM TypeCorrect == Spec => []TypeOK
<1>1. Init => Rest /\ BagDropAssumption
  BY InitRest, BagDropAssumption
<1>2. Rest /\ MirrorInv /\ MirrorInv' /\ [Next]_vars => Rest'
  BY NextRest
<1>3. Rest /\ MirrorInv => TypeOK
  BY DEF Rest, MirrorInv, IInv, Shape, ContentsInv, Held, Kept, TypeOK, Loop, Spent
<1>4. QED
  BY <1>1, <1>2, <1>3, MirrorInvariance, PTL DEF Spec

=============================================================================
