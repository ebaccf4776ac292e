------------------------------- MODULE Keyring -------------------------------
(***************************************************************************)
(* Encryption at rest (internal/keyring): the keyring rows, the replicas    *)
(* that hold the data keys in memory, the key service that wraps them, and   *)
(* the operator who rotates and retires the key service's own key (the KEK). *)
(*                                                                         *)
(* A replica starts (initializeEncryption of cmd/dufflebag/main.go), seals *)
(* and opens payloads, probes the key service on a heartbeat and runs one  *)
(* rewrap or rotation at a time (opMu).  Every database call is a          *)
(* transaction of its own and the key service is called between two of     *)
(* them.  Keys are minted one per purpose at a time: a batch names the keys*)
(* minted together.  Batch 0 is the absence of a key or of a row.            *)
(***************************************************************************)
EXTENDS Naturals

CONSTANTS
    Replicas,
    Purposes,       \* payload, integrity, token_signing, audit_hmac
    Payload,        \* the purpose Encrypt and Decrypt use
    FirstPurpose,   \* the purpose the listing of the keyring starts with
    MaxVersion,     \* bound: versions of a purpose
    MaxBatch,       \* bound: batches minted, conflicting ones included
    MaxKEK,         \* bound: versions of the KEK
    MaxFaults       \* bound: crashes, unanswered calls, failed commits

ASSUME KeyringAssumption ==
    /\ Payload \in Purposes /\ FirstPurpose \in Purposes
    /\ MaxVersion \in Nat \ {0} /\ MaxBatch \in Nat
    /\ MaxKEK \in Nat \ {0} /\ MaxFaults \in Nat

VARIABLES
    mode,       \* encryption_mode: "unset" until a first boot records it
    rows,       \* the keyring table: [Slots -> Row]
    kek,        \* the current version of the KEK
    retired,    \* versions of the KEK up to this one unwrap nothing
    start,      \* [Replicas -> how far the process has started]
    ring,       \* [Replicas -> the data keys in memory]
    op,         \* [Replicas -> the rewrap or rotation under way]
    batch,      \* the last batch minted
    sealed,     \* envelopes written: the version they name and the key used
    faults

service == <<kek, retired>>
memory == <<start, ring, op>>
vars == <<mode, rows, service, memory, batch, sealed, faults>>

Versions == 1..MaxVersion
Slots == Purposes \X Versions
Batches == 0..MaxBatch
Row == [batch : Batches, kek : 0..MaxKEK]
Rows == [Slots -> Row]
NoRow == [batch |-> 0, kek |-> 0]
NoRows == [s \in Slots |-> NoRow]
NoKeys == [s \in Slots |-> 0]

Start == [at : {"down", "record", "list", "store", "load", "up"},
          config : {"plain", "encrypted"}, seen : Rows]
Op == [at : {"idle", "wrap", "commit", "probe"},
       kind : {"rewrap", "rotate"}, seen : Rows]
Down == [at |-> "down", config |-> "plain", seen |-> NoRows]
NoOp == [at |-> "idle", kind |-> "rewrap", seen |-> NoRows]

TypeOK ==
    /\ mode \in {"unset", "plain", "encrypted"}
    /\ rows \in Rows
    /\ \A s \in Slots : rows[s].kek <= kek
    /\ kek \in 1..MaxKEK /\ retired \in 0..MaxKEK
    /\ start \in [Replicas -> Start]
    /\ ring \in [Replicas -> [Slots -> Batches]]
    /\ op \in [Replicas -> Op]
    /\ batch \in Batches
    /\ sealed \subseteq Versions \X Batches
    /\ faults \in 0..MaxFaults

Stored(entries) == {s \in Slots : entries[s].batch # 0}
Serving(r) == start[r].at = "up" /\ start[r].config = "encrypted"
KeysOf(entries) == [s \in Slots |-> entries[s].batch]
\* The key service unwraps an entry unless its KEK version is retired.
Unwraps(entries, asked) == \A s \in asked : entries[s].kek > retired

-----------------------------------------------------------------------------
(* The keyring table *)

\* Mutant: ON CONFLICT DO UPDATE.
Upserted(entries) == entries \in Rows
\* CreateKeyringEntries: one transaction, undone when a row is already there
\* (ON CONFLICT DO NOTHING inserts no row).
Free(entries) == \A s \in Stored(entries) : rows[s].batch = 0
Inserted(entries) ==
    [s \in Slots |-> IF s \in Stored(entries) THEN entries[s] ELSE rows[s]]

\* Generate mints version 1 of every purpose; Rotate one more than the
\* greatest version of each purpose in the listing.
Generated(k) ==
    [s \in Slots |-> IF s[2] = 1 THEN [batch |-> batch + 1, kek |-> k] ELSE NoRow]
IsNextVersion(entries, p, v) ==
    /\ \A w \in Versions : entries[<<p, w>>].batch # 0 => w < v
    /\ v = 1 \/ entries[<<p, v - 1>>].batch # 0
Minted(k, next) ==
    [s \in Slots |->
        IF s[2] = next[s[1]] THEN [batch |-> batch + 1, kek |-> k] ELSE NoRow]

-----------------------------------------------------------------------------
(* Start-up *)

\* Mutant: the process believes the mode it wrote.
ModeWritten(r) == start[r].config
\* The mode read back after recording it.
Recorded(r) == mode'

Became(r, at, config, seen) ==
    start' = [start EXCEPT ![r] = [at |-> at, config |-> config, seen |-> seen]]
\* The process refuses to start when its configuration is not the mode.
Decided(r, config, m) ==
    IF m # config THEN start' = [start EXCEPT ![r] = Down]
    ELSE Became(r, IF config = "plain" THEN "up" ELSE "list", config, NoRows)
Serve(r, entries) ==
    /\ Became(r, "up", "encrypted", NoRows)
    /\ ring' = [ring EXCEPT ![r] = KeysOf(entries)]

\* EncryptionMode.
ReadMode(r, config) ==
    /\ start[r].at = "down"
    /\ IF mode = "unset" THEN Became(r, "record", config, NoRows)
                         ELSE Decided(r, config, mode)
    /\ UNCHANGED <<mode, rows, service, ring, op, batch, sealed, faults>>

\* RecordEncryptionMode, and the mode read again.
RecordMode(r) ==
    /\ start[r].at = "record"
    /\ mode' = IF mode = "unset" THEN start[r].config ELSE mode
    /\ Decided(r, start[r].config, Recorded(r))
    /\ UNCHANGED <<rows, service, ring, op, batch, sealed, faults>>

\* ListKeyringEntries; an empty keyring is generated and wrapped.
ListKeyring(r) ==
    /\ start[r].at = "list"
    /\ \/ /\ rows # NoRows
          /\ Became(r, "load", "encrypted", rows) /\ UNCHANGED batch
       \/ /\ rows = NoRows /\ batch < MaxBatch
          /\ batch' = batch + 1
          /\ Became(r, "store", "encrypted", Generated(kek))
    /\ UNCHANGED <<mode, rows, service, ring, op, sealed, faults>>

\* Mutant: the replica that lost serves with the keys it generated.
ServeOwn(r) == Serve(r, start[r].seen)
\* Another replica stored its keyring first: load that one.
LostFirstBoot(r) ==
    /\ Became(r, "load", "encrypted", rows)
    /\ UNCHANGED ring
\* CreateKeyringEntries at first boot.
Establish(r) ==
    /\ start[r].at = "store"
    /\ IF Free(start[r].seen)
       THEN rows' = Inserted(start[r].seen) /\ Serve(r, start[r].seen)
       ELSE LostFirstBoot(r) /\ UNCHANGED rows
    /\ UNCHANGED <<mode, service, op, batch, sealed, faults>>

\* Load unwraps every entry.
Load(r) ==
    /\ start[r].at = "load"
    /\ IF Unwraps(start[r].seen, Stored(start[r].seen))
       THEN Serve(r, start[r].seen)
       ELSE start' = [start EXCEPT ![r] = Down] /\ UNCHANGED ring
    /\ UNCHANGED <<mode, rows, service, op, batch, sealed, faults>>

Crash(r) ==
    /\ start[r].at # "down" /\ faults < MaxFaults
    /\ faults' = faults + 1
    /\ start' = [start EXCEPT ![r] = Down]
    /\ ring' = [ring EXCEPT ![r] = NoKeys]
    /\ op' = [op EXCEPT ![r] = NoOp]
    /\ UNCHANGED <<mode, rows, service, batch, sealed>>

-----------------------------------------------------------------------------
(* Serving *)

\* The version a ring uses for new writes: New and adopt keep the greatest.
IsActive(keys, p, v) ==
    keys[<<p, v>>] # 0 /\ \A w \in Versions : w > v => keys[<<p, w>>] = 0
\* Mutant: the version and its key are read under two acquisitions of the lock.
MixedEnvelope(keys, v) ==
    {<<w, keys[<<Payload, v>>]>> : w \in {u \in Versions : u <= v}}
Envelope(keys, v) == {<<v, keys[<<Payload, v>>]>>}

\* Encrypt, on any write of a payload.
Encrypt(r) ==
    /\ Serving(r)
    /\ \E v \in Versions :
          /\ IsActive(ring[r], Payload, v)
          /\ sealed' = sealed \cup Envelope(ring[r], v)
    /\ UNCHANGED <<mode, rows, service, memory, batch, faults>>

\* What a probe asks the key service to unwrap: the first row, and the rows
\* whose key the ring has not.
Asked(r, entries) ==
    {<<FirstPurpose, 1>>} \cup {s \in Stored(entries) : ring[r][s] = 0}
\* Mutant: the heartbeat only proves the key service healthy.
AdoptNothing(r, entries) == ring[r]
Adopted(r, entries) ==
    [s \in Slots |-> IF ring[r][s] = 0 THEN entries[s].batch ELSE ring[r][s]]
Probed(r, entries) ==
    ring' = [ring EXCEPT ![r] = IF Unwraps(entries, Asked(r, entries))
                                THEN Adopted(r, entries) ELSE ring[r]]

\* Run's timer.  Probe lists and then unwraps; as rows are never taken away, an
\* older listing only adopts less, and the two are one step.
Probe(r) ==
    /\ Serving(r)
    /\ Probed(r, rows)
    /\ UNCHANGED <<mode, rows, service, start, op, batch, sealed, faults>>

-----------------------------------------------------------------------------
(* Rewrap and Rotate, one at a time on a replica, each ending in a Probe *)

Turn(r, at, kind, seen) ==
    op' = [op EXCEPT ![r] = [at |-> at, kind |-> kind, seen |-> seen]]
Ended(r) == Turn(r, "probe", "rewrap", NoRows)

Begin(r, kind) ==
    /\ Serving(r) /\ op[r].at = "idle"
    /\ Turn(r, "wrap", kind, rows)
    /\ UNCHANGED <<mode, rows, service, start, ring, batch, sealed, faults>>

Rewrapped(r) ==
    [s \in Slots |-> IF s \in Stored(op[r].seen)
                     THEN [op[r].seen[s] EXCEPT !.kek = kek] ELSE NoRow]
\* Rewrap sends every listed entry through the key service, under its current
\* KEK; one failure gives the operation up.
RewrapEntries(r) ==
    /\ op[r].at = "wrap" /\ op[r].kind = "rewrap"
    /\ IF Unwraps(op[r].seen, Stored(op[r].seen))
       THEN Turn(r, "commit", "rewrap", Rewrapped(r))
       ELSE Ended(r)
    /\ UNCHANGED <<mode, rows, service, start, ring, batch, sealed, faults>>

\* Rotate mints and wraps the next version of every purpose.
MintEntries(r) ==
    /\ op[r].at = "wrap" /\ op[r].kind = "rotate"
    /\ batch < MaxBatch
    /\ batch' = batch + 1
    /\ \E next \in [Purposes -> Versions] :
          /\ \A p \in Purposes : IsNextVersion(op[r].seen, p, next[p])
          /\ Turn(r, "commit", "rotate", Minted(kek, next))
    /\ UNCHANGED <<mode, rows, service, start, ring, sealed, faults>>

\* RewrapKeyringEntries: every blob in one transaction.
CommitRewrap(r) ==
    /\ op[r].at = "commit" /\ op[r].kind = "rewrap"
    /\ rows' = Inserted(op[r].seen)
    /\ Ended(r)
    /\ UNCHANGED <<mode, service, start, ring, batch, sealed, faults>>

\* CreateKeyringEntries, and the adoption of what it stored; a conflict with
\* another replica's rotation stores nothing.
CommitRotate(r) ==
    /\ op[r].at = "commit" /\ op[r].kind = "rotate"
    /\ \/ /\ Free(op[r].seen)
          /\ rows' = Inserted(op[r].seen)
          /\ ring' = [ring EXCEPT ![r] =
                [s \in Slots |-> IF s \in Stored(op[r].seen) THEN op[r].seen[s].batch
                                                             ELSE ring[r][s]]]
       \/ ~Free(op[r].seen) /\ UNCHANGED <<rows, ring>>
    /\ Ended(r)
    /\ UNCHANGED <<mode, service, start, batch, sealed, faults>>

\* The transaction fails, or its commit is not heard of.
LoseCommit(r, stored) ==
    /\ op[r].at = "commit" /\ faults < MaxFaults
    /\ faults' = faults + 1
    /\ stored => op[r].kind = "rewrap" \/ Free(op[r].seen)
    /\ rows' = IF stored THEN Inserted(op[r].seen) ELSE rows
    /\ Ended(r)
    /\ UNCHANGED <<mode, service, start, ring, batch, sealed>>

\* The deferred Probe, which gives the turn to the next operation.
ProbeAfter(r) ==
    /\ op[r].at = "probe"
    /\ Probed(r, rows)
    /\ op' = [op EXCEPT ![r] = NoOp]
    /\ UNCHANGED <<mode, rows, service, start, batch, sealed, faults>>

-----------------------------------------------------------------------------
(* The key service and its operator *)

RotateKEK ==
    /\ kek < MaxKEK
    /\ kek' = kek + 1
    /\ UNCHANGED <<mode, rows, retired, memory, batch, sealed, faults>>

\* min_decryption_version is raised once every entry names the newest KEK.
RetireKEK ==
    /\ retired < kek - 1
    /\ rows # NoRows /\ \A s \in Stored(rows) : rows[s].kek = kek
    /\ retired' = kek - 1
    /\ UNCHANGED <<mode, rows, kek, memory, batch, sealed, faults>>

\* The key service does not answer r: a start refuses to serve, a rewrap or a
\* rotation is given up, the Probe after one adopts nothing.
Refuse(r) ==
    /\ faults < MaxFaults
    /\ faults' = faults + 1
    /\ \/ /\ start[r].at = "load" \/ (start[r].at = "list" /\ rows = NoRows)
          /\ start' = [start EXCEPT ![r] = Down]
          /\ UNCHANGED op
       \/ /\ op[r].at = "wrap" /\ Ended(r)
          /\ UNCHANGED start
       \/ /\ op[r].at = "probe"
          /\ op' = [op EXCEPT ![r] = NoOp]
          /\ UNCHANGED start
    /\ UNCHANGED <<mode, rows, service, ring, batch, sealed>>

-----------------------------------------------------------------------------
Init ==
    /\ mode = "unset" /\ rows = NoRows
    /\ kek = 1 /\ retired = 0
    /\ start = [r \in Replicas |-> Down]
    /\ ring = [r \in Replicas |-> NoKeys]
    /\ op = [r \in Replicas |-> NoOp]
    /\ batch = 0 /\ sealed = {} /\ faults = 0

StartUp(r) ==
    \/ \E config \in {"plain", "encrypted"} : ReadMode(r, config)
    \/ RecordMode(r) \/ ListKeyring(r) \/ Establish(r) \/ Load(r)
Operate(r) ==
    \/ \E kind \in {"rewrap", "rotate"} : Begin(r, kind)
    \/ RewrapEntries(r) \/ MintEntries(r) \/ CommitRewrap(r) \/ CommitRotate(r)
    \/ \E stored \in BOOLEAN : LoseCommit(r, stored)
    \/ ProbeAfter(r)

Next ==
    \/ \E r \in Replicas :
          StartUp(r) \/ Encrypt(r) \/ Probe(r) \/ Operate(r) \/ Crash(r) \/ Refuse(r)
    \/ RotateKEK \/ RetireKEK

\* Run probes every five minutes or so.
Fairness == \A r \in Replicas : WF_vars(Probe(r))

Spec == Init /\ [][Next]_vars /\ Fairness

-----------------------------------------------------------------------------
(* Properties *)

\* A replica never holds a key that is not the stored one: racing first boots,
\* racing rotations and commits nobody heard of leave every ring a part of the
\* table (initializeEncryption, Rotate, Probe).
Agreement ==
    \A r \in Replicas, s \in Slots :
        ring[r][s] # 0 => rows[s].batch = ring[r][s]

\* Whatever any replica has sealed, at whatever point of whatever rotation, the
\* stored key of the version its envelope names opens (Encrypt, Decrypt).
SealedStaysOpenable ==
    \A e \in sealed : e[2] # 0 /\ rows[<<Payload, e[1]>>].batch = e[2]

\* Replicas booted with different configurations agree with the recorded mode,
\* the one-way door of the first boot (initializeEncryption).
ServesAsRecorded ==
    \A r \in Replicas : start[r].at = "up" => start[r].config = mode

\* The keyring is a table of keys that only grows, by whole generations and
\* without gaps, and of which the replicas hold a part: no rewrap of a listing
\* of any age, no rotation that lost and no commit nobody heard of replaces or
\* drops a stored key (CreateKeyringEntries, RewrapKeyringEntries, Rotate).
Table == INSTANCE KeyTable WITH
             table <- KeysOf(rows), held <- ring, NoKey <- 0
ImplementsKeyTable == Table!Spec

Stranded == \E s \in Stored(rows) : rows[s].kek <= retired

\* A replica that goes on serving holds every stored key in the end, unless an
\* entry can no longer be unwrapped (Probe): what a peer seals becomes readable.
PeersAdopt ==
    \A r \in Replicas, s \in Slots :
        (Serving(r) /\ rows[s].batch # 0)
            ~> (~Serving(r) \/ ring[r][s] # 0 \/ Stranded)
=============================================================================
