--------------------------- MODULE Keyring_proofs ---------------------------
(* Safety of the keyring, for every set of replicas and of purposes and      *)
(* every bound on versions, batches, KEK versions and faults.                *)
EXTENDS Keyring, TLAPS

-----------------------------------------------------------------------------
(* Types *)

\* Storing entries over the table gives a table.
LEMMA InsertedTypes ==
    ASSUME rows \in Rows, NEW entries \in Rows
    PROVE  Inserted(entries) \in Rows
  BY DEF Inserted, Rows

\* The empty listing is a listing, and no process and no operation hold it.
LEMMA EmptyTypes ==
    /\ NoRows \in Rows /\ \A s \in Slots : NoRows[s].batch = 0 /\ NoRows[s].kek = 0
    /\ Down \in Start /\ Down.at = "down" /\ Down.seen = NoRows
    /\ NoOp \in Op /\ NoOp.at = "idle" /\ NoOp.kind = "rewrap" /\ NoOp.seen = NoRows
    /\ NoKeys \in [Slots -> Batches]
<1>1. 0 \in Batches /\ NoRow \in Row /\ NoRow.batch = 0 /\ NoRow.kek = 0
  BY KeyringAssumption DEF Batches, Row, NoRow
<1>2. NoRows \in Rows /\ \A s \in Slots : NoRows[s] = NoRow
  BY <1>1 DEF NoRows, Rows
<1>3. NoKeys \in [Slots -> Batches]
  BY <1>1 DEF NoKeys
<1>4. QED
  BY <1>1, <1>2, <1>3 DEF Down, NoOp, Start, Op

\* Freshly minted entries are a listing under the current KEK.
LEMMA MintedTypes ==
    ASSUME TypeOK, batch < MaxBatch
    PROVE  /\ batch + 1 \in Batches
           /\ Generated(kek) \in Rows
           /\ \A s \in Slots : Generated(kek)[s].kek <= kek
           /\ \A next : Minted(kek, next) \in Rows
           /\ \A next : \A s \in Slots : Minted(kek, next)[s].kek <= kek
<1>1. batch + 1 \in Batches /\ kek \in 0..MaxKEK /\ kek <= kek /\ 0 <= kek
  BY KeyringAssumption DEF TypeOK, Batches
<1>2. [batch |-> batch + 1, kek |-> kek] \in Row /\ NoRow \in Row /\ NoRow.kek = 0
  BY <1>1, KeyringAssumption DEF Row, NoRow, Batches
<1>3. Generated(kek) \in Rows /\ \A s \in Slots : Generated(kek)[s].kek <= kek
  BY <1>1, <1>2 DEF Generated, Rows
<1>4. ASSUME NEW next
      PROVE  /\ Minted(kek, next) \in Rows
             /\ \A s \in Slots : Minted(kek, next)[s].kek <= kek
  BY <1>1, <1>2 DEF Minted, Rows
<1>5. QED
  BY <1>1, <1>3, <1>4

\* Keys taken from a listing are keys.
LEMMA KeysOfTypes ==
    ASSUME NEW entries \in Rows
    PROVE  /\ KeysOf(entries) \in [Slots -> Batches]
           /\ \A s \in Slots : KeysOf(entries)[s] = entries[s].batch
  BY DEF KeysOf, Rows, Row

\* A process that moves on is the only one that moves.
LEMMA BecameEffect ==
    ASSUME start \in [Replicas -> Start], NEW r \in Replicas,
           NEW at \in {"down", "record", "list", "store", "load", "up"},
           NEW config \in {"plain", "encrypted"}, NEW seen \in Rows,
           Became(r, at, config, seen)
    PROVE  /\ start' \in [Replicas -> Start]
           /\ start'[r].at = at /\ start'[r].config = config /\ start'[r].seen = seen
           /\ \A q \in Replicas : q # r => start'[q] = start[q]
<1>1. [at |-> at, config |-> config, seen |-> seen] \in Start
  BY DEF Start
<1>2. QED
  BY <1>1 DEF Became

\* A process that stops is the only one that stops.
LEMMA DownEffect ==
    ASSUME start \in [Replicas -> Start], NEW r \in Replicas,
           start' = [start EXCEPT ![r] = Down]
    PROVE  /\ start' \in [Replicas -> Start]
           /\ start'[r].at = "down" /\ start'[r].seen = NoRows
           /\ \A q \in Replicas : q # r => start'[q] = start[q]
  BY EmptyTypes

\* Whatever the mode decides, the process moves on with an empty listing.
LEMMA DecidedEffect ==
    ASSUME start \in [Replicas -> Start], NEW r \in Replicas,
           NEW config \in {"plain", "encrypted"}, NEW m, Decided(r, config, m)
    PROVE  /\ start' \in [Replicas -> Start]
           /\ start'[r].seen = NoRows
           /\ start'[r].at \in {"down", "list", "up"}
           /\ start'[r].at # "down" => start'[r].config = config /\ m = config
           /\ start'[r].at = "list" => config = "encrypted"
           /\ \A q \in Replicas : q # r => start'[q] = start[q]
<1>1. CASE m # config
  BY <1>1, DownEffect DEF Decided
<1>2. CASE m = config
  <2> DEFINE at == IF config = "plain" THEN "up" ELSE "list"
  <2>1. Became(r, at, config, NoRows)
    BY <1>2 DEF Decided
  <2>2. at \in {"list", "up"} /\ (at = "list" => config = "encrypted")
    OBVIOUS
  <2> HIDE DEF at
  <2>3. QED
    BY <1>2, <2>1, <2>2, BecameEffect, EmptyTypes
<1>3. QED
  BY <1>1, <1>2

\* An operation that takes a turn is the only one that does.
LEMMA TurnEffect ==
    ASSUME op \in [Replicas -> Op], NEW r \in Replicas,
           NEW at \in {"idle", "wrap", "commit", "probe"},
           NEW kind \in {"rewrap", "rotate"}, NEW seen \in Rows,
           Turn(r, at, kind, seen)
    PROVE  /\ op' \in [Replicas -> Op]
           /\ op'[r].at = at /\ op'[r].kind = kind /\ op'[r].seen = seen
           /\ \A q \in Replicas : q # r => op'[q] = op[q]
<1>1. [at |-> at, kind |-> kind, seen |-> seen] \in Op
  BY DEF Op
<1>2. QED
  BY <1>1 DEF Turn

\* An operation that ends, or gives the turn up, holds nothing.
LEMMA EndedEffect ==
    ASSUME op \in [Replicas -> Op], NEW r \in Replicas,
           Ended(r) \/ op' = [op EXCEPT ![r] = NoOp]
    PROVE  /\ op' \in [Replicas -> Op]
           /\ op'[r].at # "commit" /\ op'[r].seen = NoRows
           /\ \A q \in Replicas : q # r => op'[q] = op[q]
<1>1. CASE Ended(r)
  <2>1. Turn(r, "probe", "rewrap", NoRows)
    BY <1>1 DEF Ended
  <2>2. QED
    BY <2>1, TurnEffect, EmptyTypes
<1>2. CASE op' = [op EXCEPT ![r] = NoOp]
  BY <1>2, EmptyTypes
<1>3. QED
  BY <1>1, <1>2

\* A probe leaves keys in the ring, each its own or the listed one.
LEMMA ProbedTypes ==
    ASSUME ring \in [Replicas -> [Slots -> Batches]], rows \in Rows,
           NEW r \in Replicas, Probed(r, rows)
    PROVE  /\ ring' \in [Replicas -> [Slots -> Batches]]
           /\ \A s \in Slots : ring'[r][s] = ring[r][s] \/ ring'[r][s] = rows[s].batch
           /\ \A q \in Replicas : q # r => ring'[q] = ring[q]
<1>1. /\ Adopted(r, rows) \in [Slots -> Batches]
      /\ \A s \in Slots : Adopted(r, rows)[s] \in {ring[r][s], rows[s].batch}
  BY DEF Adopted, Rows, Row
<1>2. QED
  BY <1>1 DEF Probed

-----------------------------------------------------------------------------
(* The inductive invariant *)

\* No listing in hand names a KEK version that is yet to come.
SeenBehind ==
    \A r \in Replicas, s \in Slots :
        start[r].seen[s].kek <= kek /\ op[r].seen[s].kek <= kek
Typed == TypeOK /\ SeenBehind

\* A listing none of whose entries names a KEK version to come.
Behind(entries) == \A s \in Slots : entries[s].kek <= kek

\* What a step that leaves the key service alone has to keep.
LEMMA Retyped ==
    ASSUME Typed, UNCHANGED <<kek, retired>>,
           mode' \in {"unset", "plain", "encrypted"},
           rows' \in Rows, Behind(rows'),
           start' \in [Replicas -> Start],
           \A q \in Replicas : start'[q] = start[q] \/ Behind(start'[q].seen),
           ring' \in [Replicas -> [Slots -> Batches]],
           op' \in [Replicas -> Op],
           \A q \in Replicas : op'[q] = op[q] \/ Behind(op'[q].seen),
           batch' \in Batches, sealed' \subseteq Versions \X Batches,
           faults' \in 0..MaxFaults
    PROVE  Typed'
<1>1. TypeOK'
  BY DEF Typed, TypeOK, Behind
<1>2. SeenBehind'
  BY DEF Typed, SeenBehind, Behind
<1>3. QED
  BY <1>1, <1>2 DEF Typed

\* What the state offers to such a step.
LEMMA TypedParts ==
    ASSUME Typed
    PROVE  /\ mode \in {"unset", "plain", "encrypted"}
           /\ rows \in Rows /\ Behind(rows) /\ Behind(NoRows)
           /\ kek \in 1..MaxKEK
           /\ start \in [Replicas -> Start]
           /\ \A q \in Replicas : /\ start[q].seen \in Rows /\ Behind(start[q].seen)
                                  /\ start[q].config \in {"plain", "encrypted"}
           /\ ring \in [Replicas -> [Slots -> Batches]]
           /\ op \in [Replicas -> Op]
           /\ \A q \in Replicas : op[q].seen \in Rows /\ Behind(op[q].seen)
           /\ batch \in Batches /\ sealed \subseteq Versions \X Batches
           /\ faults \in 0..MaxFaults
<1>1. kek \in 1..MaxKEK /\ 0 <= kek
  BY KeyringAssumption DEF Typed, TypeOK
<1>2. Behind(NoRows)
  BY <1>1, EmptyTypes DEF Behind
<1>3. \A q \in Replicas : /\ start[q].seen \in Rows /\ op[q].seen \in Rows
                          /\ start[q].config \in {"plain", "encrypted"}
  BY DEF Typed, TypeOK, Start, Op
<1>4. QED
  BY <1>1, <1>2, <1>3 DEF Typed, TypeOK, SeenBehind, Behind

\* Storing entries over the table leaves no entry ahead of the KEK.
LEMMA InsertedBehind ==
    ASSUME Typed, NEW entries \in Rows, Behind(entries)
    PROVE  Inserted(entries) \in Rows /\ Behind(Inserted(entries))
  BY TypedParts, InsertedTypes DEF Inserted, Behind

\* A rewrap holds the listed keys under the current KEK.
LEMMA RewrappedTypes ==
    ASSUME Typed, NEW r \in Replicas
    PROVE  /\ Rewrapped(r) \in Rows /\ Behind(Rewrapped(r))
           /\ \A s \in Slots : Rewrapped(r)[s].batch = op[r].seen[s].batch
<1>1. op[r].seen \in Rows /\ kek \in 0..MaxKEK /\ 0 <= kek
  BY TypedParts, KeyringAssumption
<1>2. ASSUME NEW s \in Slots
      PROVE  /\ Rewrapped(r)[s] \in Row /\ Rewrapped(r)[s].kek <= kek
             /\ Rewrapped(r)[s].batch = op[r].seen[s].batch
  <2>1. op[r].seen[s] \in Row
    BY <1>1 DEF Rows
  <2>2. CASE op[r].seen[s].batch # 0
    <3>1. Rewrapped(r)[s] = [op[r].seen[s] EXCEPT !.kek = kek]
      BY <2>2 DEF Rewrapped, Stored
    <3>2. QED
      BY <1>1, <2>1, <3>1 DEF Row
  <2>3. CASE op[r].seen[s].batch = 0
    <3>1. Rewrapped(r)[s] = NoRow
      BY <2>3 DEF Rewrapped, Stored
    <3>2. QED
      BY <1>1, <2>3, <3>1, KeyringAssumption DEF Row, NoRow, Batches
  <2>4. QED
    BY <2>2, <2>3
<1>3. QED
  BY <1>2 DEF Rows, Behind, Rewrapped

\* Starting and stopping keep the state well typed.
LEMMA StartTyped ==
    ASSUME Typed, NEW r \in Replicas, StartUp(r) \/ Crash(r)
    PROVE  Typed'
<1> USE TypedParts
<1>1. ASSUME NEW config \in {"plain", "encrypted"}, ReadMode(r, config)
      PROVE  Typed'
  <2>1. /\ start' \in [Replicas -> Start]
        /\ start'[r].seen = NoRows
        /\ \A q \in Replicas : q # r => start'[q] = start[q]
    <3>1. CASE mode = "unset"
      BY <1>1, <3>1, BecameEffect, EmptyTypes DEF ReadMode
    <3>2. CASE mode # "unset"
      BY <1>1, <3>2, DecidedEffect DEF ReadMode
    <3>3. QED
      BY <3>1, <3>2
  <2>2. UNCHANGED <<mode, rows, kek, retired, ring, op, batch, sealed, faults>>
    BY <1>1 DEF ReadMode, service
  <2>3. QED
    BY <2>1, <2>2, Retyped
<1>2. CASE RecordMode(r)
  <2>1. /\ start' \in [Replicas -> Start]
        /\ start'[r].seen = NoRows
        /\ \A q \in Replicas : q # r => start'[q] = start[q]
    BY <1>2, DecidedEffect DEF RecordMode
  <2>2. mode' \in {"unset", "plain", "encrypted"}
    BY <1>2 DEF RecordMode
  <2>3. UNCHANGED <<rows, kek, retired, ring, op, batch, sealed, faults>>
    BY <1>2 DEF RecordMode, service
  <2>4. QED
    BY <2>1, <2>2, <2>3, Retyped
<1>3. CASE ListKeyring(r)
  <2>1. /\ start' \in [Replicas -> Start] /\ batch' \in Batches
        /\ Behind(start'[r].seen)
        /\ \A q \in Replicas : q # r => start'[q] = start[q]
    <3>1. CASE Became(r, "load", "encrypted", rows) /\ UNCHANGED batch
      BY <3>1, BecameEffect
    <3>2. CASE /\ batch < MaxBatch /\ batch' = batch + 1
               /\ Became(r, "store", "encrypted", Generated(kek))
      <4>1. batch' \in Batches /\ Generated(kek) \in Rows /\ Behind(Generated(kek))
        BY <3>2, MintedTypes DEF Typed, Behind
      <4>2. QED
        BY <3>2, <4>1, BecameEffect
    <3>3. QED
      BY <1>3, <3>1, <3>2 DEF ListKeyring
  <2>2. UNCHANGED <<mode, rows, kek, retired, ring, op, sealed, faults>>
    BY <1>3 DEF ListKeyring, service
  <2>3. QED
    BY <2>1, <2>2, Retyped
<1>4. CASE Establish(r) \/ Load(r)
  <2>1. /\ start' \in [Replicas -> Start] /\ ring' \in [Replicas -> [Slots -> Batches]]
        /\ Behind(start'[r].seen)
        /\ \A q \in Replicas : q # r => start'[q] = start[q]
    <3>1. CASE Serve(r, start[r].seen)
      BY <3>1, BecameEffect, KeysOfTypes, EmptyTypes DEF Serve
    <3>2. CASE LostFirstBoot(r)
      BY <3>2, BecameEffect DEF LostFirstBoot
    <3>3. CASE start' = [start EXCEPT ![r] = Down] /\ UNCHANGED ring
      BY <3>3, DownEffect
    <3>4. QED
      BY <1>4, <3>1, <3>2, <3>3 DEF Establish, Load
  <2>2. rows' \in Rows /\ Behind(rows')
    <3>1. rows' = Inserted(start[r].seen) \/ rows' = rows
      BY <1>4 DEF Establish, Load
    <3>2. QED
      BY <3>1, InsertedBehind
  <2>3. UNCHANGED <<mode, kek, retired, op, batch, sealed, faults>>
    BY <1>4 DEF Establish, Load, service
  <2>4. QED
    BY <2>1, <2>2, <2>3, Retyped
<1>5. CASE Crash(r)
  <2>1. faults' \in 0..MaxFaults
    BY <1>5, KeyringAssumption DEF Crash
  <2>2. ring' \in [Replicas -> [Slots -> Batches]]
    BY <1>5, EmptyTypes DEF Crash
  <2>3. /\ start' \in [Replicas -> Start] /\ start'[r].seen = NoRows
        /\ \A q \in Replicas : q # r => start'[q] = start[q]
    BY <1>5, DownEffect DEF Crash
  <2>4. /\ op' \in [Replicas -> Op] /\ op'[r].seen = NoRows
        /\ \A q \in Replicas : q # r => op'[q] = op[q]
    BY <1>5, EndedEffect DEF Crash
  <2>5. UNCHANGED <<mode, rows, kek, retired, batch, sealed>>
    BY <1>5 DEF Crash, service
  <2>6. QED
    BY <2>1, <2>2, <2>3, <2>4, <2>5, Retyped
<1>6. QED
  BY <1>1, <1>2, <1>3, <1>4, <1>5 DEF StartUp

\* Sealing, the heartbeat and refusals keep the state well typed.
LEMMA ServeTyped ==
    ASSUME Typed, NEW r \in Replicas, Encrypt(r) \/ Probe(r) \/ Refuse(r)
    PROVE  Typed'
<1> USE TypedParts
<1>1. CASE Encrypt(r)
  <2>1. sealed' \subseteq Versions \X Batches
    <3>1. PICK v \in Versions : sealed' = sealed \cup Envelope(ring[r], v)
      BY <1>1 DEF Encrypt
    <3>2. <<Payload, v>> \in Slots
      BY KeyringAssumption DEF Slots
    <3>3. ring[r][<<Payload, v>>] \in Batches
      BY <3>2
    <3>4. Envelope(ring[r], v) \subseteq Versions \X Batches
      BY <3>3 DEF Envelope
    <3>5. QED
      BY <3>1, <3>4
  <2>2. UNCHANGED <<mode, rows, kek, retired, start, ring, op, batch, faults>>
    BY <1>1 DEF Encrypt, service, memory
  <2>3. QED
    BY <2>1, <2>2, Retyped
<1>2. CASE Probe(r)
  <2>1. ring' \in [Replicas -> [Slots -> Batches]]
    BY <1>2, ProbedTypes DEF Probe
  <2>2. UNCHANGED <<mode, rows, kek, retired, start, op, batch, sealed, faults>>
    BY <1>2 DEF Probe, service
  <2>3. QED
    BY <2>1, <2>2, Retyped
<1>3. CASE Refuse(r)
  <2>1. faults' \in 0..MaxFaults
    BY <1>3, KeyringAssumption DEF Refuse
  <2>2. /\ start' \in [Replicas -> Start]
        /\ \A q \in Replicas : start'[q] = start[q] \/ start'[q].seen = NoRows
    BY <1>3, DownEffect DEF Refuse
  <2>3. /\ op' \in [Replicas -> Op]
        /\ \A q \in Replicas : op'[q] = op[q] \/ op'[q].seen = NoRows
    BY <1>3, EndedEffect DEF Refuse
  <2>4. UNCHANGED <<mode, rows, kek, retired, ring, batch, sealed>>
    BY <1>3 DEF Refuse, service
  <2>5. QED
    BY <2>1, <2>2, <2>3, <2>4, Retyped
<1>4. QED
  BY <1>1, <1>2, <1>3

\* The operator of the key service keeps the state well typed.
LEMMA OperatorTyped ==
    ASSUME Typed, RotateKEK \/ RetireKEK
    PROVE  Typed'
<1>1. CASE RotateKEK
  <2>1. kek' = kek + 1 /\ kek' \in 1..MaxKEK
    BY <1>1, KeyringAssumption DEF RotateKEK, Typed, TypeOK
  <2>2. \A n \in Nat : n <= kek => n <= kek'
    BY <2>1 DEF Typed, TypeOK
  <2>3. \A entries \in Rows, s \in Slots : entries[s].kek \in Nat
    BY KeyringAssumption DEF Rows, Row
  <2>4. UNCHANGED <<mode, rows, retired, start, ring, op, batch, sealed, faults>>
    BY <1>1 DEF RotateKEK, memory
  <2>5. TypeOK'
    BY <2>1, <2>2, <2>3, <2>4 DEF Typed, TypeOK
  <2>6. SeenBehind'
    BY <2>2, <2>3, <2>4, TypedParts DEF Typed, SeenBehind
  <2>7. QED
    BY <2>5, <2>6 DEF Typed
<1>2. CASE RetireKEK
  <2>1. retired' \in 0..MaxKEK
    BY <1>2, KeyringAssumption DEF RetireKEK, Typed, TypeOK
  <2>2. UNCHANGED <<mode, rows, kek, start, ring, op, batch, sealed, faults>>
    BY <1>2 DEF RetireKEK, memory
  <2>3. QED
    BY <2>1, <2>2 DEF Typed, TypeOK, SeenBehind
<1>3. QED
  BY <1>1, <1>2

\* A rewrap and a rotation keep the state well typed.
LEMMA OperateTyped ==
    ASSUME Typed, NEW r \in Replicas, Operate(r)
    PROVE  Typed'
<1> USE TypedParts
<1>1. ASSUME NEW kind \in {"rewrap", "rotate"}, Begin(r, kind)
      PROVE  Typed'
  <2>1. /\ op' \in [Replicas -> Op] /\ op'[r].seen = rows
        /\ \A q \in Replicas : q # r => op'[q] = op[q]
    BY <1>1, TurnEffect DEF Begin
  <2>2. UNCHANGED <<mode, rows, kek, retired, start, ring, batch, sealed, faults>>
    BY <1>1 DEF Begin, service
  <2>3. QED
    BY <2>1, <2>2, Retyped
<1>2. CASE RewrapEntries(r)
  <2>1. Rewrapped(r) \in Rows /\ Behind(Rewrapped(r))
    BY RewrappedTypes
  <2>2. Turn(r, "commit", "rewrap", Rewrapped(r)) \/ Ended(r)
    BY <1>2 DEF RewrapEntries, Rewrapped
  <2>3. /\ op' \in [Replicas -> Op]
        /\ \A q \in Replicas : op'[q] = op[q] \/ op'[q].seen \in {NoRows, Rewrapped(r)}
    BY <2>1, <2>2, TurnEffect, EndedEffect
  <2>4. UNCHANGED <<mode, rows, kek, retired, start, ring, batch, sealed, faults>>
    BY <1>2 DEF RewrapEntries, service
  <2>5. QED
    BY <2>1, <2>3, <2>4, Retyped
<1>3. CASE MintEntries(r)
  <2>1. PICK next \in [Purposes -> Versions] :
           Turn(r, "commit", "rotate", Minted(kek, next))
    BY <1>3 DEF MintEntries
  <2>2. batch' \in Batches /\ Minted(kek, next) \in Rows /\ Behind(Minted(kek, next))
    BY <1>3, MintedTypes DEF MintEntries, Typed, Behind
  <2>3. /\ op' \in [Replicas -> Op] /\ op'[r].seen = Minted(kek, next)
        /\ \A q \in Replicas : q # r => op'[q] = op[q]
    BY <2>1, <2>2, TurnEffect
  <2>4. UNCHANGED <<mode, rows, kek, retired, start, ring, sealed, faults>>
    BY <1>3 DEF MintEntries, service
  <2>5. QED
    BY <2>2, <2>3, <2>4, Retyped
<1>4. ASSUME NEW stored \in BOOLEAN,
             CommitRewrap(r) \/ CommitRotate(r) \/ LoseCommit(r, stored)
      PROVE  Typed'
  <2>1. rows' = Inserted(op[r].seen) \/ rows' = rows
    BY <1>4 DEF CommitRewrap, CommitRotate, LoseCommit
  <2>2. rows' \in Rows /\ Behind(rows')
    BY <2>1, InsertedBehind
  <2>3. ring' \in [Replicas -> [Slots -> Batches]]
    <3>1. [s \in Slots |-> IF s \in Stored(op[r].seen) THEN op[r].seen[s].batch
                                                       ELSE ring[r][s]]
             \in [Slots -> Batches]
      BY DEF Rows, Row
    <3>2. QED
      BY <1>4, <3>1 DEF CommitRewrap, CommitRotate, LoseCommit
  <2>4. Ended(r) /\ faults' \in 0..MaxFaults
    BY <1>4, KeyringAssumption DEF CommitRewrap, CommitRotate, LoseCommit
  <2>5. /\ op' \in [Replicas -> Op] /\ op'[r].seen = NoRows
        /\ \A q \in Replicas : q # r => op'[q] = op[q]
    BY <2>4, EndedEffect
  <2>6. UNCHANGED <<mode, kek, retired, start, batch, sealed>>
    BY <1>4 DEF CommitRewrap, CommitRotate, LoseCommit, service
  <2>7. QED
    BY <2>2, <2>3, <2>4, <2>5, <2>6, Retyped
<1>5. CASE ProbeAfter(r)
  <2>1. ring' \in [Replicas -> [Slots -> Batches]]
    BY <1>5, ProbedTypes DEF ProbeAfter
  <2>2. /\ op' \in [Replicas -> Op] /\ op'[r].seen = NoRows
        /\ \A q \in Replicas : q # r => op'[q] = op[q]
    BY <1>5, EndedEffect DEF ProbeAfter
  <2>3. UNCHANGED <<mode, rows, kek, retired, start, batch, sealed, faults>>
    BY <1>5 DEF ProbeAfter, service
  <2>4. QED
    BY <2>1, <2>2, <2>3, Retyped
<1>6. QED
  BY <1>1, <1>2, <1>3, <1>4, <1>5 DEF Operate

\* Every step keeps the state well typed.
LEMMA TypedStep == Typed /\ [Next]_vars => Typed'
<1> SUFFICES ASSUME Typed, [Next]_vars PROVE Typed'
  OBVIOUS
<1>1. CASE UNCHANGED vars
  BY <1>1 DEF vars, service, memory, Typed, TypeOK, SeenBehind
<1>2. ASSUME NEW r \in Replicas, StartUp(r) \/ Crash(r) PROVE Typed'
  BY <1>2, StartTyped
<1>3. ASSUME NEW r \in Replicas, Encrypt(r) \/ Probe(r) \/ Refuse(r) PROVE Typed'
  BY <1>3, ServeTyped
<1>4. ASSUME NEW r \in Replicas, Operate(r) PROVE Typed'
  BY <1>4, OperateTyped
<1>5. CASE RotateKEK \/ RetireKEK
  BY <1>5, OperatorTyped
<1>6. QED
  BY <1>1, <1>2, <1>3, <1>4, <1>5 DEF Next

-----------------------------------------------------------------------------
(* What a step may do to the table and to the rings *)

\* The keys of a listing are stored ones.
Stands(entries) == \A s \in Slots :
    entries[s].batch # 0 => rows[s].batch = entries[s].batch

\* Listings still to be used name stored keys; only a rotation about to commit
\* holds keys that nobody stored.
ListingsStand ==
    \A r \in Replicas :
        /\ start[r].at = "load" => Stands(start[r].seen)
        /\ (op[r].kind = "rotate" /\ op[r].at = "commit") \/ Stands(op[r].seen)

\* A process past the reading of the mode runs with the recorded one.
ModeAgrees ==
    \A r \in Replicas :
        /\ start[r].at \in {"list", "store", "load", "up"} => start[r].config = mode
        /\ start[r].at \in {"list", "store", "load"} => start[r].config = "encrypted"

IInv == Typed /\ Agreement /\ ListingsStand /\ ModeAgrees /\ SealedStaysOpenable

Kept == \A s \in Slots : rows[s].batch # 0 => rows'[s].batch = rows[s].batch

\* Entries that are new, or as stored, replace no key.
LEMMA InsertedKeeps ==
    ASSUME NEW entries, Free(entries) \/ Stands(entries), rows' = Inserted(entries)
    PROVE  /\ Kept
           /\ \A s \in Slots : entries[s].batch # 0 => rows'[s].batch = entries[s].batch
  BY DEF Free, Stands, Inserted, Kept, Stored

\* No step replaces or loses a stored key: a rewrap stores keys it listed, and
\* first boots and rotations store none where one is already.
LEMMA KeptStep ==
    ASSUME ListingsStand, [Next]_vars
    PROVE  Kept
<1>1. ASSUME NEW r \in Replicas, Establish(r) PROVE Kept
  BY <1>1, InsertedKeeps DEF Establish, Kept
<1>2. ASSUME NEW r \in Replicas, CommitRewrap(r) PROVE Kept
  BY <1>2, InsertedKeeps DEF CommitRewrap, ListingsStand
<1>3. ASSUME NEW r \in Replicas, CommitRotate(r) PROVE Kept
  BY <1>3, InsertedKeeps DEF CommitRotate, Kept
<1>4. ASSUME NEW r \in Replicas, NEW stored \in BOOLEAN, LoseCommit(r, stored)
      PROVE  Kept
  BY <1>4, InsertedKeeps DEF LoseCommit, ListingsStand, Kept
<1>5. CASE UNCHANGED rows
  BY <1>5 DEF Kept
<1>6. QED
  BY <1>1, <1>2, <1>3, <1>4, <1>5
     DEF Next, StartUp, Operate, ReadMode, RecordMode, ListKeyring, Load, Encrypt,
         Probe, Begin, RewrapEntries, MintEntries, ProbeAfter, Crash, Refuse,
         RotateKEK, RetireKEK, vars

\* Every key a ring has after a step it had before, or is the stored one.
LEMMA RingStep ==
    ASSUME Typed, ListingsStand, [Next]_vars
    PROVE  \A q \in Replicas, s \in Slots :
              ring'[q][s] \in {0, ring[q][s], rows'[s].batch}
<1> DEFINE Follows == \A q \in Replicas, s \in Slots :
              ring'[q][s] \in {0, ring[q][s], rows'[s].batch}
<1> USE TypedParts
<1>1. ASSUME NEW r \in Replicas, NEW entries \in Rows, Serve(r, entries),
             \A s \in Slots : entries[s].batch # 0 => rows'[s].batch = entries[s].batch
      PROVE  Follows
  <2>1. ring' = [ring EXCEPT ![r] = KeysOf(entries)]
    BY <1>1 DEF Serve
  <2>2. QED
    BY <1>1, <2>1, KeysOfTypes
<1>2. ASSUME NEW r \in Replicas, Establish(r) PROVE Follows
  <2>1. CASE /\ Free(start[r].seen) /\ rows' = Inserted(start[r].seen)
             /\ Serve(r, start[r].seen)
    BY <1>1, <2>1, InsertedKeeps
  <2>2. CASE UNCHANGED ring
    BY <2>2
  <2>3. QED
    BY <1>2, <2>1, <2>2 DEF Establish, LostFirstBoot
<1>3. ASSUME NEW r \in Replicas, Load(r) PROVE Follows
  <2>1. UNCHANGED rows /\ Stands(start[r].seen)
    BY <1>3 DEF Load, ListingsStand
  <2>2. CASE Serve(r, start[r].seen)
    BY <1>1, <2>1, <2>2 DEF Stands
  <2>3. CASE UNCHANGED ring
    BY <2>3
  <2>4. QED
    BY <1>3, <2>2, <2>3 DEF Load
<1>4. ASSUME NEW r \in Replicas, Crash(r) PROVE Follows
  BY <1>4 DEF Crash, NoKeys
<1>5. ASSUME NEW r \in Replicas, Probe(r) \/ ProbeAfter(r) PROVE Follows
  BY <1>5, ProbedTypes DEF Probe, ProbeAfter
<1>6. ASSUME NEW r \in Replicas, CommitRotate(r) PROVE Follows
  <2>1. CASE UNCHANGED ring
    BY <2>1
  <2>2. CASE /\ Free(op[r].seen) /\ rows' = Inserted(op[r].seen)
             /\ ring' = [ring EXCEPT ![r] =
                   [s \in Slots |-> IF s \in Stored(op[r].seen) THEN op[r].seen[s].batch
                                                                ELSE ring[r][s]]]
    <3>1. \A s \in Slots : op[r].seen[s].batch # 0 => rows'[s].batch = op[r].seen[s].batch
      BY <2>2, InsertedKeeps
    <3>2. QED
      BY <2>2, <3>1 DEF Stored
  <2>3. QED
    BY <1>6, <2>1, <2>2 DEF CommitRotate
<1>7. CASE UNCHANGED ring
  BY <1>7
<1>8. QED
  BY <1>2, <1>3, <1>4, <1>5, <1>6, <1>7
     DEF Next, StartUp, Operate, ReadMode, RecordMode, ListKeyring, Encrypt,
         Begin, RewrapEntries, MintEntries, CommitRewrap, LoseCommit, Refuse,
         RotateKEK, RetireKEK, memory, vars

-----------------------------------------------------------------------------
(* The invariant is inductive *)

\* A listing that names stored keys goes on doing so.
LEMMA StandsKept ==
    ASSUME rows \in Rows, Kept, NEW entries, Stands(entries) \/ entries = rows
    PROVE  \A s \in Slots : entries[s].batch # 0 => rows'[s].batch = entries[s].batch
  BY DEF Kept, Stands

\* A process about to load holds what it held before, or the table as it is.
LEMMA LoadListing ==
    ASSUME Typed, [Next]_vars, NEW q \in Replicas, start'[q].at = "load"
    PROVE  \/ start[q].at = "load" /\ start'[q].seen = start[q].seen
           \/ start'[q].seen = rows
<1> USE TypedParts
<1> DEFINE Holds == \/ start'[q] = start[q]
                    \/ start'[q].at # "load"
                    \/ start'[q].seen = rows
<1>1. ASSUME NEW r \in Replicas, NEW config \in {"plain", "encrypted"},
             ReadMode(r, config)
      PROVE  Holds
  <2>1. CASE mode = "unset"
    BY <1>1, <2>1, BecameEffect, EmptyTypes DEF ReadMode
  <2>2. CASE mode # "unset"
    BY <1>1, <2>2, DecidedEffect DEF ReadMode
  <2>3. QED
    BY <2>1, <2>2
<1>2. ASSUME NEW r \in Replicas, RecordMode(r) PROVE Holds
  BY <1>2, DecidedEffect DEF RecordMode
<1>3. ASSUME NEW r \in Replicas, ListKeyring(r) PROVE Holds
  <2>1. CASE Became(r, "load", "encrypted", rows)
    BY <2>1, BecameEffect
  <2>2. CASE batch < MaxBatch /\ Became(r, "store", "encrypted", Generated(kek))
    <3>1. Generated(kek) \in Rows
      BY <2>2, MintedTypes DEF Typed
    <3>2. QED
      BY <2>2, <3>1, BecameEffect
  <2>3. QED
    BY <1>3, <2>1, <2>2 DEF ListKeyring
<1>4. ASSUME NEW r \in Replicas, Establish(r) \/ Load(r) PROVE Holds
  <2>1. CASE Serve(r, start[r].seen)
    BY <2>1, BecameEffect, EmptyTypes DEF Serve
  <2>2. CASE LostFirstBoot(r)
    BY <2>2, BecameEffect DEF LostFirstBoot
  <2>3. CASE start' = [start EXCEPT ![r] = Down]
    BY <2>3, DownEffect
  <2>4. QED
    BY <1>4, <2>1, <2>2, <2>3 DEF Establish, Load
<1>5. ASSUME NEW r \in Replicas, Crash(r) \/ Refuse(r) PROVE Holds
  BY <1>5, DownEffect DEF Crash, Refuse
<1>6. CASE UNCHANGED start
  BY <1>6
<1>7. Holds
  BY <1>1, <1>2, <1>3, <1>4, <1>5, <1>6
     DEF Next, StartUp, Operate, Encrypt, Probe, ProbeAfter, Begin, RewrapEntries,
         MintEntries, CommitRewrap, CommitRotate, LoseCommit,
         RotateKEK, RetireKEK, memory, vars
<1>8. QED
  BY <1>7

\* Another operation than a rotation about to commit holds the keys it held
\* before, the table as it is, or nothing.
LEMMA OperationListing ==
    ASSUME Typed, [Next]_vars, NEW q \in Replicas,
           ~(op'[q].kind = "rotate" /\ op'[q].at = "commit")
    PROVE  \/ /\ ~(op[q].kind = "rotate" /\ op[q].at = "commit")
              /\ \A s \in Slots : op'[q].seen[s].batch = op[q].seen[s].batch
           \/ op'[q].seen \in {rows, NoRows}
<1> USE TypedParts
<1> DEFINE Holds ==
      \/ op'[q] = op[q]
      \/ op'[q].kind = "rotate" /\ op'[q].at = "commit"
      \/ /\ ~(op[q].kind = "rotate" /\ op[q].at = "commit")
         /\ \A s \in Slots : op'[q].seen[s].batch = op[q].seen[s].batch
      \/ op'[q].seen \in {rows, NoRows}
<1>1. ASSUME NEW r \in Replicas, NEW kind \in {"rewrap", "rotate"}, Begin(r, kind)
      PROVE  Holds
  BY <1>1, TurnEffect DEF Begin
<1>2. ASSUME NEW r \in Replicas, RewrapEntries(r) PROVE Holds
  <2>1. CASE Turn(r, "commit", "rewrap", Rewrapped(r))
    BY <1>2, <2>1, TurnEffect, RewrappedTypes DEF RewrapEntries
  <2>2. CASE Ended(r)
    BY <2>2, EndedEffect
  <2>3. QED
    BY <1>2, <2>1, <2>2 DEF RewrapEntries
<1>3. ASSUME NEW r \in Replicas, MintEntries(r) PROVE Holds
  <2>1. PICK next \in [Purposes -> Versions] :
           Turn(r, "commit", "rotate", Minted(kek, next))
    BY <1>3 DEF MintEntries
  <2>2. Minted(kek, next) \in Rows
    BY <1>3, MintedTypes DEF MintEntries, Typed
  <2>3. QED
    BY <2>1, <2>2, TurnEffect
<1>4. ASSUME NEW r \in Replicas, NEW stored \in BOOLEAN,
             \/ CommitRewrap(r) \/ CommitRotate(r) \/ LoseCommit(r, stored)
             \/ ProbeAfter(r) \/ Crash(r) \/ Refuse(r)
      PROVE  Holds
  <2>1. Ended(r) \/ op' = [op EXCEPT ![r] = NoOp] \/ UNCHANGED op
    BY <1>4 DEF CommitRewrap, CommitRotate, LoseCommit, ProbeAfter, Crash, Refuse
  <2>2. QED
    BY <2>1, EndedEffect
<1>5. CASE UNCHANGED op
  BY <1>5
<1>6. Holds
  BY <1>1, <1>2, <1>3, <1>4, <1>5
     DEF Next, StartUp, Operate, ReadMode, RecordMode, ListKeyring, Establish, Load,
         Encrypt, Probe, RotateKEK, RetireKEK, memory, vars
<1>7. QED
  BY <1>6

\* The listings in hand go on naming stored keys.
LEMMA ListingsStep ==
    ASSUME Typed, ListingsStand, Kept, [Next]_vars
    PROVE  ListingsStand'
<1>1. ASSUME NEW q \in Replicas, start'[q].at = "load"
      PROVE  \A s \in Slots : start'[q].seen[s].batch # 0 =>
                rows'[s].batch = start'[q].seen[s].batch
  <2>1. Stands(start'[q].seen) \/ start'[q].seen = rows
    BY <1>1, LoadListing DEF ListingsStand
  <2>2. QED
    BY <2>1, StandsKept, TypedParts
<1>2. ASSUME NEW q \in Replicas, ~(op'[q].kind = "rotate" /\ op'[q].at = "commit")
      PROVE  \A s \in Slots : op'[q].seen[s].batch # 0 =>
                rows'[s].batch = op'[q].seen[s].batch
  <2>1. Stands(op'[q].seen) \/ op'[q].seen = rows
    BY <1>2, OperationListing, EmptyTypes DEF ListingsStand, Stands
  <2>2. QED
    BY <2>1, StandsKept, TypedParts
<1>3. QED
  BY <1>1, <1>2 DEF ListingsStand, Stands

\* The mode is recorded once, and nobody runs before that.
LEMMA ModeStep ==
    ASSUME Typed, ModeAgrees, [Next]_vars
    PROVE  ModeAgrees'
<1> USE TypedParts
<1> DEFINE Past(q) == start[q].at \in {"list", "store", "load", "up"}
           Agrees(q) ==
              /\ Past(q) => start[q].config = mode
              /\ start[q].at \in {"list", "store", "load"} => start[q].config = "encrypted"
<1>1. ASSUME NEW r \in Replicas, NEW config \in {"plain", "encrypted"},
             ReadMode(r, config), NEW q \in Replicas
      PROVE  Agrees(q)'
  <2>1. CASE mode = "unset"
    BY <1>1, <2>1, BecameEffect, EmptyTypes DEF ReadMode, ModeAgrees
  <2>2. CASE mode # "unset"
    <3>1. Decided(r, config, mode) /\ UNCHANGED mode
      BY <1>1, <2>2 DEF ReadMode
    <3>2. CASE q = r
      BY <3>1, <3>2, DecidedEffect
    <3>3. CASE q # r
      <4>1. start'[q] = start[q]
        BY <3>1, <3>3, DecidedEffect
      <4>2. QED
        BY <3>1, <4>1 DEF ModeAgrees
    <3>4. QED
      BY <3>2, <3>3
  <2>3. QED
    BY <2>1, <2>2
<1>2. ASSUME NEW r \in Replicas, RecordMode(r), NEW q \in Replicas
      PROVE  Agrees(q)'
  <2>1. mode' = mode \/ mode = "unset"
    BY <1>2 DEF RecordMode
  <2>2. Past(q) => mode' = mode
    BY <2>1 DEF ModeAgrees
  <2>3. CASE q = r
    BY <1>2, <2>3, DecidedEffect DEF RecordMode, Recorded
  <2>4. CASE q # r
    <3>1. start'[q] = start[q]
      BY <1>2, <2>4, DecidedEffect DEF RecordMode
    <3>2. QED
      BY <2>2, <3>1 DEF ModeAgrees
  <2>5. QED
    BY <2>3, <2>4
<1>3. ASSUME NEW r \in Replicas, ListKeyring(r) \/ Establish(r) \/ Load(r),
             NEW q \in Replicas
      PROVE  Agrees(q)'
  <2>1. UNCHANGED mode /\ start[r].config = "encrypted" /\ start[r].config = mode
    BY <1>3 DEF ListKeyring, Establish, Load, ModeAgrees
  <2>2. \/ \E at \in {"load", "store", "up"}, seen \in Rows :
             Became(r, at, "encrypted", seen)
        \/ start' = [start EXCEPT ![r] = Down]
    <3>1. CASE ListKeyring(r)
      <4>1. batch < MaxBatch => Generated(kek) \in Rows
        BY MintedTypes DEF Typed
      <4>2. QED
        BY <3>1, <4>1 DEF ListKeyring
    <3>2. CASE Establish(r) \/ Load(r)
      BY <3>2, EmptyTypes DEF Establish, Load, Serve, LostFirstBoot
    <3>3. QED
      BY <1>3, <3>1, <3>2
  <2>3. QED
    BY <2>1, <2>2, BecameEffect, DownEffect DEF ModeAgrees
<1>4. ASSUME NEW r \in Replicas, Crash(r) \/ Refuse(r), NEW q \in Replicas
      PROVE  Agrees(q)'
  BY <1>4, DownEffect DEF Crash, Refuse, ModeAgrees
<1>5. CASE UNCHANGED <<mode, start>>
  BY <1>5 DEF ModeAgrees
<1>6. \A q \in Replicas : Agrees(q)'
  <2> SUFFICES ASSUME NEW q \in Replicas PROVE Agrees(q)'
    OBVIOUS
  <2>1. CASE UNCHANGED <<mode, start>>
    BY <2>1 DEF ModeAgrees
  <2>2. QED
    BY <1>1, <1>2, <1>3, <1>4, <2>1
       DEF Next, StartUp, Operate, Encrypt, Probe, ProbeAfter, Begin, RewrapEntries,
           MintEntries, CommitRewrap, CommitRotate, LoseCommit,
           RotateKEK, RetireKEK, memory, vars
<1>7. QED
  BY <1>6 DEF ModeAgrees

\* The rings go on agreeing with the table.
LEMMA AgreementStep ==
    ASSUME Typed, ListingsStand, Agreement, Kept, [Next]_vars
    PROVE  Agreement'
  BY RingStep DEF Agreement, Kept

\* What is sealed is sealed under a stored key, and stored keys stand.
LEMMA SealedStep ==
    ASSUME Typed, Agreement, SealedStaysOpenable, Kept, [Next]_vars
    PROVE  SealedStaysOpenable'
<1> USE TypedParts
<1>1. ASSUME NEW e \in sealed
      PROVE  e[2] # 0 /\ rows'[<<Payload, e[1]>>].batch = e[2]
  <2>1. <<Payload, e[1]>> \in Slots
    BY KeyringAssumption DEF Slots
  <2>2. QED
    BY <2>1 DEF SealedStaysOpenable, Kept
<1>2. ASSUME NEW r \in Replicas, Encrypt(r) PROVE SealedStaysOpenable'
  <2>1. PICK v \in Versions :
           IsActive(ring[r], Payload, v) /\ sealed' = sealed \cup Envelope(ring[r], v)
    BY <1>2 DEF Encrypt
  <2>2. <<Payload, v>> \in Slots
    BY KeyringAssumption DEF Slots
  <2>3. /\ ring[r][<<Payload, v>>] # 0
        /\ rows[<<Payload, v>>].batch = ring[r][<<Payload, v>>]
    BY <2>1, <2>2 DEF IsActive, Agreement
  <2>4. UNCHANGED rows
    BY <1>2 DEF Encrypt
  <2>5. ASSUME NEW e \in sealed'
        PROVE  e[2] # 0 /\ rows'[<<Payload, e[1]>>].batch = e[2]
    <3>1. CASE e \in sealed
      BY <1>1, <3>1
    <3>2. CASE e = <<v, ring[r][<<Payload, v>>]>>
      BY <2>3, <2>4, <3>2
    <3>3. QED
      BY <2>1, <3>1, <3>2 DEF Envelope
  <2>6. QED
    BY <2>5 DEF SealedStaysOpenable
<1>3. CASE UNCHANGED sealed
  BY <1>1, <1>3 DEF SealedStaysOpenable
<1>4. QED
  BY <1>2, <1>3
     DEF Next, StartUp, Operate, ReadMode, RecordMode, ListKeyring, Establish, Load,
         Probe, ProbeAfter, Begin, RewrapEntries, MintEntries, CommitRewrap,
         CommitRotate, LoseCommit, Crash, Refuse, RotateKEK, RetireKEK, vars

\* The inductive invariant holds in every reachable state.
THEOREM Invariance == Spec => []IInv
<1>1. Init => IInv
  <2> SUFFICES ASSUME Init PROVE IInv
    OBVIOUS
  <2>1. Typed
    <3>1. TypeOK
      <4>1. /\ start \in [Replicas -> Start] /\ op \in [Replicas -> Op]
            /\ ring \in [Replicas -> [Slots -> Batches]]
        BY EmptyTypes DEF Init
      <4>2. /\ kek = 1 /\ kek \in 1..MaxKEK /\ retired \in 0..MaxKEK
            /\ batch \in Batches /\ faults \in 0..MaxFaults /\ sealed = {}
        BY KeyringAssumption DEF Init, Batches
      <4>3. rows \in Rows /\ \A s \in Slots : rows[s].kek <= kek
        BY <4>2, EmptyTypes DEF Init
      <4>4. QED
        BY <4>1, <4>2, <4>3 DEF Init, TypeOK
    <3>2. SeenBehind
      BY EmptyTypes DEF Init, SeenBehind
    <3>3. QED
      BY <3>1, <3>2 DEF Typed
  <2>2. Agreement /\ ListingsStand
    BY EmptyTypes DEF Init, Agreement, ListingsStand, Stands, NoKeys
  <2>3. ModeAgrees /\ SealedStaysOpenable
    BY EmptyTypes DEF Init, ModeAgrees, SealedStaysOpenable
  <2>4. QED
    BY <2>1, <2>2, <2>3 DEF IInv
<1>2. IInv /\ [Next]_vars => IInv'
  BY TypedStep, KeptStep, ListingsStep, ModeStep, AgreementStep, SealedStep DEF IInv
<1>3. QED
  BY <1>1, <1>2, PTL DEF Spec

\* The table, the replicas, the rings and the operations under way are well
\* typed, and no row names a version of the KEK that does not exist yet.
THEOREM TypeCorrect == Spec => []TypeOK
<1>1. IInv => TypeOK
  BY DEF IInv, Typed
<1>2. QED
  BY <1>1, Invariance, PTL

\* No replica ever serves with a key that is not the stored one, whatever boots,
\* rotations and rewraps race (initializeEncryption, Rotate, Probe).
THEOREM AgreementHolds == Spec => []Agreement
<1>1. IInv => Agreement
  BY DEF IInv
<1>2. QED
  BY <1>1, Invariance, PTL

\* Everything sealed by anyone opens with the stored key of its version.
THEOREM SealedStaysOpenableHolds == Spec => []SealedStaysOpenable
<1>1. IInv => SealedStaysOpenable
  BY DEF IInv
<1>2. QED
  BY <1>1, Invariance, PTL

\* A serving replica runs in the mode the first boot recorded.
THEOREM ServesAsRecordedHolds == Spec => []ServesAsRecorded
<1>1. IInv => ServesAsRecorded
  BY DEF IInv, ModeAgrees, ServesAsRecorded
<1>2. QED
  BY <1>1, Invariance, PTL

-----------------------------------------------------------------------------
(* The keyring implements its abstract specification *)

\* Entries that are one more version of every purpose.
OneGeneration(entries) ==
    \E next \in [Purposes -> Versions] :
        /\ \A s \in Slots : entries[s].batch # 0 <=> s[2] = next[s[1]]
        /\ \A p \in Purposes : next[p] = 1 \/ rows[<<p, next[p] - 1>>].batch # 0

\* What a first boot or a rotation is about to store is one generation.
Generations ==
    \A r \in Replicas :
        /\ start[r].at = "store" => OneGeneration(start[r].seen)
        /\ (op[r].kind = "rotate" /\ op[r].at = "commit") => OneGeneration(op[r].seen)

\* A generation over a table stays one while the table keeps its keys.
LEMMA GenerationKept ==
    ASSUME Kept, NEW entries, OneGeneration(entries)
    PROVE  \E next \in [Purposes -> Versions] :
              /\ \A s \in Slots : entries[s].batch # 0 <=> s[2] = next[s[1]]
              /\ \A p \in Purposes : next[p] = 1 \/ rows'[<<p, next[p] - 1>>].batch # 0
<1>1. PICK next \in [Purposes -> Versions] :
         /\ \A s \in Slots : entries[s].batch # 0 <=> s[2] = next[s[1]]
         /\ \A p \in Purposes : next[p] = 1 \/ rows[<<p, next[p] - 1>>].batch # 0
  BY DEF OneGeneration
<1>2. ASSUME NEW p \in Purposes, next[p] # 1
      PROVE  rows'[<<p, next[p] - 1>>].batch # 0
  <2>1. next[p] - 1 \in Versions
    BY <1>2, KeyringAssumption DEF Versions
  <2>2. <<p, next[p] - 1>> \in Slots /\ rows[<<p, next[p] - 1>>].batch # 0
    BY <1>1, <1>2, <2>1 DEF Slots
  <2>3. QED
    BY <2>2 DEF Kept
<1>3. QED
  BY <1>1, <1>2

\* Generate makes the first generation.
LEMMA GeneratedGeneration ==
    ASSUME TypeOK
    PROVE  OneGeneration(Generated(kek))
<1>1. batch + 1 # 0 /\ NoRow.batch = 0 /\ 1 \in Versions
  BY KeyringAssumption DEF TypeOK, Batches, NoRow, Versions
<1> DEFINE next == [p \in Purposes |-> 1]
<1>2. next \in [Purposes -> Versions] /\ \A p \in Purposes : next[p] = 1
  BY <1>1
<1>3. \A s \in Slots : Generated(kek)[s].batch # 0 <=> s[2] = 1
  BY <1>1 DEF Generated
<1>4. \A s \in Slots : s[1] \in Purposes
  BY DEF Slots
<1>5. QED
  BY <1>2, <1>3, <1>4 DEF OneGeneration

\* Rotate makes the next one, over the listing it holds.
LEMMA MintedGeneration ==
    ASSUME TypeOK, NEW entries, Stands(entries), NEW next \in [Purposes -> Versions],
           \A p \in Purposes : IsNextVersion(entries, p, next[p])
    PROVE  OneGeneration(Minted(kek, next))
<1>1. batch + 1 # 0 /\ NoRow.batch = 0
  BY KeyringAssumption DEF TypeOK, Batches, NoRow
<1>2. \A s \in Slots : Minted(kek, next)[s].batch # 0 <=> s[2] = next[s[1]]
  BY <1>1 DEF Minted
<1>3. ASSUME NEW p \in Purposes, next[p] # 1
      PROVE  rows[<<p, next[p] - 1>>].batch # 0
  <2>1. next[p] - 1 \in Versions
    BY <1>3, KeyringAssumption DEF Versions
  <2>2. <<p, next[p] - 1>> \in Slots
    BY <2>1 DEF Slots
  <2>3. QED
    BY <1>3, <2>2 DEF IsNextVersion, Stands
<1>4. QED
  BY <1>2, <1>3 DEF OneGeneration

\* A first boot about to store holds what it held, or a first generation.
LEMMA StoreListing ==
    ASSUME Typed, [Next]_vars, NEW q \in Replicas, start'[q].at = "store"
    PROVE  \/ start[q].at = "store" /\ start'[q].seen = start[q].seen
           \/ start'[q].seen = Generated(kek)
<1> USE TypedParts
<1> DEFINE Holding == \/ start'[q] = start[q]
                      \/ start'[q].at # "store"
                      \/ start'[q].seen = Generated(kek)
<1>1. ASSUME NEW r \in Replicas, NEW config \in {"plain", "encrypted"},
             ReadMode(r, config)
      PROVE  Holding
  <2>1. CASE mode = "unset"
    BY <1>1, <2>1, BecameEffect, EmptyTypes DEF ReadMode
  <2>2. CASE mode # "unset"
    BY <1>1, <2>2, DecidedEffect DEF ReadMode
  <2>3. QED
    BY <2>1, <2>2
<1>2. ASSUME NEW r \in Replicas, RecordMode(r) PROVE Holding
  BY <1>2, DecidedEffect DEF RecordMode
<1>3. ASSUME NEW r \in Replicas, ListKeyring(r) PROVE Holding
  <2>1. CASE Became(r, "load", "encrypted", rows)
    BY <2>1, BecameEffect
  <2>2. CASE batch < MaxBatch /\ Became(r, "store", "encrypted", Generated(kek))
    <3>1. Generated(kek) \in Rows
      BY <2>2, MintedTypes DEF Typed
    <3>2. QED
      BY <2>2, <3>1, BecameEffect
  <2>3. QED
    BY <1>3, <2>1, <2>2 DEF ListKeyring
<1>4. ASSUME NEW r \in Replicas, Establish(r) \/ Load(r) PROVE Holding
  <2>1. CASE Serve(r, start[r].seen)
    BY <2>1, BecameEffect, EmptyTypes DEF Serve
  <2>2. CASE LostFirstBoot(r)
    BY <2>2, BecameEffect DEF LostFirstBoot
  <2>3. CASE start' = [start EXCEPT ![r] = Down]
    BY <2>3, DownEffect
  <2>4. QED
    BY <1>4, <2>1, <2>2, <2>3 DEF Establish, Load
<1>5. ASSUME NEW r \in Replicas, Crash(r) \/ Refuse(r) PROVE Holding
  BY <1>5, DownEffect DEF Crash, Refuse
<1>6. CASE UNCHANGED start
  BY <1>6
<1>7. Holding
  BY <1>1, <1>2, <1>3, <1>4, <1>5, <1>6
     DEF Next, StartUp, Operate, Encrypt, Probe, ProbeAfter, Begin, RewrapEntries,
         MintEntries, CommitRewrap, CommitRotate, LoseCommit,
         RotateKEK, RetireKEK, memory, vars
<1>8. QED
  BY <1>7

\* A rotation about to commit holds what it held, or has just minted it over
\* the listing it began with.
LEMMA RotationListing ==
    ASSUME Typed, [Next]_vars, NEW q \in Replicas,
           op'[q].kind = "rotate", op'[q].at = "commit"
    PROVE  \/ op'[q] = op[q]
           \/ /\ op[q].at = "wrap"
              /\ \E next \in [Purposes -> Versions] :
                    /\ \A p \in Purposes : IsNextVersion(op[q].seen, p, next[p])
                    /\ op'[q].seen = Minted(kek, next)
<1> USE TypedParts
<1> DEFINE Mints == /\ op[q].at = "wrap"
                    /\ \E next \in [Purposes -> Versions] :
                          /\ \A p \in Purposes : IsNextVersion(op[q].seen, p, next[p])
                          /\ op'[q].seen = Minted(kek, next)
           Holding == \/ op'[q] = op[q]
                      \/ ~(op'[q].kind = "rotate" /\ op'[q].at = "commit")
                      \/ Mints
<1>1. ASSUME NEW r \in Replicas, NEW kind \in {"rewrap", "rotate"}, Begin(r, kind)
      PROVE  Holding
  BY <1>1, TurnEffect DEF Begin
<1>2. ASSUME NEW r \in Replicas, RewrapEntries(r) PROVE Holding
  <2>1. CASE Turn(r, "commit", "rewrap", Rewrapped(r))
    BY <1>2, <2>1, TurnEffect, RewrappedTypes DEF RewrapEntries
  <2>2. CASE Ended(r)
    BY <2>2, EndedEffect
  <2>3. QED
    BY <1>2, <2>1, <2>2 DEF RewrapEntries
<1>3. ASSUME NEW r \in Replicas, MintEntries(r) PROVE Holding
  <2>1. PICK next \in [Purposes -> Versions] :
           /\ \A p \in Purposes : IsNextVersion(op[r].seen, p, next[p])
           /\ Turn(r, "commit", "rotate", Minted(kek, next))
    BY <1>3 DEF MintEntries
  <2>2. Minted(kek, next) \in Rows
    BY <1>3, MintedTypes DEF MintEntries, Typed
  <2>3. CASE q = r
    <3>1. op'[q].seen = Minted(kek, next)
      BY <2>1, <2>2, <2>3, TurnEffect
    <3>2. op[q].at = "wrap"
      BY <1>3, <2>3 DEF MintEntries
    <3>3. QED
      BY <2>1, <2>3, <3>1, <3>2
  <2>4. CASE q # r
    BY <2>1, <2>2, <2>4, TurnEffect
  <2>5. QED
    BY <2>3, <2>4
<1>4. ASSUME NEW r \in Replicas, NEW stored \in BOOLEAN,
             \/ CommitRewrap(r) \/ CommitRotate(r) \/ LoseCommit(r, stored)
             \/ ProbeAfter(r) \/ Crash(r) \/ Refuse(r)
      PROVE  Holding
  <2>1. Ended(r) \/ op' = [op EXCEPT ![r] = NoOp] \/ UNCHANGED op
    BY <1>4 DEF CommitRewrap, CommitRotate, LoseCommit, ProbeAfter, Crash, Refuse
  <2>2. QED
    BY <2>1, EndedEffect, EmptyTypes
<1>5. CASE UNCHANGED op
  BY <1>5
<1>6. Holding
  BY <1>1, <1>2, <1>3, <1>4, <1>5
     DEF Next, StartUp, Operate, ReadMode, RecordMode, ListKeyring, Establish, Load,
         Encrypt, Probe, RotateKEK, RetireKEK, memory, vars
<1>7. QED
  BY <1>6

\* What is about to be stored goes on being one generation.
LEMMA GenerationsStep ==
    ASSUME Typed, ListingsStand, Generations, Kept, [Next]_vars
    PROVE  Generations'
<1> DEFINE One(entries) ==
       \E next \in [Purposes -> Versions] :
              /\ \A s \in Slots : entries[s].batch # 0 <=> s[2] = next[s[1]]
              /\ \A p \in Purposes : next[p] = 1 \/ rows'[<<p, next[p] - 1>>].batch # 0
<1>1. ASSUME NEW q \in Replicas, start'[q].at = "store"
      PROVE  One(start'[q].seen)
  <2>1. OneGeneration(start'[q].seen)
    BY <1>1, StoreListing, GeneratedGeneration DEF Generations, Typed
  <2>2. QED
    BY <2>1, GenerationKept
<1>2. ASSUME NEW q \in Replicas, op'[q].kind = "rotate", op'[q].at = "commit"
      PROVE  One(op'[q].seen)
  <2>1. OneGeneration(op'[q].seen)
    <3>1. CASE op'[q] = op[q]
      BY <1>2, <3>1 DEF Generations
    <3>2. CASE op[q].at = "wrap" /\ \E next \in [Purposes -> Versions] :
                    /\ \A p \in Purposes : IsNextVersion(op[q].seen, p, next[p])
                    /\ op'[q].seen = Minted(kek, next)
      <4>1. Stands(op[q].seen)
        BY <3>2 DEF ListingsStand
      <4>2. QED
        BY <3>2, <4>1, MintedGeneration DEF Typed
    <3>3. QED
      BY <1>2, <3>1, <3>2, RotationListing
  <2>2. QED
    BY <2>1, GenerationKept
<1>3. QED
  BY <1>1, <1>2 DEF Generations, OneGeneration

\* Only the ring of a replica that moves changes, and it holds stored keys.
LEMMA HoldsStep ==
    ASSUME Typed, ListingsStand, Agreement, Kept, [Next]_vars, NEW r \in Replicas,
           \A q \in Replicas \ {r} : ring'[q] = ring[q]
    PROVE  Table!Holds(r)
<1>1. ASSUME NEW s \in Slots PROVE ring'[r][s] \in {0, rows'[s].batch}
  BY RingStep DEF Agreement, Kept
<1>2. \A s \in Slots : KeysOf(rows)'[s] = rows'[s].batch
  BY DEF KeysOf
<1>3. Table!Slots = Slots
  BY DEF Table!Slots, Slots
<1>4. QED
  BY <1>1, <1>2, <1>3 DEF Table!Holds

\* Storing a generation is what the abstract table does.
LEMMA StoreStep ==
    ASSUME Typed, ListingsStand, Agreement, Kept, [Next]_vars, NEW r \in Replicas,
           \A q \in Replicas \ {r} : ring'[q] = ring[q],
           NEW entries, OneGeneration(entries), Free(entries),
           rows' = Inserted(entries), UNCHANGED sealed
    PROVE  Table!Store(r)
<1>1. PICK next \in [Purposes -> Versions] :
         /\ \A s \in Slots : entries[s].batch # 0 <=> s[2] = next[s[1]]
         /\ \A p \in Purposes : next[p] = 1 \/ rows[<<p, next[p] - 1>>].batch # 0
  BY DEF OneGeneration
<1>2. /\ Table!Slots = Slots
      /\ \A s \in Slots : KeysOf(rows)[s] = rows[s].batch
      /\ \A s \in Slots : KeysOf(rows)'[s] = rows'[s].batch
  BY DEF Table!Slots, Slots, KeysOf
<1>3. \A s \in Slots : IF s[2] = next[s[1]] THEN rows[s].batch = 0 /\ rows'[s].batch # 0
                                            ELSE rows'[s].batch = rows[s].batch
  BY <1>1 DEF Free, Inserted, Stored
<1>4. ASSUME NEW p \in Purposes, next[p] # 1
      PROVE  KeysOf(rows)[<<p, next[p] - 1>>] # 0
  <2>1. next[p] - 1 \in Versions
    BY <1>4, KeyringAssumption DEF Versions
  <2>2. <<p, next[p] - 1>> \in Slots
    BY <2>1 DEF Slots
  <2>3. QED
    BY <1>1, <1>2, <1>4, <2>2
<1>5. QED
  BY <1>1, <1>2, <1>3, <1>4, HoldsStep DEF Table!Store

\* Storing listed entries again changes no key.
LEMMA RestoredStep ==
    ASSUME NEW entries, Stands(entries), rows \in Rows, rows' = Inserted(entries)
    PROVE  KeysOf(rows)' = KeysOf(rows)
<1>1. \A s \in Slots : rows'[s].batch = rows[s].batch
  BY DEF Stands, Inserted, Stored
<1>2. QED
  BY <1>1 DEF KeysOf

\* Every step of the keyring is a step of the abstract table, or none.
LEMMA TableStep ==
    ASSUME IInv, Generations, [Next]_vars
    PROVE  [Table!Next]_Table!vars
<1> USE TypedParts DEF IInv
<1>1. Kept
  BY KeptStep
<1> DEFINE Stays == KeysOf(rows)' = KeysOf(rows) /\ UNCHANGED <<ring, sealed>>
           Does(r) == Table!Take(r) \/ Table!Store(r) \/ Table!Seal(r)
<1>2. ASSUME NEW r \in Replicas, Encrypt(r) PROVE Does(r)
  <2>1. PICK v \in Versions :
           IsActive(ring[r], Payload, v) /\ sealed' = sealed \cup Envelope(ring[r], v)
    BY <1>2 DEF Encrypt
  <2>2. KeysOf(rows)' = KeysOf(rows) /\ UNCHANGED ring
    BY <1>2 DEF Encrypt, KeysOf, memory
  <2>3. ring[r][<<Payload, v>>] # 0
    BY <2>1 DEF IsActive
  <2>4. Table!Seal(r)
    BY <2>1, <2>2, <2>3 DEF Table!Seal, Envelope
  <2>5. QED
    BY <2>4
<1>3. ASSUME NEW r \in Replicas, Establish(r) PROVE Does(r) \/ Stays
  <2>1. CASE Free(start[r].seen)
    <3>1. /\ rows' = Inserted(start[r].seen) /\ UNCHANGED sealed
          /\ \A q \in Replicas \ {r} : ring'[q] = ring[q]
      BY <1>3, <2>1 DEF Establish, Serve
    <3>2. OneGeneration(start[r].seen)
      BY <1>3 DEF Establish, Generations
    <3>3. QED
      BY <1>1, <2>1, <3>1, <3>2, StoreStep
  <2>2. CASE ~ Free(start[r].seen)
    BY <1>3, <2>2 DEF Establish, LostFirstBoot, KeysOf
  <2>3. QED
    BY <2>1, <2>2
<1>4. ASSUME NEW r \in Replicas, CommitRotate(r) PROVE Does(r) \/ Stays
  <2>1. CASE /\ Free(op[r].seen) /\ rows' = Inserted(op[r].seen)
             /\ \A q \in Replicas \ {r} : ring'[q] = ring[q]
    <3>1. OneGeneration(op[r].seen) /\ UNCHANGED sealed
      BY <1>4 DEF CommitRotate, Generations
    <3>2. QED
      BY <1>1, <2>1, <3>1, StoreStep
  <2>2. CASE UNCHANGED <<rows, ring>>
    BY <1>4, <2>2 DEF CommitRotate, KeysOf
  <2>3. QED
    BY <1>4, <2>1, <2>2 DEF CommitRotate
<1>5. ASSUME NEW r \in Replicas, CommitRewrap(r) PROVE Stays
  <2>1. /\ rows' = Inserted(op[r].seen) /\ UNCHANGED <<ring, sealed>>
        /\ Stands(op[r].seen)
    BY <1>5 DEF CommitRewrap, ListingsStand
  <2>2. QED
    BY <2>1, RestoredStep
<1>6. ASSUME NEW r \in Replicas, NEW stored \in BOOLEAN, LoseCommit(r, stored)
      PROVE  Does(r) \/ Stays
  <2>1. UNCHANGED <<ring, sealed>> /\ op[r].at = "commit"
    BY <1>6 DEF LoseCommit
  <2>2. CASE ~ stored
    BY <1>6, <2>1, <2>2 DEF LoseCommit, KeysOf
  <2>3. CASE stored /\ op[r].kind = "rewrap"
    <3>1. rows' = Inserted(op[r].seen) /\ Stands(op[r].seen)
      BY <1>6, <2>3 DEF LoseCommit, ListingsStand
    <3>2. QED
      BY <2>1, <3>1, RestoredStep
  <2>4. CASE stored /\ op[r].kind # "rewrap"
    <3>1. rows' = Inserted(op[r].seen) /\ Free(op[r].seen)
      BY <1>6, <2>4 DEF LoseCommit
    <3>2. op[r].kind = "rotate"
      BY <2>4 DEF Typed, TypeOK, Op
    <3>3. OneGeneration(op[r].seen)
      BY <2>1, <3>2 DEF Generations
    <3>4. QED
      BY <1>1, <2>1, <3>1, <3>3, StoreStep
  <2>5. QED
    BY <2>2, <2>3, <2>4
<1>7. ASSUME NEW r \in Replicas,
             Load(r) \/ Crash(r) \/ Probe(r) \/ ProbeAfter(r)
      PROVE  Does(r)
  <2>1. UNCHANGED <<rows, sealed>>
    BY <1>7 DEF Load, Crash, Probe, ProbeAfter
  <2>2. \A q \in Replicas \ {r} : ring'[q] = ring[q]
    BY <1>7 DEF Load, Serve, Crash, Probe, ProbeAfter, Probed
  <2>3. Table!Holds(r)
    BY <1>1, <2>2, HoldsStep
  <2>4. QED
    BY <2>1, <2>3 DEF Table!Take, KeysOf
<1>8. CASE UNCHANGED <<rows, ring, sealed>>
  BY <1>8 DEF KeysOf, Table!vars
<1>9. Stays => UNCHANGED Table!vars
  BY DEF Table!vars
<1>10. QED
  BY <1>2, <1>3, <1>4, <1>5, <1>6, <1>7, <1>8, <1>9
     DEF Next, StartUp, Operate, ReadMode, RecordMode, ListKeyring, Begin,
         RewrapEntries, MintEntries, Refuse, RotateKEK, RetireKEK, memory, vars,
         Table!Next

\* The keyring is the abstract table, through every boot, rotation, rewrap,
\* crash and lost commit (CreateKeyringEntries, RewrapKeyringEntries, Rotate).
THEOREM ImplementsKeyTableHolds == Spec => ImplementsKeyTable
<1>1. Init => Table!Init
  <2> SUFFICES ASSUME Init PROVE Table!Init
    OBVIOUS
  <2>1. Table!Slots = Slots
    BY DEF Table!Slots, Slots
  <2>2. KeysOf(rows) = [s \in Slots |-> 0]
    BY EmptyTypes DEF Init, KeysOf
  <2>3. ring = [r \in Replicas |-> [s \in Slots |-> 0]] /\ sealed = {}
    BY DEF Init, NoKeys
  <2>4. QED
    BY <2>1, <2>2, <2>3 DEF Table!Init
<1>2. Init => Generations
  BY EmptyTypes DEF Init, Generations
<1>3. IInv /\ Generations /\ [Next]_vars => Generations'
  BY GenerationsStep, KeptStep DEF IInv
<1>4. IInv /\ Generations /\ [Next]_vars => [Table!Next]_Table!vars
  BY TableStep
<1>5. QED
  BY <1>1, <1>2, <1>3, <1>4, Invariance, PTL DEF Spec, ImplementsKeyTable, Table!Spec
=============================================================================
