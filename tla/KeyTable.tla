------------------------------ MODULE KeyTable ------------------------------
(***************************************************************************)
(* What the keyring promises: a table of data keys that only grows, by one    *)
(* key for every purpose at a time and without gaps in the version numbers;   *)
(* replicas that hold no key but the table's; payloads sealed only under a    *)
(* key some replica holds.                                                  *)
(***************************************************************************)
EXTENDS Naturals

CONSTANTS Replicas, Purposes, Payload, Versions, NoKey

VARIABLES
    table,      \* [Slots -> the stored key, or NoKey]
    held,       \* [Replicas -> [Slots -> the key in memory, or NoKey]]
    sealed      \* <<version named, key used>> of every payload sealed

vars == <<table, held, sealed>>
Slots == Purposes \X Versions

Init ==
    /\ table = [s \in Slots |-> NoKey]
    /\ held = [r \in Replicas |-> [s \in Slots |-> NoKey]]
    /\ sealed = {}

\* No replica holds after the step what the table has not; only r's memory
\* changes.
Holds(r) ==
    /\ \A q \in Replicas \ {r} : held'[q] = held[q]
    /\ \A s \in Slots : held'[r][s] \in {NoKey, table'[s]}

\* A replica starts, stops, or takes over keys that others stored.
Take(r) ==
    /\ Holds(r)
    /\ UNCHANGED <<table, sealed>>

\* The next version of every purpose is stored, all of them or none.
Store(r) ==
    /\ \E next \in [Purposes -> Versions] :
          /\ \A p \in Purposes : next[p] = 1 \/ table[<<p, next[p] - 1>>] # NoKey
          /\ \A s \in Slots :
                IF s[2] = next[s[1]] THEN table[s] = NoKey /\ table'[s] # NoKey
                                     ELSE table'[s] = table[s]
    /\ Holds(r)
    /\ UNCHANGED sealed

Seal(r) ==
    /\ \E v \in Versions :
          /\ held[r][<<Payload, v>>] # NoKey
          /\ sealed' = sealed \cup {<<v, held[r][<<Payload, v>>]>>}
    /\ UNCHANGED <<table, held>>

Next == \E r \in Replicas : Take(r) \/ Store(r) \/ Seal(r)

Spec == Init /\ [][Next]_vars
=============================================================================
