--------------------------- MODULE MCRegistryTx ---------------------------
(* Instances of RegistryTx for TLC: the rows found and the requests made. *)
EXTENDS RegistryTx, TLC

CONSTANTS v1, v2, x1, y1, x2, latest, release

\* Two build slots in v1, one in v2.
TwoBuildsOfOne == (x1 :> v1 @@ y1 :> v1 @@ x2 :> v2)
OneBuildEach == (x1 :> v1 @@ x2 :> v2)

Running == [done |-> FALSE, metadataSeen |-> FALSE, parent |-> Null]
Finished == [done |-> TRUE, metadataSeen |-> TRUE, parent |-> Null]
Numbered(n) == [Nobody EXCEPT !.sequence = n]

\* Builds under way in two incomplete versions, or in one of them.
BothIncomplete == (v1 :> Nobody @@ v2 :> Nobody)
AllRunning == (x1 :> Running @@ y1 :> Running @@ x2 :> Running)
OneRunning == (x1 :> Running @@ x2 :> Null)
NoHistory == {}

\* Two completed versions, both assigned to the managed channel in turn; the
\* user channel selects the older.
BothComplete == (v1 :> Numbered(1) @@ v2 :> Numbered(2))
EachFinished == (x1 :> Finished @@ x2 :> Finished)
Assigned == {[channel |-> latest, at |-> 1, version |-> v1],
             [channel |-> latest, at |-> 2, version |-> v2],
             [channel |-> release, at |-> 3, version |-> v1]}

Update(b, patch) == [op |-> "UpdateBuild", build |-> b, patch |-> patch]
Create(b, done, parent) ==
    [op |-> "CreateBuild", build |-> b, done |-> done, parent |-> parent]
Revoke(v, skip) == [op |-> "RevokeVersion", version |-> v, skip |-> skip]
Restore(v) == [op |-> "RestoreRevokedVersion", version |-> v]
Delete(v) == [op |-> "DeleteVersion", version |-> v]
Assign(c, v) == [op |-> "AssignVersion", channel |-> c, version |-> v]

\* Builders finish, or reopen what is finished; x2 is built from v1, and recorded
\* as running or as done.
FinishRequests ==
    {Update(b, [status |-> "done", metadata |-> TRUE, parent |-> Null]) : b \in Builds}
Reopening == Update(x1, [status |-> "running", metadata |-> FALSE, parent |-> Null])
BuildRequests == FinishRequests \cup {Reopening} \cup {Create(x2, done, v1) : done \in BOOLEAN}

\* Maintainers revoke, restore, delete and assign.
DeleteRequests ==
    {Delete(v) : v \in Versions} \cup {Assign(release, v) : v \in Versions}
AllRequests ==
    BuildRequests \cup {Delete(v) : v \in Versions} \cup {Assign(release, v1)}
    \cup {Revoke(v, FALSE) : v \in Versions} \cup {Revoke(v1, TRUE), Restore(v1)}

\* The replicas are alike.
Replicas == Permutations(Sessions)
===========================================================================
