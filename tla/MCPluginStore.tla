--------------------------- MODULE MCPluginStore ---------------------------
(***************************************************************************)
(* Instances of PluginStore: an import of two versions from                  *)
(* releases.hashicorp.com, a sync that finds a platform missing, and uploads. *)
(***************************************************************************)
EXTENDS PluginStore

CONSTANTS v1, v2, p1, p2, j1, j2, w2

Asked(source, sync, versions, platforms) ==
    [source |-> source, sync |-> sync, versions |-> versions, platforms |-> platforms]

Imports == {Asked(Releases, FALSE, <<v1, v2>>, {p1}), Asked(Releases, TRUE, <<v1>>, {p1, p2})}

\* Exports and imports meet only in the objects an export reads, and an export
\* may fail at any time: a behaviour has jobs, or exports.  Two jobs run while
\* the registry stays; an upload is w2's, of v1.
Bounds ==
    /\ jobs'[j2] # NoJob => jobs'[j1] # NoJob
    /\ bundle'.state # "none" => /\ \A j \in Jobs : jobs'[j] = NoJob
                                /\ (removals' = 0 \/ registry' = "off")
    /\ exports > 0 => worker' = worker
    /\ jobs'[j2] # NoJob => /\ faults' = 0
                            /\ removals' = 0 /\ registry' = "on"
                            /\ worker'[w2].source # Uploaded
    /\ registry' = "exposed" => created' = <<>> /\ \A w \in Workers : worker'[w] = Idle
    /\ rows[v2] # {} /\ rows'[v2] = {} => registry' = "off"
    /\ \A w \in Workers : worker'[w].source = Uploaded =>
          w = w2 /\ worker'[w].todo = <<v1>> /\ worker'[w].files \subseteq {"sums", p1}
=============================================================================
