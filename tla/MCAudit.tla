------------------------------ MODULE MCAudit ------------------------------
(***************************************************************************)
(* Instances of Audit: one request and one rotation over two targets.       *)
(***************************************************************************)
EXTENDS Audit

CONSTANTS First, Second

Handles == {First, Second}

\* Handles are alike until they are added: the first one is added first.  The
\* rotation starts while there is one target and no handler has run, so that
\* what two targets add is explored with the request alone.
Bounds ==
    /\ status[Second] = "fresh" /\ status'[Second] = "attached" => status[First] # "fresh"
    /\ \A w \in Rotations :
           caller[w].at = "idle" /\ caller'[w].at = "reopen" => Len(targets) = 1 /\ served = {}
=============================================================================
