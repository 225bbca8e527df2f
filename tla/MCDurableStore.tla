--------------------------- MODULE MCDurableStore ---------------------------
(* DurableStore on small instances: the three tools under two mutation ids *)
(* each, so at most two claims, two saves and two finishes.                *)
EXTENDS DurableStore, TLC

CONSTANTS m1, m2, x1, x2, r1

Saved(stage, status, ext, res) ==
    [current_stage |-> stage, checkpoint_status |-> status,
     external_reference |-> ext, result_reference |-> res]

\* Progress the AD agent saves, and requests the domain rules must refuse:
\* another provider id, a return to submission, missing references.
ADChanges == {
    Saved("AD_SUBMISSION", "RUNNING", None, None),
    Saved("AD_SUBMISSION", "FAILED", x1, r1),
    Saved("AD_POLLING", "WAITING", x1, r1),
    Saved("AD_POLLING", "COMPLETED", x1, r1),
    Saved("AD_POLLING", "FAILED", x2, r1),
    Saved("AD_POLLING", "WAITING", None, r1),
    Saved("AD_POLLING", "COMPLETED", x1, None)}

Symmetry == Permutations({m1, m2})
=============================================================================
