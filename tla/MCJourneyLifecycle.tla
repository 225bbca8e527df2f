-------------------------- MODULE MCJourneyLifecycle --------------------------
(* JourneyLifecycle on small instances: an owner, reviewers, and the calls *)
(* that each of them makes.                                                *)
EXTENDS JourneyLifecycle, TLC

CONSTANTS owner, reviewer1, reviewer2

Gathering == {"start", "record_inventory", "generate_plan"}
Waiting == {"wait_for_approval", "resume_after_approval"}

\* Everybody gathers and plans; the reviewers decide, in parallel.
ReviewedMethods ==
    [u \in User |-> IF u \in Approver
                    THEN Decisions \cup {"generate_plan", "resume_after_approval"}
                    ELSE Gathering \cup Waiting]

\* What goes with batch jobs: of the legacy execution only what asks for an
\* approval first, and reject takes the steps of record_external_rejection.
BatchMethods ==
    [u \in User |-> IF u \in Approver
                    THEN {"record_inventory", "generate_plan", "record_external_approval",
                          "record_external_rejection", "resume_after_approval"}
                    ELSE {"start", "record_inventory", "continue_journey",
                          "wait_for_approval"}]

\* Two calls that meet behind the batch jobs.
StartAndApprove == [u \in User |-> {"start", "approve"}]

Symmetry == Permutations(Approver)
=============================================================================
