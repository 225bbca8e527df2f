--------------------------- MODULE MCBatchRuntime ---------------------------
(* BatchRuntime on small instances: two or three invocations of one        *)
(* operation, launched by one workflow run or by several.                  *)
EXTENDS BatchRuntime, TLC

CONSTANTS w1, w2, w3, request1, result1

SameRun == [w \in Worker |-> "run1"]

\* Invocations number their mutations, whose real ids are random UUIDs.
Mutations == Worker \X (1 .. 7)

\* Every progress record there is.
SavedProgress == [current_stage : Stage, checkpoint_status : Status,
                  external_reference : {request1, None},
                  result_reference : {result1, None}]

Symmetry == Permutations(Worker)
=============================================================================
