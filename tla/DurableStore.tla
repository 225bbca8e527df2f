---------------------------- MODULE DurableStore ----------------------------
(***************************************************************************)
(* The durable half of the persistence server: one journey's one operation *)
(* as the tables operation_checkpoint, agent_execution, checkpoint_event   *)
(* and mcp_mutation_receipt see it, under the tools that claim it, save    *)
(* its progress and finish an invocation                                   *)
(* (references/schwab-mcp/schwab_mcp_persistence/service.py).              *)
(*                                                                         *)
(* A tool call is one transaction that the advisory locks serialize, so it *)
(* is one action; a refused or replayed call changes no table.  The caller *)
(* is anybody with the agent's workload identity: it may repeat, delay or  *)
(* reorder calls, reuse a mutation id, and name any execution and version  *)
(* that an earlier acknowledgement told it.  Rows of different operations  *)
(* share nothing, so one row is modelled; version 0 stands for no row yet, *)
(* and checkpoint_id, which names that row, is left out with the texts     *)
(* (last_error, timestamps of the audit) no decision reads.                *)
(***************************************************************************)
EXTENDS Naturals, Sequences

CONSTANTS
    Agent,              \* the agent whose operation this is
    WorkflowRun,        \* workflow_run_id values
    MutationId,         \* mutation_id values
    ExternalReference,  \* provider request ids
    ResultReference,    \* references to persisted business results
    None,               \* SQL NULL / JSON null
    Change,             \* the progress records that callers ask to save
    LeaseSeconds,       \* lease_seconds, in ticks of the clock
    MaxClock            \* bound: the clock stops there

Stage == {"APM_VALIDATION", "AD_SUBMISSION", "AD_POLLING", "APP_FACTORY_VALIDATION"}
Status == {"PENDING", "RUNNING", "WAITING", "COMPLETED", "FAILED"}
ExecutionResult == {"RUNNING", "INTERRUPTED", "FAILED", "SUCCEEDED"}
ErrorText == {None, "", "message"}      \* the error argument of finish

InitialStageOf ==
    [a \in {"apm-validation-agent", "ad-provisioning-agent", "app-factory-helper-agent"} |->
        CASE a = "apm-validation-agent" -> "APM_VALIDATION"
          [] a = "ad-provisioning-agent" -> "AD_SUBMISSION"
          [] a = "app-factory-helper-agent" -> "APP_FACTORY_VALIDATION"]

Progress == [current_stage : Stage,
             checkpoint_status : Status,
             external_reference : ExternalReference \cup {None},
             result_reference : ResultReference \cup {None}]

ASSUME AgentAssumption == Agent \in DOMAIN InitialStageOf
ASSUME LeaseAssumption == LeaseSeconds \in Nat \ {0}
ASSUME ClockAssumption == MaxClock \in Nat
ASSUME ChangeAssumption == Change \subseteq Progress
ASSUME NoneAssumption == None \notin ExternalReference \cup ResultReference \cup Status
ASSUME ErrorAssumption == None \notin {"", "message"}

InitialStage == InitialStageOf[Agent]
Stages == IF Agent = "ad-provisioning-agent" THEN {"AD_SUBMISSION", "AD_POLLING"}
                                             ELSE {InitialStage}

NoLease == 0    \* lease_expires_at IS NULL; a granted lease ends later than 0

VARIABLES
    clock,          \* the database clock
    checkpoint,     \* the row: progress, latest execution, version, lease
    executions,     \* agent_execution, in the order of insertion
    audit,          \* checkpoint_event, in the order of insertion
    receipts        \* mcp_mutation_receipt, keyed by tool and mutation id

vars == <<clock, checkpoint, executions, audit, receipts>>
tables == <<checkpoint, executions, audit, receipts>>

\* Mutant: a new row starts as RUNNING, not as the audit says.
BornRunning == [current_stage |-> InitialStage, checkpoint_status |-> "RUNNING",
                external_reference |-> None, result_reference |-> None]

InitialProgress == [current_stage |-> InitialStage, checkpoint_status |-> "PENDING",
                    external_reference |-> None, result_reference |-> None]

Checkpoint == [progress : Progress, execution : Nat, version : Nat, lease : Nat]
Execution == [workflow_run_id : WorkflowRun, result : ExecutionResult]
Event == [execution_id : Nat, previous : Status \cup {None}, new : Status, stage : Stage]

ClaimRequest == [tool : {"claim"}, mutation_id : MutationId, workflow_run_id : WorkflowRun]
SaveRequest == [tool : {"save"}, mutation_id : MutationId, workflow_run_id : WorkflowRun,
                execution_id : Nat, expected_version : Nat \ {0}, change : Change]
FinishRequest == [tool : {"finish"}, mutation_id : MutationId, workflow_run_id : WorkflowRun,
                  execution_id : Nat, expected_version : Nat \ {0}, error : ErrorText]
Request == ClaimRequest \cup SaveRequest \cup FinishRequest

Key == {"claim", "save", "finish"} \X MutationId
Receipt == [request : Request, response : Checkpoint]

-----------------------------------------------------------------------------
(* Deciding on a request                                                   *)

KeyOf(req) == <<req.tool, req.mutation_id>>
\* Mutant: receipts are written but not looked up.
NeverReceipted(req) == FALSE

Receipted(req) == KeyOf(req) \in DOMAIN receipts
LeaseIsLive == checkpoint.lease > clock

\* Mutant: the last tick of a lease counts as expired.
ClaimableEarly == checkpoint.lease <= clock + 1

Claimable == ~LeaseIsLive

\* Mutant: a call is accepted from the latest run whatever version it has seen.
AnyVersionOwns(req) ==
    executions[checkpoint.execution].workflow_run_id = req.workflow_run_id

\* The caller still is the latest execution and has seen the latest version.
OwnsCheckpoint(req) ==
    /\ checkpoint.version = req.expected_version
    /\ checkpoint.execution = req.execution_id
    /\ executions[checkpoint.execution].workflow_run_id = req.workflow_run_id

\* Mutant: a provider id may be replaced by another.
AdmissibleWithAnyRequest(new) ==
    /\ new.current_stage \in Stages
    /\ new.checkpoint_status = "WAITING" => Agent = "ad-provisioning-agent"
    /\ checkpoint.progress.current_stage = "AD_POLLING" => new.current_stage = "AD_POLLING"
    /\ new.checkpoint_status \in {"COMPLETED", "WAITING"} => new.result_reference # None
    /\ new.current_stage = "AD_POLLING" => new.external_reference # None

\* The domain rules a save must respect.
Admissible(new) ==
    /\ new.current_stage \in Stages
    /\ new.checkpoint_status = "WAITING" => Agent = "ad-provisioning-agent"
    /\ checkpoint.progress.current_stage = "AD_POLLING" => new.current_stage = "AD_POLLING"
    /\ new.checkpoint_status \in {"COMPLETED", "WAITING"} => new.result_reference # None
    /\ new.current_stage = "AD_POLLING" => new.external_reference # None
    /\ checkpoint.progress.external_reference # None =>
           new.external_reference = checkpoint.progress.external_reference

\* The answer to a request, in the order the server looks.
Verdict(req) ==
    IF Receipted(req)
    THEN IF receipts[KeyOf(req)].request = req THEN "REPLAYED" ELSE "IDEMPOTENCY_CONFLICT"
    ELSE IF req.tool = "claim"
    THEN IF Claimable THEN "ACCEPTED" ELSE "OPERATION_BUSY"
    ELSE IF ~OwnsCheckpoint(req) THEN "STALE_CHECKPOINT"
    ELSE IF ~LeaseIsLive THEN "LEASE_EXPIRED"
    ELSE IF req.tool = "save" /\ ~Admissible(req.change) THEN "INVALID_ARGUMENT"
    ELSE "ACCEPTED"

\* The receipt that commits with the mutation it acknowledges.
Acknowledge(req, response) ==
    receipts' = [k \in DOMAIN receipts \cup {KeyOf(req)} |->
                    IF k = KeyOf(req) THEN [request |-> req, response |-> response]
                                      ELSE receipts[k]]

-----------------------------------------------------------------------------
(* The three durable tools                                                 *)

\* Mutant: a takeover leaves the interrupted execution as it was.
NotInterrupted == executions

\* An execution that still runs when its lease is found expired is over.
Interrupted ==
    IF checkpoint.lease # NoLease /\ executions[checkpoint.execution].result = "RUNNING"
    THEN [executions EXCEPT ![checkpoint.execution].result = "INTERRUPTED"]
    ELSE executions

Claim(req) ==
    /\ Verdict(req) = "ACCEPTED"
    /\ executions' = Append(Interrupted,
                            [workflow_run_id |-> req.workflow_run_id, result |-> "RUNNING"])
    /\ checkpoint' = [checkpoint EXCEPT !.execution = Len(executions) + 1,
                                        !.version = @ + 1,
                                        !.lease = clock + LeaseSeconds]
    /\ audit' = IF checkpoint.version = 0
                THEN Append(audit, [execution_id |-> Len(executions) + 1, previous |-> None,
                                    new |-> "PENDING", stage |-> InitialStage])
                ELSE audit
    /\ Acknowledge(req, checkpoint')
    /\ UNCHANGED clock

Save(req) ==
    /\ Verdict(req) = "ACCEPTED"
    /\ checkpoint' = [checkpoint EXCEPT !.progress = req.change, !.version = @ + 1]
    /\ audit' = Append(audit, [execution_id |-> req.execution_id,
                               previous |-> checkpoint.progress.checkpoint_status,
                               new |-> req.change.checkpoint_status,
                               stage |-> req.change.current_stage])
    /\ Acknowledge(req, checkpoint')
    /\ UNCHANGED <<clock, executions>>

\* Mutant: the error itself is recorded as the result.
OutcomeAsText(error) == IF error \in {None, ""} THEN "SUCCEEDED" ELSE error

\* args["error"] is tested for truth: no error and an empty error are alike.
Outcome(error) == IF error \in {None, ""} THEN "SUCCEEDED" ELSE "FAILED"

Finish(req) ==
    /\ Verdict(req) = "ACCEPTED"
    /\ checkpoint' = [checkpoint EXCEPT !.lease = NoLease, !.version = @ + 1]
    /\ executions' = [executions EXCEPT ![req.execution_id].result = Outcome(req.error)]
    /\ Acknowledge(req, checkpoint')
    /\ UNCHANGED <<clock, audit>>

Tick ==
    /\ clock < MaxClock
    /\ clock' = clock + 1
    /\ UNCHANGED tables

-----------------------------------------------------------------------------

Init ==
    /\ clock = 0
    /\ checkpoint = [progress |-> InitialProgress, execution |-> 0, version |-> 0,
                     lease |-> NoLease]
    /\ executions = <<>>
    /\ audit = <<>>
    /\ receipts = [k \in {} |-> None]

\* Executions and versions are named as an acknowledgement made them known.
Next ==
    \/ \E m \in MutationId, w \in WorkflowRun :
           Claim([tool |-> "claim", mutation_id |-> m, workflow_run_id |-> w])
    \/ \E m \in MutationId, w \in WorkflowRun,
          e \in DOMAIN executions, v \in 1 .. checkpoint.version :
           \/ \E c \in Change :
                  Save([tool |-> "save", mutation_id |-> m, workflow_run_id |-> w,
                        execution_id |-> e, expected_version |-> v, change |-> c])
           \/ \E x \in ErrorText :
                  Finish([tool |-> "finish", mutation_id |-> m, workflow_run_id |-> w,
                          execution_id |-> e, expected_version |-> v, error |-> x])
    \/ Tick

Spec == Init /\ [][Next]_vars

-----------------------------------------------------------------------------
(* Safety                                                                  *)

\* Every variable has the shape of its table.
TypeOK ==
    /\ clock \in Nat
    /\ checkpoint \in Checkpoint
    /\ executions \in Seq(Execution)
    /\ audit \in Seq(Event)
    /\ DOMAIN receipts \subseteq Key
    /\ \A k \in DOMAIN receipts : receipts[k] \in Receipt

\* The execution table and the lease column tell the same story: the row
\* points at the newest execution, and an execution is RUNNING exactly when
\* it is that one and the row holds a lease.  So two invocations never both
\* appear to run, and none keeps RUNNING after a takeover or a finish.
OneRunningExecution ==
    /\ checkpoint.execution = Len(executions)
    /\ \A i \in DOMAIN executions :
           executions[i].result = "RUNNING" <=>
               i = checkpoint.execution /\ checkpoint.lease # NoLease

\* Every version from the first to the current one was acknowledged by one
\* receipt, and by one only: retries, duplicates and late deliveries of a
\* request never apply it twice, and no mutation commits without its receipt.
VersionsAcknowledgedOnce ==
    /\ \A k \in DOMAIN receipts : receipts[k].response.version \in 1 .. checkpoint.version
    /\ \A v \in 1 .. checkpoint.version :
           \E k \in DOMAIN receipts : receipts[k].response.version = v
    /\ \A k, l \in DOMAIN receipts :
           receipts[k].response.version = receipts[l].response.version => k = l

\* The audit trail is a chain from creation to the row: each event starts
\* from the status the one before it ended in, and the last one ends in the
\* row's status and stage.  Nothing changes progress behind the audit's back.
AuditLeadsToRow ==
    /\ checkpoint.version = 0 <=> audit = <<>>
    /\ \A i \in DOMAIN audit :
           audit[i].previous = IF i = 1 THEN None ELSE audit[i - 1].new
    /\ audit # <<>> => /\ audit[Len(audit)].new = checkpoint.progress.checkpoint_status
                       /\ audit[Len(audit)].stage = checkpoint.progress.current_stage

\* Fencing as the audit sees it: once an execution has taken the operation
\* over, no earlier execution writes again, however late its calls arrive.
TakeoverIsFinal ==
    \A i, j \in DOMAIN audit : i < j => audit[i].execution_id <= audit[j].execution_id

\* The row only ever holds progress its operation can be in: waiting and
\* completed work names its persisted business result, polling names the
\* provider request, and an operation of one stage neither leaves it nor
\* waits, across takeovers, failures and whatever callers ask for.
ProgressHasEvidence ==
    /\ checkpoint.progress.current_stage \in Stages
    /\ Agent # "ad-provisioning-agent" => checkpoint.progress.checkpoint_status # "WAITING"
    /\ checkpoint.progress.checkpoint_status \in {"WAITING", "COMPLETED"} =>
           checkpoint.progress.result_reference # None
    /\ checkpoint.progress.current_stage = "AD_POLLING" =>
           checkpoint.progress.external_reference # None

-----------------------------------------------------------------------------
(* Action properties                                                       *)

\* A live lease is neither stolen nor extended: until it runs out the only
\* thing that can happen to it is that its own execution gives it back.
LiveLeaseIsSafe ==
    [][/\ LeaseIsLive
       /\ \/ checkpoint'.lease # checkpoint.lease
          \/ checkpoint'.execution # checkpoint.execution
       =>
           /\ checkpoint'.lease = NoLease
           /\ checkpoint'.execution = checkpoint.execution]_vars

\* Progress only moves under a live lease, by one audited step, and the
\* provider request and the polling stage, once there, are there for good.
ProgressMovesForward ==
    [][checkpoint'.progress # checkpoint.progress =>
           /\ LeaseIsLive
           /\ Len(audit') = Len(audit) + 1
           /\ checkpoint.progress.external_reference # None =>
                  checkpoint'.progress.external_reference = checkpoint.progress.external_reference
           /\ checkpoint.progress.current_stage = "AD_POLLING" =>
                  checkpoint'.progress.current_stage = "AD_POLLING"]_vars

-----------------------------------------------------------------------------
(* The store implements the one-writer register: an epoch is an execution, *)
(* the register is held while the lease is live, and a tick that ends the  *)
(* lease surrenders it.                                                    *)

Register == INSTANCE LeasedRegister WITH
    Value <- Progress,
    InitialValue <- InitialProgress,
    epoch <- Len(executions),
    held <- LeaseIsLive,
    value <- checkpoint.progress,
    writers <- [i \in DOMAIN audit |-> audit[i].execution_id]

\* Every step of the store is a step of the register or leaves it alone.
ImplementsRegister == Register!Spec
=============================================================================
