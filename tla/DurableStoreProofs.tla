------------------------- MODULE DurableStoreProofs -------------------------
(***************************************************************************)
(* Proofs about DurableStore, for every agent, every set of requests,      *)
(* every lease length and every bound on the clock.                        *)
(***************************************************************************)
EXTENDS DurableStore, TLAPS

-----------------------------------------------------------------------------
(* What an accepted request has been checked for                           *)

\* An accepted claim is a first delivery and finds no live lease.
LEMMA AcceptedClaim ==
    ASSUME NEW req, req.tool = "claim", Verdict(req) = "ACCEPTED"
    PROVE  ~Receipted(req) /\ ~LeaseIsLive
BY DEF Verdict, Claimable

\* An accepted save or finish is a first delivery by the owner in time.
LEMMA AcceptedOwner ==
    ASSUME NEW req, req.tool # "claim", Verdict(req) = "ACCEPTED"
    PROVE  /\ ~Receipted(req)
           /\ OwnsCheckpoint(req)
           /\ LeaseIsLive
           /\ req.tool = "save" => Admissible(req.change)
BY DEF Verdict

\* Every operation starts in a stage, and its stages are stages.
LEMMA InitialStageType == InitialStage \in Stage /\ Stages \subseteq Stage
BY AgentAssumption DEF InitialStage, InitialStageOf, Stages, Stage

-----------------------------------------------------------------------------
(* Type correctness                                                        *)

\* The part of the type that claims need: the row points into the table.
PointsAtLatest == checkpoint.execution = Len(executions)

TypeInv == TypeOK /\ PointsAtLatest /\ (checkpoint.lease # NoLease => executions # <<>>)

\* A receipt is stored under its own key.
LEMMA AcknowledgeType ==
    ASSUME NEW req \in Request, NEW response \in Checkpoint,
           DOMAIN receipts \subseteq Key, \A k \in DOMAIN receipts : receipts[k] \in Receipt,
           Acknowledge(req, response)
    PROVE  /\ DOMAIN receipts' = DOMAIN receipts \cup {KeyOf(req)}
           /\ DOMAIN receipts' \subseteq Key
           /\ \A k \in DOMAIN receipts' : receipts'[k] \in Receipt
<1>1. KeyOf(req) \in Key
    BY DEF KeyOf, Key, Request, ClaimRequest, SaveRequest, FinishRequest
<1>2. [request |-> req, response |-> response] \in Receipt
    BY DEF Receipt
<1>. QED  BY <1>1, <1>2 DEF Acknowledge

\* Marking the previous execution keeps the execution table and whose rows
\* they are.
LEMMA InterruptedType ==
    ASSUME TypeInv
    PROVE  /\ Interrupted \in Seq(Execution)
           /\ Len(Interrupted) = Len(executions)
           /\ \A i \in 1 .. Len(executions) :
                  Interrupted[i].workflow_run_id = executions[i].workflow_run_id
<1>1. CASE checkpoint.lease # NoLease /\ executions[checkpoint.execution].result = "RUNNING"
    <2>1. checkpoint.execution \in 1 .. Len(executions)
        BY <1>1 DEF TypeInv, PointsAtLatest, TypeOK
    <2>2. executions[checkpoint.execution] \in Execution
        BY <2>1 DEF TypeInv, TypeOK
    <2>3. [executions[checkpoint.execution] EXCEPT !.result = "INTERRUPTED"] \in Execution
        BY <2>2 DEF Execution, ExecutionResult
    <2>. QED  BY <1>1, <2>1, <2>2, <2>3 DEF Interrupted, TypeInv, TypeOK, Execution
<1>2. CASE ~(checkpoint.lease # NoLease /\ executions[checkpoint.execution].result = "RUNNING")
    BY <1>2 DEF Interrupted, TypeInv, TypeOK
<1>. QED  BY <1>1, <1>2

\* A claim keeps the tables well-formed.
LEMMA ClaimType ==
    ASSUME TypeInv, NEW req \in ClaimRequest, Claim(req)
    PROVE  TypeInv'
<1>. USE DEF TypeInv
<1>1. checkpoint' \in Checkpoint
    <2>1. checkpoint' = [progress |-> checkpoint.progress,
                         execution |-> Len(executions) + 1,
                         version |-> checkpoint.version + 1,
                         lease |-> clock + LeaseSeconds]
        BY DEF Claim, TypeOK, Checkpoint
    <2>. QED  BY <2>1, LeaseAssumption DEF TypeOK, Checkpoint
<1>2. /\ executions' \in Seq(Execution)
      /\ Len(executions') = Len(executions) + 1
    <2>1. [workflow_run_id |-> req.workflow_run_id, result |-> "RUNNING"] \in Execution
        BY DEF Execution, ExecutionResult, ClaimRequest
    <2>. QED  BY <2>1, InterruptedType DEF Claim
<1>3. audit' \in Seq(Event)
    <2>1. [execution_id |-> Len(executions) + 1, previous |-> None,
           new |-> "PENDING", stage |-> InitialStage] \in Event
        BY InitialStageType DEF Event, Status, TypeOK
    <2>. QED  BY <2>1 DEF Claim, TypeOK
<1>4. DOMAIN receipts' \subseteq Key /\ \A k \in DOMAIN receipts' : receipts'[k] \in Receipt
    <2>1. req \in Request
        BY DEF Request
    <2>2. Acknowledge(req, checkpoint')
        BY DEF Claim
    <2>. QED  BY <1>1, <2>1, <2>2, AcknowledgeType DEF TypeOK
<1>5. checkpoint'.execution = Len(executions')
    BY <1>2 DEF Claim, TypeOK, Checkpoint
<1>6. executions' # <<>> /\ clock' = clock
    BY <1>2, SMTT(30) DEF Claim, TypeOK
<1>. QED  BY <1>1, <1>2, <1>3, <1>4, <1>5, <1>6 DEF TypeOK, PointsAtLatest

\* A save keeps the tables well-formed.
LEMMA SaveType ==
    ASSUME TypeInv, NEW req \in SaveRequest, Save(req)
    PROVE  TypeInv'
<1>. USE DEF TypeInv
<1>1. req.change \in Progress /\ req \in Request /\ req.execution_id \in Nat
    BY ChangeAssumption DEF SaveRequest, Request
<1>2. checkpoint' \in Checkpoint /\ checkpoint'.execution = checkpoint.execution
      /\ checkpoint'.lease = checkpoint.lease
    <2>1. checkpoint' = [progress |-> req.change,
                         execution |-> checkpoint.execution,
                         version |-> checkpoint.version + 1,
                         lease |-> checkpoint.lease]
        BY DEF Save, TypeOK, Checkpoint
    <2>. QED  BY <1>1, <2>1 DEF TypeOK, Checkpoint
<1>3. audit' \in Seq(Event)
    <2>1. [execution_id |-> req.execution_id,
           previous |-> checkpoint.progress.checkpoint_status,
           new |-> req.change.checkpoint_status,
           stage |-> req.change.current_stage] \in Event
        BY <1>1 DEF Event, Progress, TypeOK, Checkpoint
    <2>. QED  BY <2>1 DEF Save, TypeOK
<1>4. DOMAIN receipts' \subseteq Key /\ \A k \in DOMAIN receipts' : receipts'[k] \in Receipt
    <2>1. Acknowledge(req, checkpoint')
        BY DEF Save
    <2>. QED  BY <1>1, <1>2, <2>1, AcknowledgeType DEF TypeOK
<1>. QED  BY <1>2, <1>3, <1>4 DEF Save, TypeOK, PointsAtLatest

\* A finish keeps the tables well-formed.
LEMMA FinishType ==
    ASSUME TypeInv, NEW req \in FinishRequest, Finish(req)
    PROVE  TypeInv'
<1>. USE DEF TypeInv
<1>1. checkpoint' \in Checkpoint /\ checkpoint'.execution = checkpoint.execution
      /\ checkpoint'.lease = NoLease
    <2>1. checkpoint' = [progress |-> checkpoint.progress,
                         execution |-> checkpoint.execution,
                         version |-> checkpoint.version + 1,
                         lease |-> NoLease]
        BY DEF Finish, TypeOK, Checkpoint
    <2>. QED  BY <2>1 DEF TypeOK, Checkpoint, NoLease
<1>2. executions' \in Seq(Execution) /\ Len(executions') = Len(executions)
    <2>1. req.execution_id = checkpoint.execution /\ LeaseIsLive
        <3>1. req.tool # "claim"
            BY DEF FinishRequest
        <3>. QED  BY <3>1, AcceptedOwner DEF Finish, OwnsCheckpoint
    <2>2. checkpoint.execution \in 1 .. Len(executions)
        BY <2>1 DEF LeaseIsLive, NoLease, TypeOK, PointsAtLatest, Checkpoint
    <2>3. [executions[checkpoint.execution] EXCEPT !.result = Outcome(req.error)] \in Execution
        <3>1. Outcome(req.error) \in ExecutionResult
            BY DEF Outcome, ExecutionResult
        <3>2. executions[checkpoint.execution] \in Execution
            BY <2>2 DEF TypeOK
        <3>. QED  BY <3>1, <3>2 DEF Execution
    <2>. QED  BY <2>1, <2>2, <2>3 DEF Finish, TypeOK
<1>3. DOMAIN receipts' \subseteq Key /\ \A k \in DOMAIN receipts' : receipts'[k] \in Receipt
    <2>1. req \in Request /\ Acknowledge(req, checkpoint')
        BY DEF Finish, Request
    <2>. QED  BY <1>1, <2>1, AcknowledgeType DEF TypeOK
<1>. QED  BY <1>1, <1>2, <1>3 DEF Finish, TypeOK, PointsAtLatest

\* The requests Next issues have the shape of requests, so each step is one
\* of the four actions on a well-formed request.
LEMMA StepCases ==
    ASSUME TypeOK, Next
    PROVE  \/ \E req \in ClaimRequest : Claim(req)
           \/ \E req \in SaveRequest : Save(req)
           \/ \E req \in FinishRequest : Finish(req)
           \/ Tick
<1>1. CASE \E m \in MutationId, w \in WorkflowRun :
               Claim([tool |-> "claim", mutation_id |-> m, workflow_run_id |-> w])
    BY <1>1 DEF ClaimRequest
<1>2. ASSUME NEW m \in MutationId, NEW w \in WorkflowRun,
             NEW e \in DOMAIN executions, NEW v \in 1 .. checkpoint.version,
             NEW c \in Change,
             Save([tool |-> "save", mutation_id |-> m, workflow_run_id |-> w,
                   execution_id |-> e, expected_version |-> v, change |-> c])
      PROVE  \E req \in SaveRequest : Save(req)
    <2>1. [tool |-> "save", mutation_id |-> m, workflow_run_id |-> w,
           execution_id |-> e, expected_version |-> v, change |-> c] \in SaveRequest
        BY DEF SaveRequest, TypeOK, Checkpoint
    <2>. QED  BY <1>2, <2>1
<1>3. ASSUME NEW m \in MutationId, NEW w \in WorkflowRun,
             NEW e \in DOMAIN executions, NEW v \in 1 .. checkpoint.version,
             NEW x \in ErrorText,
             Finish([tool |-> "finish", mutation_id |-> m, workflow_run_id |-> w,
                     execution_id |-> e, expected_version |-> v, error |-> x])
      PROVE  \E req \in FinishRequest : Finish(req)
    <2>1. [tool |-> "finish", mutation_id |-> m, workflow_run_id |-> w,
           execution_id |-> e, expected_version |-> v, error |-> x] \in FinishRequest
        BY DEF FinishRequest, TypeOK, Checkpoint
    <2>. QED  BY <1>3, <2>1
<1>. QED  BY <1>1, <1>2, <1>3 DEF Next

\* So does every step.
LEMMA TypeStep == TypeInv /\ [Next]_vars => TypeInv'
<1> SUFFICES ASSUME TypeInv, [Next]_vars PROVE TypeInv'
    OBVIOUS
<1>1. CASE Next
    <2>1. CASE Tick
        BY <2>1 DEF Tick, tables, TypeInv, TypeOK, PointsAtLatest
    <2>. QED  BY <1>1, <2>1, StepCases, ClaimType, SaveType, FinishType DEF TypeInv
<1>2. CASE UNCHANGED vars
    BY <1>2 DEF vars, TypeInv, TypeOK, PointsAtLatest
<1>. QED  BY <1>1, <1>2

\* The initial tables are well-formed.
LEMMA TypeInit == Init => TypeInv
BY InitialStageType, NoneAssumption
   DEF Init, TypeInv, TypeOK, PointsAtLatest, Checkpoint, Progress, Status, InitialProgress, NoLease

\* The strengthened type invariant holds in every reachable state.
LEMMA TypeInvariance == Spec => []TypeInv
BY TypeInit, TypeStep, PTL DEF Spec

\* Every reachable state of the tables is well-typed (type correctness of
\* the durable handlers for any caller).
THEOREM TypeCorrect == Spec => []TypeOK
BY TypeInvariance, PTL DEF TypeInv

-----------------------------------------------------------------------------
(* One running execution                                                   *)

\* A claim leaves one running execution: its own.
LEMMA OneRunningClaim ==
    ASSUME TypeInv, OneRunningExecution, NEW req \in ClaimRequest, Claim(req)
    PROVE  OneRunningExecution'
<1>. DEFINE n == Len(executions)
<1>1. n \in Nat /\ DOMAIN executions = 1 .. n /\ checkpoint.execution = n
    BY DEF TypeInv, TypeOK, OneRunningExecution
<1>2. \A i \in 1 .. n : Interrupted[i].result # "RUNNING"
    <2>1. CASE checkpoint.lease # NoLease
        <3>1. n \in 1 .. n /\ executions[n].result = "RUNNING"
            BY <1>1, <2>1 DEF TypeInv, TypeOK, OneRunningExecution
        <3>2. Interrupted = [executions EXCEPT ![n].result = "INTERRUPTED"]
            BY <1>1, <2>1, <3>1 DEF Interrupted
        <3>3. executions[n] \in Execution
            BY <3>1 DEF TypeInv, TypeOK
        <3>. QED  BY <1>1, <2>1, <3>1, <3>2, <3>3 DEF OneRunningExecution, Execution
    <2>2. CASE checkpoint.lease = NoLease
        BY <1>1, <2>2 DEF Interrupted, OneRunningExecution
    <2>. QED  BY <2>1, <2>2
<1>3. /\ DOMAIN executions' = 1 .. n + 1
      /\ Len(executions') = n + 1
      /\ \A i \in 1 .. n : executions'[i] = Interrupted[i]
      /\ executions'[n + 1].result = "RUNNING"
    BY <1>1, InterruptedType DEF Claim
<1>4. checkpoint'.execution = n + 1 /\ checkpoint'.lease # NoLease
    BY LeaseAssumption DEF Claim, TypeInv, TypeOK, Checkpoint, NoLease
<1>. QED  BY <1>1, <1>2, <1>3, <1>4 DEF OneRunningExecution

\* Who may save or finish: the newest execution, under a lease that is set.
LEMMA OwnerIsLatest ==
    ASSUME TypeInv, NEW req \in SaveRequest \cup FinishRequest, Verdict(req) = "ACCEPTED"
    PROVE  /\ req.execution_id = checkpoint.execution
           /\ req.execution_id = Len(executions)
           /\ req.execution_id \in 1 .. Len(executions)
           /\ checkpoint.lease # NoLease
           /\ LeaseIsLive
           /\ checkpoint.version \in Nat \ {0}
           /\ ~Receipted(req)
<1>1. req.tool # "claim" /\ req.expected_version \in Nat \ {0}
    BY DEF SaveRequest, FinishRequest
<1>2. OwnsCheckpoint(req) /\ LeaseIsLive /\ ~Receipted(req)
    BY <1>1, AcceptedOwner
<1>3. /\ checkpoint.execution = req.execution_id
      /\ checkpoint.version = req.expected_version
    BY <1>2 DEF OwnsCheckpoint
<1>4. checkpoint.lease # NoLease /\ checkpoint.lease \in Nat
    BY <1>2 DEF LeaseIsLive, NoLease, TypeInv, TypeOK, Checkpoint
<1>5. Len(executions) \in Nat \ {0} /\ checkpoint.execution = Len(executions)
    BY <1>4 DEF TypeInv, TypeOK, PointsAtLatest
<1>. QED  BY <1>1, <1>2, <1>3, <1>4, <1>5

\* A save does not touch the execution table or the lease.
LEMMA OneRunningSave ==
    ASSUME TypeInv, OneRunningExecution, NEW req \in SaveRequest, Save(req)
    PROVE  OneRunningExecution'
BY DEF Save, OneRunningExecution, TypeInv, TypeOK, Checkpoint

\* A finish ends the running execution with the lease.
LEMMA OneRunningFinish ==
    ASSUME TypeInv, OneRunningExecution, NEW req \in FinishRequest, Finish(req)
    PROVE  OneRunningExecution'
<1>. DEFINE n == Len(executions)
<1>1. /\ req.execution_id = n /\ checkpoint.execution = n /\ n \in 1 .. n
      /\ DOMAIN executions = 1 .. n
    BY OwnerIsLatest DEF Finish, TypeInv, TypeOK
<1>2. Outcome(req.error) # "RUNNING"
    BY DEF Outcome
<1>3. executions[n] \in Execution
    BY <1>1 DEF TypeInv, TypeOK
<1>4. executions' = [executions EXCEPT ![n].result = Outcome(req.error)]
    BY <1>1 DEF Finish
<1>5. /\ executions'[n].result = Outcome(req.error)
      /\ \A i \in 1 .. n : i # n => executions'[i] = executions[i]
      /\ DOMAIN executions' = 1 .. n
      /\ Len(executions') = n
    BY <1>1, <1>3, <1>4 DEF Execution, TypeInv, TypeOK
<1>6. checkpoint'.lease = NoLease /\ checkpoint'.execution = n
    BY <1>1 DEF Finish, TypeInv, TypeOK, Checkpoint
<1>. QED  BY <1>1, <1>2, <1>5, <1>6 DEF OneRunningExecution

\* Every step leaves one running execution while a lease stands, and none
\* else.
LEMMA OneRunningStep == TypeInv /\ OneRunningExecution /\ [Next]_vars => OneRunningExecution'
<1> SUFFICES ASSUME TypeInv, OneRunningExecution, [Next]_vars PROVE OneRunningExecution'
    OBVIOUS
<1>1. CASE Next
    <2>1. CASE Tick
        BY <2>1 DEF Tick, tables, OneRunningExecution
    <2>. QED  BY <1>1, <2>1, StepCases, OneRunningClaim, OneRunningSave, OneRunningFinish
              DEF TypeInv
<1>2. CASE UNCHANGED vars
    BY <1>2 DEF vars, OneRunningExecution
<1>. QED  BY <1>1, <1>2

\* At most one invocation is recorded as running, and it is the one the row
\* points at, exactly as long as the row holds a lease: claims that find a
\* dead owner close its execution, finishes close their own
\* (service.py:174-187, 236-243).
THEOREM OneOwner == Spec => []OneRunningExecution
<1>1. Init => OneRunningExecution
    BY DEF Init, OneRunningExecution, NoLease
<1>. QED  BY <1>1, TypeInvariance, OneRunningStep, PTL DEF Spec

-----------------------------------------------------------------------------
(* Exactly-once acknowledgement                                            *)

\* A first delivery that moves the version by one keeps the receipts in
\* one-to-one correspondence with the versions.
LEMMA FreshReceipt ==
    ASSUME TypeInv, VersionsAcknowledgedOnce,
           NEW req, ~Receipted(req), Acknowledge(req, checkpoint'),
           checkpoint'.version = checkpoint.version + 1
    PROVE  VersionsAcknowledgedOnce'
<1>. DEFINE k0 == KeyOf(req)
            v1 == checkpoint.version + 1
<1>1. checkpoint.version \in Nat
    BY DEF TypeInv, TypeOK, Checkpoint
<1>2. /\ k0 \notin DOMAIN receipts
      /\ DOMAIN receipts' = DOMAIN receipts \cup {k0}
      /\ receipts'[k0].response = checkpoint'
      /\ \A k \in DOMAIN receipts : receipts'[k] = receipts[k]
    BY DEF Acknowledge, Receipted
<1>3. \A k \in DOMAIN receipts : /\ receipts'[k].response.version \in 1 .. checkpoint.version
                                 /\ receipts'[k].response.version # v1
    BY <1>1, <1>2 DEF VersionsAcknowledgedOnce
<1>4. \A k \in DOMAIN receipts' : receipts'[k].response.version \in 1 .. v1
    BY <1>1, <1>2, <1>3
<1>5. \A v \in 1 .. v1 : \E k \in DOMAIN receipts' : receipts'[k].response.version = v
    <2>. SUFFICES ASSUME NEW v \in 1 .. v1
                  PROVE  \E k \in DOMAIN receipts' : receipts'[k].response.version = v
        OBVIOUS
    <2>1. CASE v = v1
        BY <1>2, <2>1
    <2>2. CASE v # v1
        <3>1. v \in 1 .. checkpoint.version
            BY <1>1, <2>2
        <3>2. PICK k \in DOMAIN receipts : receipts[k].response.version = v
            BY <3>1 DEF VersionsAcknowledgedOnce
        <3>. QED  BY <1>2, <3>2
    <2>. QED  BY <2>1, <2>2
<1>6. \A k, l \in DOMAIN receipts' :
          receipts'[k].response.version = receipts'[l].response.version => k = l
    BY <1>2, <1>3 DEF VersionsAcknowledgedOnce
<1>. QED  BY <1>4, <1>5, <1>6 DEF VersionsAcknowledgedOnce

\* Every step keeps versions and receipts in correspondence.
LEMMA AcknowledgedStep ==
    TypeInv /\ VersionsAcknowledgedOnce /\ [Next]_vars => VersionsAcknowledgedOnce'
<1> SUFFICES ASSUME TypeInv, VersionsAcknowledgedOnce, [Next]_vars
             PROVE  VersionsAcknowledgedOnce'
    OBVIOUS
<1>1. ASSUME NEW req \in ClaimRequest, Claim(req) PROVE VersionsAcknowledgedOnce'
    <2>1. ~Receipted(req)
        BY <1>1, AcceptedClaim DEF Claim, ClaimRequest
    <2>2. checkpoint'.version = checkpoint.version + 1
        BY <1>1 DEF Claim, TypeInv, TypeOK, Checkpoint
    <2>. QED  BY <1>1, <2>1, <2>2, FreshReceipt DEF Claim
<1>2. ASSUME NEW req \in SaveRequest, Save(req) PROVE VersionsAcknowledgedOnce'
    <2>1. ~Receipted(req)
        BY <1>2, OwnerIsLatest DEF Save
    <2>2. checkpoint'.version = checkpoint.version + 1
        BY <1>2 DEF Save, TypeInv, TypeOK, Checkpoint
    <2>. QED  BY <1>2, <2>1, <2>2, FreshReceipt DEF Save
<1>3. ASSUME NEW req \in FinishRequest, Finish(req) PROVE VersionsAcknowledgedOnce'
    <2>1. ~Receipted(req)
        BY <1>3, OwnerIsLatest DEF Finish
    <2>2. checkpoint'.version = checkpoint.version + 1
        BY <1>3 DEF Finish, TypeInv, TypeOK, Checkpoint
    <2>. QED  BY <1>3, <2>1, <2>2, FreshReceipt DEF Finish
<1>4. CASE Tick
    BY <1>4 DEF Tick, tables, VersionsAcknowledgedOnce
<1>5. CASE UNCHANGED vars
    BY <1>5 DEF vars, VersionsAcknowledgedOnce
<1>. QED  BY <1>1, <1>2, <1>3, <1>4, <1>5, StepCases DEF TypeInv

\* Replies may be lost, requests repeated or delivered late in any order:
\* the versions the server ever acknowledged and the mutations it ever
\* committed are the same, one receipt each (service.py:127-149).
THEOREM ExactlyOnce == Spec => []VersionsAcknowledgedOnce
<1>1. Init => VersionsAcknowledgedOnce
    BY DEF Init, VersionsAcknowledgedOnce
<1>. QED  BY <1>1, TypeInvariance, AcknowledgedStep, PTL DEF Spec

-----------------------------------------------------------------------------
(* The audit trail and fencing                                             *)

\* The audit properties with what makes them inductive: no event comes from
\* an execution that does not exist yet, and there is no progress before
\* the row.
AuditInv ==
    /\ AuditLeadsToRow
    /\ TakeoverIsFinal
    /\ \A i \in DOMAIN audit : audit[i].execution_id <= Len(executions)
    /\ checkpoint.version = 0 => checkpoint.progress = InitialProgress
    /\ checkpoint.version = 0 <=> Len(executions) = 0

\* A claim extends the audit chain only when it creates the row, in the name
\* of the newest execution.
LEMMA AuditClaim ==
    ASSUME TypeInv, AuditInv, NEW req \in ClaimRequest, Claim(req)
    PROVE  AuditInv'
<1>1. /\ checkpoint'.progress = checkpoint.progress
      /\ checkpoint'.version = checkpoint.version + 1
      /\ checkpoint.version \in Nat
    BY DEF Claim, TypeInv, TypeOK, Checkpoint
<1>2. Len(executions') = Len(executions) + 1 /\ Len(executions) \in Nat
    BY InterruptedType DEF Claim, TypeInv, TypeOK
<1>3. CASE checkpoint.version = 0
    <2>. DEFINE e == [execution_id |-> Len(executions) + 1, previous |-> None,
                      new |-> "PENDING", stage |-> InitialStage]
    <2>1. audit = <<>> /\ audit' = Append(audit, e)
        BY <1>3 DEF AuditInv, AuditLeadsToRow, Claim
    <2>2. Len(audit') = 1 /\ DOMAIN audit' = {1} /\ audit'[1] = e
        BY <2>1
    <2>3. checkpoint'.progress = InitialProgress
        BY <1>1, <1>3 DEF AuditInv
    <2>4. AuditLeadsToRow'
        <3>1. /\ checkpoint'.progress.checkpoint_status = "PENDING"
              /\ checkpoint'.progress.current_stage = InitialStage
            BY <2>3 DEF InitialProgress
        <3>2. checkpoint'.version # 0
            BY <1>1, <1>3
        <3>3. audit' # <<>>
            <4>. HIDE DEF e
            <4>. QED  BY <2>1
        <3>. QED  BY <2>2, <3>1, <3>2, <3>3 DEF AuditLeadsToRow
    <2>5. TakeoverIsFinal'
        BY <2>2 DEF TakeoverIsFinal
    <2>6. \A i \in DOMAIN audit' : audit'[i].execution_id <= Len(executions')
        BY <1>2, <2>2
    <2>7. checkpoint'.version # 0 /\ Len(executions') # 0
        BY <1>1, <1>2
    <2>. QED  BY <2>4, <2>5, <2>6, <2>7 DEF AuditInv
<1>4. CASE checkpoint.version # 0
    <2>1. audit' = audit
        BY <1>4 DEF Claim
    <2>2. \A i \in DOMAIN audit : audit[i].execution_id \in Nat
        <3>1. \A i \in DOMAIN audit : audit[i] \in Event
            BY DEF TypeInv, TypeOK
        <3>. QED  BY <3>1 DEF Event
    <2>. QED  BY <1>1, <1>2, <1>4, <2>1, <2>2 DEF AuditInv, AuditLeadsToRow, TakeoverIsFinal
<1>. QED  BY <1>3, <1>4

\* A save appends the event that leads from the old row to the new one.
LEMMA AuditSave ==
    ASSUME TypeInv, AuditInv, NEW req \in SaveRequest, Save(req)
    PROVE  AuditInv'
<1>. DEFINE n == Len(audit)
            e == [execution_id |-> req.execution_id,
                  previous |-> checkpoint.progress.checkpoint_status,
                  new |-> req.change.checkpoint_status,
                  stage |-> req.change.current_stage]
<1>1. /\ req.execution_id = Len(executions) /\ checkpoint.version \in Nat \ {0}
      /\ req.execution_id \in Nat
    BY OwnerIsLatest DEF Save
<1>2. /\ checkpoint'.progress = req.change
      /\ checkpoint'.version = checkpoint.version + 1
      /\ executions' = executions
    BY DEF Save, TypeInv, TypeOK, Checkpoint
<1>3. n \in Nat \ {0} /\ DOMAIN audit = 1 .. n
    BY <1>1 DEF AuditInv, AuditLeadsToRow, TypeInv, TypeOK
<1>4. /\ Len(audit') = n + 1 /\ DOMAIN audit' = 1 .. n + 1
      /\ audit'[n + 1] = e
      /\ \A i \in 1 .. n : audit'[i] = audit[i]
    BY <1>3 DEF Save, TypeInv, TypeOK
<1>5. audit[n].new = checkpoint.progress.checkpoint_status
    BY <1>3 DEF AuditInv, AuditLeadsToRow
<1>6. AuditLeadsToRow'
    <2>1. \A i \in 1 .. n + 1 :
              audit'[i].previous = IF i = 1 THEN None ELSE audit'[i - 1].new
        <3>. SUFFICES ASSUME NEW i \in 1 .. n + 1
                      PROVE  audit'[i].previous = IF i = 1 THEN None ELSE audit'[i - 1].new
            OBVIOUS
        <3>1. CASE i = n + 1
            BY <1>3, <1>4, <1>5, <3>1
        <3>2. CASE i # n + 1
            <4>1. i \in 1 .. n /\ (i # 1 => i - 1 \in 1 .. n)
                BY <1>3, <3>2
            <4>. QED  BY <1>3, <1>4, <4>1 DEF AuditInv, AuditLeadsToRow
        <3>. QED  BY <3>1, <3>2
    <2>2. checkpoint'.version # 0 /\ audit' # <<>>
        BY <1>1, <1>2, <1>3, <1>4
    <2>3. /\ audit'[Len(audit')].new = checkpoint'.progress.checkpoint_status
          /\ audit'[Len(audit')].stage = checkpoint'.progress.current_stage
        BY <1>2, <1>4
    <2>. QED  BY <1>4, <2>1, <2>2, <2>3 DEF AuditLeadsToRow
<1>7. \A i \in 1 .. n + 1 : audit'[i].execution_id <= Len(executions)
    BY <1>1, <1>3, <1>4 DEF AuditInv
<1>8. TakeoverIsFinal'
    <2>. SUFFICES ASSUME NEW i \in 1 .. n + 1, NEW j \in 1 .. n + 1, i < j
                  PROVE  audit'[i].execution_id <= audit'[j].execution_id
        BY <1>4 DEF TakeoverIsFinal
    <2>1. CASE j = n + 1
        BY <1>1, <1>4, <1>7, <2>1
    <2>2. CASE j # n + 1
        <3>1. i \in 1 .. n /\ j \in 1 .. n
            BY <1>3, <2>2
        <3>. QED  BY <1>3, <1>4, <3>1 DEF AuditInv, TakeoverIsFinal
    <2>. QED  BY <2>1, <2>2
<1>. QED  BY <1>1, <1>2, <1>4, <1>6, <1>7, <1>8 DEF AuditInv

\* A finish leaves progress and audit alone.
LEMMA AuditFinish ==
    ASSUME TypeInv, AuditInv, NEW req \in FinishRequest, Finish(req)
    PROVE  AuditInv'
<1>1. /\ checkpoint'.progress = checkpoint.progress
      /\ checkpoint'.version = checkpoint.version + 1
    BY DEF Finish, TypeInv, TypeOK, Checkpoint
<1>2. checkpoint.version \in Nat \ {0}
    BY OwnerIsLatest DEF Finish
<1>3. Len(executions') = Len(executions) /\ audit' = audit
    BY DEF Finish, TypeInv, TypeOK
<1>. QED  BY <1>1, <1>2, <1>3 DEF AuditInv, AuditLeadsToRow, TakeoverIsFinal

\* Every step keeps the audit chain.
LEMMA AuditStep == TypeInv /\ AuditInv /\ [Next]_vars => AuditInv'
<1> SUFFICES ASSUME TypeInv, AuditInv, [Next]_vars PROVE AuditInv'
    OBVIOUS
<1>1. CASE Tick
    BY <1>1 DEF Tick, tables, AuditInv, AuditLeadsToRow, TakeoverIsFinal
<1>2. CASE UNCHANGED vars
    BY <1>2 DEF vars, AuditInv, AuditLeadsToRow, TakeoverIsFinal
<1>. QED  BY <1>1, <1>2, StepCases, AuditClaim, AuditSave, AuditFinish DEF TypeInv

\* The strengthened audit invariant holds in every reachable state.
LEMMA AuditInvariance == Spec => []AuditInv
<1>1. Init => AuditInv
    BY DEF Init, AuditInv, AuditLeadsToRow, TakeoverIsFinal
<1>. QED  BY <1>1, TypeInvariance, AuditStep, PTL DEF Spec

\* The audit rows form one chain from the creation of the checkpoint to its
\* present status and stage (service.py:199-202, 228-235).
THEOREM AuditIsComplete == Spec => []AuditLeadsToRow
BY AuditInvariance, PTL DEF AuditInv

\* Once an execution has taken the operation over, nothing an earlier one
\* sends is written any more (service.py:204-211).
THEOREM Fencing == Spec => []TakeoverIsFinal
BY AuditInvariance, PTL DEF AuditInv

-----------------------------------------------------------------------------
(* Progress                                                                *)

\* Every step keeps the references that progress needs.
LEMMA EvidenceStep == TypeInv /\ ProgressHasEvidence /\ [Next]_vars => ProgressHasEvidence'
<1> SUFFICES ASSUME TypeInv, ProgressHasEvidence, [Next]_vars PROVE ProgressHasEvidence'
    OBVIOUS
<1>1. ASSUME NEW req \in ClaimRequest, Claim(req) PROVE ProgressHasEvidence'
    <2>1. checkpoint'.progress = checkpoint.progress
        BY <1>1 DEF Claim, TypeInv, TypeOK, Checkpoint
    <2>. QED  BY <2>1 DEF ProgressHasEvidence
<1>2. ASSUME NEW req \in SaveRequest, Save(req) PROVE ProgressHasEvidence'
    <2>1. checkpoint'.progress = req.change
        BY <1>2 DEF Save, TypeInv, TypeOK, Checkpoint
    <2>2. Admissible(req.change)
        BY <1>2, AcceptedOwner DEF Save, SaveRequest
    <2>. QED  BY <2>1, <2>2 DEF ProgressHasEvidence, Admissible
<1>3. ASSUME NEW req \in FinishRequest, Finish(req) PROVE ProgressHasEvidence'
    <2>1. checkpoint'.progress = checkpoint.progress
        BY <1>3 DEF Finish, TypeInv, TypeOK, Checkpoint
    <2>. QED  BY <2>1 DEF ProgressHasEvidence
<1>4. CASE Tick
    BY <1>4 DEF Tick, tables, ProgressHasEvidence
<1>5. CASE UNCHANGED vars
    BY <1>5 DEF vars, ProgressHasEvidence
<1>. QED  BY <1>1, <1>2, <1>3, <1>4, <1>5, StepCases DEF TypeInv

\* No caller can bring the row to progress that lacks its business result or
\* provider request, or that its operation cannot be in (service.py:212-224).
THEOREM EvidenceForProgress == Spec => []ProgressHasEvidence
<1>1. Init => ProgressHasEvidence
    <2>1. InitialStage \in Stages /\ InitialStage # "AD_POLLING"
        BY AgentAssumption DEF InitialStage, InitialStageOf, Stages
    <2>. QED  BY <2>1 DEF Init, ProgressHasEvidence, InitialProgress
<1>. QED  BY <1>1, TypeInvariance, EvidenceStep, PTL DEF Spec

-----------------------------------------------------------------------------
(* The lease                                                               *)

\* While a lease is live nothing but its own execution's finish touches it:
\* there is neither theft nor renewal (service.py:174-176, 236-239).
THEOREM LeaseSafety == Spec => LiveLeaseIsSafe
<1>. DEFINE Safe == /\ LeaseIsLive
                    /\ \/ checkpoint'.lease # checkpoint.lease
                       \/ checkpoint'.execution # checkpoint.execution
                    =>
                        /\ checkpoint'.lease = NoLease
                        /\ checkpoint'.execution = checkpoint.execution
<1>1. TypeInv /\ [Next]_vars => [Safe]_vars
    <2> SUFFICES ASSUME TypeInv, Next PROVE Safe
        OBVIOUS
    <2>1. ASSUME NEW req \in ClaimRequest, Claim(req) PROVE Safe
        BY <2>1, AcceptedClaim DEF Claim, ClaimRequest
    <2>2. ASSUME NEW req \in SaveRequest, Save(req) PROVE Safe
        BY <2>2 DEF Save, TypeInv, TypeOK, Checkpoint
    <2>3. ASSUME NEW req \in FinishRequest, Finish(req) PROVE Safe
        BY <2>3 DEF Finish, TypeInv, TypeOK, Checkpoint
    <2>4. CASE Tick
        BY <2>4 DEF Tick, tables
    <2>. QED  BY <2>1, <2>2, <2>3, <2>4, StepCases DEF TypeInv
<1>. QED  BY <1>1, TypeInvariance, PTL DEF Spec, LiveLeaseIsSafe

\* Progress changes only under a live lease, with its audit event, and never
\* loses the provider request or leaves polling (service.py:210-235).
THEOREM ForwardOnly == Spec => ProgressMovesForward
<1>. DEFINE Forward == checkpoint'.progress # checkpoint.progress =>
           /\ LeaseIsLive
           /\ Len(audit') = Len(audit) + 1
           /\ checkpoint.progress.external_reference # None =>
                  checkpoint'.progress.external_reference = checkpoint.progress.external_reference
           /\ checkpoint.progress.current_stage = "AD_POLLING" =>
                  checkpoint'.progress.current_stage = "AD_POLLING"
<1>1. TypeInv /\ [Next]_vars => [Forward]_vars
    <2> SUFFICES ASSUME TypeInv, Next PROVE Forward
        OBVIOUS
    <2>1. ASSUME NEW req \in ClaimRequest, Claim(req) PROVE Forward
        BY <2>1 DEF Claim, TypeInv, TypeOK, Checkpoint
    <2>2. ASSUME NEW req \in SaveRequest, Save(req) PROVE Forward
        <3>1. checkpoint'.progress = req.change
            BY <2>2 DEF Save, TypeInv, TypeOK, Checkpoint
        <3>2. LeaseIsLive /\ Admissible(req.change)
            BY <2>2, AcceptedOwner DEF Save, SaveRequest
        <3>3. Len(audit') = Len(audit) + 1
            BY <2>2 DEF Save, TypeInv, TypeOK
        <3>. QED  BY <3>1, <3>2, <3>3 DEF Admissible
    <2>3. ASSUME NEW req \in FinishRequest, Finish(req) PROVE Forward
        BY <2>3 DEF Finish, TypeInv, TypeOK, Checkpoint
    <2>4. CASE Tick
        BY <2>4 DEF Tick, tables
    <2>. QED  BY <2>1, <2>2, <2>3, <2>4, StepCases DEF TypeInv
<1>. QED  BY <1>1, TypeInvariance, PTL DEF Spec, ProgressMovesForward

-----------------------------------------------------------------------------
(* What is on record                                                       *)

\* What is on record stays there.
Kept(q, q2) == \A k \in DOMAIN q : k \in DOMAIN q2 /\ q2[k] = q[k]

\* Executions stay in the table, their runs and outcomes as they are.
Settled(x, x2) ==
    \A i \in DOMAIN x : /\ i \in DOMAIN x2
                        /\ x2[i].workflow_run_id = x[i].workflow_run_id
                        /\ x[i].result # "RUNNING" => x2[i].result = x[i].result

\* The reply row to the request req shows the row as the call left it, by the
\* executions x and the receipts q: the progress that was saved, the next
\* version, the outcome of the execution that was finished, which leaves the
\* progress as the version before it had it.
Tells(x, q, req, row) ==
    /\ row.execution \in DOMAIN x
    /\ req.tool = "save" => row.progress = req.change
    /\ req.tool \in {"save", "finish"} => row.version = req.expected_version + 1
    /\ req.tool = "finish" =>
           /\ x[row.execution].result = Outcome(req.error)
           /\ \E l \in DOMAIN q : /\ q[l].response.version = req.expected_version
                                  /\ q[l].response.progress = row.progress

ReceiptsTell == \A k \in DOMAIN receipts :
    Tells(executions, receipts, receipts[k].request, receipts[k].response)

\* The row is what the latest reply shows.
RowOnRecord ==
    checkpoint.version # 0 => \E k \in DOMAIN receipts : receipts[k].response = checkpoint

HistoryInv == ReceiptsTell /\ RowOnRecord

\* An accepted request adds its receipt and changes none.
LEMMA OneMoreReceipt ==
    ASSUME NEW req, ~Receipted(req), Acknowledge(req, checkpoint')
    PROVE  /\ Kept(receipts, receipts')
           /\ DOMAIN receipts' = DOMAIN receipts \cup {KeyOf(req)}
           /\ receipts'[KeyOf(req)] = [request |-> req, response |-> checkpoint']
BY DEF Acknowledge, Receipted, Kept

\* What each mutation does to the row, and that it is receipted.
LEMMA MutationCases ==
    ASSUME TypeInv, Next
    PROVE  \/ \E req \in ClaimRequest :
                  /\ Claim(req) /\ ~Receipted(req) /\ Acknowledge(req, checkpoint')
           \/ \E req \in SaveRequest :
                  /\ Save(req) /\ ~Receipted(req) /\ Acknowledge(req, checkpoint')
           \/ \E req \in FinishRequest :
                  /\ Finish(req) /\ ~Receipted(req) /\ Acknowledge(req, checkpoint')
           \/ Tick
<1>1. ASSUME NEW req \in ClaimRequest, Claim(req)
      PROVE  ~Receipted(req) /\ Acknowledge(req, checkpoint')
    BY <1>1, AcceptedClaim DEF Claim, ClaimRequest
<1>2. ASSUME NEW req \in SaveRequest, Save(req)
      PROVE  ~Receipted(req) /\ Acknowledge(req, checkpoint')
    BY <1>2, OwnerIsLatest DEF Save
<1>3. ASSUME NEW req \in FinishRequest, Finish(req)
      PROVE  ~Receipted(req) /\ Acknowledge(req, checkpoint')
    BY <1>3, OwnerIsLatest DEF Finish
<1>. QED  BY <1>1, <1>2, <1>3, StepCases DEF TypeInv

\* No step takes a receipt back.
LEMMA ReceiptsStay ==
    ASSUME TypeInv, [Next]_vars
    PROVE  Kept(receipts, receipts')
<1>1. CASE UNCHANGED receipts
    BY <1>1 DEF Kept
<1>. QED  BY <1>1, MutationCases, OneMoreReceipt DEF Tick, tables, vars

\* No step changes the outcome of an execution that is over.
LEMMA ResultsStay ==
    ASSUME TypeInv, OneRunningExecution, [Next]_vars
    PROVE  Settled(executions, executions')
<1>. DEFINE n == Len(executions)
<1>1. /\ n \in Nat /\ DOMAIN executions = 1 .. n
      /\ \A i \in 1 .. n : executions[i] \in Execution
    BY DEF TypeInv, TypeOK
<1>2. ASSUME NEW req \in ClaimRequest, Claim(req) PROVE Settled(executions, executions')
    <2>1. \A i \in 1 .. n : executions[i].result # "RUNNING" =>
              Interrupted[i].result = executions[i].result
        BY <1>1 DEF Interrupted
    <2>2. /\ DOMAIN executions' = 1 .. n + 1
          /\ \A i \in 1 .. n : executions'[i] = Interrupted[i]
        BY <1>1, <1>2, InterruptedType DEF Claim
    <2>. QED  BY <1>1, <2>1, <2>2, InterruptedType DEF Settled
<1>3. ASSUME NEW req \in FinishRequest, Finish(req) PROVE Settled(executions, executions')
    <2>1. /\ req.execution_id \in 1 .. n
          /\ executions[req.execution_id].result = "RUNNING"
        BY <1>1, <1>3, OwnerIsLatest DEF Finish, OneRunningExecution
    <2>2. executions' = [executions EXCEPT ![req.execution_id].result = Outcome(req.error)]
        BY <1>3 DEF Finish
    <2>. QED  BY <1>1, <2>1, <2>2 DEF Settled, Execution
<1>4. CASE UNCHANGED executions
    BY <1>4 DEF Settled
<1>5. ASSUME NEW req \in SaveRequest, Save(req) PROVE Settled(executions, executions')
    BY <1>4, <1>5 DEF Save
<1>. QED  BY <1>2, <1>3, <1>4, <1>5, StepCases DEF TypeInv, Tick, tables, vars

\* The receipt of an accepted request says what it did.
LEMMA ReceiptTells ==
    ASSUME TypeInv, TypeInv', HistoryInv,
           NEW req, ~Receipted(req), Acknowledge(req, checkpoint'),
           \/ req \in ClaimRequest /\ Claim(req)
           \/ req \in SaveRequest /\ Save(req)
           \/ req \in FinishRequest /\ Finish(req)
    PROVE  Tells(executions', receipts, req, checkpoint')
<1>1. checkpoint \in Checkpoint /\ checkpoint' \in Checkpoint
    BY DEF TypeInv, TypeOK
<1>2. CASE req \in ClaimRequest /\ Claim(req)
    <2>1. req.tool = "claim"
        BY <1>2 DEF ClaimRequest
    <2>2. checkpoint'.execution = Len(executions) + 1 /\ Len(executions) \in Nat
        BY <1>1, <1>2 DEF Claim, Checkpoint, TypeInv, TypeOK
    <2>3. checkpoint'.execution = Len(executions') /\ DOMAIN executions' = 1 .. Len(executions')
        BY DEF TypeInv, PointsAtLatest, TypeOK
    <2>. QED  BY <2>1, <2>2, <2>3 DEF Tells
<1>3. CASE req \in SaveRequest /\ Save(req)
    <2>1. req.tool = "save"
        BY <1>3 DEF SaveRequest
    <2>2. /\ checkpoint'.execution = checkpoint.execution /\ executions' = executions
          /\ checkpoint'.progress = req.change
          /\ checkpoint'.version = checkpoint.version + 1
        BY <1>1, <1>3 DEF Save, Checkpoint
    <2>3. checkpoint.execution \in 1 .. Len(executions)
        BY <1>3, OwnerIsLatest DEF Save
    <2>4. checkpoint.version = req.expected_version
        BY <1>3, <2>1, AcceptedOwner DEF Save, OwnsCheckpoint
    <2>. QED  BY <2>1, <2>2, <2>3, <2>4 DEF TypeInv, TypeOK, Tells
<1>4. CASE req \in FinishRequest /\ Finish(req)
    <2>1. req.tool = "finish"
        BY <1>4 DEF FinishRequest
    <2>2. /\ checkpoint'.execution = checkpoint.execution
          /\ checkpoint'.progress = checkpoint.progress
          /\ checkpoint'.version = checkpoint.version + 1
          /\ executions' = [executions EXCEPT ![req.execution_id].result = Outcome(req.error)]
        BY <1>1, <1>4 DEF Finish, Checkpoint
    <2>3. /\ checkpoint.execution \in 1 .. Len(executions)
          /\ checkpoint.execution = req.execution_id
          /\ checkpoint.version # 0
        BY <1>4, OwnerIsLatest DEF Finish
    <2>4. checkpoint.version = req.expected_version
        BY <1>4, <2>1, AcceptedOwner DEF Finish, OwnsCheckpoint
    <2>5. executions[checkpoint.execution] \in Execution /\ DOMAIN executions = 1 .. Len(executions)
        BY <2>3 DEF TypeInv, TypeOK
    <2>6. PICK l \in DOMAIN receipts : receipts[l].response = checkpoint
        BY <2>3 DEF HistoryInv, RowOnRecord
    <2>7. executions'[checkpoint'.execution].result = Outcome(req.error)
        BY <2>2, <2>3, <2>5 DEF Execution
    <2>8. checkpoint'.execution \in DOMAIN executions'
        BY <2>2, <2>3, <2>5
    <2>. QED  BY <2>1, <2>2, <2>4, <2>6, <2>7, <2>8 DEF Tells
<1>. QED  BY <1>2, <1>3, <1>4

\* What a reply told it goes on to tell.
LEMMA ReceiptsGoOnTelling ==
    ASSUME NEW x, NEW q, NEW x2, NEW q2, Kept(q, q2), Settled(x, x2),
           NEW req, NEW row, Tells(x, q, req, row)
    PROVE  Tells(x2, q2, req, row)
<1>1. row.execution \in DOMAIN x /\ row.execution \in DOMAIN x2
    BY DEF Tells, Settled
<1>2. ASSUME req.tool = "finish"
      PROVE  /\ x2[row.execution].result = Outcome(req.error)
             /\ \E l \in DOMAIN q2 : /\ q2[l].response.version = req.expected_version
                                     /\ q2[l].response.progress = row.progress
    <2>1. x[row.execution].result = Outcome(req.error) /\ Outcome(req.error) # "RUNNING"
        BY <1>2 DEF Tells, Outcome
    <2>2. PICK l \in DOMAIN q : /\ q[l].response.version = req.expected_version
                               /\ q[l].response.progress = row.progress
        BY <1>2 DEF Tells
    <2>. QED  BY <1>1, <2>1, <2>2 DEF Kept, Settled
<1>. QED  BY <1>1, <1>2 DEF Tells

\* Every step keeps the record complete.
LEMMA HistoryStep ==
    TypeInv /\ OneRunningExecution /\ HistoryInv /\ [Next]_vars => HistoryInv'
<1> SUFFICES ASSUME TypeInv, OneRunningExecution, HistoryInv, [Next]_vars PROVE HistoryInv'
    OBVIOUS
<1>1. TypeInv' /\ Kept(receipts, receipts') /\ Settled(executions, executions')
    BY TypeStep, ReceiptsStay, ResultsStay
<1>2. CASE UNCHANGED tables
    BY <1>2 DEF tables, HistoryInv, ReceiptsTell, RowOnRecord
<1>3. ASSUME NEW req, ~Receipted(req), Acknowledge(req, checkpoint'),
             \/ req \in ClaimRequest /\ Claim(req)
             \/ req \in SaveRequest /\ Save(req)
             \/ req \in FinishRequest /\ Finish(req)
      PROVE  HistoryInv'
    <2>1. /\ DOMAIN receipts' = DOMAIN receipts \cup {KeyOf(req)}
          /\ receipts'[KeyOf(req)] = [request |-> req, response |-> checkpoint']
        BY <1>3, OneMoreReceipt
    <2>2. RowOnRecord'
        BY <2>1 DEF RowOnRecord
    <2>3. Tells(executions', receipts, req, checkpoint')
        BY <1>1, <1>3, ReceiptTells
    <2>4. Tells(executions', receipts', req, checkpoint')
        <3>1. Settled(executions', executions')
            BY DEF Settled
        <3>. QED  BY <1>1, <2>3, <3>1, ReceiptsGoOnTelling
    <2>5. ReceiptsTell'
        <3>. SUFFICES ASSUME NEW k \in DOMAIN receipts'
                      PROVE  Tells(executions', receipts', receipts'[k].request,
                                   receipts'[k].response)
            BY DEF ReceiptsTell
        <3>1. CASE k = KeyOf(req)
            BY <2>1, <2>4, <3>1
        <3>2. CASE k \in DOMAIN receipts
            <4>1. /\ receipts'[k] = receipts[k]
                  /\ Tells(executions, receipts, receipts[k].request, receipts[k].response)
                BY <1>1, <3>2 DEF Kept, HistoryInv, ReceiptsTell
            <4>. QED  BY <1>1, <4>1, ReceiptsGoOnTelling
        <3>. QED  BY <2>1, <3>1, <3>2
    <2>. QED  BY <2>2, <2>5 DEF HistoryInv
<1>. QED  BY <1>2, <1>3, MutationCases DEF Tick, vars, tables

\* The record is complete in every reachable state: every receipt says what
\* its call did, and the row is what the latest one shows
\* (service.py:127-149, 176-187, 236-243).
THEOREM RecordIsComplete == Spec => []HistoryInv
<1>1. Init => HistoryInv
    BY DEF Init, HistoryInv, ReceiptsTell, RowOnRecord
<1>. QED  BY <1>1, TypeInvariance, OneOwner, HistoryStep, PTL DEF Spec

-----------------------------------------------------------------------------
(* The store implements the one-writer register                            *)

Writers == [i \in DOMAIN audit |-> audit[i].execution_id]

\* An audited write adds its writer to the sequence of writers.
LEMMA WritersGrow ==
    ASSUME TypeInv, NEW e \in Event, audit' = Append(audit, e)
    PROVE  Writers' = Append(Writers, e.execution_id)
<1>. DEFINE n == Len(audit)
<1>1. n \in Nat /\ DOMAIN audit = 1 .. n /\ \A i \in 1 .. n : audit[i] \in Event
    BY DEF TypeInv, TypeOK
<1>2. /\ DOMAIN audit' = 1 .. n + 1
      /\ audit'[n + 1] = e
      /\ \A i \in 1 .. n : audit'[i] = audit[i]
    BY DEF TypeInv, TypeOK
<1>3. Writers \in Seq(Nat) /\ Len(Writers) = n
    BY <1>1 DEF Writers, Event
<1>4. Writers' = [i \in 1 .. n + 1 |-> audit'[i].execution_id]
    BY <1>2 DEF Writers
<1>5. Append(Writers, e.execution_id) = [i \in 1 .. n + 1 |->
          IF i = n + 1 THEN e.execution_id ELSE Writers[i]]
    BY <1>1, <1>3
<1>6. \A i \in 1 .. n + 1 :
          audit'[i].execution_id = IF i = n + 1 THEN e.execution_id ELSE Writers[i]
    BY <1>1, <1>2 DEF Writers
<1>. QED  BY <1>4, <1>5, <1>6

\* A claim is an acquisition of the register.
LEMMA ClaimAcquires ==
    ASSUME TypeInv, AuditInv, NEW req \in ClaimRequest, Claim(req)
    PROVE  Register!Acquire
<1>1. ~LeaseIsLive
    BY AcceptedClaim DEF Claim, ClaimRequest
<1>2. LeaseIsLive'
    BY LeaseAssumption DEF Claim, LeaseIsLive, TypeInv, TypeOK, Checkpoint
<1>3. Len(executions') = Len(executions) + 1
    BY InterruptedType DEF Claim, TypeInv, TypeOK
<1>4. checkpoint'.progress = checkpoint.progress
    BY DEF Claim, TypeInv, TypeOK, Checkpoint
<1>5. Writers' = IF Len(executions) = 0 THEN Append(Writers, 1) ELSE Writers
    <2>. DEFINE e == [execution_id |-> Len(executions) + 1, previous |-> None,
                      new |-> "PENDING", stage |-> InitialStage]
    <2>1. CASE Len(executions) = 0
        <3>1. audit' = Append(audit, e)
            BY <2>1 DEF AuditInv, Claim
        <3>2. e \in Event /\ e.execution_id = 1
            BY <2>1, InitialStageType DEF Event, Status
        <3>. HIDE DEF e
        <3>. QED  BY <2>1, <3>1, <3>2, WritersGrow
    <2>2. CASE Len(executions) # 0
        BY <2>2 DEF AuditInv, Claim, Writers
    <2>. QED  BY <2>1, <2>2
<1>. QED  BY <1>1, <1>2, <1>3, <1>4, <1>5 DEF Register!Acquire, Writers

\* A save is a write of the register.
LEMMA SaveWrites ==
    ASSUME TypeInv, NEW req \in SaveRequest, Save(req)
    PROVE  Register!Write(req.change)
<1>. DEFINE e == [execution_id |-> req.execution_id,
                  previous |-> checkpoint.progress.checkpoint_status,
                  new |-> req.change.checkpoint_status,
                  stage |-> req.change.current_stage]
<1>1. LeaseIsLive /\ req.execution_id = Len(executions)
    BY OwnerIsLatest DEF Save
<1>2. /\ checkpoint'.progress = req.change
      /\ checkpoint'.lease = checkpoint.lease
      /\ executions' = executions /\ clock' = clock
    BY DEF Save, TypeInv, TypeOK, Checkpoint
<1>3. Writers' = Append(Writers, Len(executions))
    <2>1. audit' = Append(audit, e)
        BY DEF Save
    <2>2. req.change \in Progress /\ req.execution_id \in Nat
        BY ChangeAssumption DEF SaveRequest
    <2>3. e \in Event /\ e.execution_id = Len(executions)
        BY <1>1, <2>2 DEF Event, Progress, TypeInv, TypeOK, Checkpoint
    <2>. HIDE DEF e
    <2>. QED  BY <2>1, <2>3, WritersGrow
<1>. QED  BY <1>1, <1>2, <1>3 DEF Register!Write, Writers, LeaseIsLive

\* A finish surrenders the register.
LEMMA FinishSurrenders ==
    ASSUME TypeInv, NEW req \in FinishRequest, Finish(req)
    PROVE  Register!Surrender
<1>1. LeaseIsLive
    BY OwnerIsLatest DEF Finish
<1>2. /\ checkpoint'.progress = checkpoint.progress
      /\ checkpoint'.lease = 0
      /\ Len(executions') = Len(executions)
      /\ audit' = audit /\ clock' = clock /\ clock \in Nat
    BY DEF Finish, NoLease, TypeInv, TypeOK, Checkpoint
<1>3. ~LeaseIsLive'
    BY <1>2 DEF LeaseIsLive
<1>. QED  BY <1>1, <1>2, <1>3 DEF Register!Surrender, Writers

\* The clock surrenders the register when the lease lapses and otherwise
\* leaves it alone.
LEMMA TickLapses ==
    ASSUME TypeInv, Tick
    PROVE  Register!Surrender \/ UNCHANGED Register!vars
<1>1. /\ UNCHANGED <<checkpoint, executions, audit>>
      /\ LeaseIsLive' => LeaseIsLive
    BY DEF Tick, tables, LeaseIsLive, TypeInv, TypeOK, Checkpoint
<1>. QED  BY <1>1 DEF Register!Surrender, Register!vars, LeaseIsLive

\* Every step of the store is a step of the register or leaves it alone.
LEMMA RegisterStep ==
    TypeInv /\ AuditInv /\ [Next]_vars => [Register!Next]_(Register!vars)
<1> SUFFICES ASSUME TypeInv, AuditInv, [Next]_vars
             PROVE  Register!Next \/ UNCHANGED Register!vars
    OBVIOUS
<1>1. ASSUME NEW req \in SaveRequest, Save(req) PROVE Register!Next
    <2>1. req.change \in Progress
        BY ChangeAssumption DEF SaveRequest
    <2>. QED  BY <1>1, <2>1, SaveWrites DEF Register!Next
<1>2. ASSUME NEW req \in ClaimRequest, Claim(req) PROVE Register!Next
    BY <1>2, ClaimAcquires DEF Register!Next
<1>3. ASSUME NEW req \in FinishRequest, Finish(req) PROVE Register!Next
    BY <1>3, FinishSurrenders DEF Register!Next
<1>4. CASE Tick
    BY <1>4, TickLapses DEF Register!Next
<1>5. CASE UNCHANGED vars
    BY <1>5 DEF vars, Register!vars, LeaseIsLive
<1>. QED  BY <1>1, <1>2, <1>3, <1>4, <1>5, StepCases DEF TypeInv

\* The server implements the abstract register with one writer at a time: a
\* claim acquires it, a save writes it, a finish or the end of the lease
\* surrenders it, and replays and refusals are stutters.
THEOREM Implementation == Spec => ImplementsRegister
<1>1. Init => Register!Init
    BY DEF Init, Register!Init, LeaseIsLive, NoLease
<1>. QED  BY <1>1, TypeInvariance, AuditInvariance, RegisterStep, PTL
          DEF Spec, ImplementsRegister, Register!Spec
=============================================================================
