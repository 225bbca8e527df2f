---------------------------- MODULE BatchRuntime ----------------------------
(***************************************************************************)
(* Invocations of one journey operation: BatchRuntime.run                  *)
(* (cloud_journey_agents/durability/runtime.py) working through            *)
(* CheckpointStore, McpClient and an unreliable transport against the      *)
(* durable store (module DurableStore) and the business service, whose     *)
(* record of the operation lives in another database.                      *)
(*                                                                         *)
(* A durable call is a message that the server answers at any later        *)
(* moment, or never; the caller waits for it, repeats it once, or ends.    *)
(* Business calls are one transaction of the business service each; their  *)
(* failures are modelled by when the effect happens: never, before the     *)
(* error or after it.  Local computation between two calls is one step     *)
(* with the call that follows it.  CheckpointStore's checks of an          *)
(* acknowledgement reject nothing this server answers, and are left out.   *)
(***************************************************************************)
EXTENDS DurableStore

CONSTANTS
    Worker,         \* invocations
    RunOf,          \* the workflow run that launched each of them
    RequestId,      \* the id the provider gives this operation's request
    Reference,      \* the reference of the operation's business result
    Failures,       \* str(exc) of what the business gateway may raise
    PendingPolls,   \* how many polls find the provider's request pending
    MaxFaults       \* bound on timeouts, crashes and failed calls

BusinessRecord == [status : {"WAITING", "COMPLETED"}, successful : BOOLEAN,
                   observations : Nat]

ASSUME RunAssumption == RunOf \in [Worker -> WorkflowRun]
ASSUME MutationAssumption == Worker \X (1 .. 7) \subseteq MutationId
ASSUME ReferenceAssumption == RequestId \in ExternalReference /\ Reference \in ResultReference
ASSUME AnyChange == Change = Progress
ASSUME FailureAssumption == Failures \subseteq ErrorText \ {None}
ASSUME FaultAssumption == MaxFaults \in Nat
ASSUME NoRecordAssumption == None \notin BusinessRecord \cup Request \cup Checkpoint

VARIABLES
    record,     \* the business record of the operation, or None
    worker,     \* the invocations
    inflight,   \* durable calls sent and not handled yet
    late,       \* business calls that failed and may yet take effect
    faults,     \* how many faults have happened
    solo        \* the invocation nothing has disturbed since it started, or None

batchVars == <<vars, record, worker, inflight, late, faults, solo>>

Modes == IF Agent = "ad-provisioning-agent" THEN {"resume", "submit", "poll"} ELSE {"resume"}

\* Where an invocation is: before it started, making one of its durable
\* calls, at work between two of them, or ended.
Calling == {"claiming", "reconciling", "starting", "recording", "finishing",
            "failing", "closing"}
Working == {"reading", "deciding", "executing", "ending", "reporting"}
Ended == {"done", "raised", "stopped"}

Invocation == [pc : {"idle"} \cup Calling \cup Working \cup Ended,
               mode : Modes,
               snapshot : Checkpoint \cup {None},
               request : Request \cup {None},
               attempt : 0 .. 2,
               calls : Nat,
               successful : BOOLEAN,
               error : Failures \cup {None, "message"}]

Message == [worker : Worker, attempt : {1, 2}, request : Request]

Active(w) == worker[w].pc \in Calling \cup Working

-----------------------------------------------------------------------------
(* The business service                                                    *)

\* Mutant: a pending provider request is reported as completed.
ProgressAlwaysDone(r) ==
    [current_stage |-> IF Agent = "ad-provisioning-agent" THEN "AD_POLLING"
                                                          ELSE InitialStage,
     checkpoint_status |-> "COMPLETED",
     external_reference |-> IF Agent = "ad-provisioning-agent" THEN RequestId ELSE None,
     result_reference |-> Reference]

\* The progress that a business record reports.
ProgressOf(r) ==
    [current_stage |-> IF Agent = "ad-provisioning-agent" THEN "AD_POLLING"
                                                          ELSE InitialStage,
     checkpoint_status |-> r.status,
     external_reference |-> IF Agent = "ad-provisioning-agent" THEN RequestId ELSE None,
     result_reference |-> Reference]

\* A submission creates the provider's request once; repeating it returns it.
Submit ==
    record' = IF record = None
              THEN [status |-> "WAITING", successful |-> TRUE, observations |-> 0]
              ELSE record

\* A poll needs the submitted request, and moves on until it is decided.
Poll ==
    /\ record # None
    /\ IF record.status = "COMPLETED"
       THEN UNCHANGED record
       ELSE \E ok \in BOOLEAN :
                record' = IF record.observations < PendingPolls
                          THEN [record EXCEPT !.observations = @ + 1]
                          ELSE [status |-> "COMPLETED", successful |-> ok,
                                observations |-> record.observations + 1]

\* Mutant: every validation decides anew.
ValidateAgain ==
    \E ok \in BOOLEAN :
        record' = [status |-> "COMPLETED", successful |-> ok, observations |-> 0]

\* Validation decides once; repeating it returns the decision.
Validate ==
    IF record # None
    THEN UNCHANGED record
    ELSE \E ok \in BOOLEAN :
             record' = [status |-> "COMPLETED", successful |-> ok, observations |-> 0]

Perform(call) ==
    \/ call = "submit" /\ Submit
    \/ call = "poll" /\ Poll
    \/ call = "validate" /\ Validate

-----------------------------------------------------------------------------
(* Durable calls                                                           *)

\* The invocation makes its next durable call, with a fresh mutation id,
\* on a network that holds the messages net.
CallOver(net, w, state, pc, req) ==
    /\ worker' = [worker EXCEPT ![w] = [state EXCEPT !.pc = pc, !.request = req,
                                                     !.attempt = 1, !.calls = @ + 1]]
    /\ inflight' = net \cup {[worker |-> w, attempt |-> 1, request |-> req]}

Call(w, state, pc, req) == CallOver(inflight, w, state, pc, req)

\* Mutant: the id of the call before.
LastMutation(w) == <<w, worker[w].calls>>

NextMutation(w) == <<w, worker[w].calls + 1>>

ClaimOf(w) == [tool |-> "claim", mutation_id |-> NextMutation(w),
               workflow_run_id |-> RunOf[w]]

\* References that the new progress lacks are those of the snapshot.
SaveOf(w, progress) ==
    LET old == worker[w].snapshot
    IN  [tool |-> "save", mutation_id |-> NextMutation(w), workflow_run_id |-> RunOf[w],
         execution_id |-> old.execution, expected_version |-> old.version,
         change |-> [progress EXCEPT
                        !.external_reference = IF @ = None THEN old.progress.external_reference
                                                           ELSE @,
                        !.result_reference = IF @ = None THEN old.progress.result_reference
                                                         ELSE @]]

FinishOf(w, error) ==
    [tool |-> "finish", mutation_id |-> NextMutation(w), workflow_run_id |-> RunOf[w],
     execution_id |-> worker[w].snapshot.execution,
     expected_version |-> worker[w].snapshot.version, error |-> error]

\* A save of the snapshot's own references under another stage and status.
Marked(stage, status) ==
    [current_stage |-> stage, checkpoint_status |-> status,
     external_reference |-> None, result_reference |-> None]

\* The exception handler of run: record FAILED, later finish with the error.
RaiseOver(net, w, text) ==
    CallOver(net, w, [worker[w] EXCEPT !.error = text], "failing",
             SaveOf(w, Marked(worker[w].snapshot.progress.current_stage, "FAILED")))

Raise(w, text) == RaiseOver(inflight, w, text)

\* Mutant: recording the step's progress is the end of the run.
ResumeWithoutFinish ==
    [claiming |-> "reading", reconciling |-> "deciding", starting |-> "executing",
     recording |-> "done", finishing |-> "done", failing |-> "reporting",
     closing |-> "raised"]

\* Where an invocation goes on once the call it makes is acknowledged.
Resume == [claiming |-> "reading", reconciling |-> "deciding", starting |-> "executing",
           recording |-> "ending", finishing |-> "done", failing |-> "reporting",
           closing |-> "raised"]

\* What the server does with a request, and what it replies.
Handle(req) ==
    IF Verdict(req) = "ACCEPTED"
    THEN \/ req.tool = "claim" /\ Claim(req)
         \/ req.tool = "save" /\ Save(req)
         \/ req.tool = "finish" /\ Finish(req)
    ELSE UNCHANGED vars

Reply(req) == CASE Verdict(req) = "ACCEPTED" -> checkpoint'
                [] Verdict(req) = "REPLAYED" -> receipts[KeyOf(req)].response
                [] OTHER -> None

Awaited(m) == /\ worker[m.worker].request = m.request
              /\ worker[m.worker].attempt = m.attempt

\* Mutant: a refused call is asked for again, for as long as it takes.
DeliverPatiently(m) ==
    /\ Handle(m.request)
    /\ IF Awaited(m) /\ Reply(m.request) = None
       THEN UNCHANGED <<worker, inflight>>
       ELSE /\ inflight' = inflight \ {m}
            /\ worker' = IF ~Awaited(m) THEN worker
                         ELSE [worker EXCEPT
                                 ![m.worker].pc = Resume[worker[m.worker].pc],
                                 ![m.worker].request = None,
                                 ![m.worker].snapshot = Reply(m.request)]
    /\ UNCHANGED <<record, late, faults, solo>>

\* The server handles a call.  Its answer reaches the caller that waits for
\* it; an error code ends that invocation, as every CheckpointError does.
Deliver(m) ==
    /\ Handle(m.request)
    /\ inflight' = inflight \ {m}
    /\ worker' =
        IF ~Awaited(m) THEN worker
        ELSE LET i == worker[m.worker]
             IN  [worker EXCEPT ![m.worker] =
                    IF Reply(m.request) = None
                    THEN [i EXCEPT !.pc = "stopped", !.request = None]
                    ELSE [i EXCEPT !.pc = Resume[i.pc], !.request = None,
                                   !.snapshot = Reply(m.request)]]
    /\ UNCHANGED <<record, late, faults, solo>>

-----------------------------------------------------------------------------
(* Invocations                                                             *)

\* Nothing is under way that could disturb an invocation starting now.
Quiet == /\ \A w \in Worker : ~Active(w)
         /\ inflight = {}
         /\ late = {}
         /\ ~LeaseIsLive

\* run: the claim comes before anything else, outside the handler.
Start(w) ==
    /\ worker[w].pc = "idle"
    /\ \E mode \in Modes : Call(w, [worker[w] EXCEPT !.mode = mode], "claiming", ClaimOf(w))
    /\ solo' = IF Quiet THEN w ELSE None
    /\ UNCHANGED <<vars, record, late, faults>>

\* Mutant: the checkpoint is not reconciled with the business.
ReadOnly(w) ==
    /\ worker[w].pc = "reading"
    /\ worker' = [worker EXCEPT ![w].pc = "deciding",
                                ![w].successful = record = None \/ record.successful]
    /\ UNCHANGED <<vars, record, inflight, late, faults, solo>>

\* What the business service recorded goes into the checkpoint first; a
\* checkpoint completed without such a record is an error.
Read(w) ==
    /\ worker[w].pc = "reading"
    /\ IF record # None /\ ProgressOf(record) # worker[w].snapshot.progress
       THEN Call(w, [worker[w] EXCEPT !.successful = record.successful],
                 "reconciling", SaveOf(w, ProgressOf(record)))
       ELSE IF record = None /\ worker[w].snapshot.progress.checkpoint_status = "COMPLETED"
       THEN Raise(w, "message")
       ELSE /\ worker' = [worker EXCEPT
                            ![w].pc = "deciding",
                            ![w].successful = record = None \/ record.successful]
            /\ UNCHANGED inflight
    /\ UNCHANGED <<vars, record, late, faults, solo>>

Goto(w, pc) == /\ worker' = [worker EXCEPT ![w].pc = pc]
               /\ UNCHANGED inflight

\* Completed operations need no step; otherwise the agent's workflow selects
\* one (next_step), which is marked RUNNING first unless it is a poll.
Decide(w) ==
    LET progress == worker[w].snapshot.progress
        requested == progress.external_reference # None
        mark(stage) == Call(w, worker[w], "starting", SaveOf(w, Marked(stage, "RUNNING")))
    IN  /\ worker[w].pc = "deciding"
        /\ IF progress.checkpoint_status = "COMPLETED" THEN Goto(w, "ending")
           ELSE IF Agent # "ad-provisioning-agent" THEN mark(InitialStage)
           ELSE IF requested
           THEN Goto(w, IF worker[w].mode = "submit" THEN "ending" ELSE "executing")
           ELSE IF worker[w].mode = "poll" THEN Raise(w, "message")
           ELSE mark("AD_SUBMISSION")
        /\ UNCHANGED <<vars, record, late, faults, solo>>

\* The business call that the selected step makes.
StepOf(w) ==
    IF Agent # "ad-provisioning-agent" THEN "validate"
    ELSE IF worker[w].snapshot.progress.external_reference = None THEN "submit"
    ELSE "poll"

Execute(w) ==
    /\ worker[w].pc = "executing"
    /\ Perform(StepOf(w))
    /\ Call(w, [worker[w] EXCEPT !.successful = record'.successful], "recording",
            SaveOf(w, ProgressOf(record')))
    /\ UNCHANGED <<vars, late, faults, solo>>

Conclude(w) ==
    /\ worker[w].pc = "ending"
    /\ Call(w, worker[w], "finishing", FinishOf(w, None))
    /\ UNCHANGED <<vars, record, late, faults, solo>>

\* Mutant: the handler finishes the execution without its error.
ReportNothing(w) ==
    /\ worker[w].pc = "reporting"
    /\ Call(w, worker[w], "closing", FinishOf(w, None))
    /\ UNCHANGED <<vars, record, late, faults, solo>>

\* The handler's second call: finish with the error.
Report(w) ==
    /\ worker[w].pc = "reporting"
    /\ Call(w, worker[w], "closing", FinishOf(w, worker[w].error))
    /\ UNCHANGED <<vars, record, late, faults, solo>>

-----------------------------------------------------------------------------
(* Faults, each of which counts against MaxFaults                          *)

Fault == /\ faults < MaxFaults
         /\ faults' = faults + 1
         /\ solo' = None

\* No answer in time: call_idempotent repeats the same request once.
Retry(w) ==
    /\ Fault
    /\ worker[w].pc \in Calling /\ worker[w].attempt = 1
    /\ worker' = [worker EXCEPT ![w].attempt = 2]
    /\ inflight' = inflight \cup {[worker |-> w, attempt |-> 2,
                                   request |-> worker[w].request]}
    /\ UNCHANGED <<vars, record, late>>

\* The process dies, or the transport fails for good (CheckpointError):
\* nothing more is written, and a call under way is left to the network.
Stop(w) ==
    /\ Fault
    /\ Active(w)
    /\ worker' = [worker EXCEPT ![w].pc = "stopped", ![w].request = None]
    /\ UNCHANGED <<vars, record, inflight, late>>

\* The workload's identity token cannot be fetched (_headers), so the call
\* under way was never sent.  No McpError says so: the exception handler of
\* run takes it for a failed step, unless it happens outside the try block.
CredentialsFail(w) ==
    LET unsent == [worker |-> w, attempt |-> worker[w].attempt,
                   request |-> worker[w].request]
    IN  /\ Fault
        /\ worker[w].pc \in Calling
        /\ unsent \in inflight
        /\ IF worker[w].pc \in {"claiming", "failing", "closing"}
           THEN /\ worker' = [worker EXCEPT ![w].pc = "stopped", ![w].request = None]
                /\ inflight' = inflight \ {unsent}
           ELSE RaiseOver(inflight \ {unsent}, w, "message")
        /\ UNCHANGED <<vars, record, late>>

\* A business call raises: before it took effect, after, or with the effect
\* still to come.
BusinessFails(w) ==
    /\ Fault
    /\ \/ /\ worker[w].pc = "reading"
          /\ UNCHANGED <<record, late>>
       \/ /\ worker[w].pc = "executing"
          /\ \/ UNCHANGED <<record, late>>
             \/ Perform(StepOf(w)) /\ UNCHANGED late
             \/ late' = late \cup {StepOf(w)} /\ UNCHANGED record
    /\ \E text \in Failures : Raise(w, text)
    /\ UNCHANGED vars

\* A business call that failed takes effect after all.
LateEffect(call) ==
    /\ call \in late
    /\ Perform(call)
    /\ late' = late \ {call}
    /\ UNCHANGED <<vars, worker, inflight, faults, solo>>

\* The database clock goes on; enough to lose a lease.
BatchTick ==
    /\ Tick
    /\ solo' = None
    /\ UNCHANGED <<record, worker, inflight, late, faults>>

-----------------------------------------------------------------------------

BatchInit ==
    /\ Init
    /\ record = None
    /\ worker = [w \in Worker |->
                    [pc |-> "idle", mode |-> "resume", snapshot |-> None, request |-> None,
                     attempt |-> 0, calls |-> 0, successful |-> TRUE, error |-> None]]
    /\ inflight = {}
    /\ late = {}
    /\ faults = 0
    /\ solo = None

Work(w) == Read(w) \/ Decide(w) \/ Execute(w) \/ Conclude(w) \/ Report(w)

Answer(w) == \E m \in inflight : m.worker = w /\ Awaited(m) /\ Deliver(m)

BatchNext ==
    \/ \E w \in Worker :
           \/ Start(w)
           \/ Work(w)
           \/ Retry(w) \/ Stop(w) \/ CredentialsFail(w) \/ BusinessFails(w)
    \/ \E m \in inflight : Deliver(m)
    \/ \E call \in late : LateEffect(call)
    \/ BatchTick

BatchSpec == BatchInit /\ [][BatchNext]_batchVars

\* Python runs on unless it is stopped, and a call is answered unless it
\* times out, which the model allows MaxFaults times.
Fairness == \A w \in Worker : WF_batchVars(Work(w)) /\ WF_batchVars(Answer(w))

FairBatchSpec == BatchSpec /\ Fairness

-----------------------------------------------------------------------------
(* Safety                                                                  *)

\* Every variable of the composition has the type its comment gives.
BatchTypeOK ==
    /\ TypeOK
    /\ record \in BusinessRecord \cup {None}
    /\ worker \in [Worker -> Invocation]
    /\ inflight \subseteq Message
    /\ late \subseteq {"submit", "poll", "validate"}
    /\ faults \in 0 .. MaxFaults
    /\ solo \in Worker \cup {None}

\* A business record r bears out what the progress of an operation claims:
\* waiting, polling and references mean a record, completion a completed one.
Supports(r, progress) ==
    /\ \/ progress.checkpoint_status = "WAITING"
       \/ progress.current_stage = "AD_POLLING"
       \/ progress.external_reference # None
       \/ progress.result_reference # None
       => r # None
    /\ progress.checkpoint_status = "COMPLETED" =>
           r # None /\ r.status = "COMPLETED"

\* The checkpoint is never ahead of the business, whatever is lost, repeated,
\* late, or done by an invocation that has lost its lease.
CheckpointFollowsBusiness == Supports(record, checkpoint.progress)

\* The JobResult of an invocation that returns one can be relied on: a
\* completed operation is one the business completed, with that outcome, and
\* the execution is recorded as succeeded.
ResultIsHonest ==
    \A w \in Worker : worker[w].pc = "done" =>
        /\ executions[worker[w].snapshot.execution].result = "SUCCEEDED"
        /\ worker[w].snapshot.progress.checkpoint_status = "COMPLETED" =>
               /\ record # None
               /\ record.status = "COMPLETED"
               /\ record.successful = worker[w].successful

\* An invocation that raised, and was told so was recorded, is recorded as
\* failed and not as succeeded.
FailureIsRecorded ==
    \A w \in Worker : worker[w].pc = "raised" =>
        executions[worker[w].snapshot.execution].result = "FAILED"

\* Whatever earlier invocations left behind (a business result without its
\* checkpoint, a FAILED mark over completed work, an unanswered call), one
\* that nothing disturbs repairs: it returns, the checkpoint then says what
\* the business recorded and the lease is free.  Only polling for a request
\* that was never submitted is an error, and that is recorded too.
UndisturbedRunRepairs ==
    solo # None =>
        /\ worker[solo].pc # "stopped"
        /\ worker[solo].pc = "done" =>
               /\ record # None
               /\ checkpoint.progress = ProgressOf(record)
               /\ checkpoint.lease = NoLease
        /\ worker[solo].pc = "raised" =>
               /\ worker[solo].mode = "poll"
               /\ record = None
               /\ checkpoint.progress.checkpoint_status = "FAILED"

\* What the documents say of an uncertain call: while an invocation has asked
\* for a save without being told what became of it, it does not go on to ask
\* for FAILED.
UncertainSaveStops ==
    [][\A w \in Worker :
           worker[w].pc \in {"reconciling", "starting", "recording"} /\ worker[w].attempt = 2
               => worker'[w].pc # "failing"]_batchVars

\* No call overwrites progress its sender has not seen: when one is applied,
\* the row still is what the sender's latest acknowledgement showed, although
\* senders go on to other calls, lose their lease or are long gone.
NothingOverwrittenUnseen ==
    [][\A m \in inflight :
           checkpoint'.progress # checkpoint.progress /\ m \notin inflight' =>
               checkpoint = worker[m.worker].snapshot]_batchVars

\* Every invocation that starts ends, by returning or by raising.
EveryInvocationEnds ==
    \A w \in Worker : worker[w].pc = "claiming" ~> worker[w].pc \in Ended
=============================================================================
