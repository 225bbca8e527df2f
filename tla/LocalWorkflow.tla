---------------------------- MODULE LocalWorkflow ----------------------------
(***************************************************************************)
(* Runs of the local workflow (workflows/local_workflow.py) for one        *)
(* journey: each launches the batch jobs one after the other and polls     *)
(* within a bound.  A job is a process of its own                          *)
(* (journey_poc/batch_job.py): BatchRuntime.run over the SQL checkpoint    *)
(* store (module LocalCheckpointStore) and over the local business gateway *)
(* with the journey behind it (module JourneyLifecycle).  Checkpoints and  *)
(* journey live in two databases.                                          *)
(*                                                                         *)
(* A run and the one job it waits for are one client of the store.  What a *)
(* job prints is read by its run in the step in which the job ends; a job  *)
(* that raises exits with code 1, at which its run raises as well.         *)
(***************************************************************************)
EXTENDS LocalCheckpointStore, FiniteSets

CONSTANTS
    Journeys,       \* the journeys, with their context and history, to begin with
    RequestId,      \* the provider's request for this journey
    Reference,      \* the reference of a recorded business result
    PendingPolls,   \* how many polls find the request pending
    MaxPolls,       \* max_polls of each run
    MaxFaults       \* bound on crashes and on refused or unanswered transactions

ASSUME LocalReferenceAssumption ==
    RequestId \in ExternalReference /\ Reference \in ResultReference
ASSUME LocalPollAssumption == PendingPolls \in Nat /\ MaxPolls \in [Client -> Nat \ {0}]
ASSUME LocalFaultAssumption == MaxFaults \in Nat

VARIABLES
    journey,    \* the journey's row and its history
    record,     \* what each business operation recorded
    run,        \* the runs, each with the job it waits for
    faults      \* how many faults have happened

workflowVars == <<storeVars, journey, record, run, faults>>

Business == INSTANCE JourneyLifecycle WITH
    User <- {}, Approver <- {}, Method <- <<>>, Batch <- TRUE, caller <- <<>>

Mode == {"resume", "submit", "poll"}
Outcome == {"COMPLETED", "WAITING", "BUSINESS_ERROR", "raised"}

\* Where a run is: between two jobs, or at the point its job has reached.
Calling == {"claiming", "reconciling", "starting", "recording", "finishing",
            "failing", "closing"}
Working == {"reading", "deciding", "executing", "ending", "handling", "reporting"}
Run == [pc : {"launching", "ended"} \cup Calling \cup Working,
        operation : Operation, mode : Mode, polls : Nat,
        successful : BOOLEAN, outcome : Outcome \cup {None}]

ASSUME NothingAssumption == None \notin Business!Record \cup Outcome

Active(c) == run[c].pc \in {"launching"} \cup Calling \cup Working
Goto(c, pc) == run' = [run EXCEPT ![c].pc = pc]

\* A run before its first job, and one that has reported its outcome.
FirstJob(c) == [pc |-> "launching", operation |-> "apm-validation", mode |-> "resume",
                polls |-> MaxPolls[c], successful |-> TRUE, outcome |-> None]
Ends(c, outcome) ==
    run' = [run EXCEPT ![c] = [FirstJob(c) EXCEPT !.pc = "ended", !.outcome = outcome]]

-----------------------------------------------------------------------------
(* run_workflow                                                            *)

Launching(c, operation, mode, polls) ==
    run' = [run EXCEPT ![c] = [@ EXCEPT !.pc = "launching", !.operation = operation,
                                        !.mode = mode, !.polls = polls]]

\* Mutants: an operation that still waits when the polls are used up is done;
\* the last poll is not made.
ProceedsUnchecked(c, status) ==
    IF ~run[c].successful THEN Ends(c, "BUSINESS_ERROR")
    ELSE IF run[c].operation = "apm-validation"
    THEN Launching(c, "ad-provisioning", "submit", MaxPolls[c])
    ELSE IF run[c].operation = "app-factory-validation" THEN Ends(c, "COMPLETED")
    ELSE IF status = "COMPLETED" \/ run[c].polls = 0
    THEN Launching(c, "app-factory-validation", "resume", 0)
    ELSE Launching(c, "ad-provisioning", "poll", run[c].polls - 1)
ProceedsTooSoon(c, status) ==
    IF ~run[c].successful THEN Ends(c, "BUSINESS_ERROR")
    ELSE IF run[c].operation = "apm-validation"
    THEN Launching(c, "ad-provisioning", "submit", MaxPolls[c])
    ELSE IF run[c].operation = "app-factory-validation" THEN Ends(c, "COMPLETED")
    ELSE IF status = "COMPLETED"
    THEN Launching(c, "app-factory-validation", "resume", 0)
    ELSE IF run[c].polls = 1 THEN Ends(c, "WAITING")
    ELSE Launching(c, "ad-provisioning", "poll", run[c].polls - 1)

\* What a run does with the result of its job; status is the checkpoint's.
Proceeds(c, status) ==
    LET operation == run[c].operation
        polls == run[c].polls
    IN  IF operation = "ad-provisioning" /\ polls = 0 /\ status # "COMPLETED"
        THEN Ends(c, "WAITING")
        ELSE IF ~run[c].successful THEN Ends(c, "BUSINESS_ERROR")
        ELSE IF operation = "apm-validation"
        THEN Launching(c, "ad-provisioning", "submit", MaxPolls[c])
        ELSE IF operation = "app-factory-validation" THEN Ends(c, "COMPLETED")
        ELSE IF status = "COMPLETED"
        THEN Launching(c, "app-factory-validation", "resume", 0)
        ELSE Launching(c, "ad-provisioning", "poll", polls - 1)

-----------------------------------------------------------------------------
(* A job between two calls of the store                                    *)

Launch(c) ==
    /\ run[c].pc = "launching"
    /\ BeginClaim(c, run[c].operation)
    /\ Goto(c, "claiming")
    /\ UNCHANGED <<journey, record, faults>>

SavesFrom(c, pc, change) == BeginSave(c, change) /\ Goto(c, pc)

\* A save of a stage and a status that brings no references.
Marked(stage, status) ==
    [current_stage |-> stage, checkpoint_status |-> status,
     external_reference |-> None, result_reference |-> None]

\* The progress that a business record reports.
ProgressOf(o, r) ==
    [current_stage |-> IF o = "ad-provisioning" THEN "AD_POLLING" ELSE InitialStage[o],
     checkpoint_status |-> r.status,
     external_reference |-> IF o = "ad-provisioning" THEN RequestId ELSE None,
     result_reference |-> Reference]

\* Mutant: a job that finds its work done takes it for a success.
ReadHopefully(c) ==
    LET o == run[c].operation
        found == record[o]
    IN  /\ run[c].pc = "reading"
        /\ IF found # None /\ ProgressOf(o, found) # client[c].snapshot.progress
           THEN SavesFrom(c, "reconciling", ProgressOf(o, found))
           ELSE Goto(c, "deciding") /\ UNCHANGED storeVars
        /\ UNCHANGED <<journey, record, faults>>

\* What the business recorded goes into the checkpoint first; a checkpoint
\* completed without such a record is an error.
Read(c) ==
    LET o == run[c].operation
        found == record[o]
        progress == client[c].snapshot.progress
        next == IF found # None /\ ProgressOf(o, found) # progress THEN "reconciling"
                ELSE IF found = None /\ progress.checkpoint_status = "COMPLETED"
                THEN "handling" ELSE "deciding"
    IN  /\ run[c].pc = "reading"
        /\ run' = [run EXCEPT ![c].pc = next,
                              ![c].successful = found = None \/ found.successful]
        /\ IF next = "reconciling" THEN BeginSave(c, ProgressOf(o, found))
                                   ELSE UNCHANGED storeVars
        /\ UNCHANGED <<journey, record, faults>>

\* next_step, and the mark that a step is running unless it is a poll.
Decide(c) ==
    LET o == run[c].operation
        progress == client[c].snapshot.progress
        requested == progress.external_reference # None
    IN  /\ run[c].pc = "deciding"
        /\ IF progress.checkpoint_status # "COMPLETED"
              /\ (o = "ad-provisioning" => ~requested /\ run[c].mode # "poll")
           THEN SavesFrom(c, "starting", Marked(InitialStage[o], "RUNNING"))
           ELSE /\ Goto(c, IF progress.checkpoint_status = "COMPLETED" THEN "ending"
                           ELSE IF ~requested THEN "handling"
                           ELSE IF run[c].mode = "submit" THEN "ending" ELSE "executing")
                /\ UNCHANGED storeVars
        /\ UNCHANGED <<journey, record, faults>>

\* The step polls the request that the checkpoint names.
Polls(c) == run[c].operation = "ad-provisioning"
            /\ client[c].snapshot.progress.external_reference # None

\* Whether the gateway answers the step of c; otherwise it raises and its
\* transaction is rolled back.
Accepted(c) ==
    LET o == run[c].operation
    IN  CASE o = "apm-validation" ->
                 \/ record[o] # None
                 \/ journey.status \in {"CREATED", "VALIDATING_APM"}
                 \/ Business!Reached(journey, "APM_VALIDATED")
          [] o = "app-factory-validation" ->
                 record[o] # None \/ Business!CanMove(journey, "PREPARING_APP_FACTORY")
          [] Polls(c) ->
                 /\ record[o] # None
                 /\ \/ record[o].status = "COMPLETED"
                    \/ record[o].observations < PendingPolls
                    \/ Business!CanMove(journey, "AGENT_IDENTITY_READY")
          [] OTHER ->
                 \/ record[o] # None
                 \/ Business!CanMove(journey, "PROVISIONING_AGENT_IDENTITY")

\* The gateway's transaction; a recorded result is returned as it is.
Perform(c) ==
    LET o == run[c].operation
    IN  IF record[o] # None /\ (Polls(c) => record[o].status = "COMPLETED")
        THEN UNCHANGED <<journey, record>>
        ELSE CASE o = "apm-validation" -> Business!ValidateApm
               [] o = "app-factory-validation" -> Business!ValidateAppFactory
               [] Polls(c) -> Business!PollAd
               [] OTHER -> Business!SubmitAd

Execute(c) ==
    LET o == run[c].operation
    IN  /\ run[c].pc = "executing"
        /\ IF Accepted(c)
           THEN /\ Perform(c)
                /\ run' = [run EXCEPT ![c].pc = "recording",
                                      ![c].successful = record'[o].successful]
                /\ BeginSave(c, ProgressOf(o, record'[o]))
           ELSE Goto(c, "handling") /\ UNCHANGED <<storeVars, journey, record>>
        /\ UNCHANGED faults

Conclude(c) ==
    /\ run[c].pc = "ending"
    /\ BeginFinish(c, FALSE)
    /\ Goto(c, "finishing")
    /\ UNCHANGED <<journey, record, faults>>

\* The exception handler of run.
Handle(c) ==
    /\ run[c].pc = "handling"
    /\ SavesFrom(c, "failing",
                 Marked(client[c].snapshot.progress.current_stage, "FAILED"))
    /\ UNCHANGED <<journey, record, faults>>

Report(c) ==
    /\ run[c].pc = "reporting"
    /\ BeginFinish(c, TRUE)
    /\ Goto(c, "closing")
    /\ UNCHANGED <<journey, record, faults>>

-----------------------------------------------------------------------------
(* The calls of the store                                                  *)

Fault == faults < MaxFaults /\ faults' = faults + 1

\* A transaction commits; whether its caller hears of it.
Heard(heard) == IF heard THEN UNCHANGED faults ELSE Fault

\* Where a job goes on when a call returns.
Resume == [claiming |-> "reading", reconciling |-> "deciding", starting |-> "executing",
           recording |-> "ending", failing |-> "reporting"]

\* Where an exception that is no CheckpointError leads: to the handler, or
\* out of the job if it is raised before the try block or in the handler.
Catches(c) ==
    IF run[c].pc \in {"claiming", "failing", "closing"} THEN Ends(c, "raised")
    ELSE Goto(c, "handling")

\* Mutant: a run launches a job again as long as another holds the lease.
ClaimingPatiently(c) ==
    /\ \/ /\ ClaimReads(c)
          /\ IF Busy(c) THEN Goto(c, "launching") ELSE UNCHANGED run
       \/ /\ ClaimWrites(c, TRUE)
          /\ IF Stands(c) THEN Goto(c, "reading") ELSE Goto(c, "launching")
    /\ UNCHANGED <<journey, record, faults>>

Claiming(c) ==
    /\ \/ /\ ClaimReads(c)
          /\ IF Busy(c) THEN Ends(c, "raised") ELSE UNCHANGED run
          /\ UNCHANGED faults
       \/ \E heard \in BOOLEAN :
              /\ ClaimWrites(c, heard)
              /\ IF Stands(c)
                 THEN Heard(heard) /\ IF heard THEN Goto(c, "reading") ELSE Catches(c)
                 ELSE /\ heard /\ UNCHANGED faults
                      /\ IF client[c].call.seen.version > 0 THEN Ends(c, "raised")
                                                            ELSE UNCHANGED run
    /\ UNCHANGED <<journey, record>>

Saving(c) ==
    /\ \E heard \in BOOLEAN :
           /\ SaveWrites(c, heard)
           /\ IF Owns(c)
              THEN Heard(heard) /\ IF heard THEN Goto(c, Resume[run[c].pc]) ELSE Catches(c)
              ELSE heard /\ UNCHANGED faults /\ Ends(c, "raised")
    /\ UNCHANGED <<journey, record>>

Finishing(c) ==
    /\ FinishWrites(c)
    /\ \/ Owns(c) /\ Fault /\ Catches(c)
       \/ /\ UNCHANGED faults
          /\ IF ~Owns(c) \/ run[c].pc = "closing" THEN Ends(c, "raised")
             ELSE Proceeds(c, client[c].snapshot.progress.checkpoint_status)
    /\ UNCHANGED <<journey, record>>

-----------------------------------------------------------------------------
(* Faults                                                                  *)

\* A database refuses a transaction.
Refused(c) ==
    /\ Fault
    /\ \/ CallFails(c)
       \/ run[c].pc \in {"reading", "executing"} /\ UNCHANGED storeVars
    /\ Catches(c)
    /\ UNCHANGED <<journey, record>>

\* The business commits, and its answer is lost.
Unanswered(c) ==
    /\ Fault
    /\ run[c].pc = "executing" /\ Accepted(c)
    /\ Perform(c)
    /\ Goto(c, "handling")
    /\ UNCHANGED storeVars

\* The job is killed; an open transaction is rolled back.
Killed(c) ==
    /\ Fault
    /\ Active(c)
    /\ IF client[c].call # None THEN CallFails(c) ELSE UNCHANGED storeVars
    /\ Ends(c, "raised")
    /\ UNCHANGED <<journey, record>>

WorkflowTick == StoreTick /\ UNCHANGED <<journey, record, run, faults>>

-----------------------------------------------------------------------------

WorkflowInit ==
    /\ StoreInit
    /\ journey \in Journeys
    /\ record = [o \in Operation |-> None]
    /\ run = [c \in Client |-> FirstJob(c)]
    /\ faults = 0

Work(c) ==
    \/ Launch(c) \/ Read(c) \/ Decide(c) \/ Execute(c) \/ Conclude(c) \/ Handle(c) \/ Report(c)
    \/ Claiming(c) \/ Saving(c) \/ Finishing(c)

WorkflowNext ==
    \/ \E c \in Client : Work(c) \/ Refused(c) \/ Unanswered(c) \/ Killed(c)
    \/ WorkflowTick

WorkflowSpec == WorkflowInit /\ [][WorkflowNext]_workflowVars

\* A process runs on unless it is killed, and its database answers it.
WorkflowFairness == \A c \in Client : WF_workflowVars(Work(c))

FairWorkflowSpec == WorkflowSpec /\ WorkflowFairness

-----------------------------------------------------------------------------
(* Safety                                                                  *)

\* No job works ahead of the operation before it, whichever run launched
\* either and wherever runs and jobs died: what a run goes by is recorded.
JobsInOrder ==
    /\ executions["ad-provisioning"] # <<>> => record["apm-validation"] # None
    /\ executions["app-factory-validation"] # <<>> =>
           /\ record["ad-provisioning"] # None
           /\ record["ad-provisioning"].status = "COMPLETED"

\* What a run reports of the journey is true, although other runs work on it
\* and its jobs' databases fail separately.
OutcomeIsHonest ==
    \A c \in Client :
        /\ run[c].outcome = "COMPLETED" =>
               \A o \in Operation : record[o] # None /\ record[o].status = "COMPLETED"
                                    /\ record[o].successful
        /\ run[c].outcome = "WAITING" => record["ad-provisioning"] # None
        /\ run[c].outcome = "BUSINESS_ERROR" =>
               \E o \in Operation : record[o] # None /\ ~record[o].successful

\* Bounded runs get somewhere: each that ends WAITING has used its polls to
\* observe the one request, so enough of them, in any order, see it decided.
WaitingRunsObserve ==
    LET waiting == {c \in Client : run[c].outcome = "WAITING"}
        polls == UNION {{c} \X (1..MaxPolls[c]) : c \in waiting}
    IN  waiting # {} => Cardinality(polls) <= record["ad-provisioning"].observations

\* Every run ends, within its polls.
EveryRunEnds == <>(\A c \in Client : run[c].pc = "ended")
=============================================================================
