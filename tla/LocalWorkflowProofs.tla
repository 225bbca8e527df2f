------------------------- MODULE LocalWorkflowProofs -------------------------
(***************************************************************************)
(* Proofs about LocalWorkflow, for any number of runs, polls and faults    *)
(* and any journey: jobs use the checkpoint store as LocalCheckpointStore  *)
(* has it used, so that its theorems hold for them too; jobs keep their    *)
(* order; what a run reports is true; the polls of a bounded run count;    *)
(* and runs get through.                                                   *)
(***************************************************************************)
EXTENDS LocalWorkflow, LocalCheckpointStoreProofs, FiniteSetTheorems

-----------------------------------------------------------------------------
(* The inductive invariant                                                 *)

SavePoints == {"reconciling", "starting", "recording", "failing"}
FinishPoints == {"finishing", "closing"}

RecordsFit ==
    /\ record \in [Operation -> Business!Record \cup {None}]
    /\ \A o \in Operation : record[o] # None =>
           /\ o # "ad-provisioning" => record[o].status = "COMPLETED"
           /\ o # "app-factory-validation" => record[o].successful

WorkflowTypes == run \in [Client -> Run] /\ RecordsFit

\* Progress that the business has recorded.
Supported(o, progress) ==
    /\ progress.external_reference # None => record[o] # None
    /\ progress.checkpoint_status = "COMPLETED" =>
           record[o] # None /\ record[o].status = "COMPLETED"

\* The call and the memory of a job belong to the point that it has reached.
AtWork(c) ==
    LET pc == run[c].pc
        call == client[c].call
        mine == client[c].snapshot
    IN  /\ pc = "claiming" => /\ Calls(c, "claim")
                              /\ call.operation = run[c].operation
        /\ pc \in SavePoints => Calls(c, "save") /\ Supported(run[c].operation, call.change)
        /\ pc \in FinishPoints => Calls(c, "finish")
        /\ pc \in Working \cup {"launching", "ended"} => call = None
        /\ pc \in Working \cup SavePoints \cup FinishPoints =>
               mine # None /\ mine.operation = run[c].operation
        /\ mine # None => Supported(mine.operation, mine.progress)

\* The operation is decided with success.
Done(o) == record[o] # None /\ record[o].status = "COMPLETED" /\ record[o].successful

\* A run knows what was recorded before and, where it goes by it, now.
Observed(c) == record[run[c].operation] # None
               /\ run[c].successful = record[run[c].operation].successful
Aware(c) ==
    LET pc == run[c].pc
        o == run[c].operation
    IN  /\ Active(c) /\ o # "apm-validation" => Done("apm-validation")
        /\ Active(c) /\ o = "app-factory-validation" => Done("ad-provisioning")
        /\ ~run[c].successful => record[o] # None /\ ~record[o].successful
        /\ pc \in {"reconciling", "recording", "ending", "finishing"} => Observed(c)
        /\ pc = "deciding" /\ client[c].snapshot.progress.checkpoint_status = "COMPLETED" =>
               Observed(c)

WorkflowInv ==
    /\ StoreInv
    /\ WorkflowTypes
    /\ \A o \in Operation : Supported(o, checkpoint[o].progress)
    /\ \A c \in Client : AtWork(c) /\ Aware(c)
    /\ JobsInOrder
    /\ OutcomeIsHonest

-----------------------------------------------------------------------------
(* What is recorded stays recorded                                         *)

Grows ==
    /\ RecordsFit'
    /\ \A o \in Operation : record[o] # None =>
           /\ record'[o] # None
           /\ record'[o].successful = record[o].successful
           /\ record[o].status = "COMPLETED" => record'[o].status = "COMPLETED"

LEMMA NothingRecorded ==
    ASSUME RecordsFit, UNCHANGED record
    PROVE  Grows
  BY DEF RecordsFit, Grows

\* The gateway's transactions record their own operation.
LEMMA RecordedGrows ==
    ASSUME RecordsFit, NEW o \in Operation, NEW status \in {"WAITING", "COMPLETED"},
           NEW successful \in BOOLEAN, NEW observations \in Nat,
           Business!Recorded(o, status, successful, observations),
           o # "ad-provisioning" => status = "COMPLETED",
           o # "app-factory-validation" => successful,
           record[o] # None => o = "ad-provisioning" /\ record[o].status = "WAITING"
    PROVE  Grows /\ record'[o] # None
  <1> DEFINE r == [status |-> status, successful |-> successful, observations |-> observations]
  <1>1. r \in Business!Record /\ record' = [record EXCEPT ![o] = r]
    BY DEF Business!Record, Business!Recorded
  <1>2. r # None
    BY <1>1, NothingAssumption
  <1>3. record'[o] = r /\ \A p \in Operation \ {o} : record'[p] = record[p]
    BY <1>1 DEF RecordsFit
  <1>4. record' \in [Operation -> Business!Record \cup {None}]
    BY <1>1 DEF RecordsFit
  <1>5. r.status = status /\ r.successful = successful
    OBVIOUS
  <1> HIDE DEF r
  <1> QED
    BY <1>2, <1>3, <1>4, <1>5 DEF Grows, RecordsFit

LEMMA RecordParts ==
    ASSUME RecordsFit, NEW o \in Operation, record[o] # None
    PROVE  /\ record[o].status \in {"WAITING", "COMPLETED"}
           /\ record[o].successful \in BOOLEAN
           /\ record[o].observations \in Nat
  <1>1. record[o] \in Business!Record
    BY DEF RecordsFit
  <1> QED
    BY <1>1 DEF Business!Record

LEMMA PerformGrows ==
    ASSUME WorkflowTypes, NEW c \in Client, Perform(c)
    PROVE  Grows /\ record'[run[c].operation] # None
  <1> DEFINE o == run[c].operation
  <1>1. RecordsFit /\ o \in Operation
    BY DEF WorkflowTypes, Run
  <1>2. CASE record[o] # None /\ (Polls(c) => record[o].status = "COMPLETED")
    <2>1. UNCHANGED record
      BY <1>2 DEF Perform
    <2> QED
      BY <1>1, <1>2, <2>1, NothingRecorded
  <1>3. CASE ~(record[o] # None /\ (Polls(c) => record[o].status = "COMPLETED"))
    <2>1. CASE o = "apm-validation"
      <3>1. Business!ValidateApm
        BY <1>3, <2>1 DEF Perform, Polls
      <3>2. record[o] = None /\ Business!Recorded(o, "COMPLETED", TRUE, 0)
        BY <2>1, <3>1 DEF Business!ValidateApm
      <3> HIDE DEF o
      <3> QED
        BY <1>1, <2>1, <3>2, RecordedGrows DEF o
    <2>2. CASE o = "app-factory-validation"
      <3>1. Business!ValidateAppFactory
        BY <1>3, <2>2 DEF Perform, Polls
      <3>2. /\ record[o] = None
            /\ \E ok \in BOOLEAN : Business!Recorded(o, "COMPLETED", ok, 0)
        BY <2>2, <3>1 DEF Business!ValidateAppFactory
      <3> HIDE DEF o
      <3> QED
        BY <1>1, <2>2, <3>2, RecordedGrows DEF o
    <2>3. CASE o = "ad-provisioning"
      <3>1. CASE Polls(c)
        <4>1. Business!PollAd
          BY <1>3, <2>3, <3>1 DEF Perform
        <4>2. record[o] # None /\ record[o].status = "WAITING"
          BY <2>3, <4>1 DEF Business!PollAd
        <4>3. record[o].observations + 1 \in Nat
          BY <1>1, <4>2, RecordParts
        <4>4. PICK observed \in Nat : \/ Business!Recorded(o, "WAITING", TRUE, observed)
                                     \/ Business!Recorded(o, "COMPLETED", TRUE, observed)
          BY <2>3, <4>1, <4>3 DEF Business!PollAd
        <4> HIDE DEF o
        <4> QED
          BY <1>1, <2>3, <4>2, <4>4, RecordedGrows DEF o
      <3>2. CASE ~Polls(c)
        <4>1. Business!SubmitAd
          BY <1>3, <2>3, <3>2 DEF Perform
        <4>2. record[o] = None /\ Business!Recorded(o, "WAITING", TRUE, 0)
          BY <2>3, <4>1 DEF Business!SubmitAd
        <4> HIDE DEF o
        <4> QED
          BY <1>1, <2>3, <4>2, RecordedGrows DEF o
      <3> QED
        BY <3>1, <3>2
    <2> QED
      BY <1>1, <2>1, <2>2, <2>3 DEF Operation
  <1> QED
    BY <1>2, <1>3

-----------------------------------------------------------------------------
(* How a run moves                                                         *)

Points == {"launching", "ended"} \cup Calling \cup Working

\* The run of c is at pc, and nothing else of the runs has changed but whether
\* its operation was successful.
Arrives(c, pc, successful) ==
    /\ run' \in [Client -> Run]
    /\ \A d \in Client \ {c} : run'[d] = run[d]
    /\ run'[c].pc = pc
    /\ run'[c].operation = run[c].operation
    /\ run'[c].outcome = run[c].outcome
    /\ run'[c].successful = successful

LEMMA RunParts ==
    ASSUME WorkflowTypes, NEW c \in Client
    PROVE  /\ run[c].pc \in Points /\ run[c].operation \in Operation
           /\ run[c].mode \in Mode /\ run[c].polls \in Nat
           /\ run[c].successful \in BOOLEAN /\ run[c].outcome \in Outcome \cup {None}
  BY DEF WorkflowTypes, Run, Points

LEMMA ArrivesIfSo ==
    ASSUME WorkflowTypes, NEW c \in Client, NEW r \in Run, run' = [run EXCEPT ![c] = r],
           r.operation = run[c].operation, r.outcome = run[c].outcome
    PROVE  Arrives(c, r.pc, r.successful)
  BY DEF WorkflowTypes, Arrives

LEMMA GotoArrives ==
    ASSUME WorkflowTypes, NEW c \in Client, NEW pc \in Points, Goto(c, pc)
    PROVE  Arrives(c, pc, run[c].successful)
  <1> DEFINE r == [run[c] EXCEPT !.pc = pc]
  <1>1. run' = [run EXCEPT ![c] = r]
    BY DEF Goto
  <1>2. run[c] \in Run
    BY DEF WorkflowTypes
  <1>3. r \in Run /\ r.pc = pc /\ r.operation = run[c].operation
        /\ r.outcome = run[c].outcome /\ r.successful = run[c].successful
    BY <1>2 DEF Run, Points
  <1> HIDE DEF r
  <1> QED
    BY <1>1, <1>3, ArrivesIfSo

LEMMA NoMoveArrives ==
    ASSUME WorkflowTypes, NEW c \in Client, UNCHANGED run
    PROVE  Arrives(c, run[c].pc, run[c].successful)
  BY DEF WorkflowTypes, Arrives

\* A run that ends.
Ended(c, outcome) ==
    /\ run' \in [Client -> Run]
    /\ \A d \in Client \ {c} : run'[d] = run[d]
    /\ run'[c].pc = "ended" /\ run'[c].operation \in Operation
    /\ run'[c].outcome = outcome /\ run'[c].successful

LEMMA EndsIsEnded ==
    ASSUME WorkflowTypes, NEW c \in Client, NEW outcome \in Outcome, Ends(c, outcome)
    PROVE  Ended(c, outcome)
  <1> DEFINE e == [FirstJob(c) EXCEPT !.pc = "ended"]
             r == [e EXCEPT !.outcome = outcome]
  <1>1. run' = [run EXCEPT ![c] = r]
    BY Zenon DEF Ends
  <1>2. e \in Run /\ e.pc = "ended" /\ e.operation \in Operation /\ e.successful
    BY LocalPollAssumption DEF FirstJob, Run, Mode, Operation
  <1> HIDE DEF e
  <1>4. r \in Run /\ r.pc = "ended" /\ r.operation \in Operation
        /\ r.outcome = outcome /\ r.successful
    BY <1>2 DEF Run
  <1> HIDE DEF r
  <1> QED
    BY <1>1, <1>4 DEF Ended, WorkflowTypes

\* A run that launches its next job.
Launches(c, operation) ==
    /\ run' \in [Client -> Run]
    /\ \A d \in Client \ {c} : run'[d] = run[d]
    /\ run'[c].pc = "launching" /\ run'[c].operation = operation
    /\ run'[c].outcome = run[c].outcome /\ run'[c].successful = run[c].successful

LEMMA LaunchingLaunches ==
    ASSUME WorkflowTypes, NEW c \in Client, NEW o \in Operation, NEW mode \in Mode,
           NEW polls \in Nat, Launching(c, o, mode, polls)
    PROVE  Launches(c, o)
  <1> DEFINE l == [run[c] EXCEPT !.pc = "launching", !.operation = o]
             r == [l EXCEPT !.mode = mode, !.polls = polls]
  <1>1. run' = [run EXCEPT ![c] = r]
    BY Zenon DEF Launching
  <1>2. run[c] \in Run
    BY DEF WorkflowTypes
  <1>3. /\ l \in Run /\ l.pc = "launching" /\ l.operation = o
        /\ l.outcome = run[c].outcome /\ l.successful = run[c].successful
    BY <1>2 DEF Run
  <1> HIDE DEF l
  <1>4. /\ r \in Run /\ r.pc = "launching" /\ r.operation = o
        /\ r.outcome = run[c].outcome /\ r.successful = run[c].successful
    BY <1>3 DEF Run
  <1> HIDE DEF r
  <1> QED
    BY <1>1, <1>4 DEF Launches, WorkflowTypes

-----------------------------------------------------------------------------
(* Jobs use the store                                                      *)

LEMMA ProgressIsSaved ==
    ASSUME NEW o \in Operation, NEW r, r \in Business!Record
    PROVE  ProgressOf(o, r) \in Progress
  <1>1. r.status \in Status
    BY DEF Business!Record, Status
  <1>2. InitialStage[o] \in Stage /\ "AD_POLLING" \in Stage
    BY DEF InitialStage, Operation, Stage
  <1> QED
    BY <1>1, <1>2, LocalReferenceAssumption DEF ProgressOf, Progress

LEMMA MarkedIsSaved ==
    ASSUME NEW stage \in Stage, NEW status \in Status
    PROVE  Marked(stage, status) \in Progress
  BY DEF Marked, Progress

LEMMA StageOfSnapshot ==
    ASSUME StoreTypeOK, NEW c \in Client, client[c].snapshot # None
    PROVE  client[c].snapshot.progress.current_stage \in Stage
  <1>1. client[c].snapshot \in Snapshot
    BY ProcessParts
  <1> QED
    BY <1>1 DEF Snapshot, Progress

\* What happens in the store is what some process may do to it.
LEMMA StepUsesStore ==
    ASSUME StoreTypeOK, WorkflowTypes, [WorkflowNext]_workflowVars
    PROVE  [StoreNext]_storeVars
  <1>1. ASSUME NEW c \in Client, Work(c) PROVE [StoreNext]_storeVars
    <2>1. run[c].operation \in Operation /\ RecordsFit
      BY RunParts DEF WorkflowTypes
    <2>2. CASE Launch(c)
      BY <2>1, <2>2 DEF Launch, StoreNext
    <2>3. ASSUME NEW pc, NEW change, SavesFrom(c, pc, change),
                 client[c].snapshot # None => change \in Progress
          PROVE  StoreNext
      BY <2>3 DEF SavesFrom, StoreNext, BeginSave
    <2>4. CASE Read(c)
      <3>1. UNCHANGED storeVars \/ /\ record[run[c].operation] # None
                                   /\ BeginSave(c, ProgressOf(run[c].operation,
                                                              record[run[c].operation]))
        BY <2>4 DEF Read
      <3>2. record[run[c].operation] # None =>
                ProgressOf(run[c].operation, record[run[c].operation]) \in Progress
        BY <2>1, ProgressIsSaved DEF RecordsFit
      <3> QED
        BY <3>1, <3>2 DEF StoreNext
    <2>5. CASE Decide(c)
      <3>1. InitialStage[run[c].operation] \in Stage /\ "RUNNING" \in Status
        BY <2>1 DEF InitialStage, Operation, Stage, Status
      <3>2. Marked(InitialStage[run[c].operation], "RUNNING") \in Progress
        BY <3>1, MarkedIsSaved
      <3> QED
        BY <2>3, <2>5, <3>2 DEF Decide
    <2>6. CASE Execute(c)
      <3>1. CASE Accepted(c)
        <4>1. Perform(c) /\ BeginSave(c, ProgressOf(run[c].operation,
                                                    record'[run[c].operation]))
          BY <2>6, <3>1 DEF Execute
        <4>2. record'[run[c].operation] \in Business!Record
          BY <2>1, <4>1, PerformGrows DEF Grows, RecordsFit
        <4>3. ProgressOf(run[c].operation, record'[run[c].operation]) \in Progress
          BY <2>1, <4>2, ProgressIsSaved
        <4> QED
          BY <4>1, <4>3 DEF StoreNext
      <3> QED
        BY <2>6, <3>1 DEF Execute
    <2>7. CASE Handle(c)
      <3>1. client[c].snapshot # None =>
                Marked(client[c].snapshot.progress.current_stage, "FAILED") \in Progress
        BY StageOfSnapshot, MarkedIsSaved DEF Status
      <3> QED
        BY <2>3, <2>7, <3>1 DEF Handle
    <2>8. CASE Conclude(c) \/ Report(c)
      BY <2>8 DEF Conclude, Report, StoreNext
    <2>9. CASE Claiming(c) \/ Saving(c) \/ Finishing(c)
      BY <2>9 DEF Claiming, Saving, Finishing, StoreNext
    <2> QED
      BY <1>1, <2>2, <2>4, <2>5, <2>6, <2>7, <2>8, <2>9 DEF Work
  <1>2. ASSUME NEW c \in Client, Refused(c) \/ Unanswered(c) \/ Killed(c)
        PROVE  [StoreNext]_storeVars
    BY <1>2 DEF Refused, Unanswered, Killed, StoreNext
  <1>3. CASE WorkflowTick
    BY <1>3 DEF WorkflowTick, StoreNext
  <1>4. CASE UNCHANGED workflowVars
    BY <1>4 DEF workflowVars
  <1> QED
    BY <1>1, <1>2, <1>3, <1>4 DEF WorkflowNext

-----------------------------------------------------------------------------
(* What a step of one run must leave in order                              *)

Honest(c) ==
    /\ run[c].outcome = "COMPLETED" =>
           \A o \in Operation : record[o] # None /\ record[o].status = "COMPLETED"
                                /\ record[o].successful
    /\ run[c].outcome = "WAITING" => record["ad-provisioning"] # None
    /\ run[c].outcome = "BUSINESS_ERROR" =>
           \E o \in Operation : record[o] # None /\ ~record[o].successful

OthersRest(c) ==
    /\ run' \in [Client -> Run]
    /\ \A d \in Client \ {c} : run'[d] = run[d] /\ client'[d] = client[d]

LEMMA SupportGrows ==
    ASSUME Grows, NEW o \in Operation, NEW progress, Supported(o, progress)
    PROVE  Supported(o, progress)'
  BY DEF Grows, Supported

LEMMA SnapshotHasOperation ==
    ASSUME StoreTypeOK, NEW c \in Client, client[c].snapshot # None
    PROVE  client[c].snapshot.operation \in Operation
  BY ProcessParts DEF Snapshot

\* A run that does nothing stays at work and aware, whatever is recorded.
LEMMA OthersAtWork ==
    ASSUME WorkflowInv, Grows, NEW d \in Client, run'[d] = run[d], client'[d] = client[d]
    PROVE  (AtWork(d) /\ Aware(d))'
  <1>1. AtWork(d) /\ Aware(d) /\ run[d].operation \in Operation
    BY RunParts DEF WorkflowInv
  <1>2. client[d].snapshot # None => client[d].snapshot.operation \in Operation
    BY SnapshotHasOperation DEF WorkflowInv, StoreInv
  <1>3. AtWork(d)'
    BY <1>1, <1>2, SupportGrows DEF AtWork, Calls
  <1>4. {"apm-validation", "ad-provisioning"} \subseteq Operation
    BY DEF Operation
  <1>5. Aware(d)'
    BY <1>1, <1>4 DEF Aware, Active, Done, Observed, Grows
  <1> QED
    BY <1>3, <1>5

LEMMA HonestyStays ==
    ASSUME WorkflowInv, Grows, NEW d \in Client, run'[d].outcome = run[d].outcome
    PROVE  Honest(d)'
  <1>1. Honest(d)
    BY DEF WorkflowInv, OutcomeIsHonest, Honest
  <1> QED
    BY <1>1 DEF Honest, Grows, Operation

\* What a step has to show that the run c takes.
LEMMA Keeps ==
    ASSUME WorkflowInv, StoreInv', Grows, NEW c \in Client, OthersRest(c),
           AtWork(c)', Aware(c)', Honest(c)',
           \A o \in Operation : \/ checkpoint'[o].progress = checkpoint[o].progress
                                \/ Supported(o, checkpoint[o].progress)',
           \A o \in Operation : executions'[o] # <<>> =>
               executions[o] # <<>> \/ (Active(c) /\ o = run[c].operation)
    PROVE  WorkflowInv'
  <1>1. WorkflowTypes'
    BY DEF OthersRest, Grows, WorkflowTypes
  <1>2. \A o \in Operation : Supported(o, checkpoint[o].progress)'
    BY SupportGrows DEF WorkflowInv, Supported
  <1>3. \A d \in Client : (AtWork(d) /\ Aware(d))'
    BY OthersAtWork DEF OthersRest
  <1>4. JobsInOrder'
    <2>1. {"apm-validation", "ad-provisioning", "app-factory-validation"} = Operation
      BY DEF Operation
    <2>2. JobsInOrder /\ Aware(c)
      BY DEF WorkflowInv
    <2>3. executions'["ad-provisioning"] # <<>> => record["apm-validation"] # None
      BY <2>1, <2>2 DEF JobsInOrder, Aware, Done
    <2>4. executions'["app-factory-validation"] # <<>> =>
              record["ad-provisioning"] # None /\ record["ad-provisioning"].status = "COMPLETED"
      BY <2>1, <2>2 DEF JobsInOrder, Aware, Done
    <2> QED
      BY <2>1, <2>3, <2>4 DEF JobsInOrder, Grows
  <1>5. \A d \in Client : Honest(d)'
    BY HonestyStays DEF OthersRest
  <1>6. OutcomeIsHonest'
    BY <1>5 DEF Honest, OutcomeIsHonest
  <1> QED
    BY <1>1, <1>2, <1>3, <1>4, <1>6 DEF WorkflowInv

\* The same of a step that writes nothing in the store.
LEMMA QuietlyKeeps ==
    ASSUME WorkflowInv, StoreInv', Grows, NEW c \in Client, OthersRest(c),
           AtWork(c)', Aware(c)', Honest(c)', UNCHANGED tables
    PROVE  WorkflowInv'
  <1>1. checkpoint' = checkpoint /\ executions' = executions
    BY DEF tables
  <1>2. \A o \in Operation : \/ checkpoint'[o].progress = checkpoint[o].progress
                             \/ Supported(o, checkpoint[o].progress)'
    BY <1>1
  <1>3. \A o \in Operation : executions'[o] # <<>> =>
            executions[o] # <<>> \/ (Active(c) /\ o = run[c].operation)
    BY <1>1
  <1> QED
    BY <1>2, <1>3, Keeps

-----------------------------------------------------------------------------
(* The call and the memory of a job                                        *)

LEMMA Begun ==
    ASSUME StoreTypeOK, NEW c \in Client, NEW call \in Claim \cup Save \cup Finish,
           Begins(c, call)
    PROVE  /\ client[c].call = None /\ call # None
           /\ client'[c].call = call /\ client'[c].snapshot = client[c].snapshot
           /\ \A d \in Client \ {c} : client'[d] = client[d]
           /\ UNCHANGED tables
  <1>1. call # None
    BY NoneIsNoValue
  <1>2. client[c] = [call |-> client[c].call, snapshot |-> client[c].snapshot]
    BY ProcessParts
  <1>3. client \in [Client -> Process]
    BY DEF StoreTypeOK
  <1> QED
    BY <1>1, <1>2, <1>3 DEF Begins, tables

LEMMA Raised ==
    ASSUME StoreTypeOK, NEW c \in Client, Raises(c)
    PROVE  /\ client'[c].call = None /\ client'[c].snapshot = client[c].snapshot
           /\ \A d \in Client \ {c} : client'[d] = client[d]
  <1>1. client[c] = [call |-> client[c].call, snapshot |-> client[c].snapshot]
    BY ProcessParts
  <1>2. client \in [Client -> Process]
    BY DEF StoreTypeOK
  <1> QED
    BY <1>1, <1>2 DEF Raises

LEMMA Returned ==
    ASSUME StoreTypeOK, NEW c \in Client, NEW snapshot, Returns(c, snapshot)
    PROVE  /\ client'[c].call = None /\ client'[c].snapshot = snapshot
           /\ \A d \in Client \ {c} : client'[d] = client[d]
  BY DEF StoreTypeOK, Returns

MemoryIsSupported(c) ==
    client[c].snapshot # None =>
        Supported(client[c].snapshot.operation, client[c].snapshot.progress)

\* A job that works, or a run without one, has no call under way.
LEMMA AtRest ==
    ASSUME WorkflowInv, Grows, NEW c \in Client, client'[c].call = None,
           run'[c].pc \in Working \cup {"launching", "ended"},
           MemoryIsSupported(c)',
           run'[c].pc \in Working =>
               /\ client'[c].snapshot # None
               /\ client'[c].snapshot.operation = run'[c].operation
    PROVE  AtWork(c)'
  BY DEF AtWork, MemoryIsSupported, Working, SavePoints, FinishPoints

LEMMA MemorySupported ==
    ASSUME WorkflowInv, Grows, NEW c \in Client, client'[c].snapshot = client[c].snapshot
    PROVE  MemoryIsSupported(c)'
  <1>1. client[c].snapshot # None => client[c].snapshot.operation \in Operation
    BY SnapshotHasOperation DEF WorkflowInv, StoreInv
  <1>2. client[c].snapshot # None =>
            Supported(client[c].snapshot.operation, client[c].snapshot.progress)
    BY DEF WorkflowInv, AtWork
  <1>3. client[c].snapshot # None =>
            Supported(client[c].snapshot.operation, client[c].snapshot.progress)'
    BY <1>1, <1>2, SupportGrows
  <1> QED
    BY <1>3 DEF Supported, MemoryIsSupported

\* What a run is aware of where it goes on with its operation.
LEMMA ArrivesAware ==
    ASSUME WorkflowInv, Grows, NEW c \in Client, NEW pc, NEW ok \in BOOLEAN,
           Arrives(c, pc, ok), Active(c),
           ~ok => record'[run[c].operation] # None /\ ~record'[run[c].operation].successful,
           \/ pc \in {"reconciling", "recording", "ending", "finishing"}
           \/ /\ pc = "deciding"
              /\ client'[c].snapshot.progress.checkpoint_status = "COMPLETED"
           => Observed(c)'
    PROVE  Aware(c)'
  <1>1. Aware(c) /\ {"apm-validation", "ad-provisioning"} \subseteq Operation
    BY DEF WorkflowInv, Operation
  <1>2. Done("apm-validation") => Done("apm-validation")'
    BY <1>1 DEF Done, Grows
  <1>3. Done("ad-provisioning") => Done("ad-provisioning")'
    BY <1>1 DEF Done, Grows
  <1> QED
    BY <1>1, <1>2, <1>3 DEF Aware, Arrives

LEMMA EndedAware ==
    ASSUME NEW c \in Client, NEW outcome, Ended(c, outcome)
    PROVE  Aware(c)'
  BY DEF Ended, Aware, Active, Calling, Working

\* What it was aware of stays so.
LEMMA AwarenessStays ==
    ASSUME WorkflowInv, Grows, NEW c \in Client
    PROVE  /\ ~run[c].successful =>
                  record'[run[c].operation] # None /\ ~record'[run[c].operation].successful
           /\ Observed(c) => /\ record'[run[c].operation] # None
                             /\ run[c].successful = record'[run[c].operation].successful
  <1>1. Aware(c) /\ run[c].operation \in Operation
    BY RunParts DEF WorkflowInv
  <1> QED
    BY <1>1 DEF Aware, Observed, Grows

LEMMA StillHonest ==
    ASSUME WorkflowInv, Grows, NEW c \in Client, NEW pc, NEW ok, Arrives(c, pc, ok)
    PROVE  Honest(c)'
  BY HonestyStays DEF Arrives

-----------------------------------------------------------------------------
(* The kinds of steps that a run takes without writing in the store        *)

\* A job goes on to work on the checkpoint that it remembers.
LEMMA KeepsWorking ==
    ASSUME WorkflowInv, StoreInv', Grows, UNCHANGED tables,
           NEW c \in Client, NEW pc \in Working, NEW ok \in BOOLEAN, Arrives(c, pc, ok), Active(c),
           \A d \in Client \ {c} : client'[d] = client[d],
           client'[c].call = None, client'[c].snapshot = client[c].snapshot,
           client[c].snapshot # None, client[c].snapshot.operation = run[c].operation,
           ~ok => record'[run[c].operation] # None /\ ~record'[run[c].operation].successful,
           (pc = "ending" \/
               (pc = "deciding" /\ client[c].snapshot.progress.checkpoint_status = "COMPLETED"))
               => Observed(c)'
    PROVE  WorkflowInv'
  <1>1. OthersRest(c) /\ Honest(c)'
    BY StillHonest DEF OthersRest, Arrives
  <1>2. AtWork(c)'
    BY AtRest, MemorySupported DEF Arrives
  <1>3. Aware(c)'
    BY ArrivesAware DEF Working
  <1> QED
    BY <1>1, <1>2, <1>3, QuietlyKeeps

\* A run ends, and what it reports is true.
LEMMA KeepsEnding ==
    ASSUME WorkflowInv, StoreInv', Grows, NEW c \in Client, NEW outcome, Ended(c, outcome),
           \A d \in Client \ {c} : client'[d] = client[d],
           client'[c].call = None, MemoryIsSupported(c)', Honest(c)',
           \A o \in Operation : \/ checkpoint'[o].progress = checkpoint[o].progress
                                \/ Supported(o, checkpoint[o].progress)',
           \A o \in Operation : executions'[o] # <<>> =>
               executions[o] # <<>> \/ (Active(c) /\ o = run[c].operation)
    PROVE  WorkflowInv'
  <1>1. OthersRest(c)
    BY DEF OthersRest, Ended
  <1>2. AtWork(c)'
    BY AtRest DEF Ended, Working
  <1>3. Aware(c)'
    BY EndedAware
  <1> QED
    BY <1>1, <1>2, <1>3, Keeps

\* A job raises, and no more is said of the journey.
LEMMA KeepsRaising ==
    ASSUME WorkflowInv, StoreInv', Grows, UNCHANGED tables,
           NEW c \in Client, Ended(c, "raised"),
           \A d \in Client \ {c} : client'[d] = client[d],
           client'[c].call = None, client'[c].snapshot = client[c].snapshot
    PROVE  WorkflowInv'
  <1>1. MemoryIsSupported(c)'
    BY MemorySupported
  <1>2. Honest(c)'
    BY DEF Honest, Ended
  <1>3. checkpoint' = checkpoint /\ executions' = executions
    BY DEF tables
  <1>4. \A o \in Operation : \/ checkpoint'[o].progress = checkpoint[o].progress
                             \/ Supported(o, checkpoint[o].progress)'
    BY <1>3
  <1>5. \A o \in Operation : executions'[o] # <<>> =>
            executions[o] # <<>> \/ (Active(c) /\ o = run[c].operation)
    BY <1>3
  <1> QED
    BY <1>1, <1>2, <1>4, <1>5, KeepsEnding

\* A job begins to save what is known to be so.
LEMMA KeepsSaving ==
    ASSUME WorkflowInv, StoreInv', Grows, NEW c \in Client, NEW pc \in SavePoints,
           NEW ok \in BOOLEAN, Arrives(c, pc, ok), run[c].pc \in Working,
           NEW change \in Progress, BeginSave(c, change), Supported(run[c].operation, change)',
           ~ok => record'[run[c].operation] # None /\ ~record'[run[c].operation].successful,
           pc \in {"reconciling", "recording"} => Observed(c)'
    PROVE  WorkflowInv'
  <1> DEFINE call == [kind |-> "save", now |-> clock, change |-> change]
  <1>1. StoreTypeOK /\ AtWork(c)
    BY DEF WorkflowInv, StoreInv
  <1>2. call \in Save /\ Begins(c, call) /\ call.kind = "save" /\ call.change = change
    BY <1>1 DEF BeginSave, Save, StoreTypeOK
  <1> HIDE DEF call
  <1>3. /\ call # None /\ client'[c].call = call
        /\ client'[c].snapshot = client[c].snapshot
        /\ \A d \in Client \ {c} : client'[d] = client[d]
        /\ UNCHANGED tables
    BY <1>1, <1>2, Begun
  <1>4. client[c].snapshot # None /\ client[c].snapshot.operation = run[c].operation
    BY <1>1 DEF AtWork
  <1>5. MemoryIsSupported(c)'
    BY <1>3, MemorySupported
  <1>6. run'[c].pc = pc /\ run'[c].operation = run[c].operation
    BY DEF Arrives
  <1>7. Supported(run[c].operation, client[c].call.change)'
    BY <1>2, <1>3, <1>6 DEF Supported
  <1>8. AtWork(c)'
    BY <1>2, <1>3, <1>4, <1>5, <1>6, <1>7
    DEF AtWork, Calls, MemoryIsSupported, SavePoints, FinishPoints, Working
  <1>9. Aware(c)'
    <2>1. Active(c)
      BY DEF Active
    <2> QED
      BY <2>1, ArrivesAware DEF SavePoints
  <1>10. OthersRest(c) /\ Honest(c)'
    BY <1>3, StillHonest DEF OthersRest, Arrives
  <1> QED
    BY <1>3, <1>8, <1>9, <1>10, QuietlyKeeps

\* A job begins to finish its execution.
LEMMA KeepsFinishing ==
    ASSUME WorkflowInv, StoreInv', Grows, NEW c \in Client, NEW pc \in FinishPoints,
           Arrives(c, pc, run[c].successful), run[c].pc \in Working,
           NEW failed \in BOOLEAN, BeginFinish(c, failed),
           pc = "finishing" => Observed(c)'
    PROVE  WorkflowInv'
  <1> DEFINE call == [kind |-> "finish", now |-> clock, failed |-> failed]
  <1>1. StoreTypeOK /\ AtWork(c) /\ run[c].successful \in BOOLEAN
    BY RunParts DEF WorkflowInv, StoreInv
  <1>2. call \in Finish /\ Begins(c, call) /\ call.kind = "finish"
    BY <1>1 DEF BeginFinish, Finish, StoreTypeOK
  <1> HIDE DEF call
  <1>3. /\ call # None /\ client'[c].call = call
        /\ client'[c].snapshot = client[c].snapshot
        /\ \A d \in Client \ {c} : client'[d] = client[d]
        /\ UNCHANGED tables
    BY <1>1, <1>2, Begun
  <1>4. client[c].snapshot # None /\ client[c].snapshot.operation = run[c].operation
    BY <1>1 DEF AtWork
  <1>5. MemoryIsSupported(c)'
    BY <1>3, MemorySupported
  <1>6. run'[c].pc = pc /\ run'[c].operation = run[c].operation
    BY DEF Arrives
  <1>7. AtWork(c)'
    BY <1>2, <1>3, <1>4, <1>5, <1>6
    DEF AtWork, Calls, MemoryIsSupported, SavePoints, FinishPoints, Working
  <1>8. Aware(c)'
    <2>1. Active(c)
      BY DEF Active
    <2> QED
      BY <1>1, <2>1, ArrivesAware, AwarenessStays DEF FinishPoints
  <1>9. OthersRest(c) /\ Honest(c)'
    BY <1>3, StillHonest DEF OthersRest, Arrives
  <1> QED
    BY <1>3, <1>7, <1>8, <1>9, QuietlyKeeps

-----------------------------------------------------------------------------
(* What a job does between two calls of the store                          *)

LEMMA RecordStays ==
    ASSUME WorkflowInv, UNCHANGED record
    PROVE  Grows
  BY NothingRecorded DEF WorkflowInv, WorkflowTypes

\* A job at work remembers its operation.
LEMMA Remembering ==
    ASSUME WorkflowInv, NEW c \in Client, run[c].pc \in Working
    PROVE  /\ client[c].snapshot # None
           /\ client[c].snapshot.operation = run[c].operation
           /\ client[c].call = None /\ Active(c)
           /\ client[c].snapshot.progress \in Progress
           /\ Supported(run[c].operation, client[c].snapshot.progress)
  <1>1. AtWork(c) /\ StoreTypeOK
    BY DEF WorkflowInv, StoreInv
  <1>2. client[c].snapshot \in Snapshot
    BY <1>1, ProcessParts DEF AtWork
  <1> QED
    BY <1>1, <1>2 DEF AtWork, Active, Snapshot

LEMMA LaunchKeeps ==
    ASSUME WorkflowInv, StoreInv', NEW c \in Client, Launch(c)
    PROVE  WorkflowInv'
  <1> DEFINE call == [kind |-> "claim", operation |-> run[c].operation, now |-> clock,
                      seen |-> None]
  <1>1. /\ StoreTypeOK /\ AtWork(c) /\ WorkflowTypes /\ run[c].operation \in Operation
        /\ run[c].successful \in BOOLEAN
    BY RunParts DEF WorkflowInv, StoreInv
  <1>2. /\ call \in Claim /\ Begins(c, call) /\ call.kind = "claim"
        /\ call.operation = run[c].operation
    BY <1>1 DEF Launch, BeginClaim, Claim, StoreTypeOK
  <1> HIDE DEF call
  <1>3. /\ call # None /\ client'[c].call = call
        /\ client'[c].snapshot = client[c].snapshot
        /\ \A d \in Client \ {c} : client'[d] = client[d]
        /\ UNCHANGED tables
    BY <1>1, <1>2, Begun
  <1>4. Arrives(c, "claiming", run[c].successful)
    BY <1>1, GotoArrives DEF Launch, Points, Calling
  <1>5. Grows /\ run[c].pc = "launching"
    BY RecordStays DEF Launch
  <1>6. run'[c].pc = "claiming" /\ run'[c].operation = run[c].operation
    BY <1>4 DEF Arrives
  <1>7. AtWork(c)'
    <2>1. MemoryIsSupported(c)'
      BY <1>3, <1>5, MemorySupported
    <2> QED
      BY <1>2, <1>3, <1>6, <2>1
      DEF AtWork, Calls, MemoryIsSupported, SavePoints, FinishPoints, Working
  <1>8. Aware(c)'
    BY <1>1, <1>4, <1>5, ArrivesAware, AwarenessStays DEF Active
  <1>9. OthersRest(c) /\ Honest(c)'
    BY <1>3, <1>4, <1>5, StillHonest DEF OthersRest, Arrives
  <1> QED
    BY <1>3, <1>5, <1>7, <1>8, <1>9, QuietlyKeeps

LEMMA ReadKeeps ==
    ASSUME WorkflowInv, StoreInv', NEW c \in Client, Read(c)
    PROVE  WorkflowInv'
  <1> DEFINE o == run[c].operation
             found == record[o]
             progress == client[c].snapshot.progress
  <1>1. PICK next : next = IF found # None /\ ProgressOf(o, found) # progress THEN "reconciling"
                           ELSE IF found = None /\ progress.checkpoint_status = "COMPLETED"
                           THEN "handling" ELSE "deciding"
    OBVIOUS
  <1>2. PICK ok : ok = (found = None \/ found.successful)
    OBVIOUS
  <1>3. /\ run[c].pc = "reading" /\ UNCHANGED record
        /\ run' = [run EXCEPT ![c].pc = next, ![c].successful = ok]
        /\ IF next = "reconciling" THEN BeginSave(c, ProgressOf(o, found))
                                   ELSE UNCHANGED storeVars
    BY <1>1, <1>2, Zenon DEF Read
  <1>4. Grows /\ run[c].pc \in Working /\ o \in Operation /\ RecordsFit /\ WorkflowTypes
    BY <1>3, RecordStays, RunParts DEF Working, WorkflowInv, WorkflowTypes
  <1>5. ok \in BOOLEAN
    BY <1>2, <1>4, RecordParts
  <1>6. Arrives(c, next, ok)
    <2> DEFINE l == [run[c] EXCEPT !.pc = next]
               r == [l EXCEPT !.successful = ok]
    <2>1. run \in [Client -> Run] /\ run[c] \in Run
      BY <1>4 DEF WorkflowTypes
    <2>2. run' = [run EXCEPT ![c] = r]
      <3> DEFINE q == [run EXCEPT ![c] = l]
      <3>1. run' = [q EXCEPT ![c].successful = ok]
        BY <1>3, Zenon
      <3>2. q[c] = l /\ q \in [Client -> {q[d] : d \in Client}]
        BY <2>1
      <3>3. \A d \in Client \ {c} : q[d] = run[d]
        BY <2>1
      <3>4. run' = [q EXCEPT ![c] = r]
        BY <3>1, <3>2
      <3> QED
        BY <2>1, <3>4
    <2>3. next \in Points
      BY <1>1 DEF Points, Calling, Working
    <2>4. l \in Run /\ l.pc = next /\ l.operation = o /\ l.outcome = run[c].outcome
      BY <2>1, <2>3 DEF Run, Points
    <2> HIDE DEF l
    <2>5. r \in Run /\ r.pc = next /\ r.operation = o /\ r.outcome = run[c].outcome
          /\ r.successful = ok
      BY <1>5, <2>4 DEF Run
    <2> HIDE DEF r
    <2> QED
      BY <1>4, <2>2, <2>5, ArrivesIfSo
  <1>7. /\ run'[c].operation = o /\ run'[c].successful = ok /\ record' = record
    BY <1>3, <1>6 DEF Arrives
  <1>8. ~ok => record'[o] # None /\ ~record'[o].successful
    BY <1>2, <1>7
  <1>9. found # None => Observed(c)'
    <2>1. found # None => ok = found.successful
      BY <1>2, <1>4, RecordParts
    <2> QED
      BY <1>7, <2>1 DEF Observed
  <1>10. CASE next = "reconciling"
    <2>1. found # None /\ found \in Business!Record
      BY <1>1, <1>4, <1>10 DEF RecordsFit
    <2> PICK change : change = ProgressOf(o, found)
      OBVIOUS
    <2>2. change \in Progress /\ BeginSave(c, change)
      BY <1>3, <1>4, <1>10, <2>1, ProgressIsSaved
    <2>3. Supported(run[c].operation, change)'
      BY <1>7, <2>1 DEF Supported, ProgressOf
    <2>4. Observed(c)' /\ next \in SavePoints
      BY <1>9, <1>10, <2>1 DEF SavePoints
    <2> QED
      BY <1>4, <1>5, <1>6, <1>8, <2>2, <2>3, <2>4, KeepsSaving
  <1>11. CASE next # "reconciling"
    <2>1. client' = client /\ UNCHANGED tables
      BY <1>3, <1>11 DEF storeVars, tables
    <2>2. next \in Working /\ next # "ending"
      BY <1>1, <1>11 DEF Working
    <2>3. next = "deciding" /\ progress.checkpoint_status = "COMPLETED" => Observed(c)'
      BY <1>1, <1>9
    <2> QED
      BY <1>4, <1>5, <1>6, <1>8, <2>1, <2>2, <2>3, Remembering, KeepsWorking
  <1> QED
    BY <1>10, <1>11

LEMMA DecideKeeps ==
    ASSUME WorkflowInv, StoreInv', NEW c \in Client, Decide(c)
    PROVE  WorkflowInv'
  <1> PICK progress : progress = client[c].snapshot.progress
    OBVIOUS
  <1> DEFINE requested == progress.external_reference # None
  <1>1. run[c].pc = "deciding" /\ UNCHANGED record
    BY DEF Decide
  <1>2. /\ Grows /\ run[c].pc \in Working /\ run[c].operation \in Operation
        /\ RecordsFit /\ WorkflowTypes /\ run[c].successful \in BOOLEAN /\ Aware(c)
    BY <1>1, RecordStays, RunParts DEF Working, WorkflowInv, WorkflowTypes
  <1>3. /\ progress \in Progress /\ Supported(run[c].operation, progress)
        /\ client[c].snapshot # None
    BY <1>2, Remembering
  <1>4. \/ SavesFrom(c, "starting", Marked(InitialStage[run[c].operation], "RUNNING"))
        \/ /\ UNCHANGED storeVars
           /\ \/ Goto(c, "ending") /\ progress.checkpoint_status = "COMPLETED"
              \/ Goto(c, "ending") /\ requested /\ run[c].operation = "ad-provisioning"
              \/ Goto(c, "handling")
              \/ Goto(c, "executing")
    BY DEF Decide
  <1>5. ~run[c].successful =>
            record'[run[c].operation] # None /\ ~record'[run[c].operation].successful
    BY <1>2, AwarenessStays
  <1>6. CASE SavesFrom(c, "starting", Marked(InitialStage[run[c].operation], "RUNNING"))
    <2> PICK change : change = Marked(InitialStage[run[c].operation], "RUNNING")
      OBVIOUS
    <2>1. InitialStage[run[c].operation] \in Stage /\ "RUNNING" \in Status
      BY <1>2 DEF InitialStage, Operation, Stage, Status
    <2>2. change \in Progress
      BY <2>1, MarkedIsSaved
    <2>3. change.external_reference = None /\ change.checkpoint_status = "RUNNING"
      BY DEF Marked
    <2>4. Supported(run[c].operation, change)'
      BY <2>3 DEF Supported
    <2>5. BeginSave(c, change) /\ Goto(c, "starting")
      BY <1>6 DEF SavesFrom
    <2>6. Arrives(c, "starting", run[c].successful)
      BY <1>2, <2>5, GotoArrives DEF Points, Calling
    <2> QED
      BY <1>2, <1>5, <2>2, <2>4, <2>5, <2>6, KeepsSaving DEF SavePoints
  <1>7. ASSUME UNCHANGED storeVars, NEW pc \in {"ending", "handling", "executing"}, Goto(c, pc),
               pc = "ending" => Observed(c)
        PROVE  WorkflowInv'
    <2>1. Arrives(c, pc, run[c].successful)
      BY <1>2, <1>7, GotoArrives DEF Points, Working
    <2>2. client' = client /\ UNCHANGED tables
      BY <1>7 DEF storeVars, tables
    <2>3. pc = "ending" => Observed(c)'
      BY <1>2, <1>7, <2>1, AwarenessStays DEF Observed, Arrives
    <2> QED
      BY <1>2, <1>5, <2>1, <2>2, <2>3, Remembering, KeepsWorking DEF Working
  <1>8. progress.checkpoint_status = "COMPLETED" => Observed(c)
    BY <1>1, <1>2 DEF Aware
  <1>9. ASSUME requested, run[c].operation = "ad-provisioning" PROVE Observed(c)
    <2>1. record["ad-provisioning"] # None
      BY <1>3, <1>9 DEF Supported
    <2>2. record["ad-provisioning"].successful /\ "ad-provisioning" \in Operation
      BY <1>2, <2>1 DEF RecordsFit, Operation
    <2>3. record["ad-provisioning"].successful \in BOOLEAN
      BY <1>2, <2>1, <2>2, RecordParts
    <2> QED
      BY <1>2, <1>9, <2>1, <2>2, <2>3 DEF Observed, Aware
  <1> QED
    BY <1>4, <1>6, <1>7, <1>8, <1>9

\* A business transaction commits, and its job saves what it answers.
LEMMA ExecuteKeeps ==
    ASSUME WorkflowInv, StoreInv', NEW c \in Client, Execute(c)
    PROVE  WorkflowInv'
  <1>1. run[c].pc = "executing" /\ run[c].pc \in Working /\ WorkflowTypes
        /\ run[c].operation \in Operation /\ run[c].successful \in BOOLEAN
    BY RunParts DEF Execute, Working, WorkflowInv
  <1>2. CASE Accepted(c)
    <2>1. PICK found, change : /\ found = record'[run[c].operation]
                               /\ change = ProgressOf(run[c].operation, found)
      OBVIOUS
    <2>2. PICK ok : ok = found.successful
      OBVIOUS
    <2>3. /\ Perform(c) /\ BeginSave(c, change)
          /\ run' = [run EXCEPT ![c].pc = "recording", ![c].successful = ok]
      BY <1>2, <2>1, <2>2, Zenon DEF Execute
    <2>4. Grows /\ found # None
      BY <1>1, <2>1, <2>3, PerformGrows
    <2>5. found \in Business!Record
      BY <1>1, <2>1, <2>4 DEF Grows, RecordsFit
    <2>6. ok \in BOOLEAN /\ change \in Progress
      BY <1>1, <2>1, <2>2, <2>5, ProgressIsSaved DEF Business!Record
    <2>7. Arrives(c, "recording", ok)
      <3> DEFINE l == [run[c] EXCEPT !.pc = "recording"]
                 r == [l EXCEPT !.successful = ok]
      <3>1. run \in [Client -> Run] /\ run[c] \in Run
        BY <1>1 DEF WorkflowTypes
      <3>2. run' = [run EXCEPT ![c] = r]
        <4> DEFINE q == [run EXCEPT ![c] = l]
        <4>1. run' = [q EXCEPT ![c].successful = ok]
          BY <2>3, Zenon
        <4>2. q[c] = l
          BY <3>1
        <4>3. run' = [q EXCEPT ![c] = r]
          BY <4>1, <4>2
        <4> QED
          BY <3>1, <4>3
      <3>3. l \in Run /\ l.pc = "recording" /\ l.operation = run[c].operation
            /\ l.outcome = run[c].outcome
        BY <3>1 DEF Run, Calling
      <3> HIDE DEF l
      <3>4. r \in Run /\ r.pc = "recording" /\ r.operation = run[c].operation
            /\ r.outcome = run[c].outcome /\ r.successful = ok
        BY <2>6, <3>3 DEF Run
      <3> HIDE DEF r
      <3> QED
        BY <1>1, <3>2, <3>4, ArrivesIfSo
    <2>8. run'[c].operation = run[c].operation /\ run'[c].successful = ok
      BY <2>7 DEF Arrives
    <2>9. Observed(c)'
      BY <2>1, <2>2, <2>4, <2>8 DEF Observed
    <2>10. ~ok => record'[run[c].operation] # None /\ ~record'[run[c].operation].successful
      BY <2>1, <2>2, <2>4
    <2>11. Supported(run[c].operation, change)'
      BY <2>1, <2>4, <2>8 DEF Supported, ProgressOf
    <2> QED
      BY <1>1, <2>3, <2>4, <2>6, <2>7, <2>9, <2>10, <2>11, KeepsSaving DEF SavePoints
  <1>3. CASE ~Accepted(c)
    <2>1. Goto(c, "handling") /\ UNCHANGED storeVars /\ UNCHANGED record
      BY <1>3 DEF Execute
    <2>2. Arrives(c, "handling", run[c].successful)
      BY <1>1, <2>1, GotoArrives DEF Points, Working
    <2>3. client' = client /\ UNCHANGED tables
      BY <2>1 DEF storeVars, tables
    <2>4. Grows
      BY <2>1, RecordStays
    <2> QED
      BY <1>1, <2>2, <2>3, <2>4, AwarenessStays, Remembering, KeepsWorking DEF Working
  <1> QED
    BY <1>2, <1>3

LEMMA UnansweredKeeps ==
    ASSUME WorkflowInv, StoreInv', NEW c \in Client, Unanswered(c)
    PROVE  WorkflowInv'
  <1>1. run[c].pc \in Working /\ WorkflowTypes /\ run[c].successful \in BOOLEAN
    BY RunParts DEF Unanswered, Working, WorkflowInv
  <1>2. Perform(c) /\ Goto(c, "handling") /\ UNCHANGED storeVars
    BY DEF Unanswered
  <1>3. Grows
    BY <1>1, <1>2, PerformGrows
  <1>4. Arrives(c, "handling", run[c].successful)
    BY <1>1, <1>2, GotoArrives DEF Points, Working
  <1>5. client' = client /\ UNCHANGED tables
    BY <1>2 DEF storeVars, tables
  <1> QED
    BY <1>1, <1>3, <1>4, <1>5, AwarenessStays, Remembering, KeepsWorking DEF Working

LEMMA FinishKeeps ==
    ASSUME WorkflowInv, StoreInv', NEW c \in Client, Conclude(c) \/ Report(c)
    PROVE  WorkflowInv'
  <1>1. PICK pc \in FinishPoints, failed \in BOOLEAN :
            /\ BeginFinish(c, failed) /\ Goto(c, pc) /\ UNCHANGED record
            /\ pc = "finishing" => run[c].pc = "ending"
    BY DEF Conclude, Report, FinishPoints
  <1>2. run[c].pc \in Working /\ WorkflowTypes /\ Grows /\ Aware(c)
    BY <1>1, RecordStays DEF Conclude, Report, Working, WorkflowInv
  <1>3. Arrives(c, pc, run[c].successful)
    BY <1>1, <1>2, GotoArrives DEF Points, Calling, FinishPoints
  <1>4. pc = "finishing" => Observed(c)'
    BY <1>1, <1>2, <1>3, AwarenessStays DEF Aware, Observed, Arrives
  <1> QED
    BY <1>1, <1>2, <1>3, <1>4, KeepsFinishing

LEMMA HandleKeeps ==
    ASSUME WorkflowInv, StoreInv', NEW c \in Client, Handle(c)
    PROVE  WorkflowInv'
  <1> PICK change : change = Marked(client[c].snapshot.progress.current_stage, "FAILED")
    OBVIOUS
  <1>1. BeginSave(c, change) /\ Goto(c, "failing") /\ UNCHANGED record
    BY DEF Handle, SavesFrom
  <1>2. run[c].pc \in Working /\ WorkflowTypes /\ Grows /\ run[c].successful \in BOOLEAN
    BY <1>1, RecordStays, RunParts DEF Handle, Working, WorkflowInv
  <1>3. change \in Progress
    <2>1. client[c].snapshot.progress \in Progress
      BY <1>2, Remembering
    <2> QED
      BY <2>1, MarkedIsSaved DEF Progress, Status
  <1>4. Arrives(c, "failing", run[c].successful)
    BY <1>1, <1>2, GotoArrives DEF Points, Calling
  <1>5. change.external_reference = None /\ change.checkpoint_status = "FAILED"
    BY DEF Marked
  <1>6. Supported(run[c].operation, change)'
    BY <1>5 DEF Supported
  <1> QED
    BY <1>1, <1>2, <1>3, <1>4, <1>6, AwarenessStays, KeepsSaving DEF SavePoints

-----------------------------------------------------------------------------
(* The calls of the store                                                  *)

\* Where a run is that has a call under way.
LEMMA CallsFrom ==
    ASSUME WorkflowInv, NEW c \in Client
    PROVE  /\ Calls(c, "claim") => run[c].pc = "claiming"
           /\ Calls(c, "save") => run[c].pc \in SavePoints
           /\ Calls(c, "finish") => run[c].pc \in FinishPoints
           /\ run[c].pc = "claiming" => /\ Calls(c, "claim")
                                        /\ client[c].call.operation = run[c].operation
           /\ run[c].pc \in SavePoints \cup FinishPoints => /\ client[c].snapshot # None
                                 /\ client[c].snapshot.operation = run[c].operation
           /\ run[c].pc \in SavePoints => Supported(run[c].operation, client[c].call.change)
           /\ Active(c) <=> run[c].pc # "ended"
  <1>1. AtWork(c) /\ run[c].pc \in Points
    BY RunParts DEF WorkflowInv
  <1> QED
    BY <1>1 DEF AtWork, Calls, Points, Calling, Working, SavePoints, FinishPoints, Active

LEMMA CatchesEnds ==
    ASSUME WorkflowTypes, NEW c \in Client, Catches(c),
           run[c].pc \in {"claiming", "failing", "closing"}
    PROVE  Ended(c, "raised")
  <1>1. Ends(c, "raised") /\ "raised" \in Outcome
    BY DEF Catches, Outcome
  <1> QED
    BY <1>1, EndsIsEnded

LEMMA CatchesHandles ==
    ASSUME WorkflowTypes, NEW c \in Client, Catches(c),
           run[c].pc \notin {"claiming", "failing", "closing"}
    PROVE  Arrives(c, "handling", run[c].successful)
  BY GotoArrives DEF Catches, Points, Working

\* An exception, wherever it is raised.
LEMMA CatchesKeeps ==
    ASSUME WorkflowInv, StoreInv', UNCHANGED <<record, tables>>, NEW c \in Client, Catches(c),
           run[c].pc \in Working \cup SavePoints \cup FinishPoints \cup {"claiming"},
           client'[c].call = None, client'[c].snapshot = client[c].snapshot,
           \A d \in Client \ {c} : client'[d] = client[d]
    PROVE  WorkflowInv'
  <1>1. Grows /\ WorkflowTypes /\ AtWork(c) /\ run[c].successful \in BOOLEAN
    BY RecordStays, RunParts DEF WorkflowInv
  <1>2. CASE run[c].pc \in {"claiming", "failing", "closing"}
    BY <1>1, <1>2, CatchesEnds, KeepsRaising
  <1>3. CASE run[c].pc \notin {"claiming", "failing", "closing"}
    <2>1. Arrives(c, "handling", run[c].successful)
      BY <1>1, <1>3, CatchesHandles
    <2>2. client[c].snapshot # None /\ client[c].snapshot.operation = run[c].operation
      BY <1>1, <1>3 DEF AtWork
    <2>3. Active(c) /\ "handling" \in Working
      BY <1>3 DEF Active, Working, Calling, SavePoints, FinishPoints
    <2> QED
      BY <1>1, <2>1, <2>2, <2>3, AwarenessStays, KeepsWorking
  <1> QED
    BY <1>2, <1>3

LEMMA RaiseKeeps ==
    ASSUME WorkflowInv, StoreInv', UNCHANGED <<record, tables>>, NEW c \in Client,
           Ends(c, "raised"), client'[c].call = None, client'[c].snapshot = client[c].snapshot,
           \A d \in Client \ {c} : client'[d] = client[d]
    PROVE  WorkflowInv'
  <1>1. Grows /\ WorkflowTypes /\ "raised" \in Outcome
    BY RecordStays DEF WorkflowInv, Outcome
  <1> QED
    BY <1>1, EndsIsEnded, KeepsRaising

\* A claim that has read, or reads again.
LEMMA ClaimGoesOn ==
    ASSUME WorkflowInv, StoreInv', UNCHANGED <<record, run, tables>>, NEW c \in Client,
           Calls(c, "claim"), NEW call \in Claim,
           call.operation = client[c].call.operation,
           client' = [client EXCEPT ![c].call = call]
    PROVE  WorkflowInv'
  <1>1. /\ Grows /\ WorkflowTypes /\ client \in [Client -> Process] /\ StoreTypeOK
        /\ run[c].pc = "claiming" /\ client[c].call.operation = run[c].operation
        /\ run[c].successful \in BOOLEAN /\ Active(c)
    BY RecordStays, CallsFrom, RunParts DEF WorkflowInv, StoreInv, StoreTypeOK
  <1>2. client[c] = [call |-> client[c].call, snapshot |-> client[c].snapshot]
    BY <1>1, ProcessParts
  <1>3. /\ client'[c].call = call /\ client'[c].snapshot = client[c].snapshot
        /\ \A d \in Client \ {c} : client'[d] = client[d]
    BY <1>1, <1>2
  <1>4. call # None /\ call.kind = "claim"
    BY NoneIsNoValue DEF Claim
  <1>5. MemoryIsSupported(c)'
    BY <1>1, <1>3, MemorySupported
  <1>6. AtWork(c)'
    BY <1>1, <1>3, <1>4, <1>5
    DEF AtWork, Calls, MemoryIsSupported, SavePoints, FinishPoints, Working
  <1>7. Arrives(c, "claiming", run[c].successful)
    BY <1>1, NoMoveArrives
  <1>8. Aware(c)'
    BY <1>1, <1>7, ArrivesAware, AwarenessStays
  <1>9. OthersRest(c) /\ Honest(c)'
    BY <1>1, <1>3, <1>7, StillHonest DEF OthersRest, Arrives
  <1> QED
    BY <1>1, <1>6, <1>8, <1>9, QuietlyKeeps

LEMMA ClaimReadsKeeps ==
    ASSUME WorkflowInv, StoreInv', UNCHANGED record, NEW c \in Client, ClaimReads(c),
           IF Busy(c) THEN Ends(c, "raised") ELSE UNCHANGED run
    PROVE  WorkflowInv'
  <1>1. StoreTypeOK /\ UNCHANGED tables /\ Calls(c, "claim")
    BY DEF ClaimReads, WorkflowInv, StoreInv
  <1>2. CASE Busy(c)
    <2>1. Raises(c)
      BY <1>2 DEF ClaimReads
    <2> QED
      BY <1>1, <1>2, <2>1, Raised, RaiseKeeps
  <1>3. CASE ~Busy(c)
    <2>1. client[c].call \in Claim
      BY <1>1, ProcessParts
    <2>2. PICK o \in Operation : o = client[c].call.operation
      BY <2>1 DEF Claim
    <2>3. PICK running \in BOOLEAN :
              client' = [client EXCEPT ![c].call.seen =
                            [version |-> checkpoint[o].version, running |-> running]]
      <3>1. (/\ checkpoint[o].lease # NoLease
             /\ executions[o][checkpoint[o].execution] = "RUNNING") \in BOOLEAN
        OBVIOUS
      <3>2. client' = [client EXCEPT ![c].call.seen =
                [version |-> checkpoint[o].version,
                 running |-> checkpoint[o].lease # NoLease
                             /\ executions[o][checkpoint[o].execution] = "RUNNING"]]
        BY <1>3, <2>2 DEF ClaimReads
      <3> QED
        BY <3>1, <3>2
    <2>4. PICK seen : seen = [version |-> checkpoint[o].version, running |-> running]
      OBVIOUS
    <2>5. checkpoint[o].version \in Nat
      BY <1>1 DEF StoreTypeOK, Row
    <2>6. seen \in Seen
      BY <2>3, <2>4, <2>5 DEF Seen
    <2> DEFINE call == [client[c].call EXCEPT !.seen = seen]
    <2>7. call \in Claim /\ call.operation = client[c].call.operation
      BY <2>1, <2>6 DEF Claim
    <2>8. client' = [client EXCEPT ![c].call = call]
      BY <2>3, <2>4
    <2> HIDE DEF call
    <2> QED
      BY <1>1, <1>3, <2>7, <2>8, ClaimGoesOn
  <1> QED
    BY <1>2, <1>3

LEMMA ClaimWritesKeeps ==
    ASSUME WorkflowInv, StoreInv', UNCHANGED record, NEW c \in Client, NEW heard \in BOOLEAN,
           ClaimWrites(c, heard),
           Stands(c) => IF heard THEN Goto(c, "reading") ELSE Catches(c),
           ~Stands(c) => IF client[c].call.seen.version > 0 THEN Ends(c, "raised")
                                                            ELSE UNCHANGED run
    PROVE  WorkflowInv'
  <1>1. /\ StoreInv /\ StoreTypeOK /\ WorkflowTypes /\ Grows /\ Calls(c, "claim")
        /\ run[c].pc = "claiming" /\ client[c].call.operation = run[c].operation
        /\ run[c].operation \in Operation /\ run[c].successful \in BOOLEAN /\ Active(c)
    BY RecordStays, CallsFrom, RunParts DEF ClaimWrites, WorkflowInv, StoreInv
  <1>2. CASE ~Stands(c)
    <2>1. /\ UNCHANGED tables
          /\ IF client[c].call.seen.version > 0 THEN Raises(c) ELSE BeginsAgain(c)
      BY <1>2 DEF ClaimWrites, BeginsAgain
    <2>2. CASE client[c].call.seen.version > 0
      BY <1>1, <1>2, <2>1, <2>2, Raised, RaiseKeeps
    <2>3. CASE ~(client[c].call.seen.version > 0)
      <3>1. client[c].call \in Claim /\ clock \in Nat
        BY <1>1, ProcessParts DEF StoreTypeOK
      <3> DEFINE call == [client[c].call EXCEPT !.now = clock, !.seen = None]
      <3>2. call \in Claim /\ call.operation = client[c].call.operation
        BY <3>1 DEF Claim
      <3>3. client \in [Client -> Process]
        BY <1>1 DEF StoreTypeOK
      <3>5. BeginsAgain(c)
        BY <2>1, <2>3
      <3>4. client' = [client EXCEPT ![c].call = call]
        BY <3>5, <3>3 DEF BeginsAgain
      <3> HIDE DEF call
      <3> QED
        BY <1>1, <1>2, <2>1, <2>3, <3>2, <3>4, ClaimGoesOn
    <2> QED
      BY <2>2, <2>3
  <1>3. CASE Stands(c)
    <2> PICK o \in Operation : o = run[c].operation
      BY <1>1
    <2> PICK snapshot : snapshot = [operation |-> o, progress |-> checkpoint[o].progress,
                                    execution |-> Len(executions[o]) + 1,
                                    version |-> checkpoint[o].version + 1]
      OBVIOUS
    <2>1. /\ \A p \in Operation \ {o} : checkpoint'[p] = checkpoint[p]
          /\ checkpoint'[o].progress = checkpoint[o].progress
          /\ \A p \in Operation \ {o} : executions'[p] = executions[p]
          /\ snapshot \in Snapshot /\ Answers(c, heard, snapshot)
      BY <1>1, <1>3, ClaimCommits
    <2>2. snapshot.operation = o /\ snapshot.progress = checkpoint[o].progress
      OBVIOUS
    <2>3. \A p \in Operation : \/ checkpoint'[p].progress = checkpoint[p].progress
                               \/ Supported(p, checkpoint[p].progress)'
      BY <2>1
    <2>4. \A p \in Operation : executions'[p] # <<>> =>
              executions[p] # <<>> \/ (Active(c) /\ p = run[c].operation)
      BY <1>1, <2>1
    <2>5. CASE heard
      <3>1. /\ client'[c].call = None /\ client'[c].snapshot = snapshot
            /\ \A d \in Client \ {c} : client'[d] = client[d]
        BY <1>1, <2>1, <2>5, Returned DEF Answers
      <3>2. Arrives(c, "reading", run[c].successful)
        BY <1>1, <1>3, <2>5, GotoArrives DEF Points, Working
      <3>3. snapshot # None
        BY <2>1, NoneIsNoValue
      <3>4. Supported(o, snapshot.progress)'
        BY <1>1, <2>2, SupportGrows DEF WorkflowInv
      <3>5. MemoryIsSupported(c)'
        BY <2>2, <3>1, <3>4 DEF MemoryIsSupported, Supported
      <3>6. AtWork(c)'
        BY <1>1, <2>2, <3>1, <3>2, <3>3, <3>5, AtRest DEF Arrives, Working
      <3>7. Aware(c)'
        BY <1>1, <3>2, ArrivesAware, AwarenessStays
      <3>8. OthersRest(c) /\ Honest(c)'
        BY <1>1, <3>1, <3>2, StillHonest DEF OthersRest, Arrives
      <3> QED
        BY <1>1, <2>3, <2>4, <3>6, <3>7, <3>8, Keeps
    <2>6. CASE ~heard
      <3>1. Raises(c)
        BY <2>1, <2>6 DEF Answers
      <3>2. /\ client'[c].call = None /\ client'[c].snapshot = client[c].snapshot
            /\ \A d \in Client \ {c} : client'[d] = client[d]
        BY <1>1, <3>1, Raised
      <3>3. Ended(c, "raised")
        BY <1>1, <1>3, <2>6, CatchesEnds
      <3>4. MemoryIsSupported(c)'
        BY <1>1, <3>2, MemorySupported
      <3>5. Honest(c)'
        BY <3>3 DEF Honest, Ended
      <3> QED
        BY <1>1, <2>3, <2>4, <3>2, <3>3, <3>4, <3>5, KeepsEnding
    <2> QED
      BY <2>5, <2>6
  <1> QED
    BY <1>2, <1>3

LEMMA ClaimingKeeps ==
    ASSUME WorkflowInv, StoreInv', NEW c \in Client, Claiming(c)
    PROVE  WorkflowInv'
  <1>1. CASE /\ ClaimReads(c)
             /\ IF Busy(c) THEN Ends(c, "raised") ELSE UNCHANGED run
    BY <1>1, ClaimReadsKeeps DEF Claiming
  <1>2. ASSUME NEW heard \in BOOLEAN, ClaimWrites(c, heard),
               Stands(c) => IF heard THEN Goto(c, "reading") ELSE Catches(c),
               ~Stands(c) => IF client[c].call.seen.version > 0 THEN Ends(c, "raised")
                                                                ELSE UNCHANGED run
        PROVE  WorkflowInv'
    BY <1>2, ClaimWritesKeeps DEF Claiming
  <1> QED
    BY <1>1, <1>2 DEF Claiming

LEMMA KeptIsSupported ==
    ASSUME NEW o \in Operation, NEW change \in Progress, NEW mine \in Progress,
           Supported(o, change), Supported(o, mine)
    PROVE  Supported(o, Kept(change, mine))
  <1>1. /\ Kept(change, mine).checkpoint_status = change.checkpoint_status
        /\ Kept(change, mine).external_reference \in
               {change.external_reference, mine.external_reference}
    BY DEF Kept, Progress
  <1> QED
    BY <1>1 DEF Supported

\* What a save commits for the job of a run.
LEMMA SaveIsSupported ==
    ASSUME WorkflowInv, NEW c \in Client, NEW heard \in BOOLEAN,
           SaveWrites(c, heard), Owns(c)
    PROVE  \E saved \in Snapshot :
               /\ saved.operation = run[c].operation
               /\ Supported(saved.operation, saved.progress)
               /\ \A p \in Operation \ {saved.operation} : checkpoint'[p] = checkpoint[p]
               /\ checkpoint'[saved.operation].progress = saved.progress
               /\ Answers(c, heard, saved)
               /\ executions' = executions
  <1>1. /\ StoreInv /\ StoreTypeOK /\ Calls(c, "save") /\ run[c].pc \in SavePoints
        /\ client[c].snapshot # None /\ client[c].snapshot.operation = run[c].operation
        /\ Supported(run[c].operation, client[c].call.change)
        /\ run[c].operation \in Operation /\ AtWork(c)
    BY CallsFrom, RunParts DEF SaveWrites, WorkflowInv, StoreInv
  <1> PICK mine \in Snapshot : mine = client[c].snapshot
    BY <1>1, ProcessParts
  <1> PICK change \in Progress : change = client[c].call.change
    BY <1>1, ProcessParts DEF Save
  <1>2. mine.progress \in Progress /\ Supported(run[c].operation, mine.progress)
    BY <1>1 DEF AtWork, Snapshot
  <1> DEFINE saved == [mine EXCEPT !.progress = Kept(change, mine.progress),
                                   !.version = mine.version + 1]
  <1>3. saved.progress = Kept(change, mine.progress)
    <2> DEFINE l == [mine EXCEPT !.progress = Kept(change, mine.progress)]
    <2>1. l \in Snapshot /\ l.progress = Kept(change, mine.progress)
      BY <1>2, KeptIsProgress DEF Snapshot
    <2> HIDE DEF l
    <2>2. [l EXCEPT !.version = mine.version + 1].progress = Kept(change, mine.progress)
      BY <2>1 DEF Snapshot
    <2> QED
      BY <2>2, Zenon DEF l
  <1>4. /\ saved \in Snapshot /\ saved.operation = mine.operation
        /\ \A p \in Operation \ {mine.operation} : checkpoint'[p] = checkpoint[p]
        /\ checkpoint'[mine.operation].progress = saved.progress
        /\ Answers(c, heard, saved) /\ executions' = executions
    BY <1>1, SaveCommits
  <1>5. Supported(run[c].operation, saved.progress)
    BY <1>1, <1>2, <1>3, KeptIsSupported
  <1> HIDE DEF saved
  <1> QED
    BY <1>1, <1>4, <1>5

\* The exception of a commit whose answer is lost.
LEMMA CatchingKeeps ==
    ASSUME WorkflowInv, StoreInv', Grows, NEW c \in Client, Catches(c),
           run[c].pc \in SavePoints \cup FinishPoints,
           client'[c].call = None, client'[c].snapshot = client[c].snapshot,
           \A d \in Client \ {c} : client'[d] = client[d],
           \A o \in Operation : \/ checkpoint'[o].progress = checkpoint[o].progress
                                \/ Supported(o, checkpoint[o].progress)',
           \A o \in Operation : executions'[o] # <<>> =>
               executions[o] # <<>> \/ (Active(c) /\ o = run[c].operation)
    PROVE  WorkflowInv'
  <1>1. WorkflowTypes /\ AtWork(c) /\ run[c].successful \in BOOLEAN /\ MemoryIsSupported(c)'
    BY RunParts, MemorySupported DEF WorkflowInv
  <1>2. CASE run[c].pc \in {"failing", "closing"}
    <2>1. Ended(c, "raised")
      BY <1>1, <1>2, CatchesEnds
    <2>2. Honest(c)'
      BY <2>1 DEF Ended, Honest
    <2> QED
      BY <1>1, <2>1, <2>2, KeepsEnding
  <1>3. CASE run[c].pc \notin {"failing", "closing"}
    <2>1. Arrives(c, "handling", run[c].successful)
      BY <1>1, <1>3, CatchesHandles DEF SavePoints, FinishPoints
    <2>2. client[c].snapshot # None /\ client[c].snapshot.operation = run[c].operation
      BY <1>1 DEF AtWork
    <2>3. Active(c) /\ "handling" \in Working
      BY DEF Active, Working, Calling, SavePoints, FinishPoints
    <2>4. AtWork(c)'
      BY <1>1, <2>1, <2>2, <2>3, AtRest DEF Arrives
    <2>5. Aware(c)'
      BY <1>1, <2>1, <2>3, ArrivesAware, AwarenessStays
    <2>6. OthersRest(c) /\ Honest(c)'
      BY <2>1, StillHonest DEF OthersRest, Arrives
    <2> QED
      BY <2>4, <2>5, <2>6, Keeps
  <1> QED
    BY <1>2, <1>3

\* Where the job goes on that has saved.
LEMMA SaveGoesOn ==
    ASSUME WorkflowInv, Grows, NEW c \in Client, run[c].pc \in SavePoints,
           UNCHANGED record, Goto(c, Resume[run[c].pc])
    PROVE  /\ Arrives(c, Resume[run[c].pc], run[c].successful)
           /\ Resume[run[c].pc] \in Working
           /\ Aware(c)'
  <1>1. WorkflowTypes /\ Aware(c) /\ run[c].successful \in BOOLEAN
    BY RunParts DEF WorkflowInv
  <1>2. /\ run[c].pc = "reconciling" => Resume[run[c].pc] = "deciding"
        /\ run[c].pc = "starting" => Resume[run[c].pc] = "executing"
        /\ run[c].pc = "recording" => Resume[run[c].pc] = "ending"
        /\ run[c].pc = "failing" => Resume[run[c].pc] = "reporting"
    BY DEF Resume
  <1> PICK pc : pc = Resume[run[c].pc]
    OBVIOUS
  <1>3. pc \in Working
    BY <1>2 DEF Working, SavePoints
  <1>4. Arrives(c, pc, run[c].successful)
    BY <1>1, <1>3, GotoArrives DEF Points
  <1>5. pc \in {"deciding", "ending"} => Observed(c)'
    BY <1>1, <1>2, <1>4 DEF Aware, Observed, Arrives, SavePoints
  <1>6. Active(c)
    BY DEF Active, SavePoints, Calling
  <1>7. pc \notin {"reconciling", "recording", "finishing"}
    BY <1>3 DEF Working
  <1>8. Aware(c)'
    BY <1>1, <1>4, <1>5, <1>6, <1>7, ArrivesAware, AwarenessStays
  <1> QED
    BY <1>3, <1>4, <1>8

LEMMA SavingKeeps ==
    ASSUME WorkflowInv, StoreInv', NEW c \in Client, Saving(c)
    PROVE  WorkflowInv'
  <1>1. PICK heard \in BOOLEAN :
            /\ SaveWrites(c, heard) /\ UNCHANGED record
            /\ Owns(c) => IF heard THEN Goto(c, Resume[run[c].pc]) ELSE Catches(c)
            /\ ~Owns(c) => Ends(c, "raised")
    BY DEF Saving
  <1>2. /\ StoreTypeOK /\ WorkflowTypes /\ Grows /\ run[c].pc \in SavePoints /\ Active(c)
        /\ run[c].operation \in Operation /\ run[c].successful \in BOOLEAN
        /\ client[c].snapshot # None /\ client[c].snapshot.operation = run[c].operation
    BY <1>1, RecordStays, CallsFrom, RunParts DEF SaveWrites, SavePoints, WorkflowInv, StoreInv
  <1>3. CASE ~Owns(c)
    <2>1. Raises(c) /\ UNCHANGED tables
      BY <1>1, <1>3 DEF SaveWrites, tables
    <2> QED
      BY <1>1, <1>2, <1>3, <2>1, Raised, RaiseKeeps
  <1>4. CASE Owns(c)
    <2> PICK saved \in Snapshot :
            /\ saved.operation = run[c].operation
            /\ Supported(saved.operation, saved.progress)
            /\ \A p \in Operation \ {saved.operation} : checkpoint'[p] = checkpoint[p]
            /\ checkpoint'[saved.operation].progress = saved.progress
            /\ Answers(c, heard, saved)
            /\ executions' = executions
      BY <1>1, <1>4, SaveIsSupported
    <2> PICK o \in Operation : o = saved.operation
      BY <1>2
    <2>1. Supported(o, saved.progress)'
      BY <1>2, SupportGrows DEF Supported
    <2>2. \A p \in Operation : \/ checkpoint'[p].progress = checkpoint[p].progress
                               \/ Supported(p, checkpoint[p].progress)'
      BY <2>1 DEF Supported
    <2>3. \A p \in Operation : executions'[p] # <<>> =>
              executions[p] # <<>> \/ (Active(c) /\ p = run[c].operation)
      OBVIOUS
    <2>4. CASE heard
      <3>1. /\ client'[c].call = None /\ client'[c].snapshot = saved
            /\ \A d \in Client \ {c} : client'[d] = client[d]
        BY <1>2, <2>4, Returned DEF Answers
      <3>2. PICK pc : pc = Resume[run[c].pc]
        OBVIOUS
      <3>3. Arrives(c, pc, run[c].successful) /\ pc \in Working /\ Aware(c)'
        BY <1>1, <1>2, <1>4, <2>4, <3>2, SaveGoesOn
      <3>4. saved # None
        BY NoneIsNoValue
      <3>5. MemoryIsSupported(c)'
        BY <2>1, <3>1 DEF MemoryIsSupported, Supported
      <3>6. AtWork(c)'
        BY <1>2, <3>1, <3>3, <3>4, <3>5, AtRest DEF Arrives
      <3>7. OthersRest(c) /\ Honest(c)'
        BY <1>2, <3>1, <3>3, StillHonest DEF OthersRest, Arrives
      <3> QED
        BY <1>2, <2>2, <2>3, <3>3, <3>6, <3>7, Keeps
    <2>5. CASE ~heard
      <3>1. Raises(c) /\ Catches(c)
        BY <1>1, <1>4, <2>5 DEF Answers
      <3>2. /\ client'[c].call = None /\ client'[c].snapshot = client[c].snapshot
            /\ \A d \in Client \ {c} : client'[d] = client[d]
        BY <1>2, <3>1, Raised
      <3>3. MemoryIsSupported(c)'
        BY <1>2, <3>2, MemorySupported
      <3> QED
        BY <1>2, <2>2, <2>3, <3>1, <3>2, <3>3, CatchingKeeps
    <2> QED
      BY <2>4, <2>5
  <1> QED
    BY <1>3, <1>4

\* A run launches its next job when the ones before it are done.
LEMMA KeepsLaunching ==
    ASSUME WorkflowInv, StoreInv', Grows, NEW c \in Client, NEW o \in Operation,
           Launches(c, o), run[c].successful,
           o # "apm-validation" => Done("apm-validation"),
           o = "app-factory-validation" => Done("ad-provisioning"),
           client'[c].call = None, client'[c].snapshot = client[c].snapshot,
           \A d \in Client \ {c} : client'[d] = client[d],
           \A p \in Operation : \/ checkpoint'[p].progress = checkpoint[p].progress
                                \/ Supported(p, checkpoint[p].progress)',
           \A p \in Operation : executions'[p] # <<>> =>
               executions[p] # <<>> \/ (Active(c) /\ p = run[c].operation)
    PROVE  WorkflowInv'
  <1>1. MemoryIsSupported(c)'
    BY MemorySupported
  <1>2. AtWork(c)'
    BY <1>1, AtRest DEF Launches, Working
  <1>3. {"apm-validation", "ad-provisioning"} \subseteq Operation
    BY DEF Operation
  <1>4. /\ o # "apm-validation" => Done("apm-validation")'
        /\ o = "app-factory-validation" => Done("ad-provisioning")'
    BY <1>3 DEF Done, Grows
  <1>5. Aware(c)'
    BY <1>4 DEF Aware, Launches
  <1>6. OthersRest(c) /\ Honest(c)'
    BY HonestyStays DEF OthersRest, Launches
  <1> QED
    BY <1>2, <1>5, <1>6, Keeps

\* A run goes on, or ends, by what it knows to be recorded.
LEMMA ProceedingKeeps ==
    ASSUME WorkflowInv, StoreInv', UNCHANGED record, NEW c \in Client,
           run[c].pc = "finishing",
           Proceeds(c, client[c].snapshot.progress.checkpoint_status),
           client'[c].call = None, client'[c].snapshot = client[c].snapshot,
           \A d \in Client \ {c} : client'[d] = client[d],
           \A p \in Operation : \/ checkpoint'[p].progress = checkpoint[p].progress
                                \/ Supported(p, checkpoint[p].progress)',
           \A p \in Operation : executions'[p] # <<>> =>
               executions[p] # <<>> \/ (Active(c) /\ p = run[c].operation)
    PROVE  WorkflowInv'
  <1> PICK o \in Operation : o = run[c].operation
    BY RunParts DEF WorkflowInv
  <1> PICK status : status = client[c].snapshot.progress.checkpoint_status
    OBVIOUS
  <1>1. /\ Grows /\ WorkflowTypes /\ Aware(c) /\ AtWork(c) /\ Active(c) /\ RecordsFit
        /\ run[c].successful \in BOOLEAN /\ run[c].polls \in Nat
        /\ MemoryIsSupported(c)'
    BY RecordStays, RunParts, MemorySupported
    DEF WorkflowInv, WorkflowTypes, Active, Calling
  <1>2. record[o] # None /\ run[c].successful = record[o].successful
    BY <1>1 DEF Aware, Observed
  <1>3. status = "COMPLETED" => record[o].status = "COMPLETED"
    BY <1>1 DEF AtWork, FinishPoints, Supported
  <1>4. o # "apm-validation" => Done("apm-validation")
    BY <1>1 DEF Aware
  <1>5. o = "app-factory-validation" => Done("ad-provisioning")
    BY <1>1 DEF Aware
  <1>6. run[c].successful /\ (o = "ad-provisioning" => status = "COMPLETED") => Done(o)
    BY <1>1, <1>2, <1>3 DEF Done, RecordsFit
  <1>7. record' = record
    OBVIOUS
  <1>8. ASSUME NEW outcome \in {"WAITING", "BUSINESS_ERROR", "COMPLETED"}, Ends(c, outcome),
               outcome = "WAITING" => o = "ad-provisioning",
               outcome = "BUSINESS_ERROR" => ~run[c].successful,
               outcome = "COMPLETED" => o = "app-factory-validation" /\ run[c].successful
        PROVE  WorkflowInv'
    <2>1. Ended(c, outcome)
      BY <1>1, <1>8, EndsIsEnded DEF Outcome
    <2>2. Operation = {"apm-validation", "ad-provisioning", "app-factory-validation"}
      BY DEF Operation
    <2>3. outcome = "COMPLETED" => \A p \in Operation : Done(p)
      BY <1>4, <1>5, <1>6, <1>8, <2>2
    <2>4. outcome = "BUSINESS_ERROR" =>
              \E p \in Operation : record[p] # None /\ ~record[p].successful
      BY <1>2, <1>8
    <2>5. Honest(c)'
      BY <1>2, <1>7, <1>8, <2>1, <2>3, <2>4 DEF Honest, Ended, Done
    <2> QED
      BY <1>1, <2>1, <2>5, KeepsEnding
  <1>9. ASSUME NEW p \in Operation, NEW mode \in Mode, NEW polls \in Nat,
               Launching(c, p, mode, polls), run[c].successful,
               p # "apm-validation" => Done("apm-validation"),
               p = "app-factory-validation" => Done("ad-provisioning")
        PROVE  WorkflowInv'
    <2>1. Launches(c, p)
      BY <1>1, <1>9, LaunchingLaunches
    <2> QED
      BY <1>1, <1>9, <2>1, KeepsLaunching
  <1>10. CASE o = "ad-provisioning" /\ run[c].polls = 0 /\ status # "COMPLETED"
    BY <1>8, <1>10 DEF Proceeds
  <1>11. CASE ~run[c].successful
    <2>1. ~(o = "ad-provisioning" /\ run[c].polls = 0 /\ status # "COMPLETED")
              => Ends(c, "BUSINESS_ERROR")
      BY <1>11 DEF Proceeds
    <2> QED
      BY <1>8, <1>10, <1>11, <2>1
  <1>12. CASE run[c].successful /\ o = "apm-validation"
    <2>1. Launching(c, "ad-provisioning", "submit", MaxPolls[c])
      BY <1>12 DEF Proceeds
    <2>2. "ad-provisioning" \in Operation /\ "submit" \in Mode /\ MaxPolls[c] \in Nat
      BY LocalPollAssumption DEF Operation, Mode
    <2> QED
      BY <1>6, <1>9, <1>12, <2>1, <2>2
  <1>13. CASE run[c].successful /\ o = "app-factory-validation"
    <2>1. Ends(c, "COMPLETED")
      BY <1>13 DEF Proceeds
    <2> QED
      BY <1>8, <1>13, <2>1
  <1>14. CASE run[c].successful /\ o = "ad-provisioning" /\ status = "COMPLETED"
    <2>1. Launching(c, "app-factory-validation", "resume", 0)
      BY <1>14 DEF Proceeds
    <2>2. "app-factory-validation" \in Operation /\ "resume" \in Mode /\ 0 \in Nat
      BY DEF Operation, Mode
    <2> QED
      BY <1>4, <1>6, <1>9, <1>14, <2>1, <2>2
  <1>15. CASE run[c].successful /\ o = "ad-provisioning" /\ status # "COMPLETED"
              /\ run[c].polls # 0
    <2>1. Launching(c, "ad-provisioning", "poll", run[c].polls - 1)
      BY <1>15 DEF Proceeds
    <2>2. "poll" \in Mode /\ run[c].polls - 1 \in Nat
      BY <1>1, <1>15 DEF Mode
    <2> QED
      BY <1>4, <1>9, <1>15, <2>1, <2>2
  <1> QED
    BY <1>10, <1>11, <1>12, <1>13, <1>14, <1>15 DEF Operation

LEMMA FinishingKeeps ==
    ASSUME WorkflowInv, StoreInv', NEW c \in Client, Finishing(c)
    PROVE  WorkflowInv'
  <1>1. /\ FinishWrites(c) /\ Raises(c) /\ UNCHANGED record
        /\ \/ Owns(c) /\ Catches(c)
           \/ (~Owns(c) \/ run[c].pc = "closing") /\ Ends(c, "raised")
           \/ /\ Owns(c) /\ run[c].pc # "closing"
              /\ Proceeds(c, client[c].snapshot.progress.checkpoint_status)
    BY DEF Finishing, FinishWrites
  <1>2. /\ StoreInv /\ StoreTypeOK /\ WorkflowTypes /\ Grows /\ run[c].pc \in FinishPoints
        /\ Active(c)
    BY <1>1, RecordStays, CallsFrom DEF FinishWrites, FinishPoints, WorkflowInv, StoreInv
  <1>3. /\ client'[c].call = None /\ client'[c].snapshot = client[c].snapshot
        /\ \A d \in Client \ {c} : client'[d] = client[d]
    BY <1>1, <1>2, Raised
  <1>4. CASE ~Owns(c)
    <2>1. UNCHANGED tables
      BY <1>1, <1>4 DEF FinishWrites, tables
    <2> QED
      BY <1>1, <1>3, <1>4, <2>1, RaiseKeeps
  <1>5. CASE Owns(c)
    <2> PICK o \in Operation : o = client[c].snapshot.operation
      BY <1>1, <1>2, <1>5, OwnerRemembers DEF FinishWrites
    <2>1. /\ \A p \in Operation \ {o} : checkpoint'[p] = checkpoint[p]
          /\ checkpoint'[o].progress = checkpoint[o].progress
          /\ \A p \in Operation \ {o} : executions'[p] = executions[p]
          /\ executions' \in [Operation -> Seq(ExecutionResult)]
          /\ Len(executions'[o]) = Len(executions[o])
      BY <1>1, <1>2, <1>5, FinishCommits
    <2>2. \A p \in Operation : \/ checkpoint'[p].progress = checkpoint[p].progress
                               \/ Supported(p, checkpoint[p].progress)'
      BY <2>1
    <2>3. executions'[o] # <<>> => executions[o] # <<>>
      <3>1. executions[o] \in Seq(ExecutionResult) /\ executions'[o] \in Seq(ExecutionResult)
        BY <1>2, <2>1 DEF StoreTypeOK
      <3>2. executions[o] = <<>> => Len(executions[o]) = 0
        OBVIOUS
      <3>3. Len(executions'[o]) = 0 => executions'[o] = <<>>
        BY <3>1
      <3> QED
        BY <2>1, <3>2, <3>3
    <2>4. \A p \in Operation : executions'[p] # <<>> =>
              executions[p] # <<>> \/ (Active(c) /\ p = run[c].operation)
      BY <2>1, <2>3
    <2>5. CASE Catches(c)
      BY <1>2, <1>3, <2>2, <2>4, <2>5, CatchingKeeps
    <2>6. CASE Ends(c, "raised")
      <3>1. Ended(c, "raised") /\ MemoryIsSupported(c)'
        BY <1>2, <1>3, <2>6, EndsIsEnded, MemorySupported DEF Outcome
      <3>2. Honest(c)'
        BY <3>1 DEF Honest, Ended
      <3> QED
        BY <1>2, <1>3, <2>2, <2>4, <3>1, <3>2, KeepsEnding
    <2>7. CASE /\ run[c].pc # "closing"
               /\ Proceeds(c, client[c].snapshot.progress.checkpoint_status)
      <3>1. run[c].pc = "finishing"
        BY <1>2, <2>7 DEF FinishPoints
      <3> QED
        BY <1>1, <1>3, <2>2, <2>4, <2>7, <3>1, ProceedingKeeps
    <2> QED
      BY <1>1, <1>5, <2>5, <2>6, <2>7
  <1> QED
    BY <1>4, <1>5

-----------------------------------------------------------------------------
(* Faults, the clock and the whole step                                    *)

LEMMA RefusedKeeps ==
    ASSUME WorkflowInv, StoreInv', NEW c \in Client, Refused(c)
    PROVE  WorkflowInv'
  <1>1. StoreTypeOK /\ Catches(c) /\ UNCHANGED record
    BY DEF Refused, WorkflowInv, StoreInv
  <1>2. CASE CallFails(c)
    <2>1. client[c].call # None /\ Raises(c) /\ UNCHANGED tables
      BY <1>2 DEF CallFails
    <2>2. Calls(c, "claim") \/ Calls(c, "save") \/ Calls(c, "finish")
      <3>1. client[c].call \in Claim \cup Save \cup Finish
        BY <1>1, <2>1, ProcessParts
      <3> QED
        BY <2>1, <3>1 DEF Calls, Claim, Save, Finish
    <2>3. run[c].pc \in SavePoints \cup FinishPoints \cup {"claiming"}
      BY <2>2, CallsFrom
    <2> QED
      BY <1>1, <2>1, <2>3, Raised, CatchesKeeps
  <1>3. CASE run[c].pc \in {"reading", "executing"} /\ UNCHANGED storeVars
    <2>1. client' = client /\ UNCHANGED tables
      BY <1>3 DEF storeVars, tables
    <2>2. run[c].pc \in Working
      BY <1>3 DEF Working
    <2>3. client[c].call = None
      BY <2>2, Remembering
    <2> QED
      BY <1>1, <2>1, <2>2, <2>3, CatchesKeeps
  <1> QED
    BY <1>2, <1>3 DEF Refused

LEMMA KilledKeeps ==
    ASSUME WorkflowInv, StoreInv', NEW c \in Client, Killed(c)
    PROVE  WorkflowInv'
  <1>1. StoreTypeOK /\ Ends(c, "raised") /\ UNCHANGED record
    BY DEF Killed, WorkflowInv, StoreInv
  <1>2. CASE client[c].call # None
    <2>1. Raises(c) /\ UNCHANGED tables
      BY <1>2 DEF Killed, CallFails
    <2> QED
      BY <1>1, <2>1, Raised, RaiseKeeps
  <1>3. CASE client[c].call = None
    <2>1. client' = client /\ UNCHANGED tables
      BY <1>3 DEF Killed, storeVars, tables
    <2> QED
      BY <1>1, <1>3, <2>1, RaiseKeeps
  <1> QED
    BY <1>2, <1>3

\* A step that only the clock takes, or none.
LEMMA RestKeeps ==
    ASSUME WorkflowInv, StoreInv', UNCHANGED <<record, run, client, tables>>
    PROVE  WorkflowInv'
  <1>1. Grows /\ run \in [Client -> Run]
    BY RecordStays DEF WorkflowInv, WorkflowTypes
  <1>2. WorkflowTypes'
    BY <1>1 DEF WorkflowTypes, Grows
  <1>3. checkpoint' = checkpoint /\ executions' = executions
    BY DEF tables
  <1>4. \A o \in Operation : Supported(o, checkpoint[o].progress)'
    BY <1>1, <1>3, SupportGrows DEF WorkflowInv, Supported
  <1>5. \A c \in Client : (AtWork(c) /\ Aware(c))'
    BY <1>1, OthersAtWork
  <1>6. JobsInOrder' /\ OutcomeIsHonest'
    BY <1>3 DEF WorkflowInv, JobsInOrder, OutcomeIsHonest
  <1> QED
    BY <1>2, <1>4, <1>5, <1>6 DEF WorkflowInv

LEMMA WorkflowBegins == WorkflowInit => WorkflowInv
  <1> SUFFICES ASSUME WorkflowInit PROVE WorkflowInv
    OBVIOUS
  <1>1. StoreInv /\ StoreInit
    BY InitHasInv DEF WorkflowInit
  <1>2. \A c \in Client : run[c] = FirstJob(c)
    BY DEF WorkflowInit
  <1>3. \A c \in Client : FirstJob(c) \in Run
    BY LocalPollAssumption DEF FirstJob, Run, Operation, Mode
  <1>4. ASSUME NEW c \in Client
        PROVE  /\ run[c].pc = "launching" /\ run[c].operation = "apm-validation"
               /\ run[c].successful /\ run[c].outcome = None
    <2>1. run[c] = FirstJob(c)
      BY <1>2
    <2>2. /\ FirstJob(c).pc = "launching" /\ FirstJob(c).operation = "apm-validation"
          /\ FirstJob(c).successful /\ FirstJob(c).outcome = None
      BY DEF FirstJob
    <2> QED
      BY <2>1, <2>2
  <1>5. WorkflowTypes
    BY <1>3 DEF WorkflowInit, WorkflowTypes, RecordsFit
  <1>6. \A o \in Operation : Supported(o, checkpoint[o].progress)
    BY <1>1 DEF StoreInit, InitialProgress, Supported
  <1>7. \A c \in Client : AtWork(c)
    BY <1>1, <1>4 DEF StoreInit, AtWork, SavePoints, FinishPoints, Working
  <1>8. \A c \in Client : Aware(c)
    BY <1>4 DEF Aware
  <1>9. JobsInOrder
    BY <1>1 DEF StoreInit, JobsInOrder, Operation
  <1>10. OutcomeIsHonest
    BY <1>4, NothingAssumption DEF OutcomeIsHonest, Outcome
  <1> QED
    BY <1>1, <1>5, <1>6, <1>7, <1>8, <1>9, <1>10 DEF WorkflowInv

LEMMA WorkflowNextKeeps == WorkflowInv /\ [WorkflowNext]_workflowVars => WorkflowInv'
  <1> SUFFICES ASSUME WorkflowInv, [WorkflowNext]_workflowVars PROVE WorkflowInv'
    OBVIOUS
  <1>1. StoreInv'
    <2>1. StoreTypeOK /\ WorkflowTypes
      BY DEF WorkflowInv, StoreInv
    <2>2. [StoreNext]_storeVars
      BY <2>1, StepUsesStore
    <2> QED
      BY <2>2, NextKeepsInv DEF WorkflowInv
  <1>2. ASSUME NEW c \in Client, Work(c) PROVE WorkflowInv'
    BY <1>1, <1>2, LaunchKeeps, ReadKeeps, DecideKeeps, ExecuteKeeps, FinishKeeps, HandleKeeps,
       ClaimingKeeps, SavingKeeps, FinishingKeeps DEF Work
  <1>3. ASSUME NEW c \in Client, Refused(c) \/ Unanswered(c) \/ Killed(c) PROVE WorkflowInv'
    BY <1>1, <1>3, RefusedKeeps, UnansweredKeeps, KilledKeeps
  <1>4. CASE WorkflowTick
    BY <1>1, <1>4, RestKeeps DEF WorkflowTick, StoreTick
  <1>5. CASE UNCHANGED workflowVars
    BY <1>1, <1>5, RestKeeps DEF workflowVars, storeVars, tables
  <1> QED
    BY <1>2, <1>3, <1>4, <1>5 DEF WorkflowNext

LEMMA WorkflowInvHolds == WorkflowSpec => []WorkflowInv
  <1> QED
    BY WorkflowBegins, WorkflowNextKeeps, PTL DEF WorkflowSpec

-----------------------------------------------------------------------------
(* The polls of bounded runs                                               *)

\* A run at the job of one of its polls.
Polling(c) == run[c].operation = "ad-provisioning" /\ run[c].mode = "poll"

\* The job has polled and found the request pending.
FoundPending(c) ==
    \/ run[c].pc = "recording" /\ client[c].call.change.checkpoint_status # "COMPLETED"
    \/ /\ run[c].pc \in {"ending", "finishing"}
       /\ client[c].snapshot.progress.checkpoint_status # "COMPLETED"

\* How many polls of run c have certainly found the request pending.
Made(c) ==
    IF run[c].outcome = "WAITING" THEN MaxPolls[c]
    ELSE IF ~Polling(c) THEN 0
    ELSE IF FoundPending(c) THEN MaxPolls[c] - run[c].polls
    ELSE MaxPolls[c] - run[c].polls - 1

PollsMade == {p \in Client \X Nat : 1 <= p[2] /\ p[2] <= Made(p[1])}

\* A run counts its polls down, and a job that polls has a request to poll.
Paced(c) ==
    /\ run[c].outcome # None => run[c].pc = "ended"
    /\ run[c].operation = "ad-provisioning" =>
           \/ run[c].mode = "submit" /\ run[c].polls = MaxPolls[c]
           \/ run[c].mode = "poll" /\ run[c].polls < MaxPolls[c]
    /\ Polling(c) => /\ run[c].pc # "starting"
                     /\ run[c].pc = "executing" => Polls(c)

\* How often the business has been asked for the request.
Observations ==
    IF record["ad-provisioning"] = None THEN 0 ELSE record["ad-provisioning"].observations

PollsInv ==
    /\ WorkflowInv
    /\ \A c \in Client : Paced(c)
    /\ IsFiniteSet(PollsMade) /\ Cardinality(PollsMade) <= Observations

LEMMA MadeIsCount ==
    ASSUME WorkflowInv, NEW c \in Client, Paced(c)
    PROVE  Made(c) \in Nat /\ MaxPolls[c] \in Nat \ {0} /\ run[c].polls \in Nat
  <1>1. MaxPolls[c] \in Nat \ {0} /\ run[c].polls \in Nat
    BY LocalPollAssumption, RunParts DEF WorkflowInv
  <1>2. Polling(c) => run[c].polls < MaxPolls[c]
    BY DEF Paced, Polling
  <1> QED
    BY <1>1, <1>2 DEF Made

LEMMA ObservationsAreCount ==
    ASSUME NEW r, r["ad-provisioning"] \in Business!Record \cup {None}
    PROVE  (IF r["ad-provisioning"] = None THEN 0 ELSE r["ad-provisioning"].observations) \in Nat
  BY DEF Business!Record

\* What a step of c may do to the count: one more poll, if it is observed.
Tallies(c) ==
    /\ \A d \in Client \ {c} : run'[d] = run[d] /\ client'[d] = client[d]
    /\ Paced(c)'
    /\ Observations <= Observations'
    /\ \/ Made(c)' <= Made(c)
       \/ Made(c)' = Made(c) + 1 /\ Observations' = Observations + 1

LEMMA OneMore ==
    ASSUME NEW S, NEW x, NEW T, IsFiniteSet(S), T \subseteq S \cup {x}
    PROVE  IsFiniteSet(T) /\ Cardinality(T) \in Nat /\ Cardinality(T) <= Cardinality(S) + 1
  <1>1. PICK U : U = S \cup {x}
    OBVIOUS
  <1>2. IsFiniteSet(U) /\ Cardinality(U) = IF x \in S THEN Cardinality(S) ELSE Cardinality(S) + 1
    BY <1>1, FS_AddElement, Zenon
  <1>3. Cardinality(S) \in Nat
    BY FS_CardinalityType
  <1>4. T \subseteq U
    BY <1>1
  <1>5. IsFiniteSet(T) /\ Cardinality(T) <= Cardinality(U)
    BY <1>2, <1>4, FS_Subset
  <1>6. Cardinality(T) \in Nat
    BY <1>5, FS_CardinalityType
  <1> QED
    BY <1>2, <1>3, <1>5, <1>6

LEMMA TallyKeeps ==
    ASSUME PollsInv, WorkflowInv', NEW c \in Client, Tallies(c)
    PROVE  PollsInv'
  <1>1. \A d \in Client : Paced(d)'
    BY DEF PollsInv, Tallies, Paced, Polling, Polls
  <1>2. ASSUME NEW d \in Client PROVE Made(d) \in Nat /\ Made(d)' \in Nat
    BY <1>1, MadeIsCount, LocalPollAssumption, RunParts
    DEF PollsInv, Made, Paced, Polling, WorkflowInv, WorkflowTypes, Run
  <1>3. \A d \in Client \ {c} : Made(d)' = Made(d)
    BY DEF Tallies, Made, Polling, FoundPending
  <1>4. Observations \in Nat /\ Observations' \in Nat
    <2>1. /\ record["ad-provisioning"] \in Business!Record \cup {None}
          /\ record'["ad-provisioning"] \in Business!Record \cup {None}
      BY DEF PollsInv, WorkflowInv, WorkflowTypes, RecordsFit, Operation
    <2> QED
      BY <2>1, ObservationsAreCount DEF Observations
  <1>5. CASE Made(c)' <= Made(c)
    <2>1. PollsMade' \subseteq PollsMade
      BY <1>2, <1>3, <1>5 DEF PollsMade
    <2>2. IsFiniteSet(PollsMade') /\ Cardinality(PollsMade') <= Cardinality(PollsMade)
      BY <2>1, FS_Subset DEF PollsInv
    <2>3. Cardinality(PollsMade') \in Nat /\ Cardinality(PollsMade) \in Nat
      BY <2>2, FS_CardinalityType DEF PollsInv
    <2> QED
      BY <1>1, <1>4, <2>2, <2>3 DEF PollsInv, Tallies
  <1>6. CASE Made(c)' = Made(c) + 1 /\ Observations' = Observations + 1
    <2> PICK p : p = <<c, Made(c) + 1>>
      OBVIOUS
    <2>1. PollsMade' \subseteq PollsMade \cup {p}
      BY <1>2, <1>3, <1>6 DEF PollsMade
    <2>2. /\ IsFiniteSet(PollsMade') /\ Cardinality(PollsMade') \in Nat
          /\ Cardinality(PollsMade') <= Cardinality(PollsMade) + 1
      BY <2>1, OneMore, Zenon DEF PollsInv
    <2>3. Cardinality(PollsMade) \in Nat
      BY FS_CardinalityType DEF PollsInv
    <2> QED
      BY <1>1, <1>4, <1>6, <2>2, <2>3 DEF PollsInv
  <1> QED
    BY <1>5, <1>6 DEF Tallies

\* The gateway counts what it is asked.
LEMMA PerformObserves ==
    ASSUME WorkflowInv, NEW c \in Client, Perform(c)
    PROVE  /\ Observations <= Observations'
           /\ run[c].operation = "ad-provisioning" /\ Polls(c) =>
                  \/ record'["ad-provisioning"].status = "COMPLETED"
                  \/ Observations' = Observations + 1
  <1> DEFINE ad == "ad-provisioning"
  <1>1. /\ run[c].operation \in Operation /\ ad \in Operation /\ RecordsFit
        /\ Observations \in Nat /\ record \in [Operation -> Business!Record \cup {None}]
    <2>1. /\ run[c].operation \in Operation /\ ad \in Operation /\ RecordsFit
          /\ record \in [Operation -> Business!Record \cup {None}]
      BY RunParts DEF WorkflowInv, WorkflowTypes, RecordsFit, Operation
    <2> QED
      BY <2>1, ObservationsAreCount DEF Observations
  <1>2. CASE /\ UNCHANGED record
             /\ run[c].operation = ad /\ Polls(c) => record[ad].status = "COMPLETED"
    BY <1>1, <1>2 DEF Observations
  <1>3. ASSUME NEW o \in Operation \ {ad}, NEW status, NEW successful, NEW n,
               Business!Recorded(o, status, successful, n), run[c].operation = o
        PROVE  record'[ad] = record[ad]
    BY <1>1, <1>3 DEF Business!Recorded
  <1>4. ASSUME NEW status, NEW successful, NEW n \in Nat,
               Business!Recorded(ad, status, successful, n),
               status \in {"WAITING", "COMPLETED"}, successful \in BOOLEAN
        PROVE  record'[ad].status = status /\ Observations' = n
    <2>1. PICK r : r = [status |-> status, successful |-> successful, observations |-> n]
      OBVIOUS
    <2>2. record' = [record EXCEPT ![ad] = r]
      BY <1>4, <2>1 DEF Business!Recorded
    <2>3. r \in Business!Record /\ r.status = status /\ r.observations = n
      BY <1>4, <2>1 DEF Business!Record
    <2>4. r # None
      BY <2>3, NothingAssumption
    <2> QED
      BY <1>1, <2>2, <2>3, <2>4 DEF Observations
  <1>5. CASE ~(record[run[c].operation] # None
               /\ (Polls(c) => record[run[c].operation].status = "COMPLETED"))
    <2>1. CASE run[c].operation = "apm-validation"
      <3>1. Business!Recorded("apm-validation", "COMPLETED", TRUE, 0)
        BY <1>5, <2>1 DEF Perform, Polls, Business!ValidateApm
      <3>2. record'[ad] = record[ad]
        BY <1>1, <1>3, <2>1, <3>1
      <3> QED
        BY <1>1, <2>1, <3>2 DEF Observations
    <2>2. CASE run[c].operation = "app-factory-validation"
      <3>1. PICK ok : Business!Recorded("app-factory-validation", "COMPLETED", ok, 0)
        BY <1>5, <2>2 DEF Perform, Polls, Business!ValidateAppFactory
      <3>2. record'[ad] = record[ad]
        BY <1>1, <1>3, <2>2, <3>1
      <3> QED
        BY <1>1, <2>2, <3>2 DEF Observations
    <2>3. CASE run[c].operation = ad /\ Polls(c)
      <3>1. Business!PollAd
        BY <1>5, <2>3 DEF Perform
      <3>2. record[ad] # None /\ Observations = record[ad].observations
        BY <3>1 DEF Business!PollAd, Observations
      <3>3. \/ Business!Recorded(ad, "WAITING", TRUE, Observations + 1)
            \/ Business!Recorded(ad, "COMPLETED", TRUE, Observations + 1)
        BY <3>1, <3>2 DEF Business!PollAd
      <3>4. Observations' = Observations + 1
        <4>1. Observations + 1 \in Nat /\ TRUE \in BOOLEAN
          BY <1>1
        <4> QED
          BY <1>4, <3>3, <4>1
      <3> QED
        BY <1>1, <3>4
    <2>4. CASE run[c].operation = ad /\ ~Polls(c)
      <3>1. Business!SubmitAd
        BY <1>5, <2>4 DEF Perform
      <3>2. record[ad] = None /\ Business!Recorded(ad, "WAITING", TRUE, 0)
        BY <3>1 DEF Business!SubmitAd
      <3>3. Observations = 0 /\ Observations' = 0
        BY <1>4, <3>2 DEF Observations
      <3> QED
        BY <2>4, <3>3
    <2> QED
      BY <1>1, <2>1, <2>2, <2>3, <2>4 DEF Operation
  <1> QED
    BY <1>2, <1>5 DEF Perform

\* The run of c is at pc, at the same job and poll.
Moves(c, pc) ==
    /\ \A d \in Client \ {c} : run'[d] = run[d]
    /\ run'[c].pc = pc /\ run'[c].operation = run[c].operation
    /\ run'[c].mode = run[c].mode /\ run'[c].polls = run[c].polls
    /\ run'[c].outcome = run[c].outcome

LEMMA GotoMoves ==
    ASSUME WorkflowTypes, NEW c \in Client, NEW pc, Goto(c, pc)
    PROVE  Moves(c, pc)
  <1> DEFINE r == [run[c] EXCEPT !.pc = pc]
  <1>1. run' = [run EXCEPT ![c] = r] /\ run \in [Client -> Run] /\ run[c] \in Run
    BY DEF Goto, WorkflowTypes
  <1>2. /\ r.pc = pc /\ r.operation = run[c].operation /\ r.mode = run[c].mode
        /\ r.polls = run[c].polls /\ r.outcome = run[c].outcome
    BY <1>1 DEF Run
  <1> HIDE DEF r
  <1> QED
    BY <1>1, <1>2 DEF Moves

LEMMA GotoWithMoves ==
    ASSUME WorkflowTypes, NEW c \in Client, NEW pc, NEW ok,
           run' = [run EXCEPT ![c].pc = pc, ![c].successful = ok]
    PROVE  Moves(c, pc)
  <1> DEFINE l == [run[c] EXCEPT !.pc = pc]
             r == [l EXCEPT !.successful = ok]
             q == [run EXCEPT ![c] = l]
  <1>1. run \in [Client -> Run] /\ run[c] \in Run
    BY DEF WorkflowTypes
  <1>2. run' = [q EXCEPT ![c].successful = ok]
    BY Zenon
  <1>3. q[c] = l /\ \A d \in Client \ {c} : q[d] = run[d]
    BY <1>1
  <1>4. run' = [q EXCEPT ![c] = r]
    BY <1>2, <1>3
  <1>5. run'[c] = r /\ \A d \in Client \ {c} : run'[d] = run[d]
    BY <1>1, <1>3, <1>4
  <1>6. /\ l.pc = pc /\ l.operation = run[c].operation /\ l.mode = run[c].mode
        /\ l.polls = run[c].polls /\ l.outcome = run[c].outcome
        /\ DOMAIN l = DOMAIN run[c]
    BY <1>1 DEF Run
  <1> HIDE DEF l
  <1>7. /\ r.pc = pc /\ r.operation = run[c].operation /\ r.mode = run[c].mode
        /\ r.polls = run[c].polls /\ r.outcome = run[c].outcome
    BY <1>1, <1>6 DEF Run
  <1> HIDE DEF r
  <1> QED
    BY <1>5, <1>7 DEF Moves

LEMMA EndsOutright ==
    ASSUME WorkflowTypes, NEW c \in Client, NEW outcome, Ends(c, outcome)
    PROVE  /\ \A d \in Client \ {c} : run'[d] = run[d]
           /\ run'[c].pc = "ended" /\ run'[c].operation = "apm-validation"
           /\ run'[c].outcome = outcome
  <1> DEFINE r == [FirstJob(c) EXCEPT !.pc = "ended", !.outcome = outcome]
  <1>1. run' = [run EXCEPT ![c] = r] /\ run \in [Client -> Run]
    BY Zenon DEF Ends, WorkflowTypes
  <1>2. r.pc = "ended" /\ r.operation = "apm-validation" /\ r.outcome = outcome
    BY DEF FirstJob
  <1> HIDE DEF r
  <1> QED
    BY <1>1, <1>2

LEMMA LaunchingSets ==
    ASSUME WorkflowTypes, NEW c \in Client, NEW o, NEW mode, NEW polls,
           Launching(c, o, mode, polls)
    PROVE  /\ \A d \in Client \ {c} : run'[d] = run[d]
           /\ run'[c].pc = "launching" /\ run'[c].operation = o /\ run'[c].mode = mode
           /\ run'[c].polls = polls /\ run'[c].outcome = run[c].outcome
  <1> DEFINE r == [run[c] EXCEPT !.pc = "launching", !.operation = o, !.mode = mode,
                                 !.polls = polls]
  <1>1. run' = [run EXCEPT ![c] = r] /\ run \in [Client -> Run] /\ run[c] \in Run
    BY Zenon DEF Launching, WorkflowTypes
  <1>2. /\ r.pc = "launching" /\ r.operation = o /\ r.mode = mode /\ r.polls = polls
        /\ r.outcome = run[c].outcome
    BY <1>1 DEF Run
  <1> HIDE DEF r
  <1> QED
    BY <1>1, <1>2

\* A run that moves on without a poll does not count one.
LEMMA QuietTally ==
    ASSUME PollsInv, NEW c \in Client, NEW pc, Moves(c, pc), run[c].pc # "ended",
           pc \notin {"starting", "executing", "recording", "ending", "finishing"},
           Observations <= Observations',
           \A d \in Client \ {c} : client'[d] = client[d]
    PROVE  Tallies(c)
  <1>1. Paced(c) /\ Made(c) \in Nat /\ MaxPolls[c] \in Nat /\ run[c].polls \in Nat
    BY MadeIsCount DEF PollsInv
  <1>2. Paced(c)' /\ Made(c)' <= Made(c)
    BY <1>1 DEF Paced, Polling, Moves, Made, FoundPending
  <1> QED
    BY <1>2 DEF Tallies, Moves

LEMMA EndTally ==
    ASSUME PollsInv, NEW c \in Client, NEW outcome, Ends(c, outcome), outcome # "WAITING",
           Observations <= Observations',
           \A d \in Client \ {c} : client'[d] = client[d]
    PROVE  Tallies(c)
  <1>1. Made(c) \in Nat /\ WorkflowTypes
    BY MadeIsCount DEF PollsInv, WorkflowInv
  <1>2. /\ \A d \in Client \ {c} : run'[d] = run[d]
        /\ run'[c].pc = "ended" /\ run'[c].operation = "apm-validation"
        /\ run'[c].outcome = outcome
    BY <1>1, EndsOutright
  <1>3. Paced(c)' /\ Made(c)' = 0
    BY <1>2 DEF Paced, Polling, Made
  <1> QED
    BY <1>1, <1>2, <1>3 DEF Tallies

LEMMA CatchesTally ==
    ASSUME PollsInv, NEW c \in Client, Catches(c), run[c].pc # "ended",
           Observations <= Observations',
           \A d \in Client \ {c} : client'[d] = client[d]
    PROVE  Tallies(c)
  <1>1. CASE Ends(c, "raised")
    BY <1>1, EndTally
  <1>2. CASE Goto(c, "handling")
    BY <1>2, GotoMoves, QuietTally DEF PollsInv, WorkflowInv
  <1> QED
    BY <1>1, <1>2 DEF Catches

LEMMA SameObservations ==
    ASSUME WorkflowInv, UNCHANGED record
    PROVE  Observations <= Observations'
  <1>1. record["ad-provisioning"] \in Business!Record \cup {None}
    BY DEF WorkflowInv, WorkflowTypes, RecordsFit, Operation
  <1>2. Observations \in Nat
    BY <1>1, ObservationsAreCount DEF Observations
  <1> QED
    BY <1>2 DEF Observations

LEMMA MoveTally ==
    ASSUME PollsInv, NEW c \in Client, NEW pc, Moves(c, pc), run[c].pc # "ended",
           Observations <= Observations',
           \A d \in Client \ {c} : client'[d] = client[d],
           Polling(c) => pc # "starting" /\ (pc = "executing" => Polls(c)'),
           Polling(c) /\ FoundPending(c)' =>
               FoundPending(c) \/ Observations' = Observations + 1
    PROVE  Tallies(c)
  <1>1. Paced(c) /\ Made(c) \in Nat /\ MaxPolls[c] \in Nat /\ run[c].polls \in Nat
    BY MadeIsCount DEF PollsInv
  <1>2. Paced(c)' /\ (Polling(c)' <=> Polling(c))
    BY <1>1 DEF Paced, Polling, Moves
  <1>3. \/ Made(c)' <= Made(c)
        \/ Made(c)' = Made(c) + 1 /\ Observations' = Observations + 1
    <2>1. run[c].outcome # "WAITING" /\ run'[c].outcome # "WAITING"
          /\ run'[c].polls = run[c].polls
      BY <1>1, NothingAssumption DEF Paced, Moves, Outcome
    <2>2. CASE ~Polling(c)
      BY <1>2, <2>1, <2>2 DEF Made
    <2>3. CASE Polling(c)
      <3>1. Made(c) = MaxPolls[c] - run[c].polls - (IF FoundPending(c) THEN 0 ELSE 1)
        BY <1>1, <2>1, <2>3 DEF Made
      <3>2. Made(c)' = MaxPolls[c] - run[c].polls - (IF FoundPending(c)' THEN 0 ELSE 1)
        BY <1>1, <1>2, <2>1, <2>3 DEF Made
      <3> QED
        BY <1>1, <2>3, <3>1, <3>2
    <2> QED
      BY <2>2, <2>3
  <1> QED
    BY <1>2, <1>3 DEF Tallies, Moves

LEMMA LaunchTallies ==
    ASSUME PollsInv, NEW c \in Client, Launch(c) \/ Handle(c) \/ Report(c) \/ Conclude(c)
    PROVE  Tallies(c)
  <1>1. /\ WorkflowTypes /\ Observations <= Observations'
        /\ run[c].pc \in {"launching", "handling", "reporting", "ending"}
        /\ client \in [Client -> Process] /\ StoreTypeOK
    BY SameObservations
    DEF Launch, Handle, Report, Conclude, PollsInv, WorkflowInv, StoreInv, StoreTypeOK
  <1>2. \A d \in Client \ {c} : client'[d] = client[d]
    BY <1>1 DEF Launch, Handle, Report, Conclude, SavesFrom, BeginClaim, BeginSave, BeginFinish,
                Begins
  <1>3. CASE Launch(c) \/ Handle(c) \/ Report(c)
    <2>1. \E pc \in {"claiming", "failing", "closing"} : Goto(c, pc)
      BY <1>3 DEF Launch, Handle, Report, SavesFrom
    <2> QED
      BY <1>1, <1>2, <2>1, GotoMoves, QuietTally
  <1>4. CASE Conclude(c)
    <2>1. Moves(c, "finishing") /\ run[c].pc = "ending"
      BY <1>1, <1>4, GotoMoves DEF Conclude
    <2>2. client'[c].snapshot = client[c].snapshot
      BY <1>1, <1>4 DEF Conclude, BeginFinish, Begins, Process
    <2>3. FoundPending(c)' => FoundPending(c)
      BY <2>1, <2>2 DEF FoundPending, Moves
    <2> QED
      BY <1>1, <1>2, <2>1, <2>3, MoveTally
  <1> QED
    BY <1>3, <1>4

LEMMA ReadTallies ==
    ASSUME PollsInv, NEW c \in Client, Read(c)
    PROVE  Tallies(c)
  <1>1. /\ WorkflowTypes /\ Observations <= Observations'
        /\ run[c].pc = "reading" /\ client \in [Client -> Process]
    BY SameObservations DEF Read, PollsInv, WorkflowInv, StoreInv, StoreTypeOK
  <1>2. \A d \in Client \ {c} : client'[d] = client[d]
    BY <1>1 DEF Read, BeginSave, Begins, storeVars
  <1>3. \E next \in {"reconciling", "handling", "deciding"} : \E ok :
            run' = [run EXCEPT ![c].pc = next, ![c].successful = ok]
    <2> DEFINE o == run[c].operation
               found == record[o]
               progress == client[c].snapshot.progress
    <2>1. PICK next : next = IF found # None /\ ProgressOf(o, found) # progress
                             THEN "reconciling"
                             ELSE IF found = None /\ progress.checkpoint_status = "COMPLETED"
                             THEN "handling" ELSE "deciding"
      OBVIOUS
    <2>2. PICK ok : ok = (found = None \/ found.successful)
      OBVIOUS
    <2>3. run' = [run EXCEPT ![c].pc = next, ![c].successful = ok]
      BY <2>1, <2>2, Zenon DEF Read
    <2>4. next \in {"reconciling", "handling", "deciding"}
      BY <2>1
    <2> QED
      BY <2>3, <2>4
  <1> QED
    BY <1>1, <1>2, <1>3, GotoWithMoves, QuietTally

LEMMA DecideTallies ==
    ASSUME PollsInv, NEW c \in Client, Decide(c)
    PROVE  Tallies(c)
  <1>1. /\ WorkflowTypes /\ Observations <= Observations'
        /\ run[c].pc = "deciding" /\ client \in [Client -> Process]
    BY SameObservations DEF Decide, PollsInv, WorkflowInv, StoreInv, StoreTypeOK
  <1>2. \A d \in Client \ {c} : client'[d] = client[d]
    BY <1>1 DEF Decide, SavesFrom, BeginSave, Begins, storeVars
  <1>3. PICK progress : progress = client[c].snapshot.progress
    OBVIOUS
  <1>4. \/ Goto(c, "starting") /\ ~Polling(c)
        \/ Goto(c, "handling")
        \/ /\ Goto(c, "ending") /\ UNCHANGED storeVars
           /\ progress.checkpoint_status = "COMPLETED" \/ ~Polling(c)
        \/ /\ Goto(c, "executing") /\ UNCHANGED storeVars
           /\ Polling(c) => Polls(c)
    BY <1>3 DEF Decide, SavesFrom, Polling, Polls
  <1>5. ASSUME NEW pc \in {"starting", "handling", "ending", "executing"}, Goto(c, pc)
        PROVE  Moves(c, pc) /\ run'[c].pc = pc /\ run'[c].operation = run[c].operation
    BY <1>1, <1>5, GotoMoves DEF Moves
  <1>6. CASE Goto(c, "starting") /\ ~Polling(c)
    BY <1>1, <1>2, <1>5, <1>6, MoveTally
  <1>7. CASE Goto(c, "handling")
    BY <1>1, <1>2, <1>5, <1>7, QuietTally
  <1>8. CASE /\ Goto(c, "ending") /\ UNCHANGED storeVars
             /\ progress.checkpoint_status = "COMPLETED" \/ ~Polling(c)
    <2>1. Polling(c) => ~FoundPending(c)'
      BY <1>3, <1>5, <1>8 DEF FoundPending, storeVars
    <2> QED
      BY <1>1, <1>2, <1>5, <1>8, <2>1, MoveTally
  <1>9. CASE Goto(c, "executing") /\ UNCHANGED storeVars /\ (Polling(c) => Polls(c))
    <2>1. Polling(c) => Polls(c)'
      BY <1>5, <1>9 DEF Polls, storeVars
    <2>2. ~FoundPending(c)'
      BY <1>5, <1>9 DEF FoundPending
    <2> QED
      BY <1>1, <1>2, <1>5, <1>9, <2>1, <2>2, MoveTally
  <1> QED
    BY <1>4, <1>6, <1>7, <1>8, <1>9

\* A poll that finds the request pending has been counted by the business.
LEMMA ExecuteTallies ==
    ASSUME PollsInv, NEW c \in Client, Execute(c) \/ Unanswered(c)
    PROVE  Tallies(c)
  <1>1. /\ WorkflowInv /\ WorkflowTypes /\ run[c].pc = "executing" /\ Paced(c)
        /\ client \in [Client -> Process] /\ StoreTypeOK
    BY DEF Execute, Unanswered, PollsInv, WorkflowInv, StoreInv, StoreTypeOK
  <1>2. \A d \in Client \ {c} : client'[d] = client[d]
    BY <1>1 DEF Execute, Unanswered, BeginSave, Begins, storeVars
  <1>3. CASE Unanswered(c)
    <2>1. Perform(c) /\ Moves(c, "handling")
      BY <1>1, <1>3, GotoMoves DEF Unanswered
    <2>2. Observations <= Observations'
      BY <1>1, <2>1, PerformObserves
    <2> QED
      BY <1>1, <1>2, <2>1, <2>2, QuietTally
  <1>4. CASE Execute(c) /\ ~Accepted(c)
    <2>1. Moves(c, "handling") /\ UNCHANGED record
      BY <1>1, <1>4, GotoMoves DEF Execute
    <2> QED
      BY <1>1, <1>2, <2>1, SameObservations, QuietTally
  <1>5. CASE Execute(c) /\ Accepted(c)
    <2>1. PICK o, found, change : /\ o = run[c].operation /\ found = record'[o]
                                  /\ change = ProgressOf(o, found)
      OBVIOUS
    <2>2. PICK ok : run' = [run EXCEPT ![c].pc = "recording", ![c].successful = ok]
      BY <1>5, Zenon DEF Execute
    <2>3. Perform(c) /\ BeginSave(c, change)
      BY <1>5, <2>1 DEF Execute
    <2>4. Moves(c, "recording")
      BY <1>1, <2>2, GotoWithMoves
    <2>5. Observations <= Observations'
      BY <1>1, <2>3, PerformObserves
    <2>6. client'[c].call.change = change /\ change.checkpoint_status = found.status
      BY <1>1, <2>1, <2>3 DEF BeginSave, Begins, ProgressOf
    <2>7. Polling(c) /\ FoundPending(c)' => Observations' = Observations + 1
      BY <1>1, <2>1, <2>3, <2>4, <2>6, PerformObserves
      DEF Polling, FoundPending, Moves, Paced
    <2> QED
      BY <1>1, <1>2, <2>4, <2>5, <2>7, MoveTally
  <1> QED
    BY <1>3, <1>4, <1>5

LEMMA ClaimingTallies ==
    ASSUME PollsInv, NEW c \in Client, Claiming(c)
    PROVE  Tallies(c)
  <1>1. /\ WorkflowInv /\ WorkflowTypes /\ client \in [Client -> Process]
        /\ Observations <= Observations'
    BY SameObservations DEF Claiming, PollsInv, WorkflowInv, StoreInv, StoreTypeOK
  <1>2. Calls(c, "claim") /\ run[c].pc = "claiming"
    BY <1>1, CallsFrom DEF Claiming, ClaimReads, ClaimWrites
  <1>3. \A d \in Client \ {c} : client'[d] = client[d]
    BY <1>1 DEF Claiming, ClaimReads, ClaimWrites, Answers, Returns, Raises
  <1>4. \/ UNCHANGED run
        \/ Ends(c, "raised")
        \/ Goto(c, "reading")
        \/ Catches(c)
    BY DEF Claiming
  <1>5. CASE UNCHANGED run
    BY <1>1, <1>2, <1>3, <1>5, QuietTally DEF Moves
  <1> QED
    BY <1>1, <1>2, <1>3, <1>4, <1>5, EndTally, GotoMoves, QuietTally, CatchesTally

\* What a save brings in is the status that the caller goes on with.
LEMMA SavedStatus ==
    ASSUME WorkflowInv, NEW c \in Client, SaveWrites(c, TRUE), Owns(c)
    PROVE  client'[c].snapshot.progress.checkpoint_status
               = client[c].call.change.checkpoint_status
  <1>1. /\ StoreInv /\ StoreTypeOK /\ Calls(c, "save") /\ run[c].pc \in SavePoints
        /\ client[c].snapshot # None
    BY CallsFrom DEF SaveWrites, WorkflowInv, StoreInv
  <1> PICK mine \in Snapshot : mine = client[c].snapshot
    BY <1>1, ProcessParts
  <1> PICK change \in Progress : change = client[c].call.change
    BY <1>1, ProcessParts DEF Save
  <1> DEFINE l == [mine EXCEPT !.progress = Kept(change, mine.progress)]
             saved == [mine EXCEPT !.progress = Kept(change, mine.progress),
                                   !.version = mine.version + 1]
  <1>2. Kept(change, mine.progress).checkpoint_status = change.checkpoint_status
    BY DEF Kept, Progress
  <1>3. DOMAIN l = DOMAIN mine /\ l.progress = Kept(change, mine.progress)
    BY DEF Snapshot
  <1>4. Returns(c, saved)
    <2>1. Answers(c, TRUE, saved)
      BY <1>1, SaveCommits
    <2> QED
      BY <2>1 DEF Answers
  <1>5. saved = [l EXCEPT !.version = mine.version + 1]
    BY Zenon
  <1> HIDE DEF l
  <1>6. saved.progress = Kept(change, mine.progress)
    BY <1>3, <1>5 DEF Snapshot
  <1> HIDE DEF saved
  <1>7. client'[c].snapshot = saved
    BY <1>1, <1>4, Returned
  <1> QED
    BY <1>2, <1>6, <1>7

LEMMA SavingTallies ==
    ASSUME PollsInv, NEW c \in Client, Saving(c)
    PROVE  Tallies(c)
  <1>1. /\ WorkflowInv /\ WorkflowTypes /\ client \in [Client -> Process] /\ Paced(c)
        /\ Observations <= Observations'
    BY SameObservations DEF Saving, PollsInv, WorkflowInv, StoreInv, StoreTypeOK
  <1>2. run[c].pc \in SavePoints /\ run[c].pc # "ended"
    BY <1>1, CallsFrom DEF Saving, SaveWrites, SavePoints
  <1>3. \A d \in Client \ {c} : client'[d] = client[d]
    BY <1>1 DEF Saving, SaveWrites, Answers, Returns, Raises
  <1>4. \/ Ends(c, "raised")
        \/ Catches(c)
        \/ SaveWrites(c, TRUE) /\ Owns(c) /\ Goto(c, Resume[run[c].pc])
    BY DEF Saving
  <1>5. CASE SaveWrites(c, TRUE) /\ Owns(c) /\ Goto(c, Resume[run[c].pc])
    <2>1. PICK pc : pc = Resume[run[c].pc]
      OBVIOUS
    <2>2. /\ Moves(c, pc)
          /\ run[c].pc = "reconciling" => pc = "deciding"
          /\ run[c].pc = "starting" => pc = "executing"
          /\ run[c].pc = "recording" => pc = "ending"
          /\ run[c].pc = "failing" => pc = "reporting"
      BY <1>1, <1>5, <2>1, GotoMoves DEF Resume
    <2>3. CASE run[c].pc \in {"reconciling", "failing"}
      BY <1>1, <1>2, <1>3, <2>2, <2>3, QuietTally
    <2>4. CASE run[c].pc = "starting"
      <3>1. ~Polling(c) /\ ~FoundPending(c)'
        BY <1>1, <2>2, <2>4 DEF Paced, FoundPending, Moves
      <3> QED
        BY <1>1, <1>2, <1>3, <2>2, <2>4, <3>1, MoveTally
    <2>5. CASE run[c].pc = "recording"
      <3>1. FoundPending(c)' => FoundPending(c)
        BY <1>1, <1>5, <2>2, <2>5, SavedStatus DEF FoundPending, Moves
      <3> QED
        BY <1>1, <1>2, <1>3, <2>2, <2>5, <3>1, MoveTally
    <2> QED
      BY <1>2, <2>3, <2>4, <2>5 DEF SavePoints
  <1> QED
    BY <1>1, <1>2, <1>3, <1>4, <1>5, EndTally, CatchesTally

\* A run that ends WAITING has made its last poll; one that goes on counts the
\* poll it has made.
LEMMA ProceedsTally ==
    ASSUME PollsInv, NEW c \in Client, run[c].pc = "finishing",
           Proceeds(c, client[c].snapshot.progress.checkpoint_status),
           Observations <= Observations',
           \A d \in Client \ {c} : client'[d] = client[d]
    PROVE  Tallies(c)
  <1> PICK status : status = client[c].snapshot.progress.checkpoint_status
    OBVIOUS
  <1>1. /\ WorkflowTypes /\ Paced(c) /\ Made(c) \in Nat /\ MaxPolls[c] \in Nat \ {0}
        /\ run[c].polls \in Nat /\ run[c].operation \in Operation
    BY MadeIsCount, RunParts DEF PollsInv, WorkflowInv
  <1>2. run[c].outcome # "WAITING" /\ run[c].outcome = None
    BY <1>1, NothingAssumption DEF Paced, Outcome
  <1>3. ASSUME run[c].operation = "ad-provisioning", status # "COMPLETED"
        PROVE  /\ run[c].mode = "poll" => Made(c) = MaxPolls[c] - run[c].polls
               /\ run[c].mode # "poll" => run[c].polls = MaxPolls[c] /\ Made(c) = 0
    BY <1>1, <1>2, <1>3 DEF Made, Polling, FoundPending, Paced
  <1>4. CASE run[c].operation = "ad-provisioning" /\ run[c].polls = 0 /\ status # "COMPLETED"
    <2>1. Ends(c, "WAITING")
      BY <1>4 DEF Proceeds
    <2>2. /\ \A d \in Client \ {c} : run'[d] = run[d]
          /\ run'[c].pc = "ended" /\ run'[c].operation = "apm-validation"
          /\ run'[c].outcome = "WAITING"
      BY <1>1, <2>1, EndsOutright
    <2>3. Made(c) = MaxPolls[c] /\ Made(c)' = MaxPolls[c]
      BY <1>1, <1>3, <1>4, <2>2 DEF Made
    <2>4. Paced(c)'
      BY <2>2 DEF Paced, Polling
    <2> QED
      BY <1>1, <2>2, <2>3, <2>4 DEF Tallies
  <1>5. ASSUME NEW o, NEW mode, NEW polls, Launching(c, o, mode, polls),
               o = "ad-provisioning" =>
                   \/ mode = "submit" /\ polls = MaxPolls[c]
                   \/ /\ mode = "poll" /\ polls \in Nat
                      /\ polls < MaxPolls[c] /\ MaxPolls[c] - polls - 1 = Made(c)
        PROVE  Tallies(c)
    <2>1. /\ \A d \in Client \ {c} : run'[d] = run[d]
          /\ run'[c].pc = "launching" /\ run'[c].operation = o /\ run'[c].mode = mode
          /\ run'[c].polls = polls /\ run'[c].outcome = run[c].outcome
      BY <1>1, <1>5, LaunchingSets
    <2>2. Paced(c)'
      BY <1>2, <1>5, <2>1 DEF Paced, Polling
    <2>3. Made(c)' <= Made(c)
      BY <1>1, <1>2, <1>5, <2>1 DEF Made, Polling, FoundPending
    <2> QED
      BY <2>1, <2>2, <2>3 DEF Tallies
  <1>6. ASSUME NEW outcome \in {"BUSINESS_ERROR", "COMPLETED"}, Ends(c, outcome)
        PROVE  Tallies(c)
    BY <1>6, EndTally
  <1>7. CASE Launching(c, "ad-provisioning", "submit", MaxPolls[c])
    BY <1>5, <1>7
  <1>8. CASE Launching(c, "app-factory-validation", "resume", 0)
    BY <1>5, <1>8
  <1>9. CASE /\ run[c].operation = "ad-provisioning" /\ status # "COMPLETED"
             /\ run[c].polls # 0
             /\ Launching(c, "ad-provisioning", "poll", run[c].polls - 1)
    <2>1. /\ run[c].polls - 1 \in Nat /\ run[c].polls - 1 < MaxPolls[c]
          /\ MaxPolls[c] - (run[c].polls - 1) - 1 = Made(c)
      BY <1>1, <1>3, <1>9 DEF Paced
    <2> QED
      BY <1>5, <1>9, <2>1
  <1>10. CASE Ends(c, "BUSINESS_ERROR") \/ Ends(c, "COMPLETED")
    BY <1>6, <1>10
  <1> QED
    BY <1>1, <1>4, <1>7, <1>8, <1>9, <1>10 DEF Proceeds, Operation

LEMMA FinishingTallies ==
    ASSUME PollsInv, NEW c \in Client, Finishing(c)
    PROVE  Tallies(c)
  <1>1. /\ WorkflowInv /\ WorkflowTypes /\ client \in [Client -> Process]
        /\ Observations <= Observations'
    BY SameObservations DEF Finishing, PollsInv, WorkflowInv, StoreInv, StoreTypeOK
  <1>2. run[c].pc \in FinishPoints /\ run[c].pc # "ended"
    BY <1>1, CallsFrom DEF Finishing, FinishWrites, FinishPoints
  <1>3. \A d \in Client \ {c} : client'[d] = client[d]
    BY <1>1 DEF Finishing, FinishWrites, Raises
  <1>4. \/ Catches(c) \/ Ends(c, "raised")
        \/ /\ run[c].pc # "closing"
           /\ Proceeds(c, client[c].snapshot.progress.checkpoint_status)
    BY DEF Finishing
  <1> QED
    BY <1>1, <1>2, <1>3, <1>4, CatchesTally, EndTally, ProceedsTally DEF FinishPoints

LEMMA FaultTallies ==
    ASSUME PollsInv, NEW c \in Client, Refused(c) \/ Killed(c)
    PROVE  Tallies(c)
  <1>1. /\ WorkflowInv /\ WorkflowTypes /\ client \in [Client -> Process] /\ StoreTypeOK
        /\ Observations <= Observations'
    BY SameObservations DEF Refused, Killed, PollsInv, WorkflowInv, StoreInv, StoreTypeOK
  <1>2. \A d \in Client \ {c} : client'[d] = client[d]
    BY <1>1 DEF Refused, Killed, CallFails, Raises, storeVars
  <1>3. CASE Refused(c)
    <2>1. run[c].pc # "ended"
      BY <1>1, <1>3 DEF Refused, CallFails, WorkflowInv, AtWork
    <2> QED
      BY <1>1, <1>2, <1>3, <2>1, CatchesTally DEF Refused
  <1>4. CASE Killed(c)
    BY <1>1, <1>2, <1>4, EndTally DEF Killed
  <1> QED
    BY <1>3, <1>4

LEMMA PollsBegin == WorkflowInit => PollsInv
  <1> SUFFICES ASSUME WorkflowInit PROVE PollsInv
    OBVIOUS
  <1>1. WorkflowInv
    BY WorkflowBegins
  <1>2. ASSUME NEW c \in Client
        PROVE  run[c].operation = "apm-validation" /\ run[c].outcome = None
    <2>1. run[c] = FirstJob(c)
      BY DEF WorkflowInit
    <2> QED
      BY <2>1 DEF FirstJob
  <1>3. \A c \in Client : Paced(c) /\ Made(c) = 0
    BY <1>2, NothingAssumption DEF Paced, Polling, Made, Outcome
  <1>4. PollsMade = {}
    BY <1>3 DEF PollsMade
  <1>5. Observations = 0
    BY DEF WorkflowInit, Observations, Operation
  <1>6. Cardinality(PollsMade) = 0 /\ IsFiniteSet(PollsMade)
    BY <1>4, FS_EmptySet
  <1> QED
    BY <1>1, <1>3, <1>5, <1>6 DEF PollsInv

LEMMA PollsNextKeeps == PollsInv /\ [WorkflowNext]_workflowVars => PollsInv'
  <1> SUFFICES ASSUME PollsInv, [WorkflowNext]_workflowVars PROVE PollsInv'
    OBVIOUS
  <1>1. WorkflowInv'
    BY WorkflowNextKeeps DEF PollsInv
  <1>2. ASSUME NEW c \in Client, Work(c) \/ Refused(c) \/ Unanswered(c) \/ Killed(c)
        PROVE  Tallies(c)
    BY <1>2, LaunchTallies, ReadTallies, DecideTallies, ExecuteTallies, ClaimingTallies,
       SavingTallies, FinishingTallies, FaultTallies DEF Work
  <1>3. CASE UNCHANGED <<run, client, record>>
    <2>1. PollsMade' = PollsMade /\ Observations' = Observations
      BY <1>3 DEF PollsMade, Made, Polling, FoundPending, Observations
    <2>2. \A c \in Client : Paced(c)'
      BY <1>3 DEF PollsInv, Paced, Polling, Polls
    <2> QED
      BY <1>1, <2>1, <2>2 DEF PollsInv
  <1>4. CASE WorkflowTick \/ UNCHANGED workflowVars
    BY <1>3, <1>4 DEF WorkflowTick, StoreTick, workflowVars, storeVars
  <1> QED
    BY <1>1, <1>2, <1>4, TallyKeeps DEF WorkflowNext

-----------------------------------------------------------------------------
(* Runs get on                                                             *)

\* Where FOR UPDATE locks rows, a call may have to wait for the claim that
\* holds its row.
Waits(c) ==
    LET call == client[c].call
    IN  /\ call # None
        /\ \/ call.kind = "claim" /\ call.seen = None /\ ~Unlocked(c, call.operation)
           \/ call.kind # "claim" /\ ~Unlocked(c, client[c].snapshot.operation)

SomeRunGoesOn ==
    (\E c \in Client : Active(c)) => \E c \in Client : Active(c) /\ ~Waits(c)

\* How many jobs a run with so many polls may still come to, its own included.
JobsLeft(r, polls) ==
    IF r.operation = "apm-validation" THEN polls + 3
    ELSE IF r.operation = "ad-provisioning" THEN r.polls + 2 ELSE 1

\* How far a job is from its end.
Ahead == [launching |-> 17, claiming |-> 12, reading |-> 12, reconciling |-> 11,
          deciding |-> 10, starting |-> 9, executing |-> 8, recording |-> 7, ending |-> 6,
          finishing |-> 5, handling |-> 4, failing |-> 3, reporting |-> 2, closing |-> 1,
          ended |-> 0]

\* A claim reads and writes; if it read that there is no row, it may do so
\* again, but not a third time, as rows stay.
ClaimSteps(call, version) ==
    IF call.seen = None THEN (IF version = 0 THEN 4 ELSE 2)
    ELSE (IF call.seen.version = 0 THEN 3 ELSE 1)

StepsLeft(r, call, version, polls) ==
    IF r.pc = "ended" THEN 0
    ELSE 17 * JobsLeft(r, polls) + Ahead[r.pc]
             + (IF r.pc = "claiming" THEN ClaimSteps(call, version) ELSE 0)
Left(c) ==
    StepsLeft(run[c], client[c].call, checkpoint[run[c].operation].version, MaxPolls[c])

RunsGoForward ==
    [][\A c \in Client :
           \/ Left(c)' < Left(c)
           \/ /\ run'[c] = run[c] /\ client'[c] = client[c]
              /\ Left(c)' <= Left(c)]_workflowVars

LEMMA StepsAreCount ==
    ASSUME NEW r \in Run, NEW call, NEW version, NEW polls \in Nat
    PROVE  /\ JobsLeft(r, polls) \in Nat /\ StepsLeft(r, call, version, polls) \in Nat
           /\ Ahead[r.pc] \in 0 .. 17
           /\ ClaimSteps(call, version) \in 1 .. 4
           /\ r.pc # "ended" => /\ StepsLeft(r, call, version, polls) > 0
                                /\ StepsLeft(r, call, version, polls)
                                       >= 17 * JobsLeft(r, polls) + Ahead[r.pc]
  <1>1. r.polls \in Nat /\ r.pc \in Points
    BY DEF Run, Points
  <1>2. Ahead[r.pc] \in 0 .. 17 /\ (r.pc # "ended" => Ahead[r.pc] > 0)
    BY <1>1 DEF Ahead, Points, Calling, Working
  <1>3. JobsLeft(r, polls) \in Nat
    BY <1>1 DEF JobsLeft
  <1>4. ClaimSteps(call, version) \in 1 .. 4
    BY DEF ClaimSteps
  <1> HIDE DEF Ahead, JobsLeft, ClaimSteps
  <1> QED
    BY <1>2, <1>3, <1>4 DEF StepsLeft

\* A later point of the same job.
LEMMA SameJob ==
    ASSUME NEW r \in Run, NEW s, NEW call, NEW nextCall, NEW version, NEW nextVersion,
           NEW polls \in Nat, r.pc # "ended",
           s.operation = r.operation, s.polls = r.polls,
           s.pc \in Points \ {"claiming"}, Ahead[s.pc] < Ahead[r.pc]
    PROVE  StepsLeft(s, nextCall, nextVersion, polls) < StepsLeft(r, call, version, polls)
  <1>1. JobsLeft(s, polls) = JobsLeft(r, polls)
    BY DEF JobsLeft
  <1>2. Ahead[s.pc] \in 0 .. 17
    BY DEF Ahead, Points, Calling, Working
  <1>3. JobsLeft(r, polls) \in Nat /\ Ahead[r.pc] \in 0 .. 17
        /\ StepsLeft(r, call, version, polls) \in Nat
        /\ StepsLeft(r, call, version, polls) > 0
        /\ StepsLeft(r, call, version, polls) >= 17 * JobsLeft(r, polls) + Ahead[r.pc]
    BY StepsAreCount
  <1>4. StepsLeft(s, nextCall, nextVersion, polls) = 0
        \/ StepsLeft(s, nextCall, nextVersion, polls) = 17 * JobsLeft(r, polls) + Ahead[s.pc]
    BY <1>1, <1>2, <1>3 DEF StepsLeft
  <1> HIDE DEF Ahead, JobsLeft
  <1> QED
    BY <1>2, <1>3, <1>4

\* What a step of c does: it takes c on, and leaves the other runs alone.
GetsOn(c) ==
    /\ \A d \in Client \ {c} : run'[d] = run[d] /\ client'[d] = client[d]
    /\ Left(c)' < Left(c)

LEMMA MovingGetsOn ==
    ASSUME WorkflowInv, NEW c \in Client, NEW pc \in Points \ {"claiming"}, Moves(c, pc),
           run[c].pc # "ended", Ahead[pc] < Ahead[run[c].pc],
           \A d \in Client \ {c} : client'[d] = client[d]
    PROVE  GetsOn(c)
  <1>1. run[c] \in Run /\ MaxPolls[c] \in Nat
    BY LocalPollAssumption DEF WorkflowInv, WorkflowTypes
  <1> PICK s : s = run'[c]
    OBVIOUS
  <1>2. s.pc = pc /\ s.operation = run[c].operation /\ s.polls = run[c].polls
    BY DEF Moves
  <1>3. Left(c)' < Left(c)
    BY <1>1, <1>2, SameJob DEF Left
  <1> QED
    BY <1>3 DEF GetsOn, Moves

LEMMA EndingGetsOn ==
    ASSUME WorkflowInv, NEW c \in Client, NEW outcome, Ends(c, outcome), run[c].pc # "ended",
           \A d \in Client \ {c} : client'[d] = client[d]
    PROVE  GetsOn(c)
  <1>1. run[c] \in Run /\ MaxPolls[c] \in Nat /\ WorkflowTypes
    BY LocalPollAssumption DEF WorkflowInv, WorkflowTypes
  <1>2. Left(c) \in Nat /\ Left(c) > 0
    BY <1>1, StepsAreCount DEF Left
  <1>3. run'[c].pc = "ended" /\ \A d \in Client \ {c} : run'[d] = run[d]
    BY <1>1, EndsOutright
  <1>4. Left(c)' = 0
    BY <1>3 DEF Left, StepsLeft
  <1> QED
    BY <1>2, <1>3, <1>4 DEF GetsOn

LEMMA CatchingGetsOn ==
    ASSUME WorkflowInv, NEW c \in Client, Catches(c),
           run[c].pc \in {"claiming", "reading", "executing"} \cup SavePoints \cup FinishPoints,
           \A d \in Client \ {c} : client'[d] = client[d]
    PROVE  GetsOn(c)
  <1>1. run[c].pc # "ended"
    BY DEF SavePoints, FinishPoints
  <1>2. CASE run[c].pc \in {"claiming", "failing", "closing"}
    BY <1>1, <1>2, EndingGetsOn DEF Catches
  <1>3. CASE run[c].pc \notin {"claiming", "failing", "closing"}
    <2>1. Moves(c, "handling")
      BY <1>3, GotoMoves DEF Catches, WorkflowInv
    <2>2. "handling" \in Points \ {"claiming"} /\ Ahead["handling"] < Ahead[run[c].pc]
      BY <1>3 DEF Points, Working, Ahead, SavePoints, FinishPoints
    <2> QED
      BY <1>1, <2>1, <2>2, MovingGetsOn
  <1> QED
    BY <1>2, <1>3

LEMMA LaunchGetsOn ==
    ASSUME WorkflowInv, NEW c \in Client, Launch(c)
    PROVE  GetsOn(c)
  <1>1. /\ run[c] \in Run /\ MaxPolls[c] \in Nat /\ WorkflowTypes /\ run[c].pc = "launching"
        /\ client \in [Client -> Process]
    BY LocalPollAssumption DEF WorkflowInv, WorkflowTypes, StoreInv, StoreTypeOK, Launch
  <1>2. Moves(c, "claiming")
    BY <1>1, GotoMoves DEF Launch
  <1>3. \A d \in Client \ {c} : client'[d] = client[d]
    BY <1>1 DEF Launch, BeginClaim, Begins
  <1> PICK s, call, version : /\ s = run'[c] /\ call = client'[c].call
                              /\ version = checkpoint'[run'[c].operation].version
    OBVIOUS
  <1>4. /\ s.pc = "claiming" /\ s.operation = run[c].operation /\ s.polls = run[c].polls
    BY <1>2 DEF Moves
  <1>5. /\ JobsLeft(run[c], MaxPolls[c]) \in Nat
        /\ JobsLeft(s, MaxPolls[c]) = JobsLeft(run[c], MaxPolls[c])
        /\ ClaimSteps(call, version) \in 1 .. 4
    BY <1>1, <1>4, StepsAreCount DEF JobsLeft
  <1>6. Left(c) = 17 * JobsLeft(run[c], MaxPolls[c]) + 17
    BY <1>1, <1>5 DEF Left, StepsLeft, Ahead
  <1>7. Left(c)' = 17 * JobsLeft(run[c], MaxPolls[c]) + 12 + ClaimSteps(call, version)
    BY <1>4, <1>5 DEF Left, StepsLeft, Ahead
  <1>8. Left(c)' < Left(c)
    BY <1>5, <1>6, <1>7
  <1> QED
    BY <1>2, <1>3, <1>8 DEF GetsOn, Moves

\* A claim that stays one reads, or reads again.
LEMMA ClaimGetsOn ==
    ASSUME WorkflowInv, NEW c \in Client, UNCHANGED run, run[c].pc = "claiming",
           \A d \in Client \ {c} : client'[d] = client[d],
           ClaimSteps(client'[c].call, checkpoint'[run[c].operation].version)
               < ClaimSteps(client[c].call, checkpoint[run[c].operation].version)
    PROVE  GetsOn(c)
  <1> PICK call, version : /\ call = client'[c].call
                           /\ version = checkpoint'[run[c].operation].version
    OBVIOUS
  <1>1. run[c] \in Run /\ MaxPolls[c] \in Nat
    BY LocalPollAssumption DEF WorkflowInv, WorkflowTypes
  <1>2. /\ JobsLeft(run[c], MaxPolls[c]) \in Nat
        /\ ClaimSteps(call, version) \in 1 .. 4
        /\ ClaimSteps(client[c].call, checkpoint[run[c].operation].version) \in 1 .. 4
    BY <1>1, StepsAreCount
  <1>3. /\ Left(c) = 17 * JobsLeft(run[c], MaxPolls[c]) + 12
                     + ClaimSteps(client[c].call, checkpoint[run[c].operation].version)
        /\ Left(c)' = 17 * JobsLeft(run[c], MaxPolls[c]) + 12 + ClaimSteps(call, version)
    BY <1>2 DEF Left, StepsLeft, Ahead
  <1>4. Left(c)' < Left(c)
    BY <1>2, <1>3
  <1> QED
    BY <1>4 DEF GetsOn

LEMMA ClaimReadsGetsOn ==
    ASSUME WorkflowInv, NEW c \in Client, ClaimReads(c),
           IF Busy(c) THEN Ends(c, "raised") ELSE UNCHANGED run
    PROVE  GetsOn(c)
  <1>1. /\ StoreTypeOK /\ client \in [Client -> Process] /\ Calls(c, "claim")
        /\ run[c].pc = "claiming" /\ client[c].call.operation = run[c].operation
        /\ run[c].operation \in Operation /\ client[c].call.seen = None
    BY CallsFrom, RunParts DEF WorkflowInv, StoreInv, StoreTypeOK, ClaimReads
  <1>2. \A d \in Client \ {c} : client'[d] = client[d]
    BY <1>1 DEF ClaimReads, Raises
  <1>3. CASE Busy(c)
    BY <1>1, <1>2, <1>3, EndingGetsOn
  <1>4. CASE ~Busy(c)
    <2>1. client[c].call \in Claim
      BY <1>1, ProcessParts
    <2> PICK o \in Operation : o = run[c].operation
      BY <1>1
    <2>2. PICK running \in BOOLEAN : running =
              (/\ checkpoint[o].lease # NoLease
               /\ executions[o][checkpoint[o].execution] = "RUNNING")
      OBVIOUS
    <2>3. PICK seen : seen = [version |-> checkpoint[o].version, running |-> running]
      OBVIOUS
    <2>4. checkpoint[o].version \in Nat
      BY <1>1 DEF StoreTypeOK, Row
    <2>5. seen \in Seen /\ seen # None /\ seen.version = checkpoint[o].version
      <3>1. seen \in Seen /\ seen.version = checkpoint[o].version
        BY <2>3, <2>4 DEF Seen
      <3> QED
        BY <3>1, NoneIsNoValue
    <2>6. client' = [client EXCEPT ![c].call.seen = seen] /\ checkpoint' = checkpoint
      BY <1>1, <1>4, <2>2, <2>3 DEF ClaimReads, tables
    <2> DEFINE call == [client[c].call EXCEPT !.seen = seen]
    <2>7. call.seen = seen
      BY <2>1 DEF Claim
    <2>8. client'[c].call = call
      BY <1>1, <2>6 DEF Process
    <2> HIDE DEF call
    <2>9. ClaimSteps(client'[c].call, checkpoint'[o].version)
              < ClaimSteps(client[c].call, checkpoint[o].version)
      BY <1>1, <2>4, <2>5, <2>6, <2>7, <2>8 DEF ClaimSteps
    <2> QED
      BY <1>1, <1>2, <1>4, <2>9, ClaimGetsOn
  <1> QED
    BY <1>3, <1>4

LEMMA ClaimWritesGetsOn ==
    ASSUME WorkflowInv, NEW c \in Client, NEW heard \in BOOLEAN, ClaimWrites(c, heard),
           Stands(c) => IF heard THEN Goto(c, "reading") ELSE Catches(c),
           ~Stands(c) => IF client[c].call.seen.version > 0 THEN Ends(c, "raised")
                                                            ELSE UNCHANGED run
    PROVE  GetsOn(c)
  <1>1. /\ StoreTypeOK /\ client \in [Client -> Process] /\ Calls(c, "claim")
        /\ run[c].pc = "claiming" /\ client[c].call.operation = run[c].operation
        /\ run[c].operation \in Operation /\ client[c].call.seen # None
        /\ run[c] \in Run /\ MaxPolls[c] \in Nat /\ WorkflowTypes
    BY CallsFrom, RunParts, LocalPollAssumption
    DEF WorkflowInv, WorkflowTypes, StoreInv, StoreTypeOK, ClaimWrites
  <1>2. \A d \in Client \ {c} : client'[d] = client[d]
    BY <1>1 DEF ClaimWrites, Answers, Returns, Raises
  <1>3. CASE Stands(c) /\ heard
    <2>1. Moves(c, "reading")
      BY <1>1, <1>3, GotoMoves
    <2> PICK s, call, version : /\ s = run'[c] /\ call = client'[c].call
                                /\ version = checkpoint'[run'[c].operation].version
      OBVIOUS
    <2>2. s.pc = "reading" /\ s.operation = run[c].operation /\ s.polls = run[c].polls
      BY <2>1 DEF Moves
    <2>3. /\ JobsLeft(run[c], MaxPolls[c]) \in Nat
          /\ JobsLeft(s, MaxPolls[c]) = JobsLeft(run[c], MaxPolls[c])
          /\ ClaimSteps(client[c].call, checkpoint[run[c].operation].version) \in 1 .. 4
      BY <1>1, <2>2, StepsAreCount DEF JobsLeft
    <2>4. /\ Left(c) = 17 * JobsLeft(run[c], MaxPolls[c]) + 12
                       + ClaimSteps(client[c].call, checkpoint[run[c].operation].version)
          /\ Left(c)' = 17 * JobsLeft(run[c], MaxPolls[c]) + 12
      BY <1>1, <2>2, <2>3 DEF Left, StepsLeft, Ahead
    <2>5. Left(c)' < Left(c)
      BY <2>3, <2>4
    <2> QED
      BY <1>2, <2>1, <2>5 DEF GetsOn, Moves
  <1>4. CASE Stands(c) /\ ~heard
    BY <1>1, <1>2, <1>4, CatchingGetsOn
  <1>5. CASE ~Stands(c) /\ client[c].call.seen.version > 0
    BY <1>1, <1>2, <1>5, EndingGetsOn
  <1>6. CASE ~Stands(c) /\ ~(client[c].call.seen.version > 0)
    <2> PICK o \in Operation : o = run[c].operation
      BY <1>1
    <2>1. /\ client' = [client EXCEPT ![c].call.now = clock, ![c].call.seen = None]
          /\ checkpoint' = checkpoint /\ UNCHANGED run
      BY <1>6 DEF ClaimWrites, tables
    <2>2. client[c].call \in Claim
      BY <1>1, ProcessParts
    <2>3. client[c].call.seen.version \in Nat /\ checkpoint[o].version \in Nat
      BY <1>1, <2>2, NoneIsNoValue DEF Claim, Seen, StoreTypeOK, Row
    <2>4. client[c].call.seen.version = 0 /\ checkpoint[o].version # 0
      BY <1>1, <1>6, <2>3 DEF Stands
    <2> DEFINE call == [client[c].call EXCEPT !.now = clock, !.seen = None]
    <2>5. call.seen = None
      BY <2>2 DEF Claim
    <2>6. client'[c].call = call
      BY <1>1, <2>1 DEF Process
    <2> HIDE DEF call
    <2>7. ClaimSteps(client'[c].call, checkpoint'[o].version)
              < ClaimSteps(client[c].call, checkpoint[o].version)
      BY <1>1, <2>1, <2>4, <2>5, <2>6 DEF ClaimSteps
    <2> QED
      BY <1>1, <1>2, <2>1, <2>7, ClaimGetsOn
  <1> QED
    BY <1>3, <1>4, <1>5, <1>6

LEMMA ClaimingGetsOn ==
    ASSUME WorkflowInv, NEW c \in Client, Claiming(c)
    PROVE  GetsOn(c)
  <1>1. CASE /\ ClaimReads(c)
             /\ IF Busy(c) THEN Ends(c, "raised") ELSE UNCHANGED run
    BY <1>1, ClaimReadsGetsOn
  <1>2. ASSUME NEW heard \in BOOLEAN, ClaimWrites(c, heard),
               Stands(c) => IF heard THEN Goto(c, "reading") ELSE Catches(c),
               ~Stands(c) => IF client[c].call.seen.version > 0 THEN Ends(c, "raised")
                                                                ELSE UNCHANGED run
        PROVE  GetsOn(c)
    BY <1>2, ClaimWritesGetsOn
  <1> QED
    BY <1>1, <1>2 DEF Claiming

\* The steps of a job between its calls.
LEMMA WorkingGetsOn ==
    ASSUME WorkflowInv, NEW c \in Client,
           Read(c) \/ Decide(c) \/ Execute(c) \/ Conclude(c) \/ Handle(c) \/ Report(c)
               \/ Unanswered(c)
    PROVE  GetsOn(c)
  <1>1. WorkflowTypes /\ client \in [Client -> Process]
    BY DEF WorkflowInv, StoreInv, StoreTypeOK
  <1>2. \A d \in Client \ {c} : client'[d] = client[d]
    BY <1>1 DEF Read, Decide, Execute, Conclude, Handle, Report, Unanswered, SavesFrom,
                BeginSave, BeginFinish, Begins, storeVars
  <1>3. ASSUME NEW pc \in Points \ {"claiming"}, NEW ok,
               \/ Goto(c, pc)
               \/ run' = [run EXCEPT ![c].pc = pc, ![c].successful = ok],
               run[c].pc # "ended", Ahead[pc] < Ahead[run[c].pc]
        PROVE  GetsOn(c)
    BY <1>1, <1>2, <1>3, GotoMoves, GotoWithMoves, MovingGetsOn
  <1>4. CASE Read(c)
    <2> DEFINE o == run[c].operation
               found == record[o]
               progress == client[c].snapshot.progress
    <2>1. PICK next : next = IF found # None /\ ProgressOf(o, found) # progress
                             THEN "reconciling"
                             ELSE IF found = None /\ progress.checkpoint_status = "COMPLETED"
                             THEN "handling" ELSE "deciding"
      OBVIOUS
    <2>2. PICK ok : ok = (found = None \/ found.successful)
      OBVIOUS
    <2>3. run' = [run EXCEPT ![c].pc = next, ![c].successful = ok]
      BY <1>4, <2>1, <2>2, Zenon DEF Read
    <2>4. /\ next \in Points \ {"claiming"} /\ run[c].pc # "ended"
          /\ Ahead[next] < Ahead[run[c].pc]
      BY <1>4, <2>1 DEF Read, Points, Calling, Working, Ahead
    <2> QED
      BY <1>3, <2>3, <2>4
  <1>5. CASE Decide(c)
    <2>1. PICK pc \in {"starting", "ending", "handling", "executing"} : Goto(c, pc)
      BY <1>5 DEF Decide, SavesFrom
    <2>2. run[c].pc = "deciding"
      BY <1>5 DEF Decide
    <2>3. pc \in Points \ {"claiming"} /\ Ahead[pc] < Ahead[run[c].pc]
      BY <2>2 DEF Points, Calling, Working, Ahead
    <2> QED
      BY <1>3, <2>1, <2>2, <2>3
  <1>6. CASE Execute(c)
    <2>1. \/ Goto(c, "handling")
          \/ \E ok : run' = [run EXCEPT ![c].pc = "recording", ![c].successful = ok]
      BY <1>6, Zenon DEF Execute
    <2>2. run[c].pc = "executing"
      BY <1>6 DEF Execute
    <2>3. /\ {"handling", "recording"} \subseteq Points \ {"claiming"}
          /\ Ahead["handling"] < Ahead[run[c].pc] /\ Ahead["recording"] < Ahead[run[c].pc]
      BY <2>2 DEF Points, Calling, Working, Ahead
    <2> QED
      BY <1>3, <2>1, <2>2, <2>3
  <1>7. CASE Conclude(c) \/ Handle(c) \/ Report(c) \/ Unanswered(c)
    <2>1. \/ run[c].pc = "ending" /\ Goto(c, "finishing")
          \/ run[c].pc = "handling" /\ Goto(c, "failing")
          \/ run[c].pc = "reporting" /\ Goto(c, "closing")
          \/ run[c].pc = "executing" /\ Goto(c, "handling")
      BY <1>7 DEF Conclude, Handle, Report, Unanswered, SavesFrom
    <2>2. /\ {"finishing", "failing", "closing", "handling"} \subseteq Points \ {"claiming"}
          /\ Ahead["finishing"] < Ahead["ending"] /\ Ahead["failing"] < Ahead["handling"]
          /\ Ahead["closing"] < Ahead["reporting"] /\ Ahead["handling"] < Ahead["executing"]
      BY DEF Points, Calling, Working, Ahead
    <2> QED
      BY <1>3, <2>1, <2>2
  <1> QED
    BY <1>4, <1>5, <1>6, <1>7

LEMMA SavingGetsOn ==
    ASSUME WorkflowInv, NEW c \in Client, Saving(c)
    PROVE  GetsOn(c)
  <1>1. /\ WorkflowTypes /\ client \in [Client -> Process]
        /\ run[c].pc \in SavePoints /\ run[c].pc # "ended"
    BY CallsFrom DEF WorkflowInv, StoreInv, StoreTypeOK, Saving, SaveWrites, SavePoints
  <1>2. \A d \in Client \ {c} : client'[d] = client[d]
    BY <1>1 DEF Saving, SaveWrites, Answers, Returns, Raises
  <1>3. \/ Ends(c, "raised") \/ Catches(c) \/ Goto(c, Resume[run[c].pc])
    BY DEF Saving
  <1>4. CASE Goto(c, Resume[run[c].pc])
    <2>1. PICK pc : pc = Resume[run[c].pc]
      OBVIOUS
    <2>2. pc \in Points \ {"claiming"} /\ Ahead[pc] < Ahead[run[c].pc]
      BY <1>1, <2>1 DEF Resume, SavePoints, Points, Working, Ahead
    <2> QED
      BY <1>1, <1>2, <1>4, <2>1, <2>2, GotoMoves, MovingGetsOn
  <1> QED
    BY <1>1, <1>2, <1>3, <1>4, EndingGetsOn, CatchingGetsOn

\* A run that launches another job has one less to come to.
LEMMA ProceedsGetsOn ==
    ASSUME WorkflowInv, NEW c \in Client, run[c].pc = "finishing",
           Proceeds(c, client[c].snapshot.progress.checkpoint_status),
           \A d \in Client \ {c} : client'[d] = client[d]
    PROVE  GetsOn(c)
  <1> PICK status : status = client[c].snapshot.progress.checkpoint_status
    OBVIOUS
  <1>1. /\ WorkflowTypes /\ MaxPolls[c] \in Nat /\ run[c] \in Run
        /\ run[c].polls \in Nat /\ run[c].operation \in Operation
    BY LocalPollAssumption, RunParts DEF WorkflowInv, WorkflowTypes
  <1>2. ASSUME NEW outcome, Ends(c, outcome) PROVE GetsOn(c)
    BY <1>2, EndingGetsOn
  <1>3. ASSUME NEW o, NEW mode, NEW polls, Launching(c, o, mode, polls),
               JobsLeft([operation |-> o, polls |-> polls], MaxPolls[c]) \in Nat,
               JobsLeft([operation |-> o, polls |-> polls], MaxPolls[c])
                   < JobsLeft(run[c], MaxPolls[c])
        PROVE  GetsOn(c)
    <2>1. /\ \A d \in Client \ {c} : run'[d] = run[d]
          /\ run'[c].pc = "launching" /\ run'[c].operation = o /\ run'[c].polls = polls
      BY <1>1, <1>3, LaunchingSets
    <2> PICK s : s = run'[c]
      OBVIOUS
    <2>2. JobsLeft(s, MaxPolls[c]) = JobsLeft([operation |-> o, polls |-> polls], MaxPolls[c])
      BY <2>1 DEF JobsLeft
    <2>3. Left(c)' = 17 * JobsLeft(s, MaxPolls[c]) + 17
      BY <1>3, <2>1, <2>2 DEF Left, StepsLeft, Ahead
    <2>4. /\ JobsLeft(run[c], MaxPolls[c]) \in Nat
          /\ Left(c) = 17 * JobsLeft(run[c], MaxPolls[c]) + 5
      BY <1>1, StepsAreCount DEF Left, StepsLeft, Ahead
    <2>5. Left(c)' < Left(c)
      BY <1>3, <2>2, <2>3, <2>4
    <2> QED
      BY <2>1, <2>5 DEF GetsOn
  <1>4. CASE run[c].operation = "apm-validation"
             /\ Launching(c, "ad-provisioning", "submit", MaxPolls[c])
    BY <1>1, <1>3, <1>4 DEF JobsLeft
  <1>5. CASE run[c].operation = "ad-provisioning"
             /\ Launching(c, "app-factory-validation", "resume", 0)
    BY <1>1, <1>3, <1>5 DEF JobsLeft
  <1>6. CASE run[c].operation = "ad-provisioning" /\ run[c].polls # 0
             /\ Launching(c, "ad-provisioning", "poll", run[c].polls - 1)
    BY <1>1, <1>3, <1>6 DEF JobsLeft
  <1> QED
    BY <1>1, <1>2, <1>4, <1>5, <1>6 DEF Proceeds, Operation

LEMMA FinishingGetsOn ==
    ASSUME WorkflowInv, NEW c \in Client, Finishing(c)
    PROVE  GetsOn(c)
  <1>1. /\ client \in [Client -> Process]
        /\ run[c].pc \in FinishPoints /\ run[c].pc # "ended"
    BY CallsFrom DEF WorkflowInv, StoreInv, StoreTypeOK, Finishing, FinishWrites, FinishPoints
  <1>2. \A d \in Client \ {c} : client'[d] = client[d]
    BY <1>1 DEF Finishing, FinishWrites, Raises
  <1>3. \/ Catches(c) \/ Ends(c, "raised")
        \/ /\ run[c].pc # "closing"
           /\ Proceeds(c, client[c].snapshot.progress.checkpoint_status)
    BY DEF Finishing
  <1> QED
    BY <1>1, <1>2, <1>3, CatchingGetsOn, EndingGetsOn, ProceedsGetsOn DEF FinishPoints

LEMMA FaultGetsOn ==
    ASSUME WorkflowInv, NEW c \in Client, Refused(c) \/ Killed(c)
    PROVE  GetsOn(c)
  <1>1. client \in [Client -> Process] /\ run[c].pc \in Points /\ AtWork(c)
    BY RunParts DEF WorkflowInv, StoreInv, StoreTypeOK
  <1>2. \A d \in Client \ {c} : client'[d] = client[d]
    BY <1>1 DEF Refused, Killed, CallFails, Raises, storeVars
  <1>3. CASE Refused(c)
    <2>1. run[c].pc \in {"claiming", "reading", "executing"} \cup SavePoints \cup FinishPoints
      BY <1>1, <1>3 DEF Refused, CallFails, AtWork, Points, Calling, SavePoints, FinishPoints
    <2> QED
      BY <1>2, <1>3, <2>1, CatchingGetsOn DEF Refused
  <1>4. CASE Killed(c)
    <2>1. run[c].pc # "ended" /\ Ends(c, "raised")
      BY <1>4, CallsFrom DEF Killed
    <2> QED
      BY <1>2, <2>1, EndingGetsOn
  <1> QED
    BY <1>3, <1>4

\* Rows stay.
LEMMA RowsStay ==
    ASSUME StoreInv, [StoreNext]_storeVars, NEW o \in Operation, checkpoint[o].version # 0
    PROVE  checkpoint'[o].version # 0
  <1>1. executions[o] # <<>> /\ executions[o] \in Seq(ExecutionResult)
    BY DEF StoreInv, RowCounts, StoreTypeOK
  <1>2. StoreInv'
    BY NextKeepsInv
  <1>3. executions'[o] # <<>>
    <2>1. CASE UNCHANGED tables
      BY <1>1, <2>1 DEF tables
    <2>2. ASSUME NEW p \in Operation, TakesOver(p) \/ GivesUp(p)
          PROVE  executions'[o] # <<>>
      BY <1>1, <1>2, <2>2 DEF TakesOver, GivesUp, OthersStay, StoreInv, StoreTypeOK
    <2>3. ASSUME NEW p \in Operation, NEW progress \in Progress, Writes(p, progress)
          PROVE  executions'[o] # <<>>
      BY <1>1, <2>3 DEF Writes
    <2> QED
      BY <2>1, <2>2, <2>3, TableSteps
  <1> QED
    BY <1>2, <1>3 DEF StoreInv, RowCounts

\* A run that does nothing is not set back by the others.
LEMMA NobodySetsBack ==
    ASSUME WorkflowInv, [WorkflowNext]_workflowVars, NEW c \in Client,
           run'[c] = run[c], client'[c] = client[c]
    PROVE  Left(c)' <= Left(c)
  <1> PICK o \in Operation : o = run[c].operation
    BY RunParts DEF WorkflowInv
  <1>1. checkpoint'[o].version = 0 => checkpoint[o].version = 0
    BY RowsStay, StepUsesStore DEF WorkflowInv, StoreInv
  <1>2. run[c] \in Run /\ MaxPolls[c] \in Nat
    BY LocalPollAssumption DEF WorkflowInv, WorkflowTypes
  <1> PICK jobs, ahead, call : /\ jobs = JobsLeft(run[c], MaxPolls[c])
                               /\ ahead = Ahead[run[c].pc] /\ call = client[c].call
    OBVIOUS
  <1>3. jobs \in Nat /\ ahead \in Nat
    BY <1>2, StepsAreCount
  <1>4. ClaimSteps(call, checkpoint'[o].version) <= ClaimSteps(call, checkpoint[o].version)
    BY <1>1 DEF ClaimSteps
  <1>5. /\ ClaimSteps(call, checkpoint'[o].version) \in 1 .. 4
        /\ ClaimSteps(call, checkpoint[o].version) \in 1 .. 4
    BY DEF ClaimSteps
  <1>6. /\ Left(c) = StepsLeft(run[c], call, checkpoint[o].version, MaxPolls[c])
        /\ Left(c)' = StepsLeft(run[c], call, checkpoint'[o].version, MaxPolls[c])
    BY DEF Left
  <1> HIDE DEF Ahead, JobsLeft, ClaimSteps, Left
  <1> QED
    BY <1>3, <1>4, <1>5, <1>6 DEF StepsLeft

-----------------------------------------------------------------------------
(* The theorems                                                            *)

\* A job calls the checkpoint store in no way that the store's own theorems
\* do not allow for (batch_job.py: BatchRuntime.run over
\* DurableCheckpointStore), so all of them hold under local runs.
THEOREM JobsUseTheStore == WorkflowSpec => StoreSpec
  <1>1. WorkflowInit => StoreInit
    BY DEF WorkflowInit
  <1>2. WorkflowInv /\ [WorkflowNext]_workflowVars => [StoreNext]_storeVars
    BY StepUsesStore DEF WorkflowInv, StoreInv
  <1> QED
    BY <1>1, <1>2, WorkflowInvHolds, PTL DEF WorkflowSpec, StoreSpec

\* So under local runs and their faults the audit trail is a chain from
\* creation to the row, a live lease is its own execution's to end, an
\* execution writes nothing after its outcome, and each takeover fences off
\* the executions before it (durable_checkpoints.py, claim, save and finish).
THEOREM JobsKeepTheStore ==
    WorkflowSpec => []TrailLeadsToRow /\ LiveLeaseStands /\ SilentAfterOutcome /\ ImplementsFence
  BY JobsUseTheStore, LocalTrail, LocalLeases, LocalSilence, LocalFence

\* No job starts on an operation before the one it depends on is recorded as
\* done (local_workflow.py, run_workflow), for any number of runs, polls and
\* faults.
THEOREM JobsKeepOrder == WorkflowSpec => []JobsInOrder
  <1>1. WorkflowInv => JobsInOrder
    BY DEF WorkflowInv
  <1> QED
    BY <1>1, WorkflowInvHolds, PTL

\* What a run reports in the end is what the business recorded
\* (local_workflow.py, run_workflow), although checkpoint and business are in
\* two databases that fail separately.
THEOREM OutcomesAreHonest == WorkflowSpec => []OutcomeIsHonest
  <1>1. WorkflowInv => OutcomeIsHonest
    BY DEF WorkflowInv
  <1> QED
    BY <1>1, WorkflowInvHolds, PTL

\* Every run that ends WAITING has asked for the provider's request as often as
\* it may (local_workflow.py, the poll loop of run_workflow), and the business
\* has counted each of these polls once, however many runs poll and whatever
\* fails: runs that are started again get on with the request.
THEOREM WaitingRunsGetOn == WorkflowSpec => []WaitingRunsObserve
  <1>1. PollsInv => WaitingRunsObserve
    <2> SUFFICES ASSUME PollsInv, NEW w \in Client, run[w].outcome = "WAITING"
                 PROVE  Cardinality(UNION {{c} \X (1..MaxPolls[c]) :
                                           c \in {c \in Client : run[c].outcome = "WAITING"}})
                            <= record["ad-provisioning"].observations
      BY DEF WaitingRunsObserve
    <2>1. PICK polls : polls = UNION {{c} \X (1..MaxPolls[c]) :
                                      c \in {c \in Client : run[c].outcome = "WAITING"}}
      OBVIOUS
    <2>2. polls \subseteq PollsMade
      BY <2>1, LocalPollAssumption DEF PollsMade, Made
    <2>3. /\ Cardinality(polls) <= Cardinality(PollsMade)
          /\ Cardinality(polls) \in Nat /\ Cardinality(PollsMade) \in Nat
      <3>1. IsFiniteSet(polls) /\ Cardinality(polls) <= Cardinality(PollsMade)
        BY <2>2, FS_Subset DEF PollsInv
      <3> QED
        BY <3>1, FS_CardinalityType DEF PollsInv
    <2>4. Observations = record["ad-provisioning"].observations
      BY DEF PollsInv, WorkflowInv, OutcomeIsHonest, Observations
    <2>5. Observations \in Nat
      <3>1. record["ad-provisioning"] \in Business!Record \cup {None}
        BY DEF PollsInv, WorkflowInv, WorkflowTypes, RecordsFit, Operation
      <3> QED
        BY <3>1, ObservationsAreCount DEF Observations
    <2> QED
      BY <2>1, <2>3, <2>4, <2>5 DEF PollsInv
  <1> QED
    BY <1>1, PollsBegin, PollsNextKeeps, PTL DEF WorkflowSpec

\* Where rows are locked, runs do not wait for each other in a circle: a claim
\* that holds a row needs no other to finish (durable_checkpoints.py, _claim).
\* And wherever rows are locked or not, every step of a run takes it on by one
\* of a number of steps that its polls bound, whatever the others do: neither a
\* claim that loses the race for its row nor an exception in the handler goes
\* round in circles (durable_checkpoints.py, claim; local_workflow.py).
THEOREM RunsGetThrough == WorkflowSpec => []SomeRunGoesOn /\ RunsGoForward
  <1>1. WorkflowInv => SomeRunGoesOn
    <2> SUFFICES ASSUME WorkflowInv, NEW c \in Client, Active(c), Waits(c)
                 PROVE  \E d \in Client : Active(d) /\ ~Waits(d)
      BY DEF SomeRunGoesOn
    <2>1. PICK d \in Client, o \in {client[c].call.operation, client[c].snapshot.operation} :
              Locks(d, o)
      BY DEF Waits, Unlocked
    <2>2. Calls(d, "claim") /\ client[d].call.seen # None
      BY <2>1 DEF Locks
    <2>3. Active(d)
      BY <2>2, CallsFrom
    <2> QED
      BY <2>2, <2>3 DEF Waits, Calls
  <1>2. WorkflowInv /\ [WorkflowNext]_workflowVars =>
            [\A c \in Client :
                 \/ Left(c)' < Left(c)
                 \/ /\ run'[c] = run[c] /\ client'[c] = client[c]
                    /\ Left(c)' <= Left(c)]_workflowVars
    <2> SUFFICES ASSUME WorkflowInv, [WorkflowNext]_workflowVars, NEW c \in Client
                 PROVE  \/ Left(c)' < Left(c)
                        \/ /\ run'[c] = run[c] /\ client'[c] = client[c]
                           /\ Left(c)' <= Left(c)
      OBVIOUS
    <2>1. ASSUME NEW d \in Client, Work(d) \/ Refused(d) \/ Unanswered(d) \/ Killed(d)
          PROVE  GetsOn(d)
      BY <2>1, LaunchGetsOn, ClaimingGetsOn, WorkingGetsOn, SavingGetsOn, FinishingGetsOn,
         FaultGetsOn DEF Work
    <2>2. CASE WorkflowTick \/ UNCHANGED workflowVars
      <3>1. UNCHANGED <<run, client>>
        BY <2>2 DEF WorkflowTick, StoreTick, workflowVars, storeVars
      <3> QED
        BY <3>1, NobodySetsBack
    <2>3. CASE \E d \in Client : Work(d) \/ Refused(d) \/ Unanswered(d) \/ Killed(d)
      BY <2>1, <2>3, NobodySetsBack DEF GetsOn
    <2> QED
      BY <2>2, <2>3 DEF WorkflowNext
  <1> QED
    BY <1>1, <1>2, WorkflowInvHolds, PTL DEF WorkflowSpec, RunsGoForward
=============================================================================
