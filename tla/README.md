# Cloud Journey agents: TLA+ models and proofs

This directory models the stateful core of the repository: the durable
persistence protocol between the batch agents and the persistence server, the
sessions of the chat agents, the transactions and locks that the server runs
both with, the journey state machine of the local demonstration, and the
demonstration's workflow with its SQL checkpoint store. TLC checks the models on
small instances; TLAPS proves their safety properties and refinements for every
value of the constants, and of the liveness properties that nobody is stuck and
that what every process does is finite.

Paths below are relative to the repository root. `SVC` stands for
`references/schwab-mcp/schwab_mcp_persistence`, `LIB` for
`src/cloud_journey_agents`, `POC` for `examples/local-business/journey_poc`.

## The system

| Component | State it keeps | Operations | What is hard about it |
|---|---|---|---|
| Durable persistence server (`SVC/service.py` 85-244) | one checkpoint row per operation, execution table, audit events, mutation receipts | claim, save, finish | leases that expire under a running owner, fencing, replays, late calls |
| Batch runtime (`LIB/durability/runtime.py`, `checkpoints.py`, `LIB/mcp.py`) | the snapshot of one invocation | one run: claim, reconcile, step, record, finish; error handler | two databases without a common transaction; lost answers; crashes between any two calls |
| Batch agents (`src/agent-*/app/job.py`) | none | choose the step for a checkpoint and mode | a mode that does not fit the state of the operation |
| Business service behind MCP (external; `LIB/durability/mcp_gateway.py`) | record of an operation, provider request | submit, poll, validate, read | calls that fail and take effect all the same |
| Server transactions (`SVC/service.py` 85-149) | receipts, locks of the process, of a receipt and of a resource | execute | several replicas, statements that interleave, replays under way at once |
| Session server (`SVC/service.py` 246-366) | sessions, revisions, ordered events, shared app and user state, tombstones, receipts | create, get, list, append, delete | two writers of a session, shared state across sessions, replay after deletion |
| Session client (`LIB/sessions`) | an in-memory session with its revision | one conversation turn: load or create, refresh the identity claims, append events | stale revisions, retries |
| Journey state machine and service (`POC/cloud_journey/state_machine.py`, `tools.py`) | the journey row with its context, history | start, gather, plan, decide, resume, wait | calls made of several transactions, interleaved; crashes between them |
| Local business gateway (`POC/cloud_journey/business_operations.py`) | recorded operation results | validate_apm, submit_ad, poll_ad, validate_app_factory | batch jobs and users on one journey |
| Approval backend and authorization (`POC/cloud_journey/authorization.py`, `approval_backend.py`) | none | who may decide | decisions at the same time |
| Local SQL checkpoint store (`POC/durable_checkpoints.py`) | the same tables as the server, without receipts | claim, save, finish | compare-and-set instead of locks; a finish without a version of its own |
| Workflow simulator (`workflows/local_workflow.py`, `POC/batch_job.py`) | none | run jobs in order, poll within a bound | several runs of one journey, jobs that die, two databases |
| HTTP and command line server, identity, guardrails, agents, UI | token cache | map errors to statuses, verify, prompt | not protocol state |

Interaction: a workflow launches batch jobs one after the other. A job's
runtime claims the operation at the durable server, reads the business
service's record, lets the agent choose a step, calls the business service and
saves what came of it under the version its last acknowledgement showed. Every
durable call is a transaction that commits its receipt; a client repeats an
unanswered call once with the same mutation id. The business service (locally:
the gateway) moves the journey in its own database. Users reach the same
journey through `JourneyService`, and chat agents keep their conversations at
the session server, which shares the transaction code with the durable tools.

## Modules

| Module | Models | Proof |
|---|---|---|
| `LeasedRegister` | abstract: a register with one writer at a time, epochs and takeovers | |
| `DurableStore` | the three durable tools on one operation; implements `LeasedRegister` | `DurableStoreProofs` |
| `BatchRuntime` | invocations, network, business service; composed with `DurableStore` by EXTENDS | `BatchRuntimeProofs` |
| `OperationRecord` | abstract: the record that a business service keeps of one operation; `BatchRuntime` assumes it, the gateway of `JourneyLifecycle` implements it | in both proof modules |
| `SerialServer` | abstract: a server that serves one call at a time | |
| `Transactions` | the statements and locks of calls on several replicas; extends and implements `SerialServer` | `TransactionsProofs` |
| `JourneyLifecycle` | the journey, its service calls and the batch operations on it | `JourneyLifecycleProofs` |
| `FencedRegister` | abstract: registers that can be taken over at any time, and fence earlier takers off | |
| `LocalCheckpointStore` | the SQL store of the demonstration; implements `FencedRegister` | `LocalCheckpointStoreProofs` |
| `LocalWorkflow` | runs of the workflow and their jobs; composed with `LocalCheckpointStore` by EXTENDS and with the gateway of `JourneyLifecycle` by INSTANCE | `LocalWorkflowProofs` |
| `ConversationLog` | abstract: per conversation, a log that is opened once, only grows, and stays retired | |
| `SessionStore` | the session tools that change a session; implements `ConversationLog` | `SessionStoreProofs` |
| `Conversation` | turns and deletions over an unreliable network; composed with `SessionStore` by EXTENDS | `ConversationProofs` |
| `MC*` | the instances that TLC checks | |

### DurableStore

`checkpoint`, `executions`, `audit` and `receipts` are the four tables,
restricted to one operation; `clock` is the database clock in ticks. A
transaction of `_transaction` is one action, because it holds the advisory lock
of its resource and reads the clock after it has it. `Verdict` gives the answers
in the order the code looks: receipt, ownership, lease, domain rules; `Claim`,
`Save` and `Finish` are the handlers with everything they write, the receipt
included. A refused call changes nothing and is no step here. The callers are
arbitrary: any mutation id, workflow run, execution and version that an
acknowledgement has named, and any progress. `Workload` authorization and
argument shapes, which read no state, are the sets the requests come from.

### BatchRuntime

One `worker[w]` is one process that runs `BatchRuntime.run` once. Its `pc` names
the durable call it waits for (`claiming`, `reconciling`, `starting`,
`recording`, `finishing`, `failing`, `closing`) or the work it does between two
of them. `Deliver` is the server handling one message from the network at any
time, also long after its sender gave up: `Retry` sends the call a second time
with the same id (`call_idempotent`), `Stop` is a crash or a second timeout,
`CredentialsFail` a token that cannot be fetched, `BusinessFails` a business
call that raises, before or without its effect, and `LateEffect` the effect of
such a call arriving afterwards. `late` is a set, so two outstanding calls of
the same kind are one; the business calls are idempotent, polls up to how many
of them a request needs. The business service is not part of the repository: its
record is modelled from `mcp_gateway.py`, from what the agents rely on and
from `business_operations.py`, which implements the same interface. `solo` is a
history variable for one property: the invocation that nothing has disturbed
since it started. `CheckpointStore`'s validation of an acknowledgement rejects
nothing that this server answers and is left out; so is the comparison of the
polled with the saved request id, as there is one request.

### JourneyLifecycle

A service call is a list of steps (`todo`): move to a state, write a section of
the context, or look and decide how to go on. Each step is one transaction of
`StateMachine`, which locks the row; in between, other calls run and
`Fail` may end the call. `Move` is `transition`: it re-reads the row and refuses
what `ALLOWED_TRANSITIONS` does not allow. `StepsAfterLook` and `PipelineSteps`
are the branches of the service's methods, including the calls of
`transition` that are written in order to be refused. The version of the row is
the length of its history. Left out are `journey_operations` rows, domain
events and denied decisions, which no code reads back to decide anything, and
group membership of the APM id, which guards who may call at all.

### SessionStore and Conversation

`sessions` is the row of a session with its revision, ordered events and
identity claims, `tombstones` the retired ids, `receipts` the receipts of
session mutations. `Verdict` answers in the order of `_transaction` and
`_session_tool`; `CreateSession`, `AppendEvent` and `DeleteSession` are the
handlers with their receipt. A deletion drops the receipts of its session
(`Kept`), because their replies hold conversation text; what is left to tell a
late call from a new one is the tombstone.

In `Conversation` a `turn` is one run of `ConversationRuntime.query_async` or
one `delete_session`. `Begin` loads the session and creates it, or refreshes the
claims, if need be; `Ask` and `Answer` are the two appends of the agent runner,
which is a library, as `conversation.py` uses it: it loads the session again,
appends the user's message, and after the model's work appends the answer to
the session object in memory. A turn with more agent events appends more in the
same way. The network is that of `BatchRuntime`: `Deliver` at any time, `Retry`
once with the same id, `Stop` for crashes, second timeouts and agents without
an answer. Left out are the refusals that depend on no state, partial events
and the filters of the reading tools. State that sessions share is in
`Transactions`.

### Transactions

`DurableStore` and `SessionStore` take a transaction for one step.
`Transactions` is about what makes that right. A call is a sequence of
statements (`pc`): it acquires the lock of its process (`_local_lock`, an
`RLock`), the advisory lock of its receipt and that of its resource, in
the order of `Locks`; `Look` reads the receipt, `ReadClock` the clock of the
database, `ReadRow` and `ReadShared` what the tool needs, and `Commit` makes all
writes visible at once and gives the locks back. At READ COMMITTED each of them
sees what is committed at that moment, by whomever. `Respond` sends the answer
of a transaction that is over. `Crash` is the death of a replica with all calls
that it has not responded to: those it interrupts roll back, those that are over
lose their answer only. There are three tools, one for each way of using the
tables: `claim` creates an operation's row or takes it over by the
clock, `append` advances a session's row and merges the state of the
application, `get` reads both and has no receipt.

`SerialServer` says what callers may rely on: calls take effect one after the
other, each at a time that is not earlier than that of the write it finds; the
answer follows (`Return`) or never comes (`BreakOff`), and then the caller
cannot tell whether its call took effect.
Left out are FOR UPDATE on an operation's row, which waits for nobody who does
not hold the resource; `user_states`, which is handled as `app_states` is; that
the lock numbers are hashes, taken to be distinct; and the workload and user in
the key of a receipt, because all calls here come from one of each.

### LocalCheckpointStore

The same three tables without a server: no advisory lock, no receipt. Each call
reads its clock before its transaction and is in progress from then on
(`client[c].call`), so a step of another process, or time, can come between the
clock and the write. A claim reads the row and the execution (`ClaimReads`) and
later compares and sets the version (`ClaimWrites`), or reads again if its first
insert lost the race. A save and a finish are one guarded UPDATE each. With
`LocksRows` the row that a claim has read stays locked until the claim ends
(PostgreSQL); without, it does not (SQLite). In `StoreSpec` processes call what
they like with what they hold in memory.

The store does not implement `LeasedRegister`: a save whose clock was read in
time may write after its lease has run out and until the next claim.
`FencedRegister` is what is left without the clock, and it is enough for the
jobs, which never look at a lease.

### LocalWorkflow

A client is one run of `run_workflow` and the job that it waits for. The run's
position is its operation, mode and polls left; `Proceeds` is what it does with
the result of a job. The job is `BatchRuntime.run` again, in the terms of the
local store: `Read` reconciles with what the gateway has recorded, `Decide` is
`next_step` of the agent, `Execute` is the gateway's transaction on the journey
(the actions of `JourneyLifecycle`, with the guards that make it raise), and
`Handle` is the exception handler. Checkpoints and journey are two databases
without a common transaction. `Refused` is a transaction that a database does
not accept, `Unanswered` a business call that commits and whose answer is lost,
`heard = FALSE` the same of a call of the store, and `Killed` a job that dies.
What a job prints is read in the step in which it ends.

## Hazards and properties

`PROJECT.json` lists the hazards at their lines. The properties, by what they
relate:

* **Fencing and audit** (`DurableStore`). `OneRunningExecution`: execution
  table and lease agree. `VersionsAcknowledgedOnce`: versions and receipts
  correspond one to one. `AuditLeadsToRow`: the events chain up to the row.
  `ProgressMovesForward`: which references progress has and keeps.
  `LiveLeaseIsSafe`: nobody but the owner ends a live lease.
  `ImplementsRegister`: all of this is a one-writer register. Proved without a
  run of their own: `TakeoverIsFinal`, after a takeover no earlier execution
  appears in the audit again, and `ProgressHasEvidence`.
* **Two databases** (`BatchRuntime`). `CheckpointFollowsBusiness`: the
  checkpoint never claims more than the business recorded. `ResultIsHonest`: a
  returned JobResult agrees with business record and execution table.
  `FailureIsRecorded`: what raised is recorded as failed.
  `UndisturbedRunRepairs`: one invocation left alone repairs whatever crashes,
  timeouts and late calls left. `NothingOverwrittenUnseen`: a save replaces only
  the row its sender saw last. `EveryInvocationEnds`: liveness.
* **Journeys** (`JourneyLifecycle`). `DecisionStands`: one decision, not by the
  requester, and rejection is final. `NothingBuiltUnapproved`, `ReviewHasPlan`,
  `ApprovedCanBeResumed`: what users and batch jobs may rely on at each side of
  the approval. `ResultsMatchHistory`, `PendingRequestCanComplete`: recorded
  results and journey agree, the second until the approval. `EveryCallEnds`: liveness.
* **Conversations** (`SessionStore`, `Conversation`). `AnswersFollowMessages`: a
  turn's message and answer stay adjacent, whatever turns overlap.
  `AppendsToWhatWasSeen`: nobody appends to a conversation they have not seen.
  `AnsweredIsRecorded` and `RefusedIsNotApplied`: what a caller is told is true
  in spite of lost replies. `RetiredLeavesNothing` and `ImplementsLog`: nothing
  of a deleted conversation can be read, replayed or revived. Proved without a
  run of its own: `RepliesArePrefixes`, a replay shows a state the session was
  in.
* **Locks** (`Transactions`). `ImplementsSerial`: although statements of calls
  interleave on several replicas, which may die before a commit or between a
  commit and its answer, calls are served as if one after the other, so no merge
  of shared state is lost, no repeated call applies twice or runs into the
  primary key of the receipts, and lease times follow the order of writes.
  `EveryCallAnswered`: no deadlock and no starvation.
* **Compare and set** (`LocalCheckpointStore`). `LiveLeaseStands`: a lease that
  has not run out is ended by its own execution only, however old the clock and
  the row are that a claim goes by. `SilentAfterOutcome`: an execution writes no
  progress after its outcome, although `finish` leaves the version that its late
  saves carry. `TrailLeadsToRow`: the audit is a chain although its writers note
  what they remember. `ImplementsFence`. `OutcomeStands` holds on PostgreSQL and
  not on SQLite, below.
* **Workflow** (`LocalWorkflow`). `JobsInOrder`: no job works ahead of the
  operation before it, whichever run launched either. `OutcomeIsHonest`: what a
  run reports is true of the journey. `WaitingRunsObserve`: a bounded run makes
  its polls count, so that runs after it get somewhere. `EveryRunEnds`:
  liveness.

## Runs and their bounds

| Run | Instance | Why it is enough |
|---|---|---|
| `store_ad` | AD agent, two workflow runs, two mutation ids per tool (two claims, saves, finishes), lease of 1 tick, clock to 2 | two owners, a takeover by expiry and one by finish, every replay and every stale call between them |
| `batch_ad` | three invocations, one fault, lease lost once | a first run that dies anywhere, a second that overtakes it, a third that repairs |
| `batch_apm` | two invocations, two faults, two lost leases, fairness | combinations of two faults, the single-stage agents, every wait and retry of the runtime |
| `journey_interactive` | an owner and two reviewers, every interactive call but `continue_journey` | two decisions in a race, with planning and execution around them |
| `journey_batch` | an owner and a reviewer in every call but `approve`, with batch operations, one pending poll, fairness | a batch operation between any two transactions of two calls; the loops of resume and wait |
| `local_workflow` | two runs, one and two polls, one pending poll, one fault, one lost lease, SQLite, three journeys to start from | jobs of two runs in any order, each of which may die anywhere; a journey that succeeds, one that fails its last validation and one that refuses the submission |
| `transactions` | three calls out of seven requests, the reader and two calls on one of two replicas (which of the two is which does not matter), one crash, one tick | a repeated call on another replica, one id for two requests, two sessions with one application, two claims of an operation and a reader |
| `conversations` | two turns of one conversation, with different claims, and its deletion; two faults | both appends of a turn around both of another and the deletion; a repeated call that times out again, or two repeated calls |
| `batch_empty_error`, `batch_uncertain_save`, `journey_batch_approve`, `local_outcome` | as above | disagreements between code and documents, below |

`continue_journey` plans with nothing in the plan, by design, so `ReviewHasPlan`
is about the other calls; `journey_batch` has it. `approve` is left out of
`journey_batch` because of what `journey_batch_approve` shows, and takes part in
`journey_interactive`.

Symmetry is used for mutation ids, invocations and reviewers, in runs without
liveness only. Deadlock is not checked: mutation ids, invocations, calls and
the clock are bounded, and a finished system stops; that nobody waits for ever
is what the liveness properties say.

**Fairness.** `FairBatchSpec` has weak fairness of an invocation's own work and
of its call being answered or timing out: a Python process runs on unless it
crashes, and `_bounded_call` puts a timeout on every call. The server, the clock
and the faults have none. `FairSpec` of `JourneyLifecycle` has weak fairness of
each running call, `FairWorkflowSpec` of each run's work (a local process on a
local database), and `FairTransactionSpec` of each call's next statement and
of its answer being sent: a lock that stays free is granted, and a replica that
does not die responds. While a call waits for a held lock its step is
not enabled, so that it is served in the end follows from the order of locks and
is not assumed. Nothing is assumed of users, who need not call
at all.

## Proofs

`DurableStoreProofs` proves, for every agent, all sets of callers, ids and
references, every lease length and clock bound, the type invariant
(`TypeCorrect`) and each safety and action property of `DurableStore`, and that
it implements `LeasedRegister` (`Implementation`). The invariants are not
inductive by themselves. `TypeInv` adds to the types that the row names the
newest execution and that a lease is only held once an execution exists;
without it a save could address an execution that is not in the table.
`AuditInv` adds to the audit chain that events name existing executions in
ascending order and that the last writer is not newer than the row's
execution; this is what makes a takeover final, because an accepted save comes
from the row's execution. `VersionsAcknowledgedOnce` is inductive as it stands:
an accepted call makes one new version and one new receipt, and a call that has
a receipt is never accepted. `RecordIsComplete` is what other proofs need to know
of the past (`HistoryInv`): a receipt says what its call did to row and
execution, and the row is what the latest receipt shows.

`BatchRuntimeProofs` proves the composition's type invariant,
`CheckpointFollowsBusiness` and that every behaviour of the composition is one
of `DurableStore` (`UsesTheStore`), which carries the store's theorems over
(`NoWritesAfterTakeover`, `CallsApplyOnce`). The inductive invariant
(`BatchInv`) says what everybody knows: snapshots of invocations, requests in
flight and recorded replies name executions and versions that exist, and claim
progress that the business record supports; the record only grows, so what was
supported stays supported. The checkpoint itself would not do: a stale save may
still be under way, and what it carries must be true when it arrives.

How invocations end takes more. `AccountsInv` says what every invocation may
believe at each point of its run: what it has decided, what it has been answered
and which of its calls are receipted agree with business record and execution
table, however late its earlier calls are served. `ResultsAreHonest`,
`FailuresAreRecorded` and `NothingIsOverwritten` follow. The second assumes that
no failure has an empty text; the run `batch_empty_error` is what happens
otherwise. `UndisturbedRunsRepair` adds where calls and references come from:
every call was made by one of the invocations and names the one request of the
provider (`CallsInv`), and only provisioning waits (`WaitingInv`). `SoloInv` then
follows the undisturbed invocation through its run: it is `Alone`, with nothing
in flight but its own first attempt, and what it has read, done and recorded so
far `Repairs` the checkpoint.
`NoInvocationIsStuck` and `InvocationsAreShort` are the safety half of
`EveryInvocationEnds`: an invocation that is not over can take a step, and each
of its at most 26 steps leaves it fewer, while no other's step leaves it more.

`SessionStoreProofs` proves the type invariant, `RetiredLeavesNothing`,
`RepliesArePrefixes` and `ImplementsLog` for the session tools called in any
way at all. The invariant (`StoreInv`) adds that the revision counts the events
and that a retired session has no row. That nothing of it can be replayed
either follows: a reply on record is the prefix of a row.

`ConversationProofs` proves for any number of turns, conversations and faults
the type invariant, that turns use the store as its tools allow
(`UsesTheSessions`, hence `DeletedForGood`), and `AppendsToWhatWasSeen`
(`NobodyAnswersUnseen`). Two parts of `ConversationInv` carry the argument. What
a turn has in memory is a prefix of its conversation, unless that was deleted
(`Knows`). And a call under way is settled, that is, receipted or of a deleted
conversation, or else its turn still has the session in memory that the call
was made from (`Pending`): so an append that is accepted late finds exactly
what its turn saw. Settled calls stay settled although a deletion removes
receipts, because ids belong to turns and a turn to one conversation
(`SettledStays`). `StoryInv` is about what turns are told. The session that a
turn has in memory ends with its message while it thinks, and with its answer
when it is done (`Tells`); an answer that can still be recorded goes behind that
message (`AnswersOut`), since an append of another turn would make its revision
stale; and what is under way of a call that was refused is `Hopeless`, and stays
so (`RefusalsStand`). `TurnsStayTogether`, `AnswersAreOnRecord` and
`RefusalsAreFinal` follow.

`TransactionsProofs` proves `ImplementsSerial` (`SerialService`) for any number
of replicas, calls, operations, sessions and crashes. The serial step of a call
is its `Look` if it finds a receipt, the read that refuses it or that ends a
`get`, and its `Commit` otherwise; a crash breaks off a set of calls, served or
not. The
invariant is `ServerInv`: the types (`Shapes`), mutual exclusion
(`LocksAreHeld`: a call past the locking statements holds all of its locks, and
no lock has two holders), `EndsWithAnswer`, and `ReadsAreFresh`: what a call has
read since it took its locks is still so, there is no receipt, and its clock is
not behind the row's time. Every commit must preserve the last for all other
calls, which is where the resource lock of a whole application is needed.
`NoCircleOfLocks` shows that of the unanswered calls one can always go on: locks
have levels, process before receipt before resource, and a call waits only for a
lock above those it holds. `CallsAreShort` counts the locks and statements that a
call has left.

`JourneyLifecycleProofs` proves every safety property of `JourneyLifecycle` for
any number of users, reviewers and polls. `LifecycleInv` is the base: the types;
`Sound(journey)`, the shape of its history, which leads to its state along
`ALLOWED_TRANSITIONS` and passes the decision at most once; and that every call
under way is `Proper`, a list of steps that its method can have left to do by an
actor it may act for. `LifecycleTypes` and `OneDecision` follow, and
`ApprovedResumes`, for journeys without batch jobs. `BuiltIsApproved` adds
`ExecutionIsGuarded`: a call that is about to move into execution is `Backed` by
an approval in the history, or it is a call of `approve` where batch jobs run.
That nothing is built unapproved assumes that there is no such call; the finding
below is what happens otherwise. `ReviewedHasPlan` adds
`KnowledgeComesFirst`: in the steps that a call has left, a section of the
context is written before the move that needs it. It assumes that nobody calls
`continue_journey`. `ResultsAreInHistory` and `PendingCompletes` relate the
records of batch operations to the history. The second says of all calls, without
an assumption, who gets ahead of a pending request (`RequestsAreLeftAlone`): only
the execution of an approved journey, or `approve`. `PendingRequestCanComplete`
follows where nobody calls `approve` beside batch jobs, and holds until the
journey is approved.

Journeys and calls are finite, and not only for the users of an instance.
`JourneysAreShort`: a journey makes at most eighteen transitions. Every
transition but one goes up in `Rank`; the exception, from a failed validation
back to its preparation, happens once, because only a batch validation enters
that state and `ResultsMatchHistory` says that it has been recorded then
(`Height`). `CallsAreFinite`: the loops of the service calls end. A call has
`StepsLeft`, five for each transition that the journey has left, one for each
poll, and the `Burden` of its list, in which the first step weighs as much as
the list that it may be replaced by; this is why no list has both a section to
write and a look to follow (`CallsAreTidy`). `NoCallIsStuck`: a call under way
has a next step. Together these are the safety half of `EveryCallEnds`.

The service behind MCP is not in the repository, and `BatchRuntime` models what
its callers rely on. `OperationRecord` states that without callers.
`PromisedIsPerformed` proves that `BatchRuntime` rules out nothing that a service
of this kind may do to its record, and `BusinessIsAsPromised` that, with failures
and late effects, its record does nothing else. `GatewayKeepsPromise` proves
that the local gateway is such a service although users move the journey
meanwhile. So what is proved of invocations holds next to that gateway as well,
as far as it depends on its records. Two invariants are needed: a request that
is pending has not failed, and only a call that belongs to the operation takes
effect late.

`LocalCheckpointStoreProofs` proves for any number of processes, lease length
and clock bound, and for both kinds of databases, the type invariant, each
safety property of the local store and its refinement of `FencedRegister`. What
every process remembers and has read is compared with the tables: a snapshot
that has the version of the row also has its progress (`SnapshotsAreHistory`),
and of a claim that read the row's version the lease has run out, by the clock
that the claim goes by, and an execution that still holds it is known to run
(`ClaimsAreFresh`). `LockedOutcomesStand` is `OutcomeStands` with the assumption
`LocksRows`.

`LocalWorkflowProofs` proves for any number of runs, polls and faults, and for
any journeys, that jobs use the checkpoint store as `StoreSpec` allows
(`JobsUseTheStore`), so that the store's properties hold in their company
(`JobsKeepTheStore`), and `JobsInOrder` and `OutcomeIsHonest`. `WorkflowInv`
rests on two facts. Progress is `Supported` wherever it is, in a row, in the
memory of a job or in a save under way: a request it names or a completion it
claims is in the business record. And a run is `Aware` of no more than is
recorded: of the operations before its own, and of what its own returned where
it goes by it. The business record only grows (`Grows`), so neither is undone by
another run, and a job that dies loses its memory but makes nothing false.
`WaitingRunsGetOn` replaces a sum over runs by a set: by `PollsInv` the polls that
were made, pairs of a run and a number (`PollsMade`), are no more than the
observations that the business has recorded.
`RunsGetThrough` is the safety half of `EveryRunEnds`. A run waits only for a row
that a claim has read and locked, and that claim waits for nobody. Each step of a
run leaves it fewer to take, of at most `17 * (MaxPolls[c] + 4)`, and no other run
sets it back: a claim that loses the race for its first row reads again only
once, because rows are never deleted.

Assumptions: the named ASSUMEs of the modules, which TLC evaluates in every run,
and those that the theorems above name. The ASSUMEs fix the shape of the
constants, let the caller of the store save any progress, and say that values
that stand for absence are nothing else: no text of an error (`ErrorAssumption`
of `DurableStore`), no record, no journey.

Only model-checked: the four liveness properties `EveryInvocationEnds`,
`EveryCallEnds`, `EveryRunEnds` and `EveryCallAnswered`. Weak fairness is defined
by ENABLED, which the prover does not handle. What is proved of each is the part
without it: that one of the processes concerned has a step to take, and that
what each does is bounded by a number that its steps lower and nobody else's
raise. The conditions under which a step can be taken are written out in the
proof modules (`CanGoOn`, `Waits`, `CanStep`) and follow the guards of the
actions; that they imply ENABLED is not proved. `UncertainSaveStops` and
`OutcomeStands` are false, as the findings below show.

## What the code does otherwise than its documents say

* **An empty error counts as success** (`batch_empty_error`). `finish` tests
  `args["error"]` for truth; an exception without text leaves a FAILED
  checkpoint whose execution is recorded as SUCCEEDED.
* **An uncertain save need not stop the run** (`batch_uncertain_save`). A token
  that cannot be fetched for the second attempt is an ordinary exception, and
  the handler goes on to ask for FAILED from its old snapshot. The version check
  keeps that from overwriting newer progress.
* **approve() after a batch submission** (`journey_batch_approve`) runs the
  pipeline to COMPLETED without any approval; `resume_after_approval` has the
  guard that approve() lacks.
* **An outcome that is overwritten** (`local_outcome`). On SQLite nothing locks
  the row that a claim has read. A finish that read its clock before the lease
  ran out can commit between the two halves of a claim that read it afterwards;
  it leaves the version alone, so the claim succeeds and writes INTERRUPTED over
  SUCCEEDED or FAILED. Only the record of the execution is wrong: the progress
  stays.

TLC also shows these, which no run is kept for. approve() in GENERATING_PLAN
asks for APPROVED expecting a refusal; if the plan is finished in between, it is
granted and names the orchestrator. The second of two simultaneous
generate_plan calls replaces the plan that is already under review, and only
then is refused (`tools.py` 686). record_inventory that read VALIDATING_APM can
return with the journey in DISCOVERING_CLOUD_SERVICES, because the transition it
expects to be refused is allowed by then (604-612). A start that dies during
validation leaves a processing state that no call moves on, as nothing writes
FAILED or RETRYING. A resumed pipeline completes without the outcome of a step
after which a call died (985). After an approval, a batch submission followed by
resume_after_approval takes the journey further than the pending request
(`business_operations.py` 130), and the poll that should complete it is refused.

## Not modelled

* HTTP and command line mapping, request identity, guardrails, prompts, UI,
  configuration and logging: no protocol state, or a language model's choice. A
  failing token refresh is part of `BatchRuntime`.
* One-off data scripts, which run while the system is down.
* Reading calls and filters, which change nothing; `journey_operations` rows,
  domain events and denied decisions, which nothing reads back.
* APM assignments and group membership, which decide who may call at all and
  do not change while calls run.
* The paging of `list_tools`: a reply is one message, and a repeated cursor is
  refused.
* The MCP backend of `run_job`, which launches the jobs of `BatchRuntime`
  instead of those of `LocalWorkflow`.

## Plan

1. Done: `LeasedRegister`, `DurableStore`, `BatchRuntime` with proofs;
   `JourneyLifecycle` with proofs.
2. Done: `ConversationLog`, `SessionStore`, `Conversation` with proofs.
3. Done: `FencedRegister`, `LocalCheckpointStore` with proofs; `LocalWorkflow`
   with proofs.
4. Done: `SerialServer`, `Transactions` with proofs.
5. Done: theorems for every safety property that a run checks, and for the
   bounds behind the liveness properties.
6. Done: `OperationRecord`, assumed by `BatchRuntime` and kept by the gateway of
   `JourneyLifecycle`.
7. Left, theorems: that the gateway keeps the same promise in the company of
   local jobs (`LocalWorkflow`), whose journeys start anywhere.
