------------------------- MODULE BatchRuntimeProofs -------------------------
(***************************************************************************)
(* Proofs about BatchRuntime, for every agent, every set of invocations,   *)
(* every lease length and every number of faults: the invocations use the  *)
(* durable store only in ways DurableStore describes, so that all its      *)
(* promises hold; the checkpoint never runs ahead of the business; what an *)
(* invocation reports about its end is what is recorded; no call           *)
(* overwrites what its sender has not seen; and one invocation that        *)
(* nothing disturbs repairs whatever the earlier ones left behind.  No     *)
(* invocation is stuck, and all are short.                                 *)
(***************************************************************************)
EXTENDS BatchRuntime, DurableStoreProofs

-----------------------------------------------------------------------------
(* What the parts of the system know about one another.  n executions and  *)
(* v versions exist, and r is the business record.                         *)

\* A snapshot of the row names an execution and a version that exist, and
\* progress the business bears out.
KnownSnapshot(n, v, r, s) ==
    /\ s \in Checkpoint
    /\ s.execution \in 1 .. n
    /\ s.version \in 1 .. v
    /\ Supports(r, s.progress)

\* So does a request; a save asks for progress the business bears out.
KnownRequest(n, v, r, req) ==
    \/ req \in ClaimRequest
    \/ /\ req \in SaveRequest
       /\ req.execution_id \in 1 .. n
       /\ req.expected_version \in 1 .. v
       /\ Supports(r, req.change)
    \/ /\ req \in FinishRequest
       /\ req.execution_id \in 1 .. n
       /\ req.expected_version \in 1 .. v

\* What the business record r becomes, if anything.
Outgrows(r2, r) == /\ r # None => r2 # None
                   /\ r # None /\ r.status = "COMPLETED" => r2.status = "COMPLETED"

\* How many durable calls an invocation has made at most.
CallsAt == [idle |-> 0, claiming |-> 1, reading |-> 1, reconciling |-> 2, deciding |-> 2,
            starting |-> 3, executing |-> 3, recording |-> 4, ending |-> 4,
            finishing |-> 5, failing |-> 6, reporting |-> 6, closing |-> 7,
            done |-> 7, raised |-> 7, stopped |-> 7]

Owning == Working \cup (Calling \ {"claiming"})

\* What holds of an invocation's state i.
InvocationInv(n, v, r, i) ==
    /\ i \in Invocation
    /\ i.calls <= CallsAt[i.pc]
    /\ i.snapshot # None => KnownSnapshot(n, v, r, i.snapshot)
    /\ i.pc \in Owning => i.snapshot # None
    /\ i.request # None => KnownRequest(n, v, r, i.request)
    /\ i.pc \in Calling <=> i.request # None

MessageInv(n, v, r, m) ==
    /\ m \in Message
    /\ KnownRequest(n, v, r, m.request)

WorkersInv == /\ worker \in [Worker -> Invocation]
              /\ \A w \in Worker : InvocationInv(Len(executions), checkpoint.version,
                                                 record, worker[w])
MessagesInv == \A m \in inflight : MessageInv(Len(executions), checkpoint.version, record, m)
ReceiptsInv == \A k \in DOMAIN receipts :
                   KnownSnapshot(Len(executions), checkpoint.version, record,
                                 receipts[k].response)
LedgersInv == /\ record \in BusinessRecord \cup {None}
              /\ late \subseteq {"submit", "poll", "validate"}
              /\ faults \in 0 .. MaxFaults
              /\ solo \in Worker \cup {None}

BatchInv == /\ TypeInv
            /\ WorkersInv
            /\ MessagesInv
            /\ ReceiptsInv
            /\ LedgersInv
            /\ CheckpointFollowsBusiness

-----------------------------------------------------------------------------
(* Knowledge lasts                                                         *)

\* A record that grows goes on to bear out whatever it bore out.
LEMMA SupportLasts ==
    ASSUME NEW r, NEW r2, NEW p, Outgrows(r2, r), Supports(r, p)
    PROVE  Supports(r2, p)
BY DEF Outgrows, Supports

\* More executions, more versions and a grown record leave what is known true.
LEMMA SnapshotLasts ==
    ASSUME NEW n \in Nat, NEW v \in Nat, NEW r, NEW n2 \in Nat, NEW v2 \in Nat, NEW r2,
           n <= n2, v <= v2, Outgrows(r2, r),
           NEW s, KnownSnapshot(n, v, r, s)
    PROVE  KnownSnapshot(n2, v2, r2, s)
BY SupportLasts DEF KnownSnapshot

\* What a request claims to know stays true as tables and record grow.
LEMMA RequestLasts ==
    ASSUME NEW n \in Nat, NEW v \in Nat, NEW r, NEW n2 \in Nat, NEW v2 \in Nat, NEW r2,
           n <= n2, v <= v2, Outgrows(r2, r),
           NEW req, KnownRequest(n, v, r, req)
    PROVE  KnownRequest(n2, v2, r2, req)
BY SupportLasts DEF KnownRequest

\* What an invocation knows stays true as tables and record grow.
LEMMA InvocationLasts ==
    ASSUME NEW n \in Nat, NEW v \in Nat, NEW r, NEW n2 \in Nat, NEW v2 \in Nat, NEW r2,
           n <= n2, v <= v2, Outgrows(r2, r),
           NEW i, InvocationInv(n, v, r, i)
    PROVE  InvocationInv(n2, v2, r2, i)
BY SnapshotLasts, RequestLasts DEF InvocationInv

\* What a message carries stays true as tables and record grow.
LEMMA MessageLasts ==
    ASSUME NEW n \in Nat, NEW v \in Nat, NEW r, NEW n2 \in Nat, NEW v2 \in Nat, NEW r2,
           n <= n2, v <= v2, Outgrows(r2, r),
           NEW m, MessageInv(n, v, r, m)
    PROVE  MessageInv(n2, v2, r2, m)
BY RequestLasts DEF MessageInv

\* A known request is a request.
LEMMA KnownIsRequest ==
    ASSUME NEW n, NEW v, NEW r, NEW req, KnownRequest(n, v, r, req)
    PROVE  req \in Request /\ req # None
BY NoRecordAssumption DEF KnownRequest, Request

-----------------------------------------------------------------------------
(* The business record only grows                                          *)

\* A business call leaves a record, and one that outgrows the record before
\* it.
LEMMA PerformGrows ==
    ASSUME record \in BusinessRecord \cup {None}, NEW call, Perform(call)
    PROVE  /\ record' \in BusinessRecord
           /\ Outgrows(record', record)
<1>1. CASE Submit
    BY <1>1 DEF Submit, BusinessRecord, Outgrows
<1>2. CASE Poll
    <2>1. record \in BusinessRecord
        BY <1>2 DEF Poll
    <2>. QED  BY <1>2, <2>1, NoRecordAssumption DEF Poll, BusinessRecord, Outgrows
<1>3. CASE Validate
    BY <1>3, NoRecordAssumption DEF Validate, BusinessRecord, Outgrows
<1>. QED  BY <1>1, <1>2, <1>3 DEF Perform

-----------------------------------------------------------------------------
(* Making a durable call                                                   *)

\* An invocation's notes about its mode, the outcome and the error are its own.
LEMMA Noted ==
    ASSUME NEW n, NEW v, NEW r, NEW i, InvocationInv(n, v, r, i)
    PROVE  /\ \A mode \in Modes : InvocationInv(n, v, r, [i EXCEPT !.mode = mode])
           /\ \A ok \in BOOLEAN : InvocationInv(n, v, r, [i EXCEPT !.successful = ok])
           /\ \A text \in Failures \cup {None, "message"} :
                  InvocationInv(n, v, r, [i EXCEPT !.error = text])
BY DEF InvocationInv, Invocation

\* An invocation that makes a call it may make still is as it should be.
LEMMA CallKeepsInvocation ==
    ASSUME NEW n, NEW v, NEW r, NEW i, InvocationInv(n, v, r, i),
           NEW pc \in Calling, NEW req, KnownRequest(n, v, r, req),
           i.calls + 1 <= CallsAt[pc], pc # "claiming" => i.snapshot # None
    PROVE  InvocationInv(n, v, r, [i EXCEPT !.pc = pc, !.request = req,
                                            !.attempt = 1, !.calls = @ + 1])
<1> DEFINE j == [i EXCEPT !.pc = pc, !.request = req, !.attempt = 1, !.calls = @ + 1]
<1>1. req \in Request /\ req # None
    BY KnownIsRequest
<1>2. j \in Invocation
    <2>1. i \in Invocation /\ i.calls + 1 \in Nat
        BY DEF InvocationInv, Invocation
    <2>2. pc \in {"idle"} \cup Calling \cup Working \cup Ended
        OBVIOUS
    <2>3. req \in Request \cup {None} /\ 1 \in 0 .. 2
        BY <1>1
    <2>. QED  BY <2>1, <2>2, <2>3 DEF Invocation
<1>3. /\ j.pc = pc /\ j.request = req /\ j.calls = i.calls + 1 /\ j.snapshot = i.snapshot
    BY DEF InvocationInv, Invocation
<1>4. pc \in Owning => pc # "claiming"
    BY DEF Owning, Working, Calling
<1>. QED  BY <1>1, <1>2, <1>3, <1>4 DEF InvocationInv

\* Its requests name what its snapshot names, and ask for progress borne out.
LEMMA SaveIsKnown ==
    ASSUME NEW n, NEW v, NEW r, NEW w \in Worker, InvocationInv(n, v, r, worker[w]),
           worker[w].snapshot # None, worker[w].calls <= 6,
           NEW p \in Progress, Supports(r, p)
    PROVE  KnownRequest(n, v, r, SaveOf(w, p))
<1> DEFINE old == worker[w].snapshot
           new == SaveOf(w, p).change
<1>1. KnownSnapshot(n, v, r, old)
    BY DEF InvocationInv
<1>2. <<w, worker[w].calls + 1>> \in MutationId
    BY MutationAssumption DEF InvocationInv, Invocation
<1>3. RunOf[w] \in WorkflowRun
    BY RunAssumption
<1>4. new = [p EXCEPT
                !.external_reference = IF @ = None THEN old.progress.external_reference ELSE @,
                !.result_reference = IF @ = None THEN old.progress.result_reference ELSE @]
    BY DEF SaveOf
<1>5. old.progress \in Progress
    BY <1>1 DEF KnownSnapshot, Checkpoint
<1>6. new \in Progress
    BY <1>4, <1>5 DEF Progress
<1>7. Supports(r, new)
    <2>1. Supports(r, old.progress)
        BY <1>1 DEF KnownSnapshot
    <2>. QED  BY <2>1, <1>4, <1>5 DEF Supports, Progress
<1>8. old.execution \in Nat /\ old.version \in Nat \ {0}
    BY <1>1 DEF KnownSnapshot, Checkpoint
<1>9. SaveOf(w, p) = [tool |-> "save", mutation_id |-> <<w, worker[w].calls + 1>>,
                      workflow_run_id |-> RunOf[w], execution_id |-> old.execution,
                      expected_version |-> old.version, change |-> new]
    BY DEF SaveOf, NextMutation
<1>10. SaveOf(w, p) \in SaveRequest
    BY <1>2, <1>3, <1>6, <1>8, <1>9, AnyChange DEF SaveRequest
<1>. QED  BY <1>1, <1>7, <1>9, <1>10 DEF KnownRequest, KnownSnapshot

\* A finish built from a known snapshot is a known request.
LEMMA FinishIsKnown ==
    ASSUME NEW n, NEW v, NEW r, NEW w \in Worker, InvocationInv(n, v, r, worker[w]),
           worker[w].snapshot # None, worker[w].calls <= 6, NEW text \in ErrorText
    PROVE  KnownRequest(n, v, r, FinishOf(w, text))
<1> DEFINE old == worker[w].snapshot
<1>1. KnownSnapshot(n, v, r, old)
    BY DEF InvocationInv
<1>2. <<w, worker[w].calls + 1>> \in MutationId
    BY MutationAssumption DEF InvocationInv, Invocation
<1>3. RunOf[w] \in WorkflowRun
    BY RunAssumption
<1>4. old.execution \in Nat /\ old.version \in Nat \ {0}
    BY <1>1 DEF KnownSnapshot, Checkpoint
<1>5. FinishOf(w, text) = [tool |-> "finish", mutation_id |-> <<w, worker[w].calls + 1>>,
                           workflow_run_id |-> RunOf[w], execution_id |-> old.execution,
                           expected_version |-> old.version, error |-> text]
    BY DEF FinishOf, NextMutation
<1>6. FinishOf(w, text) \in FinishRequest
    BY <1>2, <1>3, <1>4, <1>5 DEF FinishRequest
<1>. QED  BY <1>1, <1>5, <1>6 DEF KnownRequest, KnownSnapshot

\* The first call of an invocation is a known request.
LEMMA ClaimIsKnown ==
    ASSUME NEW n, NEW v, NEW r, NEW w \in Worker, worker[w].calls = 0
    PROVE  KnownRequest(n, v, r, ClaimOf(w))
BY MutationAssumption, RunAssumption DEF KnownRequest, ClaimOf, NextMutation, ClaimRequest

\* A FAILED or RUNNING mark claims nothing new.
LEMMA MarkIsSupported ==
    ASSUME NEW n, NEW v, NEW r, NEW s, KnownSnapshot(n, v, r, s)
    PROVE  /\ Marked(s.progress.current_stage, "FAILED") \in Progress
           /\ Supports(r, Marked(s.progress.current_stage, "FAILED"))
           /\ \A stage \in {"AD_SUBMISSION", InitialStage} :
                  /\ Marked(stage, "RUNNING") \in Progress
                  /\ Supports(r, Marked(stage, "RUNNING"))
<1>1. s.progress \in Progress /\ Supports(r, s.progress)
    BY DEF KnownSnapshot, Checkpoint
<1>2. InitialStage \in Stage /\ InitialStage # "AD_POLLING"
    BY AgentAssumption DEF InitialStage, InitialStageOf, Stage
<1>. QED  BY <1>1, <1>2 DEF Marked, Progress, Supports, Stage, Status

\* What a record reports is progress it bears out.
LEMMA RecordSupportsItself ==
    ASSUME NEW r \in BusinessRecord
    PROVE  ProgressOf(r) \in Progress /\ Supports(r, ProgressOf(r))
<1>1. InitialStage \in Stage
    BY InitialStageType
<1>2. r.status \in {"WAITING", "COMPLETED"} /\ r # None
    BY NoRecordAssumption DEF BusinessRecord
<1>. QED  BY <1>1, <1>2, ReferenceAssumption DEF ProgressOf, Progress, Supports, Stage, Status

\* A step in which one invocation makes a call preserves the invariant,
\* whatever else happens to the business record and the bookkeeping.
LEMMA CallStep ==
    ASSUME BatchInv, UNCHANGED vars, LedgersInv', Outgrows(record', record),
           NEW w \in Worker, NEW net, net \subseteq inflight, NEW i, NEW pc \in Calling,
           NEW req, KnownRequest(Len(executions), checkpoint.version, record', req),
           InvocationInv(Len(executions), checkpoint.version, record', i),
           i.calls + 1 <= CallsAt[pc], pc # "claiming" => i.snapshot # None,
           CallOver(net, w, i, pc, req)
    PROVE  BatchInv'
<1> DEFINE n == Len(executions)
           v == checkpoint.version
           j == [i EXCEPT !.pc = pc, !.request = req, !.attempt = 1, !.calls = @ + 1]
<1>1. n \in Nat /\ v \in Nat
    BY DEF BatchInv, TypeInv, TypeOK, Checkpoint
<1>2. TypeInv' /\ Len(executions') = n /\ checkpoint'.version = v /\ receipts' = receipts
    BY DEF BatchInv, TypeInv, TypeOK, PointsAtLatest, vars
<1>3. InvocationInv(n, v, record', j)
    BY CallKeepsInvocation
<1>4. worker' = [worker EXCEPT ![w] = j]
    BY DEF CallOver
<1>5. WorkersInv'
    <2>1. worker' \in [Worker -> Invocation]
        BY <1>3, <1>4 DEF BatchInv, WorkersInv, InvocationInv
    <2>2. ASSUME NEW u \in Worker PROVE InvocationInv(n, v, record', worker'[u])
        <3>1. CASE u = w
            BY <3>1, <1>3, <1>4 DEF BatchInv, WorkersInv
        <3>2. CASE u # w
            <4>1. InvocationInv(n, v, record, worker[u]) /\ worker'[u] = worker[u]
                BY <3>2, <1>4 DEF BatchInv, WorkersInv
            <4>. QED  BY <4>1, <1>1, InvocationLasts
        <3>. QED  BY <3>1, <3>2
    <2>. QED  BY <2>1, <2>2, <1>2 DEF WorkersInv
<1>6. MessagesInv'
    <2>1. inflight' = net \cup {[worker |-> w, attempt |-> 1, request |-> req]}
        BY DEF CallOver
    <2>2. MessageInv(n, v, record', [worker |-> w, attempt |-> 1, request |-> req])
        BY KnownIsRequest DEF MessageInv, Message
    <2>3. \A m \in inflight : MessageInv(n, v, record', m)
        BY <1>1, MessageLasts DEF BatchInv, MessagesInv
    <2>. QED  BY <2>1, <2>2, <2>3, <1>2 DEF MessagesInv
<1>7. ReceiptsInv'
    BY <1>1, <1>2, SnapshotLasts DEF BatchInv, ReceiptsInv
<1>8. CheckpointFollowsBusiness'
    <2>1. checkpoint' = checkpoint
        BY DEF vars
    <2>. QED  BY <2>1, SupportLasts DEF BatchInv, CheckpointFollowsBusiness
<1>. QED  BY <1>2, <1>5, <1>6, <1>7, <1>8 DEF BatchInv

\* So does a step in which one invocation changes in a way that keeps it as
\* it should be, and the store and the record stay as they are.
LEMMA LocalStep ==
    ASSUME BatchInv, UNCHANGED vars, LedgersInv', record' = record,
           NEW w \in Worker, NEW i, worker' = [worker EXCEPT ![w] = i],
           InvocationInv(Len(executions), checkpoint.version, record, i),
           \A m \in inflight' : MessageInv(Len(executions), checkpoint.version, record, m)
    PROVE  BatchInv'
<1>1. TypeInv' /\ executions' = executions /\ checkpoint' = checkpoint /\ receipts' = receipts
    BY DEF BatchInv, TypeInv, TypeOK, PointsAtLatest, vars
<1>2. WorkersInv'
    BY <1>1 DEF BatchInv, WorkersInv, InvocationInv
<1>3. MessagesInv' /\ ReceiptsInv' /\ CheckpointFollowsBusiness'
    BY <1>1 DEF BatchInv, MessagesInv, ReceiptsInv, CheckpointFollowsBusiness
<1>. QED  BY <1>1, <1>2, <1>3 DEF BatchInv

-----------------------------------------------------------------------------
(* The invocations' own steps                                              *)

\* What the invariant says of the invocation that takes a step.
LEMMA Taking ==
    ASSUME BatchInv, NEW w \in Worker
    PROVE  /\ InvocationInv(Len(executions), checkpoint.version, record, worker[w])
           /\ worker[w] \in Invocation
           /\ worker[w].pc \in Owning =>
                  KnownSnapshot(Len(executions), checkpoint.version, record, worker[w].snapshot)
           /\ worker[w].pc \in Owning => worker[w].snapshot # None
BY DEF BatchInv, WorkersInv, InvocationInv

\* A record outgrows itself.
LEMMA Unmoved == Outgrows(record, record)
BY DEF Outgrows

\* Starting an invocation keeps the invariant.
LEMMA StartStep ==
    ASSUME BatchInv, NEW w \in Worker, Start(w)
    PROVE  BatchInv'
<1> DEFINE n == Len(executions)
           v == checkpoint.version
<1>1. PICK mode \in Modes : Call(w, [worker[w] EXCEPT !.mode = mode], "claiming", ClaimOf(w))
    BY DEF Start
<1> DEFINE i == [worker[w] EXCEPT !.mode = mode]
<1>2. worker[w].calls = 0
    BY Taking DEF Start, InvocationInv, Invocation, CallsAt
<1>3. InvocationInv(n, v, record, i) /\ i.calls = 0
    BY <1>2, Taking, Noted DEF InvocationInv, Invocation
<1>4. KnownRequest(n, v, record, ClaimOf(w))
    BY <1>2, ClaimIsKnown
<1>5. LedgersInv' /\ UNCHANGED vars /\ record' = record
    BY DEF Start, BatchInv, LedgersInv
<1>6. CallOver(inflight, w, i, "claiming", ClaimOf(w))
    BY <1>1 DEF Call
<1>7. i.calls + 1 <= CallsAt["claiming"]
    BY <1>3 DEF CallsAt
<1>. QED  BY <1>3, <1>4, <1>5, <1>6, <1>7, CallStep, Unmoved DEF Calling

\* The exception handler's save, over any part of the network.
LEMMA RaiseStep ==
    ASSUME BatchInv, UNCHANGED vars, LedgersInv', Outgrows(record', record),
           NEW w \in Worker, worker[w].pc \in Owning, CallsAt[worker[w].pc] <= 5,
           NEW net, net \subseteq inflight, NEW text \in Failures \cup {None, "message"},
           RaiseOver(net, w, text)
    PROVE  BatchInv'
<1> DEFINE n == Len(executions)
           v == checkpoint.version
           i == [worker[w] EXCEPT !.error = text]
           mark == Marked(worker[w].snapshot.progress.current_stage, "FAILED")
<1>1. n \in Nat /\ v \in Nat
    BY DEF BatchInv, TypeInv, TypeOK, Checkpoint
<1>2. InvocationInv(n, v, record', worker[w])
    BY <1>1, Taking, InvocationLasts
<1>3. worker[w].snapshot # None /\ worker[w].calls \in Nat /\ worker[w].calls <= 5
    BY Taking DEF InvocationInv, Invocation, CallsAt, Owning, Calling, Working
<1>4. InvocationInv(n, v, record', i) /\ i.calls = worker[w].calls /\ i.snapshot # None
    BY <1>2, <1>3, Noted DEF InvocationInv, Invocation
<1>5. mark \in Progress /\ Supports(record', mark)
    BY <1>2, <1>3, MarkIsSupported DEF InvocationInv
<1>6. KnownRequest(n, v, record', SaveOf(w, mark))
    BY <1>2, <1>3, <1>5, SaveIsKnown
<1>7. CallOver(net, w, i, "failing", SaveOf(w, mark))
    BY DEF RaiseOver
<1>8. i.calls + 1 <= CallsAt["failing"]
    BY <1>3, <1>4 DEF CallsAt
<1>. QED  BY <1>4, <1>6, <1>7, <1>8, CallStep DEF Calling

\* Reading the business progress, and repairing the checkpoint, keeps the
\* invariant.
LEMMA ReadStep ==
    ASSUME BatchInv, NEW w \in Worker, Read(w)
    PROVE  BatchInv'
<1> DEFINE n == Len(executions)
           v == checkpoint.version
<1>1. worker[w].pc = "reading" /\ worker[w].pc \in Owning /\ CallsAt[worker[w].pc] = 1
    BY DEF Read, Owning, Working, CallsAt
<1>2. /\ InvocationInv(n, v, record, worker[w]) /\ worker[w].snapshot # None
      /\ worker[w].calls \in Nat /\ worker[w].calls <= 1
    BY <1>1, Taking DEF InvocationInv, Invocation
<1>3. LedgersInv' /\ UNCHANGED vars /\ record' = record
    BY DEF Read, BatchInv, LedgersInv
<1>4. CASE record # None /\ ProgressOf(record) # worker[w].snapshot.progress
    <2> DEFINE i == [worker[w] EXCEPT !.successful = record.successful]
    <2>1. record \in BusinessRecord
        BY <1>4 DEF BatchInv, LedgersInv
    <2>2. InvocationInv(n, v, record, i) /\ i.calls = worker[w].calls /\ i.snapshot # None
        BY <1>2, <2>1, Noted DEF InvocationInv, Invocation, BusinessRecord
    <2>3. KnownRequest(n, v, record, SaveOf(w, ProgressOf(record)))
        BY <1>2, <2>1, RecordSupportsItself, SaveIsKnown
    <2>4. CallOver(inflight, w, i, "reconciling", SaveOf(w, ProgressOf(record)))
        BY <1>4 DEF Read, Call
    <2>5. i.calls + 1 <= CallsAt["reconciling"]
        BY <1>2, <2>2 DEF CallsAt
    <2>. QED  BY <1>3, <2>2, <2>3, <2>4, <2>5, CallStep, Unmoved DEF Calling
<1>5. CASE /\ ~(record # None /\ ProgressOf(record) # worker[w].snapshot.progress)
           /\ record = None /\ worker[w].snapshot.progress.checkpoint_status = "COMPLETED"
    <2>1. RaiseOver(inflight, w, "message")
        BY <1>5 DEF Read, Raise
    <2>. QED  BY <1>1, <1>3, <2>1, RaiseStep, Unmoved
<1>6. CASE /\ ~(record # None /\ ProgressOf(record) # worker[w].snapshot.progress)
           /\ ~(record = None /\ worker[w].snapshot.progress.checkpoint_status = "COMPLETED")
    <2> DEFINE i == [worker[w] EXCEPT !.pc = "deciding",
                                      !.successful = record = None \/ record.successful]
    <2>1. worker' = [worker EXCEPT ![w] = i] /\ inflight' = inflight
        BY <1>6 DEF Read
    <2>2. (record = None \/ record.successful) \in BOOLEAN
        BY Zenon
    <2>3. /\ i \in Invocation /\ i.pc = "deciding" /\ i.calls = worker[w].calls
          /\ i.snapshot = worker[w].snapshot /\ i.request = worker[w].request
        BY <1>2, <2>2 DEF InvocationInv, Invocation, Working
    <2>4. InvocationInv(n, v, record, i)
        BY <1>1, <1>2, <2>3 DEF InvocationInv, CallsAt, Calling
    <2>. QED  BY <1>3, <2>1, <2>4, LocalStep DEF BatchInv, MessagesInv
<1>. QED  BY <1>4, <1>5, <1>6

\* Going on to other local work leaves everything else as it was.
LEMMA GotoStep ==
    ASSUME BatchInv, UNCHANGED vars, LedgersInv', record' = record,
           NEW w \in Worker, worker[w].pc \in Working,
           NEW pc \in Working, CallsAt[worker[w].pc] <= CallsAt[pc], Goto(w, pc)
    PROVE  BatchInv'
<1> DEFINE n == Len(executions)
           v == checkpoint.version
           i == [worker[w] EXCEPT !.pc = pc]
<1>1. InvocationInv(n, v, record, worker[w]) /\ worker[w].snapshot # None
    BY Taking DEF Owning
<1>2. /\ i \in Invocation /\ i.pc = pc /\ i.calls = worker[w].calls
      /\ i.snapshot = worker[w].snapshot /\ i.request = worker[w].request
    BY <1>1 DEF InvocationInv, Invocation
<1>3. i.calls <= CallsAt[i.pc] /\ i.pc \notin Calling
    BY <1>1, <1>2 DEF InvocationInv, Invocation, CallsAt, Working, Calling, Owning
<1>4. worker[w].pc \notin Calling
    BY DEF Working, Calling
<1>5. InvocationInv(n, v, record, i)
    BY <1>1, <1>2, <1>3, <1>4 DEF InvocationInv
<1>. QED  BY <1>5, LocalStep DEF Goto, BatchInv, MessagesInv

\* Marking the step RUNNING before it is taken.
LEMMA MarkStep ==
    ASSUME BatchInv, UNCHANGED vars, LedgersInv', record' = record,
           NEW w \in Worker, worker[w].pc = "deciding",
           NEW stage \in {"AD_SUBMISSION", InitialStage},
           Call(w, worker[w], "starting", SaveOf(w, Marked(stage, "RUNNING")))
    PROVE  BatchInv'
<1> DEFINE n == Len(executions)
           v == checkpoint.version
<1>1. worker[w].pc \in Owning
    BY DEF Owning, Working
<1>2. /\ InvocationInv(n, v, record, worker[w]) /\ worker[w].snapshot # None
      /\ KnownSnapshot(n, v, record, worker[w].snapshot)
      /\ worker[w].calls \in Nat /\ worker[w].calls <= 2
    BY <1>1, Taking DEF InvocationInv, Invocation, CallsAt
<1>3. KnownRequest(n, v, record, SaveOf(w, Marked(stage, "RUNNING")))
    BY <1>2, MarkIsSupported, SaveIsKnown
<1>4. worker[w].calls + 1 <= CallsAt["starting"]
    BY <1>2 DEF CallsAt
<1>. QED  BY <1>2, <1>3, <1>4, CallStep, Unmoved DEF Call, Calling

\* Choosing a step keeps the invariant.
LEMMA DecideStep ==
    ASSUME BatchInv, NEW w \in Worker, Decide(w)
    PROVE  BatchInv'
<1>1. LedgersInv' /\ UNCHANGED vars /\ record' = record /\ worker[w].pc = "deciding"
    BY DEF Decide, BatchInv, LedgersInv
<1>2. worker[w].pc \in Owning /\ CallsAt[worker[w].pc] = 2
    BY <1>1 DEF Owning, Working, CallsAt
<1>3. \/ Goto(w, "ending")
      \/ Goto(w, "executing")
      \/ Call(w, worker[w], "starting", SaveOf(w, Marked(InitialStage, "RUNNING")))
      \/ Call(w, worker[w], "starting", SaveOf(w, Marked("AD_SUBMISSION", "RUNNING")))
      \/ Raise(w, "message")
    BY DEF Decide
<1>4. CASE Goto(w, "ending") \/ Goto(w, "executing")
    BY <1>1, <1>2, <1>4, GotoStep DEF Working, CallsAt
<1>5. CASE \/ Call(w, worker[w], "starting", SaveOf(w, Marked(InitialStage, "RUNNING")))
           \/ Call(w, worker[w], "starting", SaveOf(w, Marked("AD_SUBMISSION", "RUNNING")))
    BY <1>1, <1>5, MarkStep
<1>6. CASE Raise(w, "message")
    BY <1>1, <1>2, <1>6, RaiseStep, Unmoved DEF Raise
<1>. QED  BY <1>3, <1>4, <1>5, <1>6

\* The business step and the save of its progress keep the invariant.
LEMMA ExecuteStep ==
    ASSUME BatchInv, NEW w \in Worker, Execute(w)
    PROVE  BatchInv'
<1> DEFINE n == Len(executions)
           v == checkpoint.version
           i == [worker[w] EXCEPT !.successful = record'.successful]
<1>1. worker[w].pc = "executing" /\ worker[w].pc \in Owning
    BY DEF Execute, Owning, Working
<1>2. n \in Nat /\ v \in Nat
    BY DEF BatchInv, TypeInv, TypeOK, Checkpoint
<1>3. record' \in BusinessRecord /\ Outgrows(record', record)
    BY PerformGrows DEF Execute, BatchInv, LedgersInv
<1>4. /\ InvocationInv(n, v, record', worker[w]) /\ worker[w].snapshot # None
      /\ worker[w].calls \in Nat /\ worker[w].calls <= 3
    <2>1. InvocationInv(n, v, record', worker[w])
        BY <1>2, <1>3, Taking, InvocationLasts
    <2>. QED  BY <1>1, <2>1, Taking DEF InvocationInv, Invocation, CallsAt
<1>5. InvocationInv(n, v, record', i) /\ i.calls = worker[w].calls /\ i.snapshot # None
    BY <1>3, <1>4, Noted DEF InvocationInv, Invocation, BusinessRecord
<1>6. KnownRequest(n, v, record', SaveOf(w, ProgressOf(record')))
    BY <1>3, <1>4, RecordSupportsItself, SaveIsKnown
<1>7. LedgersInv' /\ UNCHANGED vars
    BY <1>3 DEF Execute, BatchInv, LedgersInv
<1>8. CallOver(inflight, w, i, "recording", SaveOf(w, ProgressOf(record')))
    BY DEF Execute, Call
<1>9. i.calls + 1 <= CallsAt["recording"]
    BY <1>4, <1>5 DEF CallsAt
<1>. QED  BY <1>3, <1>5, <1>6, <1>7, <1>8, <1>9, CallStep DEF Calling

\* The two calls that finish an execution, without and with an error.
LEMMA FinishStep ==
    ASSUME BatchInv, NEW w \in Worker, Conclude(w) \/ Report(w)
    PROVE  BatchInv'
<1> DEFINE n == Len(executions)
           v == checkpoint.version
<1>1. LedgersInv' /\ UNCHANGED vars /\ record' = record
    BY DEF Conclude, Report, BatchInv, LedgersInv
<1>2. worker[w].pc \in Owning
    BY DEF Conclude, Report, Owning, Working
<1>3. /\ InvocationInv(n, v, record, worker[w]) /\ worker[w].snapshot # None
      /\ worker[w].calls \in Nat /\ worker[w].calls <= CallsAt[worker[w].pc]
    BY <1>2, Taking DEF InvocationInv, Invocation
<1>4. PICK pc \in {"finishing", "closing"}, text \in ErrorText :
          /\ Call(w, worker[w], pc, FinishOf(w, text))
          /\ worker[w].calls + 1 <= CallsAt[pc]
    <2>1. CASE Conclude(w)
        <3>1. Call(w, worker[w], "finishing", FinishOf(w, None)) /\ None \in ErrorText
            BY <2>1 DEF Conclude, ErrorText
        <3>2. worker[w].calls + 1 <= CallsAt["finishing"]
            BY <2>1, <1>3 DEF Conclude, CallsAt
        <3>3. \E text \in ErrorText :
                  /\ Call(w, worker[w], "finishing", FinishOf(w, text))
                  /\ worker[w].calls + 1 <= CallsAt["finishing"]
            BY <3>1, <3>2, Zenon
        <3>. QED  BY <3>3
    <2>2. CASE Report(w)
        <3>1. worker[w].error \in ErrorText
            BY <1>3, FailureAssumption DEF InvocationInv, Invocation, ErrorText
        <3>2. Call(w, worker[w], "closing", FinishOf(w, worker[w].error))
            BY <2>2 DEF Report
        <3>3. worker[w].calls + 1 <= CallsAt["closing"]
            BY <2>2, <1>3 DEF Report, CallsAt
        <3>4. \E text \in ErrorText :
                  /\ Call(w, worker[w], "closing", FinishOf(w, text))
                  /\ worker[w].calls + 1 <= CallsAt["closing"]
            BY <3>1, <3>2, <3>3, Zenon
        <3>. QED  BY <3>4
    <2>. QED  BY <2>1, <2>2
<1>5. KnownRequest(n, v, record, FinishOf(w, text))
    BY <1>3, <1>4, FinishIsKnown DEF CallsAt
<1>. QED  BY <1>1, <1>3, <1>4, <1>5, CallStep, Unmoved DEF Call, Calling

-----------------------------------------------------------------------------
(* Faults and the environment                                              *)

\* A fault keeps the counters and ledgers in their bounds.
LEMMA FaultLedgers ==
    ASSUME BatchInv, Fault, record' \in BusinessRecord \cup {None},
           late' \subseteq {"submit", "poll", "validate"}
    PROVE  LedgersInv'
BY FaultAssumption DEF Fault, BatchInv, LedgersInv

\* The second attempt of a call keeps the invariant.
LEMMA RetryStep ==
    ASSUME BatchInv, NEW w \in Worker, Retry(w)
    PROVE  BatchInv'
<1> DEFINE n == Len(executions)
           v == checkpoint.version
           i == [worker[w] EXCEPT !.attempt = 2]
           m == [worker |-> w, attempt |-> 2, request |-> worker[w].request]
<1>1. InvocationInv(n, v, record, worker[w]) /\ worker[w].request # None
    BY Taking DEF Retry, InvocationInv
<1>2. KnownRequest(n, v, record, worker[w].request)
    BY <1>1 DEF InvocationInv
<1>3. InvocationInv(n, v, record, i)
    BY <1>1 DEF InvocationInv, Invocation
<1>4. MessageInv(n, v, record, m)
    BY <1>2, KnownIsRequest DEF MessageInv, Message
<1>5. LedgersInv' /\ UNCHANGED vars /\ record' = record
    BY FaultLedgers DEF Retry, BatchInv, LedgersInv
<1>6. \A a \in inflight' : MessageInv(n, v, record, a)
    BY <1>4 DEF Retry, BatchInv, MessagesInv
<1>. QED  BY <1>3, <1>5, <1>6, LocalStep DEF Retry

\* An invocation that ends early, its unsent or unanswered call aside.
LEMMA EndedInvocation ==
    ASSUME NEW n, NEW v, NEW r, NEW i, InvocationInv(n, v, r, i)
    PROVE  InvocationInv(n, v, r, [i EXCEPT !.pc = "stopped", !.request = None])
<1> DEFINE j == [i EXCEPT !.pc = "stopped", !.request = None]
<1>1. /\ j \in Invocation /\ j.pc = "stopped" /\ j.calls = i.calls
      /\ j.snapshot = i.snapshot /\ j.request = None
    BY DEF InvocationInv, Invocation, Ended
<1>2. i.calls \in Nat /\ i.calls <= 7
    BY DEF InvocationInv, Invocation, CallsAt, Calling, Working, Ended
<1>. QED  BY <1>1, <1>2 DEF InvocationInv, CallsAt, Owning, Calling, Working

\* A crash keeps the invariant.
LEMMA StopStep ==
    ASSUME BatchInv, NEW w \in Worker, Stop(w)
    PROVE  BatchInv'
<1> DEFINE i == [worker[w] EXCEPT !.pc = "stopped", !.request = None]
<1>1. InvocationInv(Len(executions), checkpoint.version, record, i)
    BY Taking, EndedInvocation
<1>2. LedgersInv' /\ UNCHANGED vars /\ record' = record
    BY FaultLedgers DEF Stop, BatchInv, LedgersInv
<1>3. worker' = [worker EXCEPT ![w] = i] /\ inflight' = inflight
    BY DEF Stop
<1>. QED  BY <1>1, <1>2, <1>3, LocalStep DEF BatchInv, MessagesInv

\* Failing credentials keep the invariant.
LEMMA CredentialsStep ==
    ASSUME BatchInv, NEW w \in Worker, CredentialsFail(w)
    PROVE  BatchInv'
<1> DEFINE unsent == [worker |-> w, attempt |-> worker[w].attempt,
                      request |-> worker[w].request]
<1>1. LedgersInv' /\ UNCHANGED vars /\ record' = record
    BY FaultLedgers DEF CredentialsFail, BatchInv, LedgersInv
<1>2. CASE worker[w].pc \in {"claiming", "failing", "closing"}
    <2> DEFINE i == [worker[w] EXCEPT !.pc = "stopped", !.request = None]
    <2>1. worker' = [worker EXCEPT ![w] = i] /\ inflight' = inflight \ {unsent}
        BY <1>2 DEF CredentialsFail
    <2>2. InvocationInv(Len(executions), checkpoint.version, record, i)
        BY Taking, EndedInvocation
    <2>. QED  BY <1>1, <2>1, <2>2, LocalStep DEF BatchInv, MessagesInv
<1>3. CASE worker[w].pc \notin {"claiming", "failing", "closing"}
    <2>1. RaiseOver(inflight \ {unsent}, w, "message")
        BY <1>3 DEF CredentialsFail
    <2>2. worker[w].pc \in Owning /\ CallsAt[worker[w].pc] <= 5
        BY <1>3 DEF CredentialsFail, Owning, Calling, CallsAt
    <2>. QED  BY <1>1, <2>1, <2>2, RaiseStep, Unmoved
<1>. QED  BY <1>2, <1>3

\* A failing business call keeps the invariant.
LEMMA BusinessFailsStep ==
    ASSUME BatchInv, NEW w \in Worker, BusinessFails(w)
    PROVE  BatchInv'
<1>1. worker[w].pc \in Owning /\ CallsAt[worker[w].pc] <= 5
    BY DEF BusinessFails, Owning, Working, CallsAt
<1>2. PICK text \in Failures : RaiseOver(inflight, w, text)
    BY DEF BusinessFails, Raise
<1>3. StepOf(w) \in {"submit", "poll", "validate"}
    BY DEF StepOf
<1>4. /\ record' \in BusinessRecord \cup {None} /\ Outgrows(record', record)
      /\ late' \subseteq {"submit", "poll", "validate"}
    <2>1. CASE Perform(StepOf(w)) /\ UNCHANGED late
        BY <2>1, PerformGrows DEF BatchInv, LedgersInv
    <2>2. CASE UNCHANGED record /\ late' \in {late, late \cup {StepOf(w)}}
        BY <2>2, <1>3, Unmoved DEF BatchInv, LedgersInv, Outgrows
    <2>. QED  BY <2>1, <2>2 DEF BusinessFails
<1>5. LedgersInv' /\ UNCHANGED vars
    BY <1>4, FaultLedgers DEF BusinessFails
<1>. QED  BY <1>1, <1>2, <1>4, <1>5, RaiseStep

\* A step that neither sends nor handles a call, and lets the record grow.
LEMMA EnvironmentStep ==
    ASSUME BatchInv, TypeInv', LedgersInv', Outgrows(record', record),
           UNCHANGED <<tables, worker, inflight>>
    PROVE  BatchInv'
<1> DEFINE n == Len(executions)
           v == checkpoint.version
<1>1. n \in Nat /\ v \in Nat
    BY DEF BatchInv, TypeInv, TypeOK, Checkpoint
<1>2. /\ Len(executions') = n /\ checkpoint' = checkpoint /\ receipts' = receipts
      /\ worker' = worker /\ inflight' = inflight
    BY DEF tables
<1>3. WorkersInv'
    BY <1>1, <1>2, InvocationLasts DEF BatchInv, WorkersInv
<1>4. MessagesInv'
    BY <1>1, <1>2, MessageLasts DEF BatchInv, MessagesInv
<1>5. ReceiptsInv' /\ CheckpointFollowsBusiness'
    BY <1>1, <1>2, SnapshotLasts, SupportLasts
       DEF BatchInv, ReceiptsInv, CheckpointFollowsBusiness
<1>. QED  BY <1>3, <1>4, <1>5 DEF BatchInv

\* A business call that takes effect after its caller gave up keeps the
\* invariant.
LEMMA LateEffectStep ==
    ASSUME BatchInv, NEW call \in late, LateEffect(call)
    PROVE  BatchInv'
<1>1. record' \in BusinessRecord /\ Outgrows(record', record)
    BY PerformGrows DEF LateEffect, BatchInv, LedgersInv
<1>2. LedgersInv' /\ TypeInv'
    BY <1>1 DEF LateEffect, BatchInv, LedgersInv, vars, TypeInv, TypeOK, PointsAtLatest
<1>. QED  BY <1>1, <1>2, EnvironmentStep DEF LateEffect, vars, tables

\* The clock keeps the invariant.
LEMMA TickStep ==
    ASSUME BatchInv, BatchTick
    PROVE  BatchInv'
<1>1. TypeInv'
    BY DEF BatchTick, Tick, tables, BatchInv, TypeInv, TypeOK, PointsAtLatest
<1>2. LedgersInv' /\ Outgrows(record', record) /\ UNCHANGED <<tables, worker, inflight>>
    BY DEF BatchTick, Tick, BatchInv, LedgersInv, Outgrows
<1>. QED  BY <1>1, <1>2, EnvironmentStep

-----------------------------------------------------------------------------
(* The server handles a call                                               *)

\* Handling a known request is a step of the durable store.
LEMMA HandleIsNext ==
    ASSUME BatchInv, NEW req,
           KnownRequest(Len(executions), checkpoint.version, record, req), Handle(req)
    PROVE  [Next]_vars
<1>1. DOMAIN executions = 1 .. Len(executions)
    BY DEF BatchInv, TypeInv, TypeOK
<1>2. CASE Verdict(req) = "ACCEPTED" /\ req.tool = "claim" /\ Claim(req)
    <2>1. /\ req.mutation_id \in MutationId /\ req.workflow_run_id \in WorkflowRun
          /\ req = [tool |-> "claim", mutation_id |-> req.mutation_id,
                    workflow_run_id |-> req.workflow_run_id]
        BY <1>2 DEF KnownRequest, ClaimRequest, SaveRequest, FinishRequest
    <2>. QED  BY <2>1, <1>2, Zenon DEF Next
<1>3. CASE Verdict(req) = "ACCEPTED" /\ req.tool = "save" /\ Save(req)
    <2>1. /\ req.mutation_id \in MutationId /\ req.workflow_run_id \in WorkflowRun
          /\ req.execution_id \in DOMAIN executions
          /\ req.expected_version \in 1 .. checkpoint.version /\ req.change \in Change
          /\ req = [tool |-> "save", mutation_id |-> req.mutation_id,
                    workflow_run_id |-> req.workflow_run_id,
                    execution_id |-> req.execution_id,
                    expected_version |-> req.expected_version, change |-> req.change]
        BY <1>1, <1>3 DEF KnownRequest, ClaimRequest, SaveRequest, FinishRequest
    <2>. QED  BY <2>1, <1>3, Zenon DEF Next
<1>4. CASE Verdict(req) = "ACCEPTED" /\ req.tool = "finish" /\ Finish(req)
    <2>1. /\ req.mutation_id \in MutationId /\ req.workflow_run_id \in WorkflowRun
          /\ req.execution_id \in DOMAIN executions
          /\ req.expected_version \in 1 .. checkpoint.version /\ req.error \in ErrorText
          /\ req = [tool |-> "finish", mutation_id |-> req.mutation_id,
                    workflow_run_id |-> req.workflow_run_id,
                    execution_id |-> req.execution_id,
                    expected_version |-> req.expected_version, error |-> req.error]
        BY <1>1, <1>4 DEF KnownRequest, ClaimRequest, SaveRequest, FinishRequest
    <2>. QED  BY <2>1, <1>4, Zenon DEF Next
<1>. QED  BY <1>2, <1>3, <1>4 DEF Handle

\* An accepted request leaves a row that is known, one version further on.
LEMMA AcceptedRow ==
    ASSUME BatchInv, NEW req, Verdict(req) = "ACCEPTED", Handle(req),
           KnownRequest(Len(executions), checkpoint.version, record, req)
    PROVE  /\ Len(executions) <= Len(executions')
           /\ checkpoint'.version = checkpoint.version + 1
           /\ KnownSnapshot(Len(executions'), checkpoint'.version, record, checkpoint')
           /\ Acknowledge(req, checkpoint')
<1>1. TypeInv /\ TypeInv'
    BY HandleIsNext, TypeStep DEF BatchInv
<1>2. checkpoint \in Checkpoint /\ checkpoint' \in Checkpoint /\ Len(executions) \in Nat
    BY <1>1 DEF TypeInv, TypeOK
<1>3. CASE req.tool = "claim" /\ Claim(req)
    <2>1. /\ checkpoint'.execution = Len(executions) + 1
          /\ checkpoint'.version = checkpoint.version + 1
          /\ checkpoint'.progress = checkpoint.progress
          /\ Acknowledge(req, checkpoint')
        BY <1>2, <1>3 DEF Claim, Checkpoint
    <2>2. checkpoint'.execution = Len(executions')
        BY <1>1 DEF TypeInv, PointsAtLatest
    <2>. QED  BY <1>2, <2>1, <2>2
              DEF KnownSnapshot, BatchInv, CheckpointFollowsBusiness, Checkpoint
<1>4. CASE req.tool = "save" /\ Save(req)
    <2>1. /\ req.execution_id \in 1 .. Len(executions) /\ Supports(record, req.change)
        BY <1>4 DEF KnownRequest, ClaimRequest, FinishRequest
    <2>2. checkpoint.execution = req.execution_id
        BY <1>4, AcceptedOwner DEF OwnsCheckpoint
    <2>3. /\ checkpoint'.execution = checkpoint.execution
          /\ checkpoint'.version = checkpoint.version + 1
          /\ checkpoint'.progress = req.change
          /\ executions' = executions
          /\ Acknowledge(req, checkpoint')
        BY <1>2, <1>4 DEF Save, Checkpoint
    <2>. QED  BY <1>2, <2>1, <2>2, <2>3 DEF KnownSnapshot, Checkpoint
<1>5. CASE req.tool = "finish" /\ Finish(req)
    <2>1. req.execution_id \in 1 .. Len(executions)
        BY <1>5 DEF KnownRequest, ClaimRequest, SaveRequest
    <2>2. checkpoint.execution = req.execution_id
        BY <1>5, AcceptedOwner DEF OwnsCheckpoint
    <2>3. /\ checkpoint'.execution = checkpoint.execution
          /\ checkpoint'.version = checkpoint.version + 1
          /\ checkpoint'.progress = checkpoint.progress
          /\ Acknowledge(req, checkpoint')
        BY <1>2, <1>5 DEF Finish, Checkpoint
    <2>4. checkpoint'.execution = Len(executions') /\ checkpoint.execution = Len(executions)
        BY <1>1 DEF TypeInv, PointsAtLatest
    <2>. QED  BY <1>2, <2>1, <2>2, <2>3, <2>4
              DEF KnownSnapshot, BatchInv, CheckpointFollowsBusiness, Checkpoint
<1>. QED  BY <1>3, <1>4, <1>5 DEF Handle

\* Whatever the server answers, what is known afterwards includes the answer.
LEMMA HandledRequest ==
    ASSUME BatchInv, NEW req, Handle(req), record' = record,
           KnownRequest(Len(executions), checkpoint.version, record, req)
    PROVE  /\ TypeInv'
           /\ Len(executions) <= Len(executions')
           /\ checkpoint.version <= checkpoint'.version
           /\ CheckpointFollowsBusiness'
           /\ ReceiptsInv'
           /\ Reply(req) # None =>
                  KnownSnapshot(Len(executions'), checkpoint'.version, record, Reply(req))
<1>1. TypeInv /\ TypeInv'
    BY HandleIsNext, TypeStep DEF BatchInv
<1>2. /\ Len(executions) \in Nat /\ checkpoint.version \in Nat
      /\ Len(executions') \in Nat /\ checkpoint'.version \in Nat
    BY <1>1 DEF TypeInv, TypeOK, Checkpoint
<1>3. CASE Verdict(req) = "ACCEPTED"
    <2>1. /\ Len(executions) <= Len(executions')
          /\ checkpoint'.version = checkpoint.version + 1
          /\ KnownSnapshot(Len(executions'), checkpoint'.version, record, checkpoint')
          /\ Acknowledge(req, checkpoint')
        BY <1>3, AcceptedRow
    <2>2. Reply(req) = checkpoint'
        BY <1>3 DEF Reply
    <2>3. \A k \in DOMAIN receipts :
              KnownSnapshot(Len(executions'), checkpoint'.version, record, receipts[k].response)
        BY <1>2, <2>1, SnapshotLasts, Unmoved DEF BatchInv, ReceiptsInv
    <2>4. ReceiptsInv'
        BY <2>1, <2>3 DEF ReceiptsInv, Acknowledge
    <2>5. CheckpointFollowsBusiness'
        BY <2>1 DEF CheckpointFollowsBusiness, KnownSnapshot
    <2>. QED  BY <1>1, <1>2, <2>1, <2>2, <2>4, <2>5
<1>4. CASE Verdict(req) # "ACCEPTED"
    <2>1. /\ executions' = executions /\ checkpoint' = checkpoint /\ receipts' = receipts
        BY <1>4 DEF Handle, vars
    <2>2. ReceiptsInv' /\ CheckpointFollowsBusiness'
        BY <2>1 DEF BatchInv, ReceiptsInv, CheckpointFollowsBusiness
    <2>3. CASE Verdict(req) = "REPLAYED"
        <3>1. KeyOf(req) \in DOMAIN receipts
            BY <2>3 DEF Verdict, Receipted
        <3>2. Reply(req) = receipts[KeyOf(req)].response
            BY <2>3 DEF Reply
        <3>. QED  BY <1>1, <1>2, <2>1, <2>2, <3>1, <3>2 DEF BatchInv, ReceiptsInv
    <2>4. CASE Verdict(req) # "REPLAYED"
        BY <1>1, <1>2, <1>4, <2>1, <2>2, <2>4 DEF Reply
    <2>. QED  BY <2>3, <2>4
<1>. QED  BY <1>3, <1>4

\* The invocation whose call is answered goes on, or ends.
LEMMA AnsweredInvocation ==
    ASSUME NEW n, NEW v, NEW r, NEW i, InvocationInv(n, v, r, i), i.pc \in Calling,
           NEW s, KnownSnapshot(n, v, r, s)
    PROVE  InvocationInv(n, v, r, [i EXCEPT !.pc = Resume[@], !.request = None,
                                            !.snapshot = s])
<1> DEFINE j == [i EXCEPT !.pc = Resume[@], !.request = None, !.snapshot = s]
<1>1. Resume[i.pc] \in Working \cup Ended
    BY DEF Calling, Working, Ended, Resume
<1>2. s \in Checkpoint /\ s # None
    BY NoRecordAssumption DEF KnownSnapshot
<1>3. /\ j \in Invocation /\ j.pc = Resume[i.pc] /\ j.calls = i.calls
      /\ j.snapshot = s /\ j.request = None
    BY <1>1, <1>2 DEF InvocationInv, Invocation
<1>4. i.calls \in Nat /\ CallsAt[i.pc] <= CallsAt[Resume[i.pc]]
      /\ CallsAt[i.pc] \in Nat /\ CallsAt[Resume[i.pc]] \in Nat
    BY DEF InvocationInv, Invocation, Calling, CallsAt, Resume
<1>5. j.pc \notin Calling
    BY <1>1, <1>3 DEF Calling, Working, Ended
<1>. QED  BY <1>2, <1>3, <1>4, <1>5 DEF InvocationInv

\* The server answering a call, in time or late, keeps the invariant.
LEMMA DeliverStep ==
    ASSUME BatchInv, NEW m \in inflight, Deliver(m)
    PROVE  BatchInv'
<1> DEFINE n == Len(executions)
           v == checkpoint.version
           n2 == Len(executions')
           v2 == checkpoint'.version
           w == m.worker
<1>1. w \in Worker /\ m.request # None /\ KnownRequest(n, v, record, m.request)
    BY KnownIsRequest DEF BatchInv, MessagesInv, MessageInv, Message
<1>2. Handle(m.request) /\ record' = record /\ inflight' = inflight \ {m} /\ LedgersInv'
    BY DEF Deliver, BatchInv, LedgersInv
<1>3. /\ TypeInv' /\ n <= n2 /\ v <= v2 /\ CheckpointFollowsBusiness' /\ ReceiptsInv'
      /\ Reply(m.request) # None => KnownSnapshot(n2, v2, record, Reply(m.request))
    BY <1>1, <1>2, HandledRequest
<1>4. n \in Nat /\ v \in Nat /\ n2 \in Nat /\ v2 \in Nat
    BY <1>3 DEF BatchInv, TypeInv, TypeOK, Checkpoint
<1>5. \A u \in Worker : InvocationInv(n2, v2, record, worker[u])
    BY <1>3, <1>4, InvocationLasts, Unmoved DEF BatchInv, WorkersInv
<1>6. \A a \in inflight : MessageInv(n2, v2, record, a)
    BY <1>3, <1>4, MessageLasts, Unmoved DEF BatchInv, MessagesInv
<1>7. MessagesInv'
    BY <1>2, <1>6 DEF MessagesInv
<1>8. WorkersInv'
    <2>1. CASE ~Awaited(m)
        BY <2>1, <1>2, <1>5 DEF Deliver, BatchInv, WorkersInv
    <2>2. CASE Awaited(m) /\ Reply(m.request) = None
        <3> DEFINE j == [worker[w] EXCEPT !.pc = "stopped", !.request = None]
        <3>1. worker' = [worker EXCEPT ![w] = j]
            BY <2>2 DEF Deliver
        <3>2. InvocationInv(n2, v2, record, j)
            BY <1>1, <1>5, EndedInvocation
        <3>. QED  BY <3>1, <3>2, <1>2, <1>5 DEF BatchInv, WorkersInv, InvocationInv
    <2>3. CASE Awaited(m) /\ Reply(m.request) # None
        <3> DEFINE j == [worker[w] EXCEPT !.pc = Resume[@], !.request = None,
                                          !.snapshot = Reply(m.request)]
        <3>1. worker' = [worker EXCEPT ![w] = j]
            BY <2>3 DEF Deliver
        <3>2. worker[w].pc \in Calling
            BY <2>3, <1>1, Taking DEF Awaited, InvocationInv
        <3>3. InvocationInv(n2, v2, record, j)
            BY <1>1, <1>3, <1>5, <2>3, <3>2, AnsweredInvocation
        <3>. QED  BY <3>1, <3>3, <1>2, <1>5 DEF BatchInv, WorkersInv, InvocationInv
    <2>. QED  BY <2>1, <2>2, <2>3
<1>. QED  BY <1>2, <1>3, <1>7, <1>8 DEF BatchInv

-----------------------------------------------------------------------------
(* The invariant, and what follows from it                                 *)

\* The invariant holds initially.
LEMMA BatchInitially == BatchInit => BatchInv
<1> SUFFICES ASSUME BatchInit PROVE BatchInv
    OBVIOUS
<1>1. TypeInv
    BY TypeInit DEF BatchInit
<1>2. WorkersInv
    BY DEF BatchInit, WorkersInv, InvocationInv, Invocation, CallsAt, Owning, Calling,
           Working, Modes
<1>3. MessagesInv /\ ReceiptsInv
    BY DEF BatchInit, Init, MessagesInv, ReceiptsInv
<1>4. LedgersInv
    BY FaultAssumption DEF BatchInit, LedgersInv
<1>5. CheckpointFollowsBusiness
    BY AgentAssumption DEF BatchInit, Init, InitialProgress, CheckpointFollowsBusiness, Supports,
           InitialStage, InitialStageOf
<1>. QED  BY <1>1, <1>2, <1>3, <1>4, <1>5 DEF BatchInv

\* Every step of the composition keeps the invariant.
LEMMA BatchStep == BatchInv /\ [BatchNext]_batchVars => BatchInv'
<1> SUFFICES ASSUME BatchInv, [BatchNext]_batchVars PROVE BatchInv'
    OBVIOUS
<1>1. ASSUME NEW w \in Worker, Start(w) PROVE BatchInv'
    BY <1>1, StartStep
<1>2. ASSUME NEW w \in Worker, Work(w) PROVE BatchInv'
    BY <1>2, ReadStep, DecideStep, ExecuteStep, FinishStep DEF Work
<1>3. ASSUME NEW w \in Worker, Retry(w) \/ Stop(w) \/ CredentialsFail(w) \/ BusinessFails(w)
      PROVE  BatchInv'
    BY <1>3, RetryStep, StopStep, CredentialsStep, BusinessFailsStep
<1>4. ASSUME NEW m \in inflight, Deliver(m) PROVE BatchInv'
    BY <1>4, DeliverStep
<1>5. ASSUME NEW call \in late, LateEffect(call) PROVE BatchInv'
    BY <1>5, LateEffectStep
<1>6. CASE BatchTick
    BY <1>6, TickStep
<1>7. CASE UNCHANGED batchVars
    BY <1>7 DEF batchVars, vars, BatchInv, TypeInv, TypeOK, PointsAtLatest, WorkersInv,
                MessagesInv, ReceiptsInv, LedgersInv, CheckpointFollowsBusiness
<1>. QED  BY <1>1, <1>2, <1>3, <1>4, <1>5, <1>6, <1>7 DEF BatchNext

\* The inductive invariant holds in every reachable state.
LEMMA BatchInvariance == BatchSpec => []BatchInv
BY BatchInitially, BatchStep, PTL DEF BatchSpec

\* Every reachable state of the composition is well-typed, so no invocation
\* ever acts on a snapshot or waits for a call that is not there.
THEOREM BatchTypeCorrect == BatchSpec => []BatchTypeOK
<1>1. BatchInv => BatchTypeOK
    BY DEF BatchInv, TypeInv, WorkersInv, MessagesInv, MessageInv, LedgersInv, BatchTypeOK
<1>. QED  BY <1>1, BatchInvariance, PTL

\* The checkpoint never runs ahead of the business record, whatever is lost,
\* repeated, late or done by invocations without a lease (runtime.run with
\* its reconciliation first and its saves only of what the gateway returned).
THEOREM CheckpointFollows == BatchSpec => []CheckpointFollowsBusiness
<1>1. BatchInv => CheckpointFollowsBusiness
    BY DEF BatchInv
<1>. QED  BY <1>1, BatchInvariance, PTL

\* A step of the composition is a step of the store or leaves its tables
\* alone.
LEMMA StoreStep == BatchInv /\ [BatchNext]_batchVars => [Next]_vars
<1> SUFFICES ASSUME BatchInv, [BatchNext]_batchVars PROVE [Next]_vars
    OBVIOUS
<1>1. ASSUME NEW m \in inflight, Deliver(m) PROVE [Next]_vars
    BY <1>1, HandleIsNext DEF Deliver, BatchInv, MessagesInv, MessageInv
<1>2. CASE BatchTick
    BY <1>2 DEF BatchTick, Next
<1>3. ASSUME NEW w \in Worker, Start(w) \/ Work(w) PROVE UNCHANGED vars
    BY <1>3 DEF Start, Work, Read, Decide, Execute, Conclude, Report
<1>4. ASSUME NEW w \in Worker, Retry(w) \/ Stop(w) \/ CredentialsFail(w) \/ BusinessFails(w)
      PROVE  UNCHANGED vars
    BY <1>4 DEF Retry, Stop, CredentialsFail, BusinessFails
<1>5. ASSUME NEW call \in late, LateEffect(call) PROVE UNCHANGED vars
    BY <1>5 DEF LateEffect
<1>6. CASE UNCHANGED batchVars
    BY <1>6 DEF batchVars
<1>. QED  BY <1>1, <1>2, <1>3, <1>4, <1>5, <1>6 DEF BatchNext

\* The runtime, its client and the network use the durable store only in the
\* ways that DurableStore's open environment may, so all that is proved of
\* the store holds of the composition.
THEOREM UsesTheStore == BatchSpec => Spec
<1>1. BatchInit => Init
    BY DEF BatchInit
<1>. QED  BY <1>1, BatchInvariance, StoreStep, PTL DEF BatchSpec, Spec

\* In particular an invocation whose lease has gone to another one writes no
\* more, and progress moves forward, audited, under a live lease.
THEOREM NoWritesAfterTakeover == BatchSpec => []TakeoverIsFinal /\ ProgressMovesForward
BY UsesTheStore, Fencing, ForwardOnly, PTL

\* And each call of an invocation is applied once, however often it arrives.
THEOREM CallsApplyOnce == BatchSpec => []VersionsAcknowledgedOnce
BY UsesTheStore, ExactlyOnce, PTL

-----------------------------------------------------------------------------
(* What invocations may tell                                               *)

Saving == {"reconciling", "starting", "recording", "failing"}
Finishing == {"finishing", "closing"}

\* The business decided the operation, the way the invocation i says.
Decided(r, i) == r # None /\ r.status = "COMPLETED" /\ r.successful = i.successful

\* What the call of invocation i, of worker w, says.
CallTells(r, w, i) ==
    LET req == i.request
        row == i.snapshot
    IN  /\ i.pc = "claiming" => req.tool = "claim"
        /\ i.pc \in Saving => req.tool = "save"
        /\ i.pc \in Finishing => req.tool = "finish"
        /\ i.pc \in Calling => req.workflow_run_id = RunOf[w]
        /\ i.pc \in Saving \cup Finishing => /\ req.expected_version = row.version
                                             /\ req.execution_id = row.execution
        /\ i.pc = "finishing" => req.error = None
        /\ i.pc = "closing" => req.error = i.error
        /\ i.pc \in Saving \ {"failing"} /\ req.change.checkpoint_status = "COMPLETED" =>
               Decided(r, i)

\* What invocation i, of worker w, may tell its caller, by the executions x,
\* the record r and the receipts q: it has seen the row as a reply showed it,
\* what it takes for completed the business has decided, and the end it has
\* come to is the one its execution is recorded with.
Account(x, r, q, w, i) ==
    /\ i.snapshot # None => \E k \in DOMAIN q : q[k].response = i.snapshot
    /\ i.pc \in {"idle", "claiming"} => i.snapshot = None
    /\ i.pc \in {"done", "raised"} => i.snapshot # None
    /\ CallTells(r, w, i)
    /\ i.pc \in {"failing", "reporting", "closing", "raised"} =>
           i.error \in Failures \cup {"message"}
    /\ /\ i.pc \in {"deciding", "ending", "finishing", "done"}
       /\ i.snapshot.progress.checkpoint_status = "COMPLETED"
       => Decided(r, i)
    /\ i.pc = "done" => x[i.snapshot.execution].result = "SUCCEEDED"
    /\ i.pc = "raised" => x[i.snapshot.execution].result = Outcome(i.error)

\* A call under way is outdated or made from what its invocation last saw.
Pending(v, i, req) ==
    \/ req.tool = "claim"
    \/ req.expected_version < v
    \/ i.snapshot # None /\ req.expected_version = i.snapshot.version

AccountsInv ==
    /\ \A w \in Worker : Account(executions, record, receipts, w, worker[w])
    /\ \A m \in inflight : Pending(checkpoint.version, worker[m.worker], m.request)

\* A decision stands.
Stands(r, r2) == r # None /\ r.status = "COMPLETED" => r2 = r

\* A business call decides once.
LEMMA PerformStands ==
    ASSUME NEW call, Perform(call)
    PROVE  Stands(record, record')
BY DEF Perform, Submit, Poll, Validate, Stands

\* What an invocation may tell it may go on to tell.
LEMMA AccountLasts ==
    ASSUME NEW x, NEW r, NEW q, NEW x2, NEW r2, NEW q2, NEW w, NEW i,
           Account(x, r, q, w, i), Settled(x, x2), Stands(r, r2), Kept(q, q2),
           i.snapshot # None => i.snapshot.execution \in DOMAIN x
    PROVE  Account(x2, r2, q2, w, i)
<1>1. i.snapshot # None => \E k \in DOMAIN q2 : q2[k].response = i.snapshot
    BY DEF Account, Kept
<1>2. Decided(r, i) => Decided(r2, i)
    BY DEF Decided, Stands
<1>3. CallTells(r2, w, i)
    BY <1>2 DEF Account, CallTells
<1>4. i.pc = "done" => x2[i.snapshot.execution].result = "SUCCEEDED"
    BY DEF Account, Settled
<1>5. i.pc = "raised" => x2[i.snapshot.execution].result = Outcome(i.error)
    <2>1. Outcome(i.error) # "RUNNING"
        BY DEF Outcome
    <2>. QED  BY <2>1 DEF Account, Settled
<1>. QED  BY <1>1, <1>2, <1>3, <1>4, <1>5 DEF Account

\* What the invariant says of an invocation's snapshot.
LEMMA SnapshotInTable ==
    ASSUME BatchInv, NEW w \in Worker, worker[w].snapshot # None
    PROVE  /\ worker[w].snapshot \in Checkpoint
           /\ worker[w].snapshot.execution \in DOMAIN executions
<1>1. DOMAIN executions = 1 .. Len(executions)
    BY DEF BatchInv, TypeInv, TypeOK
<1>. QED  BY <1>1, Taking DEF InvocationInv, KnownSnapshot

\* A step of one invocation keeps the accounts when its own is in order and
\* it sends at most a call made from what it last saw.
LEMMA OwnAccount ==
    ASSUME BatchInv, AccountsInv, UNCHANGED <<executions, receipts, checkpoint>>,
           Stands(record, record'), NEW w \in Worker, NEW j,
           worker' = [worker EXCEPT ![w] = j], j.snapshot = worker[w].snapshot,
           Account(executions, record', receipts, w, j),
           \A m \in inflight' :
               m \notin inflight => m.worker = w /\ Pending(checkpoint.version, j, m.request)
    PROVE  AccountsInv'
<1>1. worker \in [Worker -> Invocation]
    BY DEF BatchInv, WorkersInv
<1>2. ASSUME NEW u \in Worker
      PROVE  Account(executions', record', receipts', u, worker'[u])
    <2>1. CASE u = w
        BY <1>1, <2>1
    <2>2. CASE u # w
        <3>1. worker'[u] = worker[u] /\ Account(executions, record, receipts, u, worker[u])
            BY <1>1, <2>2 DEF AccountsInv
        <3>2. Settled(executions, executions) /\ Kept(receipts, receipts)
            BY DEF Settled, Kept
        <3>3. worker[u].snapshot # None => worker[u].snapshot.execution \in DOMAIN executions
            BY SnapshotInTable
        <3>4. Account(executions, record', receipts, u, worker[u])
            BY <3>1, <3>2, <3>3, AccountLasts
        <3>. QED  BY <3>1, <3>4
    <2>. QED  BY <2>1, <2>2
<1>3. ASSUME NEW m \in inflight'
      PROVE  Pending(checkpoint'.version, worker'[m.worker], m.request)
    <2>1. CASE m \notin inflight
        BY <1>1, <1>3, <2>1
    <2>2. CASE m \in inflight
        <3>1. m.worker \in Worker /\ Pending(checkpoint.version, worker[m.worker], m.request)
            BY <2>2 DEF AccountsInv, BatchInv, MessagesInv, MessageInv, Message
        <3>2. worker'[m.worker].snapshot = worker[m.worker].snapshot
            BY <1>1, <3>1
        <3>. QED  BY <3>1, <3>2 DEF Pending
    <2>. QED  BY <2>1, <2>2
<1>. QED  BY <1>2, <1>3 DEF AccountsInv

\* What a save says: what the snapshot says, and the status asked for.
LEMMA SaveTells ==
    ASSUME NEW w \in Worker, NEW p \in Progress
    PROVE  /\ SaveOf(w, p).tool = "save"
           /\ SaveOf(w, p).expected_version = worker[w].snapshot.version
           /\ SaveOf(w, p).execution_id = worker[w].snapshot.execution
           /\ SaveOf(w, p).workflow_run_id = RunOf[w]
           /\ SaveOf(w, p).mutation_id = NextMutation(w)
           /\ SaveOf(w, p).change.current_stage = p.current_stage
           /\ SaveOf(w, p).change.checkpoint_status = p.checkpoint_status
BY DEF SaveOf, Progress

\* What a finish says.
LEMMA FinishTells ==
    ASSUME NEW w \in Worker, NEW text
    PROVE  /\ FinishOf(w, text).tool = "finish"
           /\ FinishOf(w, text).expected_version = worker[w].snapshot.version
           /\ FinishOf(w, text).execution_id = worker[w].snapshot.execution
           /\ FinishOf(w, text).workflow_run_id = RunOf[w]
           /\ FinishOf(w, text).mutation_id = NextMutation(w)
           /\ FinishOf(w, text).error = text
BY DEF FinishOf

\* Making a call that says what it should keeps the accounts.
LEMMA CallAccount ==
    ASSUME BatchInv, AccountsInv, UNCHANGED vars, Stands(record, record'),
           NEW w \in Worker, NEW net, net \subseteq inflight,
           NEW i \in Invocation, i.snapshot = worker[w].snapshot,
           NEW pc \in Calling, NEW req, CallOver(net, w, i, pc, req),
           pc = "claiming" => i.snapshot = None /\ req.tool = "claim",
           pc # "claiming" => /\ i.snapshot # None
                              /\ req.expected_version = i.snapshot.version
                              /\ req.execution_id = i.snapshot.execution,
           req.workflow_run_id = RunOf[w],
           pc \in Saving => req.tool = "save",
           pc \in Finishing => req.tool = "finish",
           pc = "finishing" => req.error = None,
           pc = "closing" => req.error = i.error,
           pc \in Saving \ {"failing"} /\ req.change.checkpoint_status = "COMPLETED" =>
               Decided(record', i),
           pc \in {"failing", "closing"} => i.error \in Failures \cup {"message"},
           pc = "finishing" /\ i.snapshot.progress.checkpoint_status = "COMPLETED" =>
               Decided(record', i)
    PROVE  AccountsInv'
<1> DEFINE j == [i EXCEPT !.pc = pc, !.request = req, !.attempt = 1, !.calls = @ + 1]
           m == [worker |-> w, attempt |-> 1, request |-> req]
<1>1. /\ j.pc = pc /\ j.request = req /\ j.snapshot = i.snapshot
      /\ j.error = i.error /\ j.successful = i.successful
    BY DEF Invocation
<1>2. worker' = [worker EXCEPT ![w] = j] /\ inflight' = net \cup {m}
    BY DEF CallOver
<1>3. m.worker = w /\ m.request = req
    OBVIOUS
<1>. HIDE DEF j, m
<1>4. \A p : Decided(p, i) <=> Decided(p, j)
    BY <1>1 DEF Decided
<1>5. CallTells(record', w, j)
    BY <1>1, <1>4 DEF CallTells, Calling, Saving, Finishing
<1>6. i.snapshot # None => \E k \in DOMAIN receipts : receipts[k].response = i.snapshot
    BY DEF AccountsInv, Account
<1>7. Account(executions, record', receipts, w, j)
    BY <1>1, <1>4, <1>5, <1>6 DEF Account, Calling
<1>8. Pending(checkpoint.version, j, req)
    BY <1>1 DEF Pending
<1>9. UNCHANGED <<executions, receipts, checkpoint>>
    BY DEF vars
<1>. QED  BY <1>1, <1>2, <1>3, <1>7, <1>8, <1>9, OwnAccount

\* What the accounts say of an invocation.
LEMMA Accounting ==
    ASSUME AccountsInv, NEW w \in Worker
    PROVE  Account(executions, record, receipts, w, worker[w])
BY DEF AccountsInv

\* The claim keeps the accounts.
LEMMA StartAccount ==
    ASSUME BatchInv, AccountsInv, NEW w \in Worker, Start(w)
    PROVE  AccountsInv'
<1>1. PICK mode \in Modes : Call(w, [worker[w] EXCEPT !.mode = mode], "claiming", ClaimOf(w))
    BY DEF Start
<1> DEFINE i == [worker[w] EXCEPT !.mode = mode]
<1>2. i \in Invocation /\ i.snapshot = worker[w].snapshot
    BY Taking DEF Invocation
<1>3. worker[w].snapshot = None
    BY Accounting DEF Start, Account
<1>4. UNCHANGED vars /\ Stands(record, record')
    BY DEF Start, Stands
<1>5. CallOver(inflight, w, i, "claiming", ClaimOf(w)) /\ ClaimOf(w).tool = "claim"
      /\ ClaimOf(w).workflow_run_id = RunOf[w]
    BY <1>1 DEF Call, ClaimOf
<1>. HIDE DEF i
<1>. QED  BY <1>2, <1>3, <1>4, <1>5, CallAccount DEF Calling, Saving, Finishing

\* The exception handler keeps the accounts.
LEMMA RaiseAccount ==
    ASSUME BatchInv, AccountsInv, UNCHANGED vars, Stands(record, record'),
           NEW w \in Worker, worker[w].pc \in Owning,
           NEW net, net \subseteq inflight, NEW text \in Failures \cup {"message"},
           RaiseOver(net, w, text)
    PROVE  AccountsInv'
<1> DEFINE i == [worker[w] EXCEPT !.error = text]
           mark == Marked(worker[w].snapshot.progress.current_stage, "FAILED")
           req == SaveOf(w, mark)
<1>1. i \in Invocation /\ i.snapshot = worker[w].snapshot /\ i.error = text
      /\ i.snapshot # None
    BY Taking DEF Invocation
<1>2. mark \in Progress
    BY Taking, MarkIsSupported
<1>3. /\ req.tool = "save" /\ req.expected_version = worker[w].snapshot.version
      /\ req.execution_id = worker[w].snapshot.execution /\ req.workflow_run_id = RunOf[w]
    BY <1>2, SaveTells
<1>4. CallOver(net, w, i, "failing", req)
    BY DEF RaiseOver
<1>. HIDE DEF i, mark, req
<1>. QED  BY <1>1, <1>3, <1>4, CallAccount DEF Calling, Saving, Finishing

\* Asking for the progress that a record reports keeps the accounts.
LEMMA RecordAccount ==
    ASSUME BatchInv, AccountsInv, UNCHANGED vars, Stands(record, record'),
           NEW w \in Worker, worker[w].pc \in Owning, record' \in BusinessRecord,
           NEW pc \in {"reconciling", "recording"},
           Call(w, [worker[w] EXCEPT !.successful = record'.successful], pc,
                SaveOf(w, ProgressOf(record')))
    PROVE  AccountsInv'
<1> DEFINE i == [worker[w] EXCEPT !.successful = record'.successful]
           req == SaveOf(w, ProgressOf(record'))
<1>1. /\ i \in Invocation /\ i.snapshot = worker[w].snapshot /\ i.snapshot # None
      /\ i.successful = record'.successful
    BY Taking DEF Invocation, BusinessRecord
<1>2. ProgressOf(record') \in Progress
    BY RecordSupportsItself
<1>3. /\ req.tool = "save" /\ req.expected_version = worker[w].snapshot.version
      /\ req.execution_id = worker[w].snapshot.execution /\ req.workflow_run_id = RunOf[w]
      /\ req.change.checkpoint_status = record'.status
    BY <1>2, SaveTells DEF ProgressOf
<1>4. req.change.checkpoint_status = "COMPLETED" => Decided(record', i)
    BY <1>1, <1>3, NoRecordAssumption DEF Decided
<1>5. CallOver(inflight, w, i, pc, req)
    BY DEF Call
<1>. HIDE DEF i, req
<1>. QED  BY <1>1, <1>3, <1>4, <1>5, CallAccount DEF Calling, Saving, Finishing

\* Reading keeps the accounts: only what the record completed is completed.
LEMMA ReadAccount ==
    ASSUME BatchInv, AccountsInv, NEW w \in Worker, Read(w)
    PROVE  AccountsInv'
<1>1. worker[w].pc = "reading" /\ worker[w].pc \in Owning
    BY DEF Read, Owning, Working
<1>2. UNCHANGED vars /\ record' = record /\ Stands(record, record')
    BY DEF Read, Stands
<1>3. CASE record # None /\ ProgressOf(record) # worker[w].snapshot.progress
    <2>1. record' \in BusinessRecord
        BY <1>2, <1>3 DEF BatchInv, LedgersInv
    <2>2. Call(w, [worker[w] EXCEPT !.successful = record'.successful], "reconciling",
               SaveOf(w, ProgressOf(record')))
        BY <1>2, <1>3 DEF Read
    <2>. QED  BY <1>1, <1>2, <2>1, <2>2, RecordAccount
<1>4. CASE /\ ~(record # None /\ ProgressOf(record) # worker[w].snapshot.progress)
           /\ record = None /\ worker[w].snapshot.progress.checkpoint_status = "COMPLETED"
    <2>1. RaiseOver(inflight, w, "message")
        BY <1>4 DEF Read, Raise
    <2>. QED  BY <1>1, <1>2, <2>1, RaiseAccount
<1>5. CASE /\ ~(record # None /\ ProgressOf(record) # worker[w].snapshot.progress)
           /\ ~(record = None /\ worker[w].snapshot.progress.checkpoint_status = "COMPLETED")
    <2> DEFINE i == [worker[w] EXCEPT !.pc = "deciding",
                                      !.successful = record = None \/ record.successful]
    <2>1. worker' = [worker EXCEPT ![w] = i] /\ inflight' = inflight
        BY <1>5 DEF Read
    <2>2. i.pc = "deciding" /\ i.snapshot = worker[w].snapshot
        BY Taking DEF Invocation
    <2>3. ASSUME i.snapshot.progress.checkpoint_status = "COMPLETED"
          PROVE  Decided(record, i)
        <3>1. record # None /\ ProgressOf(record) = worker[w].snapshot.progress
            BY <1>5, <2>2, <2>3
        <3>2. record.status = "COMPLETED"
            BY <3>1, <2>2, <2>3 DEF ProgressOf
        <3>3. i.successful = (record = None \/ record.successful)
            BY Taking DEF Invocation
        <3>4. record.successful \in BOOLEAN
            BY <3>1 DEF BatchInv, LedgersInv, BusinessRecord
        <3>. HIDE DEF i
        <3>5. i.successful = record.successful
            BY <3>1, <3>3, <3>4, Zenon
        <3>. QED  BY <3>1, <3>2, <3>5 DEF Decided
    <2>4. worker[w].snapshot # None =>
              \E k \in DOMAIN receipts : receipts[k].response = worker[w].snapshot
        BY Accounting DEF Account
    <2>. HIDE DEF i
    <2>5. Account(executions, record', receipts, w, i)
        BY <1>2, <2>2, <2>3, <2>4 DEF Account, CallTells, Calling, Saving, Finishing
    <2>. QED  BY <1>2, <2>1, <2>2, <2>5, OwnAccount DEF vars
<1>. QED  BY <1>3, <1>4, <1>5

\* An invocation that goes on locally to pc, with nothing new to tell.
LEMMA GotoAccount ==
    ASSUME BatchInv, AccountsInv, UNCHANGED vars, record' = record,
           NEW w \in Worker, worker[w].pc = "deciding",
           NEW pc \in {"ending", "executing"}, Goto(w, pc)
    PROVE  AccountsInv'
<1> DEFINE i == [worker[w] EXCEPT !.pc = pc]
<1>1. worker' = [worker EXCEPT ![w] = i] /\ inflight' = inflight
    BY DEF Goto
<1>2. /\ i.pc = pc /\ i.snapshot = worker[w].snapshot
      /\ i.successful = worker[w].successful
    BY Taking DEF Invocation
<1>. HIDE DEF i
<1>3. Account(executions, record, receipts, w, i)
    <2>1. Account(executions, record, receipts, w, worker[w])
        BY Accounting
    <2>2. CallTells(record, w, i)
        BY <1>2 DEF CallTells, Calling, Saving, Finishing
    <2>. QED  BY <1>2, <2>1, <2>2 DEF Account, Decided
<1>. QED  BY <1>1, <1>2, <1>3, OwnAccount DEF vars, Stands

\* A RUNNING mark tells of nothing decided.
LEMMA MarkAccount ==
    ASSUME BatchInv, AccountsInv, UNCHANGED vars, record' = record,
           NEW w \in Worker, worker[w].pc = "deciding",
           NEW stage \in {"AD_SUBMISSION", InitialStage},
           Call(w, worker[w], "starting", SaveOf(w, Marked(stage, "RUNNING")))
    PROVE  AccountsInv'
<1> DEFINE mark == Marked(stage, "RUNNING")
           req == SaveOf(w, mark)
<1>1. worker[w] \in Invocation /\ worker[w].snapshot # None
    BY Taking DEF Owning, Working
<1>2. mark \in Progress
    BY Taking, MarkIsSupported DEF Owning, Working
<1>3. /\ req.tool = "save" /\ req.expected_version = worker[w].snapshot.version
      /\ req.execution_id = worker[w].snapshot.execution /\ req.workflow_run_id = RunOf[w]
      /\ req.change.checkpoint_status = "RUNNING"
    BY <1>2, SaveTells DEF Marked
<1>4. CallOver(inflight, w, worker[w], "starting", req)
    BY DEF Call
<1>. HIDE DEF req
<1>. QED  BY <1>1, <1>3, <1>4, CallAccount DEF Calling, Saving, Finishing, Stands

\* Choosing a step keeps the accounts.
LEMMA DecideAccount ==
    ASSUME BatchInv, AccountsInv, NEW w \in Worker, Decide(w)
    PROVE  AccountsInv'
<1>1. UNCHANGED vars /\ record' = record /\ worker[w].pc = "deciding"
    BY DEF Decide
<1>2. \/ Goto(w, "ending")
      \/ Goto(w, "executing")
      \/ Call(w, worker[w], "starting", SaveOf(w, Marked(InitialStage, "RUNNING")))
      \/ Call(w, worker[w], "starting", SaveOf(w, Marked("AD_SUBMISSION", "RUNNING")))
      \/ Raise(w, "message")
    BY DEF Decide
<1>3. CASE Goto(w, "ending") \/ Goto(w, "executing")
    BY <1>1, <1>3, GotoAccount
<1>4. CASE \/ Call(w, worker[w], "starting", SaveOf(w, Marked(InitialStage, "RUNNING")))
           \/ Call(w, worker[w], "starting", SaveOf(w, Marked("AD_SUBMISSION", "RUNNING")))
    BY <1>1, <1>4, MarkAccount
<1>5. CASE Raise(w, "message")
    BY <1>1, <1>5, RaiseAccount DEF Raise, Stands, Owning, Working
<1>. QED  BY <1>2, <1>3, <1>4, <1>5

\* The business step keeps the accounts.
LEMMA ExecuteAccount ==
    ASSUME BatchInv, AccountsInv, NEW w \in Worker, Execute(w)
    PROVE  AccountsInv'
<1>1. Stands(record, record')
    BY PerformStands DEF Execute
<1>2. record' \in BusinessRecord
    BY PerformGrows DEF Execute, BatchInv, LedgersInv
<1>. QED  BY <1>1, <1>2, RecordAccount DEF Execute, Owning, Working

\* Finishing says how it ended.
LEMMA FinishAccount ==
    ASSUME BatchInv, AccountsInv, NEW w \in Worker, Conclude(w) \/ Report(w)
    PROVE  AccountsInv'
<1>1. UNCHANGED vars /\ record' = record /\ Stands(record, record')
    BY DEF Conclude, Report, Stands
<1>2. worker[w] \in Invocation /\ worker[w].snapshot # None
    BY Taking DEF Conclude, Report, Owning, Working
<1>3. Account(executions, record, receipts, w, worker[w])
    BY Accounting
<1>4. CASE Conclude(w)
    <2> DEFINE req == FinishOf(w, None)
    <2>1. /\ req.tool = "finish" /\ req.expected_version = worker[w].snapshot.version
          /\ req.execution_id = worker[w].snapshot.execution
          /\ req.workflow_run_id = RunOf[w] /\ req.error = None
        BY FinishTells
    <2>2. CallOver(inflight, w, worker[w], "finishing", req)
        BY <1>4 DEF Conclude, Call
    <2>3. worker[w].snapshot.progress.checkpoint_status = "COMPLETED" =>
              Decided(record', worker[w])
        BY <1>1, <1>3, <1>4 DEF Conclude, Account
    <2>. HIDE DEF req
    <2>. QED  BY <1>1, <1>2, <2>1, <2>2, <2>3, CallAccount DEF Calling, Saving, Finishing
<1>5. CASE Report(w)
    <2> DEFINE req == FinishOf(w, worker[w].error)
    <2>1. /\ req.tool = "finish" /\ req.expected_version = worker[w].snapshot.version
          /\ req.execution_id = worker[w].snapshot.execution
          /\ req.workflow_run_id = RunOf[w] /\ req.error = worker[w].error
        BY FinishTells
    <2>2. CallOver(inflight, w, worker[w], "closing", req)
        BY <1>5 DEF Report, Call
    <2>3. worker[w].error \in Failures \cup {"message"}
        BY <1>3, <1>5 DEF Report, Account
    <2>. HIDE DEF req
    <2>. QED  BY <1>1, <1>2, <2>1, <2>2, <2>3, CallAccount DEF Calling, Saving, Finishing
<1>. QED  BY <1>4, <1>5

\* An invocation that ends early has nothing to tell.
LEMMA EndedAccount ==
    ASSUME NEW x, NEW r, NEW q, NEW w, NEW i \in Invocation, Account(x, r, q, w, i)
    PROVE  /\ Account(x, r, q, w, [i EXCEPT !.pc = "stopped", !.request = None])
           /\ [i EXCEPT !.pc = "stopped", !.request = None].snapshot = i.snapshot
<1> DEFINE j == [i EXCEPT !.pc = "stopped", !.request = None]
<1>1. j.pc = "stopped" /\ j.snapshot = i.snapshot
    BY DEF Invocation
<1>. HIDE DEF j
<1>2. CallTells(r, w, j)
    BY <1>1 DEF CallTells, Calling, Saving, Finishing
<1>3. Account(x, r, q, w, j)
    BY <1>1, <1>2 DEF Account
<1>. QED  BY <1>1, <1>3 DEF j

\* The second attempt is the same call.
LEMMA RetryAccount ==
    ASSUME BatchInv, AccountsInv, NEW w \in Worker, Retry(w)
    PROVE  AccountsInv'
<1> DEFINE i == [worker[w] EXCEPT !.attempt = 2]
           m == [worker |-> w, attempt |-> 2, request |-> worker[w].request]
<1>1. worker' = [worker EXCEPT ![w] = i] /\ inflight' = inflight \cup {m}
      /\ UNCHANGED vars /\ record' = record
    BY DEF Retry
<1>2. /\ i.pc = worker[w].pc /\ i.snapshot = worker[w].snapshot
      /\ i.request = worker[w].request /\ i.error = worker[w].error
      /\ i.successful = worker[w].successful
    BY Taking DEF Invocation
<1>3. m.worker = w /\ m.request = worker[w].request
    OBVIOUS
<1>. HIDE DEF i, m
<1>4. Account(executions, record, receipts, w, worker[w])
    BY Accounting
<1>5. CallTells(record, w, i)
    BY <1>2, <1>4 DEF Account, CallTells, Decided
<1>6. Account(executions, record, receipts, w, i)
    BY <1>2, <1>4, <1>5 DEF Account, Decided
<1>7. Pending(checkpoint.version, i, worker[w].request)
    <2>1. CASE worker[w].pc = "claiming"
        BY <1>4, <2>1 DEF Account, CallTells, Pending
    <2>2. CASE worker[w].pc # "claiming"
        <3>1. worker[w].pc \in Saving \cup Finishing /\ worker[w].snapshot # None
            BY <2>2, Taking DEF Retry, Calling, Saving, Finishing, Owning
        <3>2. worker[w].request.tool \in {"save", "finish"}
              /\ worker[w].request.expected_version = worker[w].snapshot.version
            BY <1>4, <3>1 DEF Account, CallTells
        <3>. QED  BY <1>2, <3>1, <3>2 DEF Pending
    <2>. QED  BY <2>1, <2>2
<1>. QED  BY <1>1, <1>2, <1>3, <1>6, <1>7, OwnAccount, ZenonT(60) DEF vars, Stands

\* So is a crash's invocation, and one whose credentials fail; its other
\* calls are under way still.
LEMMA StopAccount ==
    ASSUME BatchInv, AccountsInv, UNCHANGED vars, record' = record, NEW w \in Worker,
           worker' = [worker EXCEPT ![w].pc = "stopped", ![w].request = None],
           inflight' \subseteq inflight
    PROVE  AccountsInv'
<1> DEFINE i == [worker[w] EXCEPT !.pc = "stopped", !.request = None]
<1>1. worker' = [worker EXCEPT ![w] = i]
    OBVIOUS
<1>2. Account(executions, record, receipts, w, i) /\ i.snapshot = worker[w].snapshot
    BY Taking, Accounting, EndedAccount
<1>. HIDE DEF i
<1>. QED  BY <1>1, <1>2, OwnAccount DEF vars, Stands

\* Faults of an invocation keep the accounts.
LEMMA FaultAccount ==
    ASSUME BatchInv, AccountsInv, NEW w \in Worker,
           Retry(w) \/ Stop(w) \/ CredentialsFail(w) \/ BusinessFails(w)
    PROVE  AccountsInv'
<1>1. CASE Stop(w)
    BY <1>1, StopAccount DEF Stop
<1>2. CASE CredentialsFail(w)
    <2>1. UNCHANGED vars /\ record' = record
        BY <1>2 DEF CredentialsFail
    <2>2. CASE worker[w].pc \in {"claiming", "failing", "closing"}
        <3>1. /\ worker' = [worker EXCEPT ![w].pc = "stopped", ![w].request = None]
              /\ inflight' \subseteq inflight
            BY <1>2, <2>2 DEF CredentialsFail
        <3>. QED  BY <2>1, <3>1, StopAccount
    <2>3. CASE worker[w].pc \notin {"claiming", "failing", "closing"}
        <3> DEFINE net == inflight \ {[worker |-> w, attempt |-> worker[w].attempt,
                                       request |-> worker[w].request]}
        <3>1. RaiseOver(net, w, "message") /\ worker[w].pc \in Owning
            BY <1>2, <2>3 DEF CredentialsFail, Owning
        <3>2. net \subseteq inflight
            OBVIOUS
        <3>. HIDE DEF net
        <3>. QED  BY <2>1, <3>1, <3>2, RaiseAccount DEF Stands
    <2>. QED  BY <2>2, <2>3
<1>3. CASE BusinessFails(w)
    <2>1. PICK text \in Failures : RaiseOver(inflight, w, text)
        BY <1>3 DEF BusinessFails, Raise
    <2>2. UNCHANGED vars /\ worker[w].pc \in Owning
        BY <1>3 DEF BusinessFails, Owning, Working
    <2>3. Stands(record, record')
        BY <1>3, PerformStands DEF BusinessFails, Stands
    <2>. QED  BY <2>1, <2>2, <2>3, RaiseAccount
<1>. QED  BY <1>1, <1>2, <1>3, RetryAccount

\* A reply is on record under the request it answers.
LEMMA ReplyOnRecord ==
    ASSUME BatchInv, NEW req, Handle(req), Reply(req) # None,
           KnownRequest(Len(executions), checkpoint.version, record, req)
    PROVE  \E k \in DOMAIN receipts' : /\ receipts'[k].request = req
                                       /\ receipts'[k].response = Reply(req)
<1>1. CASE Verdict(req) = "ACCEPTED"
    <2>1. Acknowledge(req, checkpoint') /\ Reply(req) = checkpoint'
        BY <1>1, AcceptedRow DEF Reply
    <2>2. KeyOf(req) \in DOMAIN receipts'
        BY <2>1 DEF Acknowledge
    <2>3. receipts'[KeyOf(req)] = [request |-> req, response |-> checkpoint']
        BY <2>1 DEF Acknowledge
    <2>. QED  BY <2>1, <2>2, <2>3
<1>2. CASE Verdict(req) = "REPLAYED"
    <2>1. KeyOf(req) \in DOMAIN receipts /\ receipts[KeyOf(req)].request = req
        BY <1>2 DEF Verdict, Receipted
    <2>2. Reply(req) = receipts[KeyOf(req)].response /\ receipts' = receipts
        BY <1>2 DEF Reply, Handle, vars
    <2>. QED  BY <2>1, <2>2
<1>. QED  BY <1>1, <1>2 DEF Reply

\* What the store promises, and its step keeps.
StoreInv == /\ TypeInv
            /\ OneRunningExecution
            /\ VersionsAcknowledgedOnce
            /\ HistoryInv
            /\ ProgressHasEvidence

\* Every step of the store keeps what it promises.
LEMMA PromisesStep == StoreInv /\ [Next]_vars => StoreInv'
BY TypeStep, OneRunningStep, AcknowledgedStep, HistoryStep, EvidenceStep DEF StoreInv

\* Handling a call keeps the store's promises, the receipts and the results.
LEMMA HandledStore ==
    ASSUME BatchInv, StoreInv, NEW req, Handle(req),
           KnownRequest(Len(executions), checkpoint.version, record, req)
    PROVE  /\ StoreInv'
           /\ Kept(receipts, receipts')
           /\ Settled(executions, executions')
BY HandleIsNext, PromisesStep, ReceiptsStay, ResultsStay DEF StoreInv

\* An invocation may tell what the reply it waited for shows.
LEMMA AnsweredAccount ==
    ASSUME NEW x, NEW q, NEW r, NEW w, NEW i \in Invocation, Account(x, r, q, w, i),
           i.pc \in Calling, i.pc # "claiming" => i.snapshot # None,
           \A k, l \in DOMAIN q : q[k].response.version = q[l].response.version => k = l,
           NEW row, row # None, \E k \in DOMAIN q : q[k].response = row,
           Tells(x, q, i.request, row)
    PROVE  Account(x, r, q, w, [i EXCEPT !.pc = Resume[i.pc], !.request = None,
                                         !.snapshot = row])
<1> DEFINE j == [i EXCEPT !.pc = Resume[i.pc], !.request = None, !.snapshot = row]
<1>1. /\ j.pc = Resume[i.pc] /\ j.snapshot = row
      /\ j.error = i.error /\ j.successful = i.successful
    BY DEF Invocation
<1>. HIDE DEF j
<1>2. CallTells(r, w, i)
    BY DEF Account
<1>3. i.pc = "reconciling" \/ i.pc = "recording" =>
          (row.progress.checkpoint_status = "COMPLETED" => Decided(r, j))
    <2>1. ASSUME i.pc \in {"reconciling", "recording"},
                 row.progress.checkpoint_status = "COMPLETED"
          PROVE  Decided(r, j)
        <3>1. i.request.tool = "save"
            BY <1>2, <2>1 DEF CallTells, Saving
        <3>2. row.progress = i.request.change
            BY <3>1 DEF Tells
        <3>3. Decided(r, i)
            BY <1>2, <2>1, <3>2 DEF CallTells, Saving
        <3>. QED  BY <1>1, <3>3 DEF Decided
    <2>. QED  BY <2>1
<1>4. i.pc \in Finishing =>
          /\ x[row.execution].result = Outcome(i.request.error)
          /\ row.progress = i.snapshot.progress
    <2>. SUFFICES ASSUME i.pc \in Finishing
                  PROVE  /\ x[row.execution].result = Outcome(i.request.error)
                         /\ row.progress = i.snapshot.progress
        OBVIOUS
    <2>1. i.request.tool = "finish" /\ i.request.expected_version = i.snapshot.version
        BY <1>2 DEF CallTells
    <2>2. x[row.execution].result = Outcome(i.request.error)
        BY <2>1 DEF Tells
    <2>3. PICK l \in DOMAIN q :
              /\ q[l].response.version = i.snapshot.version
              /\ q[l].response.progress = row.progress
        BY <2>1 DEF Tells
    <2>4. PICK h \in DOMAIN q : q[h].response = i.snapshot
        BY DEF Account, Finishing
    <2>5. h = l
        BY <2>3, <2>4
    <2>. QED  BY <2>2, <2>3, <2>4, <2>5
<1>5. i.pc = "finishing" => /\ x[row.execution].result = "SUCCEEDED"
                            /\ row.progress.checkpoint_status = "COMPLETED" => Decided(r, j)
    <2>1. i.pc = "finishing" => i.request.error = None
        BY <1>2 DEF CallTells
    <2>2. /\ i.pc = "finishing"
          /\ i.snapshot.progress.checkpoint_status = "COMPLETED"
          => Decided(r, j)
        BY <1>1 DEF Account, Decided
    <2>. QED  BY <1>4, <2>1, <2>2 DEF Finishing, Outcome
<1>6. i.pc = "closing" => x[row.execution].result = Outcome(i.error)
    BY <1>2, <1>4 DEF CallTells, Finishing
<1>7. i.pc \in {"failing", "closing"} => i.error \in Failures \cup {"message"}
    BY DEF Account
<1>8. CallTells(r, w, j)
    BY <1>1 DEF CallTells, Calling, Saving, Finishing, Resume
<1>9. Account(x, r, q, w, j)
    <2>1. CASE i.pc = "claiming"
        BY <2>1, <1>1, <1>8 DEF Account, Resume
    <2>2. CASE i.pc \in {"reconciling", "recording"}
        BY <2>2, <1>1, <1>3, <1>8 DEF Account, Resume
    <2>3. CASE i.pc = "starting"
        BY <2>3, <1>1, <1>8 DEF Account, Resume
    <2>4. CASE i.pc = "finishing"
        BY <2>4, <1>1, <1>5, <1>8 DEF Account, Resume
    <2>5. CASE i.pc = "failing"
        BY <2>5, <1>1, <1>7, <1>8 DEF Account, Resume
    <2>6. CASE i.pc = "closing"
        BY <2>6, <1>1, <1>6, <1>7, <1>8 DEF Account, Resume
    <2>. QED  BY <2>1, <2>2, <2>3, <2>4, <2>5, <2>6 DEF Calling
<1>. QED  BY <1>9 DEF j

\* A call under way is outdated, or still made from what was last seen, when
\* another call has been handled.
LEMMA PendingLasts ==
    ASSUME NEW n \in Nat, NEW v \in Nat, NEW v2 \in Nat, v <= v2, NEW r,
           NEW req, KnownRequest(n, v, r, req), NEW i, NEW j,
           \/ j.snapshot = i.snapshot
           \/ i.snapshot = None
           \/ i.snapshot.version \in Nat /\ i.snapshot.version < v2,
           Pending(v, i, req)
    PROVE  Pending(v2, j, req)
<1>1. CASE req.tool = "claim"
    BY <1>1 DEF Pending
<1>2. CASE req.tool # "claim"
    <2>1. req.expected_version \in Nat
        BY <1>2 DEF KnownRequest, ClaimRequest
    <2>. QED  BY <1>2, <2>1 DEF Pending
<1>. QED  BY <1>1, <1>2

\* The server answering a call keeps the accounts.
LEMMA DeliverAccount ==
    ASSUME BatchInv, StoreInv, AccountsInv, NEW m \in inflight, Deliver(m)
    PROVE  AccountsInv'
<1> DEFINE n == Len(executions)
           v == checkpoint.version
           v2 == checkpoint'.version
           w == m.worker
           reply == Reply(m.request)
<1>1. w \in Worker /\ m.request # None /\ KnownRequest(n, v, record, m.request)
    BY KnownIsRequest DEF BatchInv, MessagesInv, MessageInv, Message
<1>2. Handle(m.request) /\ record' = record /\ inflight' = inflight \ {m}
    BY DEF Deliver
<1>3. /\ StoreInv' /\ Kept(receipts, receipts') /\ Settled(executions, executions')
      /\ Stands(record, record')
    BY <1>1, <1>2, HandledStore DEF Stands
<1>4. n \in Nat /\ v \in Nat /\ v2 \in Nat /\ v <= v2
    BY <1>1, <1>2, <1>3, HandledRequest DEF StoreInv, TypeInv, TypeOK, Checkpoint
<1>5. \A u \in Worker : Account(executions', record', receipts', u, worker[u])
    <2>. SUFFICES ASSUME NEW u \in Worker
                  PROVE  Account(executions', record', receipts', u, worker[u])
        OBVIOUS
    <2>1. Account(executions, record, receipts, u, worker[u])
        BY Accounting
    <2>2. worker[u].snapshot # None => worker[u].snapshot.execution \in DOMAIN executions
        BY SnapshotInTable
    <2>. QED  BY <1>3, <2>1, <2>2, AccountLasts
<1>6. \A a \in inflight : /\ a.worker \in Worker
                          /\ KnownRequest(n, v, record, a.request)
                          /\ Pending(v, worker[a.worker], a.request)
    BY DEF BatchInv, MessagesInv, MessageInv, Message, AccountsInv
<1>7. worker \in [Worker -> Invocation]
    BY DEF BatchInv, WorkersInv
<1>8. ASSUME NEW j, worker' = [worker EXCEPT ![w] = j],
             Account(executions', record', receipts', w, j),
             \/ j.snapshot = worker[w].snapshot
             \/ worker[w].snapshot = None
             \/ worker[w].snapshot.version \in Nat /\ worker[w].snapshot.version < v2
      PROVE  AccountsInv'
    <2>1. \A u \in Worker : Account(executions', record', receipts', u, worker'[u])
        BY <1>5, <1>7, <1>8
    <2>2. ASSUME NEW a \in inflight' PROVE Pending(v2, worker'[a.worker], a.request)
        <3>1. /\ a.worker \in Worker /\ KnownRequest(n, v, record, a.request)
              /\ Pending(v, worker[a.worker], a.request)
            BY <1>2, <1>6
        <3>2. \/ worker'[a.worker].snapshot = worker[a.worker].snapshot
              \/ worker[a.worker].snapshot = None
              \/ /\ worker[a.worker].snapshot.version \in Nat
                 /\ worker[a.worker].snapshot.version < v2
            BY <1>1, <1>7, <1>8, <3>1
        <3>. QED  BY <1>4, <3>1, <3>2, PendingLasts, ZenonT(60)
    <2>. QED  BY <2>1, <2>2 DEF AccountsInv
<1>9. CASE ~Awaited(m)
    <2>1. worker' = [worker EXCEPT ![w] = worker[w]]
        BY <1>1, <1>7, <1>9 DEF Deliver
    <2>. QED  BY <1>1, <1>5, <1>8, <2>1
<1>10. CASE Awaited(m) /\ reply = None
    <2> DEFINE j == [worker[w] EXCEPT !.pc = "stopped", !.request = None]
    <2>1. worker' = [worker EXCEPT ![w] = j]
        BY <1>10 DEF Deliver
    <2>2. Account(executions', record', receipts', w, worker[w]) /\ worker[w] \in Invocation
        BY <1>1, <1>5, <1>7
    <2>3. Account(executions', record', receipts', w, j) /\ j.snapshot = worker[w].snapshot
        BY <2>2, EndedAccount, ZenonT(60)
    <2>. HIDE DEF j
    <2>. QED  BY <1>8, <2>1, <2>3
<1>11. CASE Awaited(m) /\ reply # None
    <2> DEFINE i == worker[w]
    <2>1. /\ i \in Invocation /\ i.request = m.request /\ i.pc \in Calling
          /\ i.pc # "claiming" => i.snapshot # None
        BY <1>1, <1>11, Taking DEF Awaited, InvocationInv, Owning
    <2>2. PICK k \in DOMAIN receipts' : /\ receipts'[k].request = m.request
                                        /\ receipts'[k].response = reply
        BY <1>1, <1>2, <1>11, ReplyOnRecord
    <2>3. PICK j : j = [i EXCEPT !.pc = Resume[i.pc], !.request = None,
                                 !.snapshot = reply]
        OBVIOUS
    <2>4. worker' = [worker EXCEPT ![w] = j]
        BY <1>11, <2>2, <2>3 DEF Deliver
    <2>5. Account(executions', record', receipts', w, j)
        <3>1. /\ Tells(executions', receipts', i.request, reply)
              /\ \A h, l \in DOMAIN receipts' :
                     receipts'[h].response.version = receipts'[l].response.version => h = l
            BY <1>3, <2>1, <2>2 DEF StoreInv, HistoryInv, ReceiptsTell, VersionsAcknowledgedOnce
        <3>2. Account(executions', record', receipts', w, i)
            BY <1>1, <1>5
        <3>. QED  BY <1>11, <2>1, <2>2, <2>3, <3>1, <3>2, AnsweredAccount
    <2>6. \/ i.snapshot = None
          \/ i.snapshot.version \in Nat /\ i.snapshot.version < v2
        <3>1. CASE i.pc = "claiming"
            BY <1>1, <1>5, <3>1 DEF Account
        <3>2. CASE i.pc # "claiming"
            <4>1. Account(executions, record, receipts, w, i)
                BY <1>1, Accounting
            <4>2. i.pc \in Saving \cup Finishing
                BY <2>1, <3>2 DEF Calling, Saving, Finishing
            <4>3. /\ m.request.tool \in {"save", "finish"}
                  /\ m.request.expected_version = i.snapshot.version
                BY <2>1, <4>1, <4>2 DEF Account, CallTells
            <4>4. reply.version = i.snapshot.version + 1
                BY <1>3, <2>2, <4>3 DEF StoreInv, HistoryInv, ReceiptsTell, Tells
            <4>5. reply.version \in 1 .. v2
                BY <1>3, <2>2 DEF StoreInv, VersionsAcknowledgedOnce
            <4>6. i.snapshot.version \in Nat
                BY <1>1, <2>1, <3>2, SnapshotInTable DEF Checkpoint
            <4>. QED  BY <1>4, <4>4, <4>5, <4>6
        <3>. QED  BY <3>1, <3>2
    <2>. QED  BY <1>8, <2>4, <2>5, <2>6
<1>. QED  BY <1>9, <1>10, <1>11

\* Every step keeps the accounts.
LEMMA AccountsStep ==
    BatchInv /\ StoreInv /\ AccountsInv /\ [BatchNext]_batchVars => AccountsInv'
<1> SUFFICES ASSUME BatchInv, StoreInv, AccountsInv, [BatchNext]_batchVars
             PROVE  AccountsInv'
    OBVIOUS
<1>1. ASSUME NEW w \in Worker, Start(w) \/ Work(w) PROVE AccountsInv'
    BY <1>1, StartAccount, ReadAccount, DecideAccount, ExecuteAccount, FinishAccount DEF Work
<1>2. ASSUME NEW w \in Worker, Retry(w) \/ Stop(w) \/ CredentialsFail(w) \/ BusinessFails(w)
      PROVE  AccountsInv'
    BY <1>2, FaultAccount
<1>3. ASSUME NEW m \in inflight, Deliver(m) PROVE AccountsInv'
    BY <1>3, DeliverAccount
<1>4. ASSUME UNCHANGED <<tables, worker, inflight>>, Stands(record, record')
      PROVE  AccountsInv'
    <2>1. ASSUME NEW w \in Worker PROVE Account(executions, record', receipts, w, worker[w])
        <3>1. Settled(executions, executions) /\ Kept(receipts, receipts)
            BY DEF Settled, Kept
        <3>2. worker[w].snapshot # None => worker[w].snapshot.execution \in DOMAIN executions
            BY SnapshotInTable
        <3>3. Account(executions, record, receipts, w, worker[w])
            BY Accounting
        <3>. QED  BY <1>4, <3>1, <3>2, <3>3, AccountLasts
    <2>. QED  BY <1>4, <2>1 DEF tables, AccountsInv
<1>5. ASSUME NEW call \in late, LateEffect(call) PROVE AccountsInv'
    BY <1>4, <1>5, PerformStands DEF LateEffect, vars, tables
<1>6. CASE BatchTick
    BY <1>4, <1>6 DEF BatchTick, Tick, Stands
<1>7. CASE UNCHANGED batchVars
    BY <1>4, <1>7 DEF batchVars, vars, tables, Stands
<1>. QED  BY <1>1, <1>2, <1>3, <1>5, <1>6, <1>7 DEF BatchNext

\* What the store promises holds of the composition.
LEMMA PromisesHold == BatchSpec => []StoreInv
BY UsesTheStore, TypeInvariance, OneOwner, ExactlyOnce, RecordIsComplete, EvidenceForProgress,
   PTL DEF StoreInv

\* The accounts are in order in every reachable state.
LEMMA AccountsInvariance == BatchSpec => []AccountsInv
<1>1. BatchInit => AccountsInv
    BY DEF BatchInit, AccountsInv, Account, CallTells, Calling, Saving, Finishing
<1>. QED  BY <1>1, BatchInvariance, PromisesHold, AccountsStep, PTL DEF BatchSpec

\* A JobResult can be relied on: the execution it reports on is recorded as
\* succeeded, and an operation it reports as completed is one the business
\* completed, with the outcome it reports, whichever calls were lost, repeated
\* or refused on the way and whatever other invocations did meanwhile
\* (runtime.py, run from its reconciliation to its finish).
THEOREM ResultsAreHonest == BatchSpec => []ResultIsHonest
<1>1. AccountsInv => ResultIsHonest
    BY DEF AccountsInv, Account, Decided, ResultIsHonest
<1>. QED  BY <1>1, AccountsInvariance, PTL

\* An invocation that raised, and was told so was recorded, is recorded as
\* failed for good, as long as no failure has the empty text: finish takes
\* an empty error for none (service.py:236-243).
THEOREM FailuresAreRecorded ==
    ASSUME "" \notin Failures
    PROVE  BatchSpec => []FailureIsRecorded
<1>1. \A text \in Failures \cup {"message"} : Outcome(text) = "FAILED"
    BY FailureAssumption, ErrorAssumption DEF Outcome
<1>2. AccountsInv => FailureIsRecorded
    BY <1>1 DEF AccountsInv, Account, FailureIsRecorded
<1>. QED  BY <1>2, AccountsInvariance, PTL

\* A call is applied only to the row its sender last saw: a save in flight
\* that the sender's later calls, another owner or a crash have overtaken
\* changes nothing (service.py:204-211; runtime.py sends the snapshot's
\* version with every save).
THEOREM NothingIsOverwritten == BatchSpec => NothingOverwrittenUnseen
<1>. DEFINE Seen == \A m \in inflight :
                checkpoint'.progress # checkpoint.progress /\ m \notin inflight' =>
                    checkpoint = worker[m.worker].snapshot
<1>1. BatchInv /\ StoreInv /\ AccountsInv /\ [BatchNext]_batchVars => [Seen]_batchVars
    <2> SUFFICES ASSUME BatchInv, StoreInv, AccountsInv, BatchNext,
                        NEW m \in inflight, checkpoint'.progress # checkpoint.progress,
                        m \notin inflight'
                 PROVE  checkpoint = worker[m.worker].snapshot
        OBVIOUS
    <2> DEFINE req == m.request
    <2>1. Deliver(m)
        <3>1. ASSUME NEW w \in Worker, Start(w) \/ Work(w) PROVE UNCHANGED checkpoint
            BY <3>1 DEF Start, Work, Read, Decide, Execute, Conclude, Report, vars
        <3>2. ASSUME NEW w \in Worker,
                     Retry(w) \/ Stop(w) \/ CredentialsFail(w) \/ BusinessFails(w)
              PROVE  UNCHANGED checkpoint
            BY <3>2 DEF Retry, Stop, CredentialsFail, BusinessFails, vars
        <3>3. ASSUME NEW call \in late, LateEffect(call) PROVE UNCHANGED checkpoint
            BY <3>3 DEF LateEffect, vars
        <3>4. BatchTick => UNCHANGED checkpoint
            BY DEF BatchTick, Tick, tables
        <3>5. ASSUME NEW a \in inflight, Deliver(a) PROVE a = m
            BY <3>5 DEF Deliver
        <3>. QED  BY <3>1, <3>2, <3>3, <3>4, <3>5 DEF BatchNext
    <2>2. /\ Verdict(req) = "ACCEPTED" /\ Save(req) /\ req.tool = "save"
          /\ KnownRequest(Len(executions), checkpoint.version, record, req)
        <3>1. checkpoint \in Checkpoint
            BY DEF StoreInv, TypeInv, TypeOK
        <3>2. Claim(req) \/ Finish(req) => checkpoint'.progress = checkpoint.progress
            BY <3>1 DEF Claim, Finish, Checkpoint
        <3>3. Handle(req) /\ KnownRequest(Len(executions), checkpoint.version, record, req)
            BY <2>1 DEF Deliver, BatchInv, MessagesInv, MessageInv
        <3>. QED  BY <3>2, <3>3 DEF Handle, vars
    <2>3. checkpoint.version = req.expected_version /\ checkpoint.version \in Nat \ {0}
        BY <2>2, AcceptedOwner DEF OwnsCheckpoint, KnownRequest, ClaimRequest, FinishRequest,
                                   SaveRequest
    <2>4. /\ worker[m.worker].snapshot # None
          /\ worker[m.worker].snapshot.version = checkpoint.version
        BY <2>2, <2>3 DEF AccountsInv, Pending
    <2>5. m.worker \in Worker
        BY DEF BatchInv, MessagesInv, MessageInv, Message
    <2>6. PICK k \in DOMAIN receipts : receipts[k].response = worker[m.worker].snapshot
        BY <2>4, <2>5 DEF AccountsInv, Account
    <2>7. PICK l \in DOMAIN receipts : receipts[l].response = checkpoint
        BY <2>3 DEF StoreInv, HistoryInv, RowOnRecord
    <2>8. k = l
        BY <2>4, <2>6, <2>7 DEF StoreInv, VersionsAcknowledgedOnce
    <2>. QED  BY <2>6, <2>7, <2>8
<1>. QED  BY <1>1, BatchInvariance, PromisesHold, AccountsInvariance, PTL
          DEF BatchSpec, NothingOverwrittenUnseen

-----------------------------------------------------------------------------
(* Where calls and references come from                                    *)

\* The reference of the provider that this operation's progress may name.
OwnReference == IF Agent = "ad-provisioning-agent" THEN RequestId ELSE None
OwnProgress(p) == p.external_reference \in {None, OwnReference}
OwnRequest(req) == req.tool = "save" => OwnProgress(req.change)

\* A call is one of those that the invocations ws made so far.
Made(ws, req) == \E u \in Worker : \E c \in 1 .. ws[u].calls : req.mutation_id = <<u, c>>

Proper(ws, req) == OwnRequest(req) /\ Made(ws, req)

\* What is asked for and recorded belongs to this operation, and every call
\* has been made by one of its invocations.
CallsInv ==
    /\ OwnProgress(checkpoint.progress)
    /\ \A k \in DOMAIN receipts : /\ k = KeyOf(receipts[k].request)
                                  /\ Made(worker, receipts[k].request)
                                  /\ OwnProgress(receipts[k].response.progress)
    /\ \A m \in inflight : Proper(worker, m.request)
    /\ \A w \in Worker : worker[w].request # None => Proper(worker, worker[w].request)

\* Only provisioning waits.
WaitingInv ==
    /\ record # None /\ record.status = "WAITING" => Agent = "ad-provisioning-agent"
    /\ "submit" \in late => Agent = "ad-provisioning-agent"

\* A call that was made was made.
LEMMA MadeLasts ==
    ASSUME NEW ws, NEW ws2, NEW req, Made(ws, req),
           \A u \in Worker : /\ ws[u].calls \in Nat /\ ws2[u].calls \in Nat
                             /\ ws[u].calls <= ws2[u].calls
    PROVE  Made(ws2, req)
<1>1. PICK u \in Worker : \E c \in 1 .. ws[u].calls : req.mutation_id = <<u, c>>
    BY DEF Made
<1>2. \A c \in 1 .. ws[u].calls : c \in 1 .. ws2[u].calls
    BY <1>1
<1>. QED  BY <1>1, <1>2 DEF Made

\* The next mutation id is fresh.
LEMMA NextIsFresh ==
    ASSUME BatchInv, CallsInv, NEW w \in Worker, NEW req, req.mutation_id = NextMutation(w)
    PROVE  ~Receipted(req)
<1>1. worker[w].calls \in Nat
    BY Taking DEF Invocation
<1>2. ASSUME NEW k \in DOMAIN receipts, k = KeyOf(req) PROVE FALSE
    <2>1. receipts[k].request.mutation_id = <<w, worker[w].calls + 1>>
        BY <1>2 DEF CallsInv, KeyOf, NextMutation
    <2>2. PICK u \in Worker : \E c \in 1 .. worker[u].calls :
              receipts[k].request.mutation_id = <<u, c>>
        BY DEF CallsInv, Made
    <2>3. u = w /\ worker[w].calls + 1 \in 1 .. worker[u].calls
        BY <2>1, <2>2
    <2>. QED  BY <1>1, <2>3
<1>. QED  BY <1>2 DEF Receipted

\* What an invocation has seen is the operation's own.
LEMMA SeenIsOwn ==
    ASSUME AccountsInv, CallsInv, NEW w \in Worker, worker[w].snapshot # None
    PROVE  OwnProgress(worker[w].snapshot.progress)
BY DEF AccountsInv, Account, CallsInv

\* A save of the operation's own progress is the operation's own.
LEMMA SaveIsOwn ==
    ASSUME AccountsInv, CallsInv, NEW w \in Worker, worker[w].snapshot # None,
           NEW p \in Progress, OwnProgress(p)
    PROVE  OwnRequest(SaveOf(w, p))
<1>1. SaveOf(w, p).change.external_reference \in
          {p.external_reference, worker[w].snapshot.progress.external_reference}
    BY DEF SaveOf, Progress
<1>. QED  BY <1>1, SeenIsOwn DEF OwnRequest, OwnProgress

\* A record reports the operation's own progress; marks name no reference.
LEMMA ReportIsOwn ==
    ASSUME NEW r, NEW stage, NEW status
    PROVE  OwnProgress(ProgressOf(r)) /\ OwnProgress(Marked(stage, status))
BY DEF OwnProgress, OwnReference, ProgressOf, Marked

\* A step of one invocation that makes at most one more call, a proper one.
LEMMA OwnCalls ==
    ASSUME BatchInv, CallsInv, UNCHANGED <<checkpoint, receipts>>, NEW w \in Worker,
           NEW j, worker' = [worker EXCEPT ![w] = j],
           j.calls \in Nat, worker[w].calls <= j.calls,
           \/ j.request = None /\ inflight' \subseteq inflight
           \/ j.request = worker[w].request /\ worker[w].request # None
           \/ /\ OwnRequest(j.request) /\ j.request.mutation_id = <<w, j.calls>>
              /\ j.calls # 0,
           \A m \in inflight' : m \notin inflight => m.request = j.request
    PROVE  CallsInv'
<1>1. worker \in [Worker -> Invocation]
    BY DEF BatchInv, WorkersInv
<1>2. \A u \in Worker : /\ worker[u].calls \in Nat /\ worker'[u].calls \in Nat
                        /\ worker[u].calls <= worker'[u].calls
    BY <1>1 DEF Invocation
<1>3. \A req : Made(worker, req) => Made(worker', req)
    BY <1>2, MadeLasts
<1>4. \/ j.request = None /\ inflight' \subseteq inflight
      \/ Proper(worker', j.request)
    <2>1. CASE j.request = worker[w].request /\ worker[w].request # None
        BY <1>3, <2>1 DEF CallsInv, Proper
    <2>2. CASE /\ OwnRequest(j.request) /\ j.request.mutation_id = <<w, j.calls>>
               /\ j.calls # 0
        <3>1. worker'[w].calls = j.calls /\ j.calls \in 1 .. j.calls
            BY <1>1, <2>2
        <3>. QED  BY <2>2, <3>1 DEF Proper, Made
    <2>. QED  BY <2>1, <2>2
<1>5. \A u \in Worker : worker'[u].request # None => Proper(worker', worker'[u].request)
    BY <1>1, <1>3, <1>4 DEF CallsInv, Proper
<1>6. \A m \in inflight' : Proper(worker', m.request)
    BY <1>3, <1>4 DEF CallsInv, Proper
<1>. QED  BY <1>3, <1>5, <1>6 DEF CallsInv

\* Making a call of the operation's own.
LEMMA CallCalls ==
    ASSUME BatchInv, CallsInv, UNCHANGED vars, NEW w \in Worker,
           NEW net, net \subseteq inflight, NEW i \in Invocation, i.calls = worker[w].calls,
           NEW pc, NEW req, OwnRequest(req), req.mutation_id = NextMutation(w),
           CallOver(net, w, i, pc, req)
    PROVE  CallsInv'
<1> DEFINE j == [i EXCEPT !.pc = pc, !.request = req, !.attempt = 1, !.calls = @ + 1]
           m == [worker |-> w, attempt |-> 1, request |-> req]
<1>1. j.request = req /\ j.calls = worker[w].calls + 1 /\ worker[w].calls \in Nat
    BY Taking DEF Invocation
<1>2. worker' = [worker EXCEPT ![w] = j] /\ inflight' = net \cup {m}
    BY DEF CallOver
<1>3. m.request = req
    OBVIOUS
<1>. HIDE DEF j, m
<1>4. req.mutation_id = <<w, j.calls>> /\ j.calls \in Nat /\ j.calls # 0
      /\ worker[w].calls <= j.calls
    BY <1>1 DEF NextMutation
<1>. QED  BY <1>1, <1>2, <1>3, <1>4, OwnCalls DEF vars

\* Saving the operation's own progress.
LEMMA SaveCalls ==
    ASSUME BatchInv, AccountsInv, CallsInv, UNCHANGED vars, NEW w \in Worker,
           worker[w].snapshot # None, NEW net, net \subseteq inflight,
           NEW i \in Invocation, i.calls = worker[w].calls,
           NEW pc, NEW p \in Progress, OwnProgress(p),
           CallOver(net, w, i, pc, SaveOf(w, p))
    PROVE  CallsInv'
<1>1. OwnRequest(SaveOf(w, p))
    BY SaveIsOwn
<1>2. SaveOf(w, p).mutation_id = NextMutation(w)
    BY SaveTells
<1>. QED  BY <1>1, <1>2, CallCalls

\* The exception handler's save is the operation's own.
LEMMA RaiseCalls ==
    ASSUME BatchInv, AccountsInv, CallsInv, UNCHANGED vars, NEW w \in Worker,
           worker[w].pc \in Owning, NEW net, net \subseteq inflight,
           NEW text \in Failures \cup {"message"}, RaiseOver(net, w, text)
    PROVE  CallsInv'
<1> DEFINE i == [worker[w] EXCEPT !.error = text]
           mark == Marked(worker[w].snapshot.progress.current_stage, "FAILED")
<1>1. i \in Invocation /\ i.calls = worker[w].calls /\ worker[w].snapshot # None
    BY Taking DEF Invocation
<1>2. mark \in Progress /\ OwnProgress(mark)
    BY Taking, MarkIsSupported, ReportIsOwn
<1>3. CallOver(net, w, i, "failing", SaveOf(w, mark))
    BY DEF RaiseOver
<1>. HIDE DEF i, mark
<1>. QED  BY <1>1, <1>2, <1>3, SaveCalls

\* So is a save of what a record reports.
LEMMA RecordCalls ==
    ASSUME BatchInv, AccountsInv, CallsInv, UNCHANGED vars, NEW w \in Worker,
           worker[w].pc \in Owning, NEW r \in BusinessRecord, NEW pc,
           Call(w, [worker[w] EXCEPT !.successful = r.successful], pc, SaveOf(w, ProgressOf(r)))
    PROVE  CallsInv'
<1> DEFINE i == [worker[w] EXCEPT !.successful = r.successful]
<1>1. i \in Invocation /\ i.calls = worker[w].calls /\ worker[w].snapshot # None
    BY Taking DEF Invocation, BusinessRecord
<1>2. ProgressOf(r) \in Progress /\ OwnProgress(ProgressOf(r))
    BY RecordSupportsItself, ReportIsOwn
<1>3. CallOver(inflight, w, i, pc, SaveOf(w, ProgressOf(r)))
    BY DEF Call
<1>. HIDE DEF i
<1>. QED  BY <1>1, <1>2, <1>3, SaveCalls

\* And a RUNNING mark.
LEMMA MarkCalls ==
    ASSUME BatchInv, AccountsInv, CallsInv, UNCHANGED vars, NEW w \in Worker,
           worker[w].pc = "deciding", NEW stage \in {"AD_SUBMISSION", InitialStage},
           Call(w, worker[w], "starting", SaveOf(w, Marked(stage, "RUNNING")))
    PROVE  CallsInv'
<1>1. worker[w] \in Invocation /\ worker[w].snapshot # None
    BY Taking DEF Owning, Working
<1>2. Marked(stage, "RUNNING") \in Progress /\ OwnProgress(Marked(stage, "RUNNING"))
    BY Taking, MarkIsSupported, ReportIsOwn DEF Owning, Working
<1>3. CallOver(inflight, w, worker[w], "starting", SaveOf(w, Marked(stage, "RUNNING")))
    BY DEF Call
<1>. QED  BY <1>1, <1>2, <1>3, SaveCalls

\* An invocation that makes no call.
LEMMA NoCalls ==
    ASSUME BatchInv, CallsInv, UNCHANGED <<checkpoint, receipts>>, NEW w \in Worker,
           NEW j, worker' = [worker EXCEPT ![w] = j], j.calls = worker[w].calls,
           j.request = None, inflight' \subseteq inflight
    PROVE  CallsInv'
<1>1. j.calls \in Nat /\ worker[w].calls <= j.calls
    BY Taking DEF Invocation
<1>2. \A m \in inflight' : m \notin inflight => m.request = j.request
    OBVIOUS
<1>. QED  BY <1>1, <1>2, OwnCalls

\* What an invocation does at work makes proper calls only.
LEMMA WorkCalls ==
    ASSUME BatchInv, AccountsInv, CallsInv, NEW w \in Worker, Start(w) \/ Work(w)
    PROVE  CallsInv'
<1>1. UNCHANGED vars /\ UNCHANGED <<checkpoint, receipts>>
    BY DEF Start, Work, Read, Decide, Execute, Conclude, Report, vars
<1>2. CASE Start(w)
    <2>1. PICK mode \in Modes :
              Call(w, [worker[w] EXCEPT !.mode = mode], "claiming", ClaimOf(w))
        BY <1>2 DEF Start
    <2> DEFINE i == [worker[w] EXCEPT !.mode = mode]
    <2>2. i \in Invocation /\ i.calls = worker[w].calls
        BY Taking DEF Invocation
    <2>3. OwnRequest(ClaimOf(w)) /\ ClaimOf(w).mutation_id = NextMutation(w)
        BY DEF OwnRequest, ClaimOf
    <2>4. CallOver(inflight, w, i, "claiming", ClaimOf(w))
        BY <2>1 DEF Call
    <2>. HIDE DEF i
    <2>. QED  BY <1>1, <2>2, <2>3, <2>4, CallCalls
<1>3. CASE Read(w)
    <2>1. worker[w].pc = "reading" /\ worker[w].pc \in Owning /\ worker[w].request = None
        BY <1>3, Taking DEF Read, Owning, Working, Calling, InvocationInv
    <2>2. CASE record # None /\ ProgressOf(record) # worker[w].snapshot.progress
        <3>1. record \in BusinessRecord
            BY <2>2 DEF BatchInv, LedgersInv
        <3>2. Call(w, [worker[w] EXCEPT !.successful = record.successful], "reconciling",
                   SaveOf(w, ProgressOf(record)))
            BY <1>3, <2>2 DEF Read
        <3>. QED  BY <1>1, <2>1, <3>1, <3>2, RecordCalls
    <2>3. CASE RaiseOver(inflight, w, "message")
        BY <1>1, <2>1, <2>3, RaiseCalls
    <2>4. ASSUME NEW ok, worker' = [worker EXCEPT ![w].pc = "deciding", ![w].successful = ok],
                 inflight' = inflight
          PROVE  CallsInv'
        <3>1. PICK j : j = [worker[w] EXCEPT !.pc = "deciding", !.successful = ok]
            OBVIOUS
        <3>2. worker' = [worker EXCEPT ![w] = j]
            BY <2>4, <3>1
        <3>3. j.calls = worker[w].calls /\ j.request = None
            BY <2>1, <3>1, Taking DEF Invocation
        <3>. QED  BY <1>1, <2>4, <3>2, <3>3, NoCalls
    <2>. QED  BY <1>3, <2>2, <2>3, <2>4 DEF Read, Raise
<1>4. CASE Decide(w)
    <2>1. worker[w].pc = "deciding" /\ worker[w].pc \in Owning /\ worker[w].request = None
        BY <1>4, Taking DEF Decide, Owning, Working, Calling, InvocationInv
    <2>2. ASSUME NEW pc, Goto(w, pc) PROVE CallsInv'
        <3>1. PICK j : j = [worker[w] EXCEPT !.pc = pc]
            OBVIOUS
        <3>2. worker' = [worker EXCEPT ![w] = j] /\ inflight' = inflight
            BY <2>2, <3>1 DEF Goto
        <3>3. j.calls = worker[w].calls /\ j.request = None
            BY <2>1, <3>1, Taking DEF Invocation
        <3>. QED  BY <1>1, <3>2, <3>3, NoCalls
    <2>3. CASE \/ Call(w, worker[w], "starting", SaveOf(w, Marked(InitialStage, "RUNNING")))
               \/ Call(w, worker[w], "starting", SaveOf(w, Marked("AD_SUBMISSION", "RUNNING")))
        BY <1>1, <2>1, <2>3, MarkCalls
    <2>4. CASE Raise(w, "message")
        BY <1>1, <2>1, <2>4, RaiseCalls DEF Raise
    <2>. QED  BY <1>4, <2>2, <2>3, <2>4 DEF Decide
<1>5. CASE Execute(w)
    <2>1. record' \in BusinessRecord
        BY <1>5, PerformGrows DEF Execute, BatchInv, LedgersInv
    <2>2. worker[w].pc \in Owning
        BY <1>5 DEF Execute, Owning, Working
    <2>3. Call(w, [worker[w] EXCEPT !.successful = record'.successful], "recording",
               SaveOf(w, ProgressOf(record')))
        BY <1>5 DEF Execute
    <2>. QED  BY <1>1, <2>1, <2>2, <2>3, RecordCalls
<1>6. CASE Conclude(w) \/ Report(w)
    <2>1. PICK pc, text : Call(w, worker[w], pc, FinishOf(w, text))
        BY <1>6 DEF Conclude, Report
    <2>2. worker[w] \in Invocation
        BY Taking
    <2>3. OwnRequest(FinishOf(w, text)) /\ FinishOf(w, text).mutation_id = NextMutation(w)
        BY FinishTells DEF OwnRequest
    <2>4. CallOver(inflight, w, worker[w], pc, FinishOf(w, text))
        BY <2>1 DEF Call
    <2>. QED  BY <1>1, <2>2, <2>3, <2>4, CallCalls
<1>. QED  BY <1>2, <1>3, <1>4, <1>5, <1>6 DEF Work

\* Faults make proper calls only.
LEMMA FaultCalls ==
    ASSUME BatchInv, AccountsInv, CallsInv, NEW w \in Worker,
           Retry(w) \/ Stop(w) \/ CredentialsFail(w) \/ BusinessFails(w)
    PROVE  CallsInv'
<1>1. UNCHANGED vars /\ UNCHANGED <<checkpoint, receipts>>
    BY DEF Retry, Stop, CredentialsFail, BusinessFails, vars
<1>2. CASE Retry(w)
    <2>1. PICK j : j = [worker[w] EXCEPT !.attempt = 2]
        OBVIOUS
    <2>2. PICK m : m = [worker |-> w, attempt |-> 2, request |-> worker[w].request]
        OBVIOUS
    <2>3. worker' = [worker EXCEPT ![w] = j] /\ inflight' = inflight \cup {m}
        BY <1>2, <2>1, <2>2 DEF Retry
    <2>4. /\ j.calls = worker[w].calls /\ j.calls \in Nat
          /\ j.request = worker[w].request /\ worker[w].request # None
        BY <1>2, <2>1, Taking DEF Retry, Invocation, InvocationInv
    <2>5. worker[w].calls <= j.calls
        BY <2>4
    <2>6. \A a \in inflight' : a \notin inflight => a.request = j.request
        BY <2>2, <2>3, <2>4
    <2>. QED  BY <1>1, <2>3, <2>4, <2>5, <2>6, OwnCalls
<1>3. ASSUME worker' = [worker EXCEPT ![w].pc = "stopped", ![w].request = None],
             inflight' \subseteq inflight
      PROVE  CallsInv'
    <2>1. PICK j : j = [worker[w] EXCEPT !.pc = "stopped", !.request = None]
        OBVIOUS
    <2>2. worker' = [worker EXCEPT ![w] = j]
        BY <1>3, <2>1
    <2>3. j.calls = worker[w].calls /\ j.request = None
        BY <2>1, Taking DEF Invocation
    <2>. QED  BY <1>1, <1>3, <2>2, <2>3, NoCalls
<1>4. CASE Stop(w)
    BY <1>3, <1>4 DEF Stop
<1>5. CASE CredentialsFail(w)
    <2>1. PICK net : net = inflight \ {[worker |-> w, attempt |-> worker[w].attempt,
                                        request |-> worker[w].request]}
        OBVIOUS
    <2>2. CASE worker[w].pc \in {"claiming", "failing", "closing"}
        BY <1>3, <1>5, <2>1, <2>2 DEF CredentialsFail
    <2>3. CASE worker[w].pc \notin {"claiming", "failing", "closing"}
        <3>1. RaiseOver(net, w, "message") /\ worker[w].pc \in Owning
            BY <1>5, <2>1, <2>3 DEF CredentialsFail, Owning
        <3>2. net \subseteq inflight
            BY <2>1
        <3>. QED  BY <1>1, <3>1, <3>2, RaiseCalls
    <2>. QED  BY <2>2, <2>3
<1>6. CASE BusinessFails(w)
    <2>1. PICK text \in Failures : RaiseOver(inflight, w, text)
        BY <1>6 DEF BusinessFails, Raise
    <2>2. worker[w].pc \in Owning
        BY <1>6 DEF BusinessFails, Owning, Working
    <2>. QED  BY <1>1, <2>1, <2>2, RaiseCalls
<1>. QED  BY <1>2, <1>4, <1>5, <1>6

\* Handling a proper call puts proper things on record.
LEMMA DeliverCalls ==
    ASSUME BatchInv, CallsInv, NEW m \in inflight, Deliver(m)
    PROVE  CallsInv'
<1> DEFINE req == m.request
<1>1. /\ Handle(req) /\ inflight' \subseteq inflight
      /\ m.worker \in Worker /\ KnownRequest(Len(executions), checkpoint.version, record, req)
    BY DEF Deliver, BatchInv, MessagesInv, MessageInv, Message
<1>2. worker \in [Worker -> Invocation]
    BY DEF BatchInv, WorkersInv
<1>3. \/ worker' = worker
      \/ \E j : /\ worker' = [worker EXCEPT ![m.worker] = j]
                /\ j.calls = worker[m.worker].calls /\ j.request = None
    <2> DEFINE i == worker[m.worker]
               j1 == [i EXCEPT !.pc = "stopped", !.request = None]
               j2 == [i EXCEPT !.pc = Resume[i.pc], !.request = None, !.snapshot = Reply(req)]
    <2>1. i \in Invocation
        BY <1>1, <1>2
    <2>2. /\ j1.calls = i.calls /\ j1.request = None
          /\ j2.calls = i.calls /\ j2.request = None
        BY <2>1 DEF Invocation
    <2>3. \/ worker' = worker
          \/ worker' = [worker EXCEPT ![m.worker] = j1]
          \/ worker' = [worker EXCEPT ![m.worker] = j2]
        BY DEF Deliver
    <2>. HIDE DEF j1, j2
    <2>. QED  BY <2>2, <2>3
<1>4. \A u \in Worker : /\ worker[u].calls \in Nat
                        /\ worker'[u].calls = worker[u].calls
                        /\ worker'[u].request \in {None, worker[u].request}
    BY <1>1, <1>2, <1>3 DEF Invocation
<1>5. \A r : Made(worker, r) => Made(worker', r)
    BY <1>4, MadeLasts
<1>6. /\ \A a \in inflight' : Proper(worker', a.request)
      /\ \A u \in Worker : worker'[u].request # None => Proper(worker', worker'[u].request)
    BY <1>1, <1>4, <1>5 DEF CallsInv, Proper
<1>7. CASE Verdict(req) = "ACCEPTED"
    <2>1. Acknowledge(req, checkpoint')
        BY <1>1, <1>7, AcceptedRow
    <2>2. OwnRequest(req) /\ Made(worker', req)
        BY <1>5 DEF CallsInv, Proper
    <2>3. OwnProgress(checkpoint'.progress)
        <3>1. checkpoint \in Checkpoint
            BY DEF BatchInv, TypeInv, TypeOK
        <3>2. CASE req.tool = "save" /\ Save(req)
            BY <2>2, <3>1, <3>2 DEF Save, Checkpoint, OwnRequest
        <3>3. CASE Claim(req) \/ Finish(req)
            BY <3>1, <3>3 DEF Claim, Finish, Checkpoint, CallsInv
        <3>. QED  BY <1>1, <1>7, <3>2, <3>3 DEF Handle
    <2>4. ASSUME NEW k \in DOMAIN receipts'
          PROVE  /\ k = KeyOf(receipts'[k].request)
                 /\ Made(worker', receipts'[k].request)
                 /\ OwnProgress(receipts'[k].response.progress)
        <3>1. CASE k = KeyOf(req)
            BY <2>1, <2>2, <2>3, <3>1 DEF Acknowledge
        <3>2. CASE k # KeyOf(req)
            <4>1. k \in DOMAIN receipts /\ receipts'[k] = receipts[k]
                BY <2>1, <2>4, <3>2 DEF Acknowledge
            <4>. QED  BY <1>5, <4>1 DEF CallsInv
        <3>. QED  BY <3>1, <3>2
    <2>. QED  BY <1>6, <2>3, <2>4 DEF CallsInv
<1>8. CASE Verdict(req) # "ACCEPTED"
    <2>1. checkpoint' = checkpoint /\ receipts' = receipts
        BY <1>1, <1>8 DEF Handle, vars
    <2>. QED  BY <1>5, <1>6, <2>1 DEF CallsInv
<1>. QED  BY <1>7, <1>8

\* Every step makes proper calls only.
LEMMA CallsStep ==
    BatchInv /\ AccountsInv /\ CallsInv /\ [BatchNext]_batchVars => CallsInv'
<1> SUFFICES ASSUME BatchInv, AccountsInv, CallsInv, [BatchNext]_batchVars PROVE CallsInv'
    OBVIOUS
<1>1. CASE UNCHANGED <<checkpoint, receipts, worker, inflight>>
    BY <1>1 DEF CallsInv
<1>2. ASSUME NEW call \in late, LateEffect(call) PROVE CallsInv'
    BY <1>1, <1>2 DEF LateEffect, vars
<1>3. CASE BatchTick
    BY <1>1, <1>3 DEF BatchTick, Tick, tables
<1>4. CASE UNCHANGED batchVars
    BY <1>1, <1>4 DEF batchVars, vars
<1>. QED  BY <1>2, <1>3, <1>4, WorkCalls, FaultCalls, DeliverCalls DEF BatchNext

\* A submission is a provisioning step.
LEMMA PerformWaits ==
    ASSUME WaitingInv, record \in BusinessRecord \cup {None}, NEW call, Perform(call),
           call = "submit" => Agent = "ad-provisioning-agent"
    PROVE  record' # None /\ record'.status = "WAITING" => Agent = "ad-provisioning-agent"
<1>1. CASE call = "poll" /\ Poll
    BY <1>1, NoRecordAssumption DEF Poll, WaitingInv, BusinessRecord
<1>2. CASE call = "validate" /\ Validate
    BY <1>2 DEF Validate, WaitingInv
<1>. QED  BY <1>1, <1>2 DEF Perform

\* Only provisioning waits, after every step.
LEMMA WaitingStep ==
    BatchInv /\ WaitingInv /\ [BatchNext]_batchVars => WaitingInv'
<1> SUFFICES ASSUME BatchInv, WaitingInv, [BatchNext]_batchVars PROVE WaitingInv'
    OBVIOUS
<1>1. record \in BusinessRecord \cup {None}
    BY DEF BatchInv, LedgersInv
<1>2. CASE UNCHANGED <<record, late>>
    BY <1>2 DEF WaitingInv
<1>3. \A w : StepOf(w) = "submit" => Agent = "ad-provisioning-agent"
    BY DEF StepOf
<1>4. ASSUME NEW w \in Worker, Perform(StepOf(w)), UNCHANGED late PROVE WaitingInv'
    BY <1>1, <1>3, <1>4, PerformWaits DEF WaitingInv
<1>5. ASSUME NEW w \in Worker, BusinessFails(w) PROVE WaitingInv'
    <2>1. ASSUME late' = late \cup {StepOf(w)}, UNCHANGED record PROVE WaitingInv'
        BY <1>3, <2>1 DEF WaitingInv
    <2>. QED  BY <1>2, <1>4, <1>5, <2>1 DEF BusinessFails
<1>6. ASSUME NEW w \in Worker, Execute(w) PROVE WaitingInv'
    BY <1>4, <1>6 DEF Execute
<1>7. ASSUME NEW call \in late, LateEffect(call) PROVE WaitingInv'
    BY <1>1, <1>7, PerformWaits DEF LateEffect, WaitingInv
<1>8. ASSUME NEW w \in Worker, \/ Start(w) \/ Read(w) \/ Decide(w) \/ Conclude(w) \/ Report(w)
                               \/ Retry(w) \/ Stop(w) \/ CredentialsFail(w)
      PROVE  WaitingInv'
    BY <1>2, <1>8 DEF Start, Read, Decide, Conclude, Report, Retry, Stop, CredentialsFail
<1>9. ASSUME NEW m \in inflight, Deliver(m) PROVE WaitingInv'
    BY <1>2, <1>9 DEF Deliver
<1>10. CASE BatchTick \/ UNCHANGED batchVars
    BY <1>2, <1>10 DEF BatchTick, batchVars
<1>. QED  BY <1>5, <1>6, <1>7, <1>8, <1>9, <1>10 DEF BatchNext, Work

-----------------------------------------------------------------------------
(* The undisturbed invocation                                              *)

\* Nobody and nothing else is under way.
Alone(w) ==
    /\ \A u \in Worker \ {w} : ~Active(u)
    /\ late = {}
    /\ IF worker[w].pc \in Calling
       THEN /\ worker[w].attempt = 1
            /\ inflight = {[worker |-> w, attempt |-> 1, request |-> worker[w].request]}
            /\ ~Receipted(worker[w].request)
       ELSE inflight = {}

\* The row is the invocation's own, as it has it in memory.
Holds(w) ==
    /\ worker[w].snapshot = checkpoint
    /\ LeaseIsLive
    /\ executions[checkpoint.execution].workflow_run_id = RunOf[w]

Reconciled == record # None /\ checkpoint.progress = ProgressOf(record)

\* How far the invocation has got with the row.
Repairs(w) ==
    LET i == worker[w]
    IN  /\ i.pc \notin {"idle", "stopped"}
        /\ i.pc = "claiming" => ~LeaseIsLive
        /\ i.pc \in Owning => Holds(w)
        /\ i.pc \in Saving => Admissible(i.request.change)
        /\ i.pc = "deciding" => record = None \/ Reconciled
        /\ i.pc \in {"reconciling", "recording"} =>
               record # None /\ i.request.change = ProgressOf(record)
        /\ i.pc \in {"ending", "finishing", "done"} => Reconciled
        /\ i.pc = "done" => checkpoint.lease = NoLease
        /\ i.pc \in {"failing", "reporting", "closing", "raised"} =>
               i.mode = "poll" /\ record = None
        /\ i.pc = "failing" => i.request.change.checkpoint_status = "FAILED"
        /\ i.pc \in {"reporting", "closing", "raised"} =>
               checkpoint.progress.checkpoint_status = "FAILED"

SoloInv == solo # None => Alone(solo) /\ Repairs(solo)

\* The owner may save what a record reports, and that is what it saves.
LEMMA ReportIsAdmissible ==
    ASSUME StoreInv, CallsInv, NEW w \in Worker, Holds(w), NEW r \in BusinessRecord,
           r.status = "WAITING" => Agent = "ad-provisioning-agent"
    PROVE  /\ SaveOf(w, ProgressOf(r)).change = ProgressOf(r)
           /\ Admissible(ProgressOf(r))
<1> DEFINE p == ProgressOf(r)
           old == checkpoint.progress
<1>1. p \in Progress /\ r.status \in {"WAITING", "COMPLETED"}
    BY RecordSupportsItself DEF BusinessRecord
<1>2. RequestId # None /\ Reference # None
    BY ReferenceAssumption, NoneAssumption
<1>3. OwnProgress(old) /\ ProgressHasEvidence
    BY DEF CallsInv, StoreInv
<1>4. /\ p.result_reference = Reference /\ p.external_reference = OwnReference
      /\ p.checkpoint_status = r.status
      /\ p.current_stage = IF Agent = "ad-provisioning-agent" THEN "AD_POLLING"
                                                              ELSE InitialStage
    BY DEF ProgressOf, OwnReference
<1>5. SaveOf(w, p).change = p
    <2>1. SaveOf(w, p).change =
              [p EXCEPT !.external_reference = IF @ = None THEN old.external_reference ELSE @,
                        !.result_reference = IF @ = None THEN old.result_reference ELSE @]
        BY DEF SaveOf, Holds
    <2>2. (IF p.external_reference = None THEN old.external_reference
                                         ELSE p.external_reference) = p.external_reference
        BY <1>2, <1>3, <1>4 DEF OwnProgress, OwnReference
    <2>3. (IF p.result_reference = None THEN old.result_reference
                                       ELSE p.result_reference) = p.result_reference
        BY <1>2, <1>4
    <2>. HIDE DEF p, old
    <2>4. [p EXCEPT !.external_reference = p.external_reference,
                    !.result_reference = p.result_reference] = p
        BY <1>1 DEF Progress
    <2>5. SaveOf(w, p).change = [p EXCEPT !.external_reference = p.external_reference,
                                          !.result_reference = p.result_reference]
        BY <2>1, <2>2, <2>3, <1>1 DEF Progress
    <2>. QED  BY <2>4, <2>5
<1>6. Admissible(p)
    <2>1. InitialStage # "AD_POLLING" \/ Agent = "ad-provisioning-agent"
        BY AgentAssumption DEF InitialStage, InitialStageOf
    <2>2. Agent # "ad-provisioning-agent" => Stages = {InitialStage}
        BY DEF Stages
    <2>3. Agent = "ad-provisioning-agent" => Stages = {"AD_SUBMISSION", "AD_POLLING"}
        BY DEF Stages
    <2>. HIDE DEF p
    <2>. QED  BY <1>1, <1>2, <1>3, <1>4, <2>1, <2>2, <2>3
              DEF Admissible, ProgressHasEvidence, OwnProgress, OwnReference
<1>. QED  BY <1>5, <1>6

\* The owner may mark a stage RUNNING or FAILED that it is in or may go to.
LEMMA MarkIsAdmissible ==
    ASSUME NEW w \in Worker, Holds(w), NEW stage \in Stages,
           NEW status \in {"RUNNING", "FAILED"},
           checkpoint.progress.current_stage = "AD_POLLING" => stage = "AD_POLLING",
           stage = "AD_POLLING" => checkpoint.progress.external_reference # None
    PROVE  /\ Admissible(SaveOf(w, Marked(stage, status)).change)
           /\ SaveOf(w, Marked(stage, status)).change.checkpoint_status = status
BY DEF SaveOf, Marked, Holds, Admissible

\* An invocation alone that makes its next call.
LEMMA AloneCalls ==
    ASSUME BatchInv, CallsInv, UNCHANGED <<vars, late>>, NEW w \in Worker, Alone(w),
           worker[w].pc \notin Calling,
           NEW i \in Invocation, i.calls = worker[w].calls, NEW pc \in Calling,
           NEW req, req.mutation_id = NextMutation(w), CallOver(inflight, w, i, pc, req)
    PROVE  /\ Alone(w)'
           /\ worker'[w].pc = pc /\ worker'[w].request = req
           /\ worker'[w].snapshot = i.snapshot /\ worker'[w].mode = i.mode
<1>1. PICK j : j = [i EXCEPT !.pc = pc, !.request = req, !.attempt = 1, !.calls = @ + 1]
    OBVIOUS
<1>2. /\ j.pc = pc /\ j.request = req /\ j.attempt = 1
      /\ j.snapshot = i.snapshot /\ j.mode = i.mode
    BY <1>1 DEF Invocation
<1>3. worker \in [Worker -> Invocation]
    BY DEF BatchInv, WorkersInv
<1>4. worker' = [worker EXCEPT ![w] = j]
    BY <1>1 DEF CallOver
<1>5. inflight' = {[worker |-> w, attempt |-> 1, request |-> req]}
    BY DEF CallOver, Alone
<1>6. ~Receipted(req)
    BY NextIsFresh
<1>7. \A u \in Worker \ {w} : worker'[u] = worker[u]
    BY <1>3, <1>4
<1>8. worker'[w] = j
    BY <1>3, <1>4
<1>. QED  BY <1>2, <1>5, <1>6, <1>7, <1>8 DEF Alone, Active, Receipted, vars

\* An invocation alone that goes on without a call.
LEMMA AloneGoes ==
    ASSUME BatchInv, UNCHANGED <<vars, late, inflight>>, NEW w \in Worker, Alone(w),
           worker[w].pc \notin Calling,
           NEW j, j.pc \notin Calling, worker' = [worker EXCEPT ![w] = j]
    PROVE  Alone(w)' /\ worker'[w] = j
<1>1. worker \in [Worker -> Invocation]
    BY DEF BatchInv, WorkersInv
<1>2. \A u \in Worker \ {w} : worker'[u] = worker[u]
    BY <1>1
<1>3. worker'[w] = j
    BY <1>1
<1>. QED  BY <1>2, <1>3 DEF Alone, Active

\* What holds while the undisturbed invocation runs.
SoloState(w) == /\ BatchInv /\ StoreInv /\ AccountsInv /\ CallsInv /\ WaitingInv
                /\ Alone(w) /\ Repairs(w)

\* At work, it holds the row.
LEMMA SoloHolds ==
    ASSUME NEW w \in Worker, SoloState(w), worker[w].pc \in Working
    PROVE  /\ Holds(w) /\ worker[w].snapshot = checkpoint
           /\ worker[w].pc \notin Calling /\ worker[w] \in Invocation
BY Taking DEF SoloState, Repairs, Owning, Holds, Working, Calling

\* An invocation that starts while all is quiet is alone.
LEMMA SoloStarts ==
    ASSUME BatchInv, CallsInv, NEW w \in Worker, Start(w), Quiet
    PROVE  Alone(w)' /\ Repairs(w)'
<1>1. PICK mode \in Modes : Call(w, [worker[w] EXCEPT !.mode = mode], "claiming", ClaimOf(w))
    BY DEF Start
<1>2. PICK i : i = [worker[w] EXCEPT !.mode = mode]
    OBVIOUS
<1>3. i \in Invocation /\ i.calls = worker[w].calls
    BY <1>2, Taking DEF Invocation
<1>4. PICK req : req = ClaimOf(w)
    OBVIOUS
<1>5. req.mutation_id = NextMutation(w) /\ CallOver(inflight, w, i, "claiming", req)
    BY <1>1, <1>2, <1>4 DEF Call, ClaimOf
<1>6. Alone(w) /\ worker[w].pc \notin Calling /\ UNCHANGED <<vars, late>>
    BY DEF Start, Quiet, Alone, Active, Calling
<1>7. Alone(w)' /\ worker'[w].pc = "claiming"
    BY <1>3, <1>5, <1>6, AloneCalls DEF Calling
<1>8. ~LeaseIsLive'
    BY DEF Quiet, Start, LeaseIsLive, vars
<1>. QED  BY <1>7, <1>8 DEF Repairs, Owning, Working, Calling, Saving

\* It makes a call that the server will accept and that brings it further.
LEMMA SoloCalls ==
    ASSUME NEW w \in Worker, SoloState(w), worker[w].pc \in Working, UNCHANGED <<vars, late>>,
           NEW i \in Invocation, i.calls = worker[w].calls,
           i.snapshot = worker[w].snapshot, i.mode = worker[w].mode,
           NEW pc \in Saving \cup Finishing,
           NEW req, req.mutation_id = NextMutation(w), CallOver(inflight, w, i, pc, req),
           pc \in Saving => Admissible(req.change),
           pc \in {"reconciling", "recording"} =>
               record' # None /\ req.change = ProgressOf(record'),
           pc = "finishing" => record' # None /\ checkpoint.progress = ProgressOf(record'),
           pc \in {"failing", "closing"} => worker[w].mode = "poll" /\ record' = None,
           pc = "failing" => req.change.checkpoint_status = "FAILED",
           pc = "closing" => checkpoint.progress.checkpoint_status = "FAILED"
    PROVE  Alone(w)' /\ Repairs(w)'
<1>1. pc \in Calling /\ pc # "claiming"
    BY DEF Saving, Finishing, Calling
<1>2. Holds(w) /\ worker[w].pc \notin Calling
    BY SoloHolds
<1>3. /\ Alone(w)' /\ worker'[w].pc = pc /\ worker'[w].request = req
      /\ worker'[w].snapshot = worker[w].snapshot /\ worker'[w].mode = worker[w].mode
    BY <1>1, <1>2, AloneCalls DEF SoloState
<1>4. Holds(w)'
    BY <1>2, <1>3 DEF Holds, LeaseIsLive, vars
<1>5. checkpoint' = checkpoint
    BY DEF vars
<1>6. pc \in Saving => Admissible(worker[w].request.change)'
    BY <1>3, <1>5 DEF Admissible
<1>. QED  BY <1>1, <1>3, <1>4, <1>5, <1>6
          DEF Repairs, Reconciled, ProgressOf, Saving, Finishing, Calling

\* Or it goes on without one.
LEMMA SoloGoes ==
    ASSUME NEW w \in Worker, SoloState(w), worker[w].pc \in Working,
           UNCHANGED <<vars, late, inflight, record>>,
           NEW j, worker' = [worker EXCEPT ![w] = j], j.snapshot = worker[w].snapshot,
           j.pc \in {"deciding", "executing", "ending"},
           j.pc = "deciding" => record = None \/ Reconciled,
           j.pc = "ending" => Reconciled
    PROVE  Alone(w)' /\ Repairs(w)'
<1>1. Holds(w) /\ worker[w].pc \notin Calling /\ j.pc \notin Calling
    BY SoloHolds DEF Calling
<1>2. Alone(w)' /\ worker'[w] = j
    BY <1>1, AloneGoes DEF SoloState
<1>3. Holds(w)'
    BY <1>1, <1>2 DEF Holds, LeaseIsLive, vars
<1>4. checkpoint' = checkpoint
    BY DEF vars
<1>. QED  BY <1>2, <1>3, <1>4 DEF Repairs, Reconciled, ProgressOf, Saving

\* The exception handler is reached only by polling without a request.
LEMMA SoloRaises ==
    ASSUME NEW w \in Worker, SoloState(w), worker[w].pc = "deciding",
           UNCHANGED <<vars, late, record>>,
           worker[w].mode = "poll", record = None, Raise(w, "message")
    PROVE  Alone(w)' /\ Repairs(w)'
<1>1. worker[w].pc \in Working
    BY DEF Working
<1>2. Holds(w) /\ worker[w].snapshot = checkpoint /\ worker[w] \in Invocation
    BY <1>1, SoloHolds
<1>3. PICK i : i = [worker[w] EXCEPT !.error = "message"]
    OBVIOUS
<1>4. /\ i \in Invocation /\ i.calls = worker[w].calls /\ i.snapshot = worker[w].snapshot
      /\ i.mode = worker[w].mode
    BY <1>2, <1>3 DEF Invocation
<1>5. PICK stage : stage = checkpoint.progress.current_stage
    OBVIOUS
<1>6. PICK req : req = SaveOf(w, Marked(stage, "FAILED"))
    OBVIOUS
<1>7. req.mutation_id = NextMutation(w) /\ CallOver(inflight, w, i, "failing", req)
    BY <1>2, <1>3, <1>5, <1>6 DEF Raise, RaiseOver, SaveOf
<1>8. /\ stage \in Stages
      /\ stage = "AD_POLLING" => checkpoint.progress.external_reference # None
    BY <1>5 DEF SoloState, StoreInv, ProgressHasEvidence
<1>9. Admissible(req.change) /\ req.change.checkpoint_status = "FAILED"
    BY <1>2, <1>5, <1>6, <1>8, MarkIsAdmissible
<1>. QED  BY <1>1, <1>4, <1>7, <1>9, SoloCalls DEF Saving

\* Reconciling with the business before deciding on a step.
LEMMA SoloRead ==
    ASSUME NEW w \in Worker, SoloState(w), Read(w)
    PROVE  Alone(w)' /\ Repairs(w)'
<1>1. worker[w].pc \in Working /\ UNCHANGED <<vars, late>> /\ record' = record
    BY DEF Read, Working
<1>2. /\ Holds(w) /\ worker[w].snapshot = checkpoint /\ worker[w] \in Invocation
      /\ record \in BusinessRecord \cup {None}
    BY <1>1, SoloHolds DEF SoloState, BatchInv, LedgersInv
<1>3. CASE record # None /\ ProgressOf(record) # checkpoint.progress
    <2>1. PICK i : i = [worker[w] EXCEPT !.successful = record.successful]
        OBVIOUS
    <2>2. record \in BusinessRecord
        BY <1>2, <1>3
    <2>3. /\ i \in Invocation /\ i.calls = worker[w].calls
          /\ i.snapshot = worker[w].snapshot /\ i.mode = worker[w].mode
        BY <1>2, <2>1, <2>2 DEF Invocation, BusinessRecord
    <2>4. PICK req : req = SaveOf(w, ProgressOf(record))
        OBVIOUS
    <2>5. /\ CallOver(inflight, w, i, "reconciling", req)
          /\ req.mutation_id = NextMutation(w)
        BY <1>2, <1>3, <2>1, <2>4 DEF Read, Call, SaveOf
    <2>6. req.change = ProgressOf(record) /\ Admissible(req.change)
        BY <1>2, <1>3, <2>2, <2>4, ReportIsAdmissible DEF SoloState, WaitingInv
    <2>. QED  BY <1>1, <1>3, <2>3, <2>5, <2>6, SoloCalls DEF Saving
<1>4. CASE ~(record # None /\ ProgressOf(record) # checkpoint.progress)
    <2>1. ~(record = None /\ checkpoint.progress.checkpoint_status = "COMPLETED")
        BY DEF SoloState, BatchInv, CheckpointFollowsBusiness, Supports
    <2>2. PICK j : j = [worker[w] EXCEPT !.pc = "deciding",
                                         !.successful = record = None \/ record.successful]
        OBVIOUS
    <2>3. worker' = [worker EXCEPT ![w] = j] /\ inflight' = inflight
        BY <1>2, <1>4, <2>1, <2>2 DEF Read
    <2>4. j.pc = "deciding" /\ j.snapshot = worker[w].snapshot
        BY <1>2, <2>2 DEF Invocation
    <2>5. record = None \/ Reconciled
        BY <1>4 DEF Reconciled
    <2>. QED  BY <1>1, <2>3, <2>4, <2>5, SoloGoes
<1>. QED  BY <1>3, <1>4

\* Taking the next step, or none.
LEMMA SoloDecide ==
    ASSUME NEW w \in Worker, SoloState(w), Decide(w)
    PROVE  Alone(w)' /\ Repairs(w)'
<1> DEFINE p == checkpoint.progress
           requested == p.external_reference # None
<1>1. /\ worker[w].pc = "deciding" /\ worker[w].pc \in Working
      /\ UNCHANGED <<vars, late, record>>
    BY DEF Decide, Working
<1>2. /\ Holds(w) /\ worker[w].snapshot = checkpoint /\ worker[w] \in Invocation
    BY <1>1, SoloHolds
<1>3. record = None \/ Reconciled
    BY <1>1 DEF SoloState, Repairs
<1>4. p.checkpoint_status = "COMPLETED" \/ requested => Reconciled
    BY <1>3 DEF SoloState, BatchInv, CheckpointFollowsBusiness, Supports
<1>5. ASSUME NEW pc \in {"ending", "executing"}, Goto(w, pc), pc = "ending" => Reconciled
      PROVE  Alone(w)' /\ Repairs(w)'
    <2>1. PICK j : j = [worker[w] EXCEPT !.pc = pc]
        OBVIOUS
    <2>2. worker' = [worker EXCEPT ![w] = j] /\ inflight' = inflight
        BY <1>5, <2>1 DEF Goto
    <2>3. j.pc = pc /\ j.snapshot = worker[w].snapshot
        BY <1>2, <2>1 DEF Invocation
    <2>. QED  BY <1>1, <1>5, <2>2, <2>3, SoloGoes
<1>6. ASSUME NEW stage \in Stages,
             Call(w, worker[w], "starting", SaveOf(w, Marked(stage, "RUNNING"))),
             p.current_stage = "AD_POLLING" => stage = "AD_POLLING",
             stage = "AD_POLLING" => requested
      PROVE  Alone(w)' /\ Repairs(w)'
    <2>1. PICK req : req = SaveOf(w, Marked(stage, "RUNNING"))
        OBVIOUS
    <2>2. CallOver(inflight, w, worker[w], "starting", req) /\ req.mutation_id = NextMutation(w)
        BY <1>6, <2>1 DEF Call, SaveOf
    <2>3. Admissible(req.change)
        BY <1>2, <1>6, <2>1, MarkIsAdmissible
    <2>. QED  BY <1>1, <1>2, <2>2, <2>3, SoloCalls DEF Saving, Finishing
<1>7. p.current_stage \in Stages /\ (p.current_stage = "AD_POLLING" => requested)
    BY DEF SoloState, StoreInv, ProgressHasEvidence
<1>8. CASE p.checkpoint_status = "COMPLETED"
    BY <1>2, <1>4, <1>5, <1>8 DEF Decide
<1>9. CASE p.checkpoint_status # "COMPLETED" /\ Agent # "ad-provisioning-agent"
    <2>1. Call(w, worker[w], "starting", SaveOf(w, Marked(InitialStage, "RUNNING")))
        BY <1>2, <1>9 DEF Decide
    <2>2. InitialStage \in Stages /\ p.current_stage = InitialStage
          /\ InitialStage # "AD_POLLING"
        BY <1>7, <1>9, AgentAssumption DEF Stages, InitialStage, InitialStageOf
    <2>. QED  BY <1>6, <2>1, <2>2
<1>10. CASE /\ p.checkpoint_status # "COMPLETED" /\ Agent = "ad-provisioning-agent"
            /\ requested
    BY <1>2, <1>4, <1>5, <1>10 DEF Decide
<1>11. CASE /\ p.checkpoint_status # "COMPLETED" /\ Agent = "ad-provisioning-agent"
            /\ ~requested
    <2>1. CASE worker[w].mode = "poll"
        <3>1. Raise(w, "message")
            BY <1>2, <1>11, <2>1 DEF Decide
        <3>2. record = None
            <4>1. Reconciled => requested
                BY <1>11, ReferenceAssumption, NoneAssumption DEF Reconciled, ProgressOf
            <4>. QED  BY <1>3, <1>11, <4>1
        <3>. QED  BY <1>1, <2>1, <3>1, <3>2, SoloRaises
    <2>2. CASE worker[w].mode # "poll"
        <3>1. Call(w, worker[w], "starting", SaveOf(w, Marked("AD_SUBMISSION", "RUNNING")))
            BY <1>2, <1>11, <2>2 DEF Decide
        <3>2. "AD_SUBMISSION" \in Stages
            BY <1>11 DEF Stages
        <3>. QED  BY <1>6, <1>7, <1>11, <3>1, <3>2
    <2>. QED  BY <2>1, <2>2
<1>. QED  BY <1>8, <1>9, <1>10, <1>11

\* The business step, whose progress is recorded next.
LEMMA SoloExecute ==
    ASSUME NEW w \in Worker, SoloState(w), Execute(w)
    PROVE  Alone(w)' /\ Repairs(w)'
<1>1. worker[w].pc \in Working /\ UNCHANGED <<vars, late>>
    BY DEF Execute, Working
<1>2. /\ Holds(w) /\ worker[w].snapshot = checkpoint /\ worker[w] \in Invocation
    BY <1>1, SoloHolds
<1>3. Perform(StepOf(w)) /\ record \in BusinessRecord \cup {None}
    BY DEF Execute, SoloState, BatchInv, LedgersInv
<1>4. PICK r : r = record'
    OBVIOUS
<1>5. r \in BusinessRecord
    BY <1>3, <1>4, PerformGrows
<1>6. r.status = "WAITING" => Agent = "ad-provisioning-agent"
    <2>1. StepOf(w) = "submit" => Agent = "ad-provisioning-agent"
        BY DEF StepOf
    <2>2. record' # None
        BY <1>4, <1>5, NoRecordAssumption
    <2>. QED  BY <1>3, <1>4, <2>1, <2>2, PerformWaits DEF SoloState
<1>7. PICK i : i = [worker[w] EXCEPT !.successful = r.successful]
    OBVIOUS
<1>8. /\ i \in Invocation /\ i.calls = worker[w].calls
      /\ i.snapshot = worker[w].snapshot /\ i.mode = worker[w].mode
    BY <1>2, <1>5, <1>7 DEF Invocation, BusinessRecord
<1>9. PICK req : req = SaveOf(w, ProgressOf(r))
    OBVIOUS
<1>10. CallOver(inflight, w, i, "recording", req) /\ req.mutation_id = NextMutation(w)
    BY <1>4, <1>7, <1>9 DEF Execute, Call, SaveOf
<1>11. req.change = ProgressOf(r) /\ Admissible(req.change)
    BY <1>2, <1>5, <1>6, <1>9, ReportIsAdmissible DEF SoloState
<1>12. record' # None /\ req.change = ProgressOf(record')
    BY <1>4, <1>5, <1>11, NoRecordAssumption
<1>. QED  BY <1>1, <1>8, <1>10, <1>11, <1>12, SoloCalls DEF Saving, Finishing

\* Finishing the execution, without an error or with one.
LEMMA SoloFinishes ==
    ASSUME NEW w \in Worker, SoloState(w), Conclude(w) \/ Report(w)
    PROVE  Alone(w)' /\ Repairs(w)'
<1>1. worker[w].pc \in Working /\ UNCHANGED <<vars, late>> /\ record' = record
    BY DEF Conclude, Report, Working
<1>2. worker[w] \in Invocation
    BY <1>1, SoloHolds
<1>3. CASE Conclude(w)
    <2>1. PICK req : req = FinishOf(w, None)
        OBVIOUS
    <2>2. CallOver(inflight, w, worker[w], "finishing", req) /\ req.mutation_id = NextMutation(w)
        BY <1>3, <2>1 DEF Conclude, Call, FinishOf
    <2>3. Reconciled
        BY <1>3 DEF Conclude, SoloState, Repairs
    <2>4. record' # None /\ checkpoint.progress = ProgressOf(record')
        BY <1>1, <2>3 DEF Reconciled
    <2>. QED  BY <1>1, <1>2, <2>2, <2>4, SoloCalls DEF Saving, Finishing
<1>4. CASE Report(w)
    <2>1. PICK req : req = FinishOf(w, worker[w].error)
        OBVIOUS
    <2>2. CallOver(inflight, w, worker[w], "closing", req) /\ req.mutation_id = NextMutation(w)
        BY <1>4, <2>1 DEF Report, Call, FinishOf
    <2>3. /\ worker[w].mode = "poll" /\ record = None
          /\ checkpoint.progress.checkpoint_status = "FAILED"
        BY <1>4 DEF Report, SoloState, Repairs
    <2>. QED  BY <1>1, <1>2, <2>2, <2>3, SoloCalls DEF Saving, Finishing
<1>. QED  BY <1>3, <1>4

\* The server accepts the call of an invocation that is alone.
LEMMA SoloAccepted ==
    ASSUME NEW w \in Worker, SoloState(w), worker[w].pc \in Calling,
           NEW req, req = worker[w].request
    PROVE  /\ Verdict(req) = "ACCEPTED"
           /\ worker[w].pc = "claiming" => req.tool = "claim"
           /\ worker[w].pc \in Saving => req.tool = "save"
           /\ worker[w].pc \in Finishing => req.tool = "finish"
           /\ worker[w].pc # "claiming" => req.execution_id = checkpoint.execution
           /\ req.workflow_run_id = RunOf[w]
<1>1. ~Receipted(req)
    BY DEF SoloState, Alone
<1>2. CallTells(record, w, worker[w])
    BY Accounting DEF SoloState, Account
<1>3. CASE worker[w].pc = "claiming"
    BY <1>1, <1>2, <1>3 DEF CallTells, SoloState, Repairs, Verdict, Claimable, Calling,
                            Saving, Finishing
<1>4. CASE worker[w].pc # "claiming"
    <2>1. worker[w].pc \in Saving \cup Finishing /\ Holds(w)
        BY <1>4 DEF SoloState, Repairs, Owning, Calling, Saving, Finishing
    <2>2. worker[w].pc \in Saving => Admissible(req.change)
        BY DEF SoloState, Repairs
    <2>3. OwnsCheckpoint(req) /\ LeaseIsLive
        BY <1>2, <2>1 DEF CallTells, Holds, OwnsCheckpoint
    <2>4. /\ worker[w].pc \in Saving => req.tool = "save"
          /\ worker[w].pc \in Finishing => req.tool = "finish"
          /\ req.workflow_run_id = RunOf[w]
        BY <1>2, <2>1 DEF CallTells, Calling
    <2>5. worker[w].pc \in Saving => worker[w].pc \notin Finishing
        BY DEF Saving, Finishing
    <2>. QED  BY <1>1, <1>4, <2>1, <2>2, <2>3, <2>4, <2>5 DEF Verdict, OwnsCheckpoint
<1>. QED  BY <1>3, <1>4

\* What the row is after a call of an invocation that is alone.
LEMMA SoloRow ==
    ASSUME NEW w \in Worker, SoloState(w), worker[w].pc \in Calling,
           NEW req, req = worker[w].request, Handle(req)
    PROVE  /\ worker[w].pc \notin Finishing =>
                  /\ LeaseIsLive'
                  /\ executions'[checkpoint'.execution].workflow_run_id = RunOf[w]
           /\ worker[w].pc \in Saving => checkpoint'.progress = req.change
           /\ worker[w].pc \in Finishing => /\ checkpoint'.progress = checkpoint.progress
                                            /\ checkpoint'.lease = NoLease
<1>1. TypeInv /\ checkpoint \in Checkpoint
    BY DEF SoloState, BatchInv, TypeInv, TypeOK
<1>2. /\ Verdict(req) = "ACCEPTED"
      /\ worker[w].pc = "claiming" => req.tool = "claim"
      /\ worker[w].pc \in Saving => req.tool = "save"
      /\ worker[w].pc \in Finishing => req.tool = "finish"
      /\ req.workflow_run_id = RunOf[w]
    BY SoloAccepted
<1>3. CASE worker[w].pc = "claiming"
    <2>1. Claim(req)
        BY <1>2, <1>3 DEF Handle
    <2>2. /\ checkpoint'.execution = Len(executions) + 1
          /\ checkpoint'.lease = clock + LeaseSeconds /\ clock' = clock
        BY <1>1, <2>1 DEF Claim, Checkpoint
    <2>3. executions'[Len(executions) + 1].workflow_run_id = RunOf[w]
        <3>1. PICK e : e = [workflow_run_id |-> req.workflow_run_id, result |-> "RUNNING"]
            OBVIOUS
        <3>2. e.workflow_run_id = RunOf[w] /\ executions' = Append(Interrupted, e)
            BY <1>2, <2>1, <3>1 DEF Claim
        <3>3. Interrupted \in Seq(Execution) /\ Len(Interrupted) = Len(executions)
            BY <1>1, InterruptedType
        <3>. QED  BY <3>2, <3>3
    <2>4. LeaseIsLive'
        BY <1>1, <2>2, LeaseAssumption DEF LeaseIsLive, TypeInv, TypeOK
    <2>. QED  BY <1>3, <2>2, <2>3, <2>4 DEF Saving, Finishing
<1>4. CASE worker[w].pc \in Saving
    <2>1. Save(req) /\ worker[w].pc \notin Finishing
        BY <1>2, <1>4 DEF Handle, Saving, Finishing
    <2>2. Holds(w)
        BY <1>4 DEF SoloState, Repairs, Owning, Calling, Saving
    <2>3. /\ checkpoint'.progress = req.change /\ checkpoint'.execution = checkpoint.execution
          /\ checkpoint'.lease = checkpoint.lease
          /\ UNCHANGED <<clock, executions>>
        BY <1>1, <2>1 DEF Save, Checkpoint
    <2>. QED  BY <2>1, <2>2, <2>3 DEF Holds, LeaseIsLive
<1>5. CASE worker[w].pc \in Finishing
    <2>1. Finish(req) /\ worker[w].pc \notin Saving
        BY <1>2, <1>5 DEF Handle, Saving, Finishing
    <2>. QED  BY <1>1, <1>5, <2>1 DEF Finish, Checkpoint
<1>. QED  BY <1>3, <1>4, <1>5 DEF Calling, Saving, Finishing

\* The server answers it, and nothing else is under way.
LEMMA SoloDelivers ==
    ASSUME NEW w \in Worker, SoloState(w), NEW m \in inflight, Deliver(m)
    PROVE  Alone(w)' /\ Repairs(w)'
<1>1. /\ worker[w].pc \in Calling /\ inflight = {m}
      /\ m.worker = w /\ m.attempt = 1 /\ m.request = worker[w].request
      /\ worker[w].attempt = 1
    BY DEF SoloState, Alone
<1>2. PICK req : req = m.request
    OBVIOUS
<1>3. PICK i : i = worker[w]
    OBVIOUS
<1>4. i \in Invocation /\ worker \in [Worker -> Invocation]
    BY <1>3, Taking DEF SoloState, BatchInv, WorkersInv
<1>5. Handle(req) /\ Awaited(m) /\ record' = record /\ late' = late /\ inflight' = {}
    BY <1>1, <1>2 DEF Deliver, Awaited
<1>6. KnownRequest(Len(executions), checkpoint.version, record, req) /\ BatchInv
    BY <1>2 DEF SoloState, BatchInv, MessagesInv, MessageInv
<1>7. Verdict(req) = "ACCEPTED"
    BY <1>1, <1>2, SoloAccepted
<1>8. PICK row : row = checkpoint'
    OBVIOUS
<1>9. row # None
    BY <1>5, <1>6, <1>7, <1>8, AcceptedRow, NoRecordAssumption DEF KnownSnapshot
<1>10. PICK j : j = [i EXCEPT !.pc = Resume[i.pc], !.request = None, !.snapshot = row]
    OBVIOUS
<1>11. worker' = [worker EXCEPT ![w] = j]
    BY <1>1, <1>2, <1>3, <1>5, <1>7, <1>8, <1>9, <1>10 DEF Deliver, Reply
<1>12. j.pc = Resume[i.pc] /\ j.snapshot = row /\ j.mode = i.mode
    BY <1>4, <1>10 DEF Invocation
<1>13. Resume[i.pc] \notin Calling
    BY <1>1, <1>3 DEF Resume, Calling
<1>14. worker'[w] = j /\ \A u \in Worker \ {w} : worker'[u] = worker[u]
    BY <1>4, <1>11
<1>15. Alone(w)'
    BY <1>5, <1>12, <1>13, <1>14 DEF SoloState, Alone, Active
<1>16. /\ i.pc \notin Finishing =>
              /\ LeaseIsLive'
              /\ executions'[checkpoint'.execution].workflow_run_id = RunOf[w]
       /\ i.pc \in Saving => checkpoint'.progress = req.change
       /\ i.pc \in Finishing => /\ checkpoint'.progress = checkpoint.progress
                                /\ checkpoint'.lease = NoLease
    BY <1>1, <1>2, <1>3, <1>5, SoloRow
<1>17. i.pc \notin Finishing => Holds(w)'
    BY <1>8, <1>12, <1>14, <1>16 DEF Holds
<1>18. Repairs(w)
    BY DEF SoloState
<1>19. Repairs(w)'
    <2>1. CASE i.pc \in {"claiming", "starting"}
        <3>1. j.pc \in {"reading", "executing"}
            BY <1>12, <2>1 DEF Resume
        <3>. QED  BY <1>14, <1>17, <2>1, <3>1 DEF Repairs, Saving, Finishing
    <2>2. CASE i.pc \in {"reconciling", "recording"}
        <3>1. j.pc \in {"deciding", "ending"}
            BY <1>12, <2>2 DEF Resume
        <3>2. record' # None /\ checkpoint'.progress = ProgressOf(record')
            BY <1>1, <1>2, <1>3, <1>5, <1>16, <1>18, <2>2 DEF Repairs, Saving
        <3>3. Reconciled'
            BY <3>2 DEF Reconciled, ProgressOf
        <3>. QED  BY <1>14, <1>17, <2>2, <3>1, <3>3 DEF Repairs, Saving, Finishing
    <2>3. CASE i.pc = "failing"
        <3>1. j.pc = "reporting"
            BY <1>12, <2>3 DEF Resume
        <3>2. /\ i.mode = "poll" /\ record' = None
              /\ checkpoint'.progress.checkpoint_status = "FAILED"
            BY <1>1, <1>2, <1>3, <1>5, <1>16, <1>18, <2>3 DEF Repairs, Saving
        <3>. QED  BY <1>12, <1>14, <1>17, <2>3, <3>1, <3>2 DEF Repairs, Saving, Finishing
    <2>4. CASE i.pc = "finishing"
        <3>1. j.pc = "done"
            BY <1>12, <2>4 DEF Resume
        <3>2. checkpoint'.lease = NoLease /\ checkpoint'.progress = checkpoint.progress
            BY <1>16, <2>4 DEF Finishing
        <3>3. Reconciled
            BY <1>3, <1>18, <2>4 DEF Repairs
        <3>4. Reconciled'
            BY <1>5, <3>2, <3>3 DEF Reconciled, ProgressOf
        <3>. QED  BY <1>14, <3>1, <3>2, <3>4 DEF Repairs, Saving, Owning, Working, Calling
    <2>5. CASE i.pc = "closing"
        <3>1. j.pc = "raised"
            BY <1>12, <2>5 DEF Resume
        <3>2. checkpoint'.progress = checkpoint.progress
            BY <1>16, <2>5 DEF Finishing
        <3>3. /\ i.mode = "poll" /\ record' = None
              /\ checkpoint'.progress.checkpoint_status = "FAILED"
            BY <1>3, <1>5, <1>18, <2>5, <3>2 DEF Repairs
        <3>. QED  BY <1>12, <1>14, <3>1, <3>3 DEF Repairs, Saving, Owning, Working, Calling
    <2>. QED  BY <1>1, <1>3, <2>1, <2>2, <2>3, <2>4, <2>5 DEF Calling
<1>. QED  BY <1>15, <1>19

\* What holds of the invocation nothing has disturbed goes on holding.
LEMMA SoloStep ==
    /\ BatchInv /\ StoreInv /\ AccountsInv /\ CallsInv /\ WaitingInv /\ SoloInv
    /\ [BatchNext]_batchVars
    => SoloInv'
<1> SUFFICES ASSUME BatchInv, StoreInv, AccountsInv, CallsInv, WaitingInv, SoloInv,
                    [BatchNext]_batchVars
             PROVE  SoloInv'
    OBVIOUS
<1>1. PICK w : w = solo
    OBVIOUS
<1>2. w \in Worker \cup {None}
    BY <1>1 DEF BatchInv, LedgersInv
<1>3. CASE solo' = None
    BY <1>3 DEF SoloInv
<1>4. w # None => w \in Worker /\ SoloState(w)
    BY <1>1, <1>2 DEF SoloInv, SoloState
<1>5. ASSUME solo' = solo, w # None => Alone(w)' /\ Repairs(w)'
      PROVE  SoloInv'
    BY <1>1, <1>5 DEF SoloInv
<1>6. ASSUME NEW u \in Worker, Start(u) PROVE SoloInv'
    <2>1. CASE Quiet
        <3>1. solo' = u
            BY <1>6, <2>1 DEF Start
        <3>. QED  BY <1>6, <2>1, <3>1, SoloStarts DEF SoloInv
    <2>2. CASE ~Quiet
        BY <1>3, <1>6, <2>2 DEF Start
    <2>. QED  BY <2>1, <2>2
<1>7. ASSUME NEW u \in Worker, Work(u) PROVE SoloInv'
    <2>1. solo' = solo /\ Active(u)
        BY <1>7 DEF Work, Read, Decide, Execute, Conclude, Report, Active, Working
    <2>2. w # None => u = w
        BY <1>4, <2>1 DEF SoloState, Alone
    <2>3. w # None => Alone(w)' /\ Repairs(w)'
        BY <1>4, <1>7, <2>2, SoloRead, SoloDecide, SoloExecute, SoloFinishes DEF Work
    <2>. QED  BY <1>5, <2>1, <2>3
<1>8. ASSUME NEW u \in Worker, Retry(u) \/ Stop(u) \/ CredentialsFail(u) \/ BusinessFails(u)
      PROVE  SoloInv'
    BY <1>3, <1>8 DEF Retry, Stop, CredentialsFail, BusinessFails, Fault
<1>9. ASSUME NEW m \in inflight, Deliver(m) PROVE SoloInv'
    <2>1. solo' = solo
        BY <1>9 DEF Deliver
    <2>. QED  BY <1>4, <1>5, <1>9, <2>1, SoloDelivers
<1>10. ASSUME NEW call \in late, LateEffect(call) PROVE SoloInv'
    BY <1>4, <1>5, <1>10 DEF LateEffect, SoloState, Alone
<1>11. CASE BatchTick
    BY <1>3, <1>11 DEF BatchTick
<1>12. CASE UNCHANGED batchVars
    <2>1. /\ solo' = solo /\ worker' = worker /\ inflight' = inflight /\ late' = late
          /\ record' = record /\ checkpoint' = checkpoint /\ clock' = clock
          /\ executions' = executions /\ receipts' = receipts
        BY <1>12 DEF batchVars, vars
    <2>2. w # None => Alone(w)'
        BY <1>4, <2>1 DEF SoloState, Alone, Active, Receipted
    <2>3. w # None => Repairs(w)'
        BY <1>4, <2>1 DEF SoloState, Repairs, Holds, LeaseIsLive, Admissible, Reconciled,
                          ProgressOf
    <2>. QED  BY <1>5, <2>1, <2>2, <2>3
<1>. QED  BY <1>6, <1>7, <1>8, <1>9, <1>10, <1>11, <1>12 DEF BatchNext

\* What was there at the start.
LEMMA RepairsStart == BatchInit => CallsInv /\ WaitingInv /\ SoloInv
<1> SUFFICES ASSUME BatchInit PROVE CallsInv /\ WaitingInv /\ SoloInv
    OBVIOUS
<1>1. CallsInv
    <2>1. OwnProgress(checkpoint.progress)
        BY DEF BatchInit, Init, InitialProgress, OwnProgress
    <2>2. \A w \in Worker : worker[w].request = None
        BY DEF BatchInit
    <2>3. DOMAIN receipts = {} /\ inflight = {}
        BY DEF BatchInit, Init
    <2>. QED  BY <2>1, <2>2, <2>3 DEF CallsInv
<1>2. WaitingInv /\ SoloInv
    BY DEF BatchInit, WaitingInv, SoloInv
<1>. QED  BY <1>1, <1>2

\* What holds whatever the invocations do, and of the one nothing disturbs.
LEMMA RepairsInvariance ==
    BatchSpec => [](BatchInv /\ StoreInv /\ AccountsInv /\ CallsInv /\ WaitingInv /\ SoloInv)
<1>1. BatchInit => CallsInv /\ WaitingInv /\ SoloInv
    BY RepairsStart
<1>2. BatchInv /\ AccountsInv /\ CallsInv /\ [BatchNext]_batchVars => CallsInv'
    BY CallsStep
<1>3. BatchInv /\ WaitingInv /\ [BatchNext]_batchVars => WaitingInv'
    BY WaitingStep
<1>4. /\ BatchInv /\ StoreInv /\ AccountsInv /\ CallsInv /\ WaitingInv /\ SoloInv
      /\ [BatchNext]_batchVars
      => SoloInv'
    BY SoloStep
<1>. QED  BY <1>1, <1>2, <1>3, <1>4, BatchInvariance, PromisesHold, AccountsInvariance, PTL
          DEF BatchSpec

\* Whatever was left behind, an invocation that nothing disturbs repairs it:
\* its claim is granted (service.py:173-186) and the server accepts every save
\* it makes (service.py:204-224), so it is never stopped, and when it returns
\* the row says what the business recorded and the lease is free
\* (runtime.py:45-77).  It raises only when it polls for what was never
\* submitted, and then that is on record.
THEOREM UndisturbedRunsRepair == BatchSpec => []UndisturbedRunRepairs
<1>1. BatchInv /\ SoloInv => UndisturbedRunRepairs
    <2> SUFFICES ASSUME BatchInv, SoloInv, solo # None
                 PROVE  /\ worker[solo].pc # "stopped"
                        /\ worker[solo].pc = "done" =>
                               /\ record # None
                               /\ checkpoint.progress = ProgressOf(record)
                               /\ checkpoint.lease = NoLease
                        /\ worker[solo].pc = "raised" =>
                               /\ worker[solo].mode = "poll"
                               /\ record = None
                               /\ checkpoint.progress.checkpoint_status = "FAILED"
        BY DEF UndisturbedRunRepairs
    <2>1. Repairs(solo)
        BY DEF SoloInv
    <2>. QED  BY <2>1 DEF Repairs, Reconciled
<1>. QED  BY <1>1, RepairsInvariance, PTL

-----------------------------------------------------------------------------
(* Invocations go on                                                       *)

\* The call an invocation waits for is under way.
MessageOf(w, i) == [worker |-> w, attempt |-> i.attempt, request |-> i.request]
CallIsUnderWay == \A w \in Worker : worker[w].pc \in Calling => MessageOf(w, worker[w]) \in inflight

\* What an invocation is to do next it can do: the server has its call, or the
\* business service has what the step needs.
CanGoOn(w) ==
    \/ /\ worker[w].pc \in Calling
       /\ \E m \in inflight : m.worker = w /\ Awaited(m)
    \/ /\ worker[w].pc \in Working
       /\ worker[w].pc = "executing" /\ StepOf(w) = "poll" => record # None

NobodyIsStuck == \A w \in Worker : Active(w) => CanGoOn(w)

\* How far an invocation is from its end, the repetition of a call included.
Ahead == [idle |-> 13, claiming |-> 12, reading |-> 11, reconciling |-> 10, deciding |-> 9,
          starting |-> 8, executing |-> 7, recording |-> 6, ending |-> 5, finishing |-> 4,
          failing |-> 3, reporting |-> 2, closing |-> 1, done |-> 0, raised |-> 0, stopped |-> 0]
Remaining(i) == 2 * Ahead[i.pc] + (IF i.attempt = 1 THEN 1 ELSE 0)

Onward == \A w \in Worker : \/ worker'[w] = worker[w]
                            \/ Remaining(worker'[w]) < Remaining(worker[w])
InvocationsGoForward == [][Onward]_batchVars

\* A step of w alone.
Moves(w, j) ==
    /\ worker' = [worker EXCEPT ![w] = j]
    /\ Remaining(j) < Remaining(worker[w])
    /\ j.pc \in Calling => MessageOf(w, j) \in inflight'
    /\ \A m \in inflight : m.worker # w => m \in inflight'

\* What comes later in a run is nearer to its end.
LEMMA Nearer ==
    ASSUME NEW i \in Invocation, NEW j, j.pc \in DOMAIN Ahead, Ahead[j.pc] < Ahead[i.pc]
    PROVE  Remaining(j) < Remaining(i)
<1>1. i.pc \in DOMAIN Ahead
    BY DEF Invocation, Ahead, Calling, Working, Ended
<1>2. Ahead[i.pc] \in Nat /\ Ahead[j.pc] \in Nat
    BY <1>1 DEF Ahead
<1>. QED  BY <1>2 DEF Remaining

\* Making a call from net, which has all messages of others.
LEMMA CallMoves ==
    ASSUME BatchInv, NEW w \in Worker, NEW net, NEW i \in Invocation, NEW pc \in Calling, NEW req,
           Ahead[pc] < Ahead[worker[w].pc], CallOver(net, w, i, pc, req),
           \A m \in inflight : m.worker # w => m \in net
    PROVE  \E j : Moves(w, j)
<1>1. PICK j : j = [i EXCEPT !.pc = pc, !.request = req, !.attempt = 1, !.calls = @ + 1]
    OBVIOUS
<1>2. j.pc = pc /\ j.request = req /\ j.attempt = 1
    BY <1>1 DEF Invocation
<1>3. /\ worker' = [worker EXCEPT ![w] = j]
      /\ inflight' = net \cup {[worker |-> w, attempt |-> 1, request |-> req]}
    BY <1>1 DEF CallOver
<1>4. Remaining(j) < Remaining(worker[w])
    BY <1>2, Taking, Nearer DEF Calling, Ahead
<1>. QED  BY <1>2, <1>3, <1>4 DEF Moves, MessageOf

\* Going to a point of the run where no call is made.
LEMMA GoingMoves ==
    ASSUME BatchInv, NEW w \in Worker, NEW j, j.pc \in Working \cup Ended,
           Ahead[j.pc] < Ahead[worker[w].pc], worker' = [worker EXCEPT ![w] = j],
           \A m \in inflight : m.worker # w => m \in inflight'
    PROVE  \E k : Moves(w, k)
<1>1. j.pc \notin Calling /\ j.pc \in DOMAIN Ahead
    BY DEF Working, Ended, Calling, Ahead
<1>2. Remaining(j) < Remaining(worker[w])
    BY <1>1, Taking, Nearer
<1>. QED  BY <1>1, <1>2 DEF Moves

\* The exception handler comes later than what it handles.
LEMMA RaiseMoves ==
    ASSUME BatchInv, NEW w \in Worker, NEW net, NEW text \in Failures \cup {"message"},
           RaiseOver(net, w, text), Ahead[worker[w].pc] > 3,
           \A m \in inflight : m.worker # w => m \in net
    PROVE  \E j : Moves(w, j)
<1>1. PICK i : i = [worker[w] EXCEPT !.error = text]
    OBVIOUS
<1>2. i \in Invocation
    BY <1>1, Taking DEF Invocation
<1>3. \E req : CallOver(net, w, i, "failing", req)
    BY <1>1 DEF RaiseOver
<1>4. "failing" \in Calling /\ Ahead["failing"] < Ahead[worker[w].pc]
    <2>1. Ahead["failing"] = 3 /\ worker[w].pc \in DOMAIN Ahead
        BY Taking DEF Ahead, Invocation, Calling, Working, Ended
    <2>2. Ahead[worker[w].pc] \in Nat
        BY <2>1 DEF Ahead
    <2>. QED  BY <2>1, <2>2 DEF Calling
<1>. QED  BY <1>2, <1>3, <1>4, CallMoves

\* At work, an invocation goes on to a later point of its run.
LEMMA WorkMoves ==
    ASSUME BatchInv, NEW w \in Worker, Start(w) \/ Work(w)
    PROVE  \E j : Moves(w, j)
<1>1. CASE Start(w)
    <2>1. PICK mode \in Modes :
              Call(w, [worker[w] EXCEPT !.mode = mode], "claiming", ClaimOf(w))
        BY <1>1 DEF Start
    <2>2. PICK i : i = [worker[w] EXCEPT !.mode = mode]
        OBVIOUS
    <2>3. i \in Invocation
        BY <2>2, Taking DEF Invocation
    <2>4. CallOver(inflight, w, i, "claiming", ClaimOf(w))
        BY <2>1, <2>2 DEF Call
    <2>5. "claiming" \in Calling /\ Ahead["claiming"] < Ahead[worker[w].pc]
        BY <1>1 DEF Start, Calling, Ahead
    <2>. QED  BY <2>3, <2>4, <2>5, CallMoves
<1>2. CASE Read(w)
    <2>1. worker[w].pc = "reading"
        BY <1>2 DEF Read
    <2>2. CASE record # None /\ ProgressOf(record) # worker[w].snapshot.progress
        <3>1. PICK i : i = [worker[w] EXCEPT !.successful = record.successful]
            OBVIOUS
        <3>2. i \in Invocation
            BY <2>2, <3>1, Taking DEF Invocation, BatchInv, LedgersInv, BusinessRecord
        <3>3. \E req : CallOver(inflight, w, i, "reconciling", req)
            BY <1>2, <2>2, <3>1 DEF Read, Call
        <3>4. "reconciling" \in Calling /\ Ahead["reconciling"] < Ahead[worker[w].pc]
            BY <2>1 DEF Calling, Ahead
        <3>. QED  BY <3>2, <3>3, <3>4, CallMoves
    <2>3. CASE RaiseOver(inflight, w, "message")
        BY <2>1, <2>3, RaiseMoves DEF Ahead
    <2>4. ASSUME NEW ok, worker' = [worker EXCEPT ![w].pc = "deciding", ![w].successful = ok],
                 inflight' = inflight
          PROVE  \E j : Moves(w, j)
        <3>1. PICK j : j = [worker[w] EXCEPT !.pc = "deciding", !.successful = ok]
            OBVIOUS
        <3>2. worker' = [worker EXCEPT ![w] = j]
            BY <2>4, <3>1
        <3>3. j.pc = "deciding"
            BY <3>1, Taking DEF Invocation
        <3>4. j.pc \in Working \cup Ended /\ Ahead[j.pc] < Ahead[worker[w].pc]
            BY <2>1, <3>3 DEF Working, Ahead
        <3>. QED  BY <2>4, <3>2, <3>4, GoingMoves
    <2>. QED  BY <1>2, <2>2, <2>3, <2>4 DEF Read, Raise
<1>3. CASE Decide(w)
    <2>1. worker[w].pc = "deciding"
        BY <1>3 DEF Decide
    <2>2. ASSUME NEW pc \in {"ending", "executing"}, Goto(w, pc) PROVE \E j : Moves(w, j)
        <3>1. PICK j : j = [worker[w] EXCEPT !.pc = pc]
            OBVIOUS
        <3>2. worker' = [worker EXCEPT ![w] = j] /\ inflight' = inflight
            BY <2>2, <3>1 DEF Goto
        <3>3. j.pc = pc
            BY <3>1, Taking DEF Invocation
        <3>4. j.pc \in Working \cup Ended /\ Ahead[j.pc] < Ahead[worker[w].pc]
            BY <2>1, <3>3 DEF Working, Ahead
        <3>. QED  BY <3>2, <3>4, GoingMoves
    <2>3. ASSUME NEW req, Call(w, worker[w], "starting", req) PROVE \E j : Moves(w, j)
        <3>1. "starting" \in Calling /\ Ahead["starting"] < Ahead[worker[w].pc]
            BY <2>1 DEF Calling, Ahead
        <3>2. CallOver(inflight, w, worker[w], "starting", req)
            BY <2>3 DEF Call
        <3>. QED  BY <3>1, <3>2, Taking, CallMoves
    <2>4. CASE Raise(w, "message")
        BY <2>1, <2>4, RaiseMoves DEF Raise, Ahead
    <2>. QED  BY <1>3, <2>2, <2>3, <2>4 DEF Decide
<1>4. CASE Execute(w)
    <2>1. record' \in BusinessRecord
        BY <1>4, PerformGrows DEF Execute, BatchInv, LedgersInv
    <2>2. PICK i : i = [worker[w] EXCEPT !.successful = record'.successful]
        OBVIOUS
    <2>3. i \in Invocation
        BY <2>1, <2>2, Taking DEF Invocation, BusinessRecord
    <2>4. \E req : CallOver(inflight, w, i, "recording", req)
        BY <1>4, <2>2 DEF Execute, Call
    <2>5. "recording" \in Calling /\ Ahead["recording"] < Ahead[worker[w].pc]
        BY <1>4 DEF Execute, Calling, Ahead
    <2>. QED  BY <2>3, <2>4, <2>5, CallMoves
<1>5. CASE Conclude(w) \/ Report(w)
    <2>1. PICK pc \in Calling : /\ Ahead[pc] < Ahead[worker[w].pc]
                                /\ \E req : CallOver(inflight, w, worker[w], pc, req)
        BY <1>5 DEF Conclude, Report, Call, Calling, Ahead
    <2>. QED  BY <2>1, Taking, CallMoves
<1>. QED  BY <1>1, <1>2, <1>3, <1>4, <1>5 DEF Work

\* A fault repeats a call once, or brings the end nearer.
LEMMA FaultMoves ==
    ASSUME BatchInv, NEW w \in Worker,
           Retry(w) \/ Stop(w) \/ CredentialsFail(w) \/ BusinessFails(w)
    PROVE  \E j : Moves(w, j)
<1>1. CASE Retry(w)
    <2>1. PICK j : j = [worker[w] EXCEPT !.attempt = 2]
        OBVIOUS
    <2>2. j.pc = worker[w].pc /\ j.attempt = 2 /\ j.request = worker[w].request
        BY <2>1, Taking DEF Invocation
    <2>3. Ahead[worker[w].pc] \in Nat
        BY <1>1 DEF Retry, Ahead, Calling
    <2>4. Remaining(j) < Remaining(worker[w])
        BY <1>1, <2>2, <2>3 DEF Retry, Remaining
    <2>5. worker' = [worker EXCEPT ![w] = j] /\ MessageOf(w, j) \in inflight'
        BY <1>1, <2>1, <2>2 DEF Retry, MessageOf
    <2>6. \A m \in inflight : m \in inflight'
        BY <1>1 DEF Retry
    <2>. QED  BY <2>4, <2>5, <2>6 DEF Moves
<1>2. ASSUME worker' = [worker EXCEPT ![w].pc = "stopped", ![w].request = None],
             worker[w].pc \in Calling \cup Working,
             \A m \in inflight : m.worker # w => m \in inflight'
      PROVE  \E j : Moves(w, j)
    <2>1. PICK j : j = [worker[w] EXCEPT !.pc = "stopped", !.request = None]
        OBVIOUS
    <2>2. worker' = [worker EXCEPT ![w] = j]
        BY <1>2, <2>1
    <2>3. j.pc = "stopped"
        BY <2>1, Taking DEF Invocation
    <2>4. j.pc \in Working \cup Ended /\ Ahead[j.pc] < Ahead[worker[w].pc]
        BY <1>2, <2>3 DEF Ended, Ahead, Calling, Working
    <2>. QED  BY <1>2, <2>2, <2>4, GoingMoves
<1>3. CASE Stop(w)
    BY <1>2, <1>3 DEF Stop, Active
<1>4. CASE CredentialsFail(w)
    <2>1. PICK net : net = inflight \ {MessageOf(w, worker[w])}
        OBVIOUS
    <2>2. \A m \in inflight : m.worker # w => m \in net
        BY <2>1 DEF MessageOf
    <2>3. CASE worker[w].pc \in {"claiming", "failing", "closing"}
        <3>1. /\ worker' = [worker EXCEPT ![w].pc = "stopped", ![w].request = None]
              /\ inflight' = net /\ worker[w].pc \in Calling
            BY <1>4, <2>1, <2>3 DEF CredentialsFail, MessageOf
        <3>. QED  BY <1>2, <2>2, <3>1
    <2>4. CASE worker[w].pc \notin {"claiming", "failing", "closing"}
        <3>1. RaiseOver(net, w, "message") /\ worker[w].pc \in Calling
            BY <1>4, <2>1, <2>4 DEF CredentialsFail, MessageOf
        <3>2. Ahead[worker[w].pc] > 3
            BY <2>4, <3>1 DEF Calling, Ahead
        <3>. QED  BY <2>2, <3>1, <3>2, RaiseMoves
    <2>. QED  BY <2>3, <2>4
<1>5. CASE BusinessFails(w)
    <2>1. PICK text \in Failures : RaiseOver(inflight, w, text)
        BY <1>5 DEF BusinessFails, Raise
    <2>2. Ahead[worker[w].pc] > 3
        BY <1>5 DEF BusinessFails, Ahead
    <2>. QED  BY <2>1, <2>2, RaiseMoves
<1>. QED  BY <1>1, <1>3, <1>4, <1>5

\* An answer brings its caller on, and takes nobody else's message away.
LEMMA DeliverMoves ==
    ASSUME BatchInv, NEW m \in inflight, Deliver(m)
    PROVE  \/ \E j : Moves(m.worker, j)
           \/ worker' = worker /\ inflight' = inflight \ {m} /\ ~Awaited(m)
<1> DEFINE i == worker[m.worker]
<1>1. /\ m.worker \in Worker /\ m.request # None /\ inflight' = inflight \ {m}
      /\ i \in Invocation /\ (i.pc \in Calling <=> i.request # None)
    <2>1. /\ m.worker \in Worker
          /\ KnownRequest(Len(executions), checkpoint.version, record, m.request)
        BY DEF BatchInv, MessagesInv, MessageInv, Message
    <2>. QED  BY <2>1, Taking, KnownIsRequest DEF Deliver, InvocationInv
<1>2. CASE ~Awaited(m)
    BY <1>1, <1>2 DEF Deliver
<1>3. CASE Awaited(m)
    <2>1. i.pc \in Calling
        BY <1>1, <1>3 DEF Awaited
    <2>2. PICK j : j = IF Reply(m.request) = None
                       THEN [i EXCEPT !.pc = "stopped", !.request = None]
                       ELSE [i EXCEPT !.pc = Resume[i.pc], !.request = None,
                                      !.snapshot = Reply(m.request)]
        OBVIOUS
    <2>3. worker' = [worker EXCEPT ![m.worker] = j]
        BY <1>3, <2>2 DEF Deliver
    <2>4. j.pc \in {"stopped", Resume[i.pc]}
        BY <1>1, <2>2 DEF Invocation
    <2>5. j.pc \in Working \cup Ended /\ Ahead[j.pc] < Ahead[i.pc]
        BY <2>1, <2>4 DEF Calling, Working, Ended, Resume, Ahead
    <2>6. \A a \in inflight : a.worker # m.worker => a \in inflight'
        BY <1>1
    <2>. QED  BY <1>1, <2>3, <2>5, <2>6, GoingMoves
<1>. QED  BY <1>2, <1>3

\* A step takes one invocation on and leaves the others waiting as they did.
LEMMA StepMoves ==
    ASSUME BatchInv, [BatchNext]_batchVars
    PROVE  \/ \E w \in Worker : \E j : Moves(w, j)
           \/ worker' = worker /\ \A m \in inflight : m \in inflight' \/ ~Awaited(m)
<1>1. ASSUME NEW m \in inflight, Deliver(m)
      PROVE  \/ \E w \in Worker : \E j : Moves(w, j)
             \/ worker' = worker /\ \A a \in inflight : a \in inflight' \/ ~Awaited(a)
    <2>1. m.worker \in Worker
        BY DEF BatchInv, MessagesInv, MessageInv, Message
    <2>. QED  BY <1>1, <2>1, DeliverMoves
<1>2. ASSUME NEW call \in late, LateEffect(call) PROVE worker' = worker /\ inflight' = inflight
    BY <1>2 DEF LateEffect
<1>3. CASE BatchTick \/ UNCHANGED batchVars
    BY <1>3 DEF BatchTick, batchVars
<1>4. ASSUME NEW w \in Worker, \/ Start(w) \/ Work(w) \/ Retry(w) \/ Stop(w)
                               \/ CredentialsFail(w) \/ BusinessFails(w)
      PROVE  \E j : Moves(w, j)
    BY <1>4, WorkMoves, FaultMoves
<1>. QED  BY <1>1, <1>2, <1>3, <1>4 DEF BatchNext

LEMMA CallStaysUnderWay ==
    BatchInv /\ CallIsUnderWay /\ [BatchNext]_batchVars => CallIsUnderWay'
<1> SUFFICES ASSUME BatchInv, CallIsUnderWay, [BatchNext]_batchVars,
                    NEW u \in Worker, worker'[u].pc \in Calling
             PROVE  MessageOf(u, worker'[u]) \in inflight'
    BY DEF CallIsUnderWay, MessageOf
<1>1. worker \in [Worker -> Invocation]
    BY DEF BatchInv, WorkersInv
<1>2. worker[u].pc \in Calling => MessageOf(u, worker[u]) \in inflight
    BY DEF CallIsUnderWay
<1>3. MessageOf(u, worker[u]).worker = u /\ Awaited(MessageOf(u, worker[u]))
    BY DEF MessageOf, Awaited
<1>4. ASSUME NEW w \in Worker, NEW j, Moves(w, j) PROVE MessageOf(u, worker'[u]) \in inflight'
    <2>1. CASE u = w
        BY <1>1, <1>4, <2>1 DEF Moves
    <2>2. CASE u # w
        BY <1>1, <1>2, <1>3, <1>4, <2>2 DEF Moves
    <2>. QED  BY <2>1, <2>2
<1>5. CASE worker' = worker /\ \A m \in inflight : m \in inflight' \/ ~Awaited(m)
    BY <1>2, <1>3, <1>5
<1>. QED  BY <1>4, <1>5, StepMoves

\* An invocation that has started can take its next step (runtime.py:43-87),
\* whatever others have left behind: a call it waits for has not been lost, and
\* a request that its checkpoint tells it to poll has been submitted.
THEOREM NoInvocationIsStuck == BatchSpec => []NobodyIsStuck
<1>1. BatchInit => CallIsUnderWay
    BY DEF BatchInit, CallIsUnderWay, Calling
<1>2. BatchInv /\ CallIsUnderWay => NobodyIsStuck
    <2> SUFFICES ASSUME BatchInv, CallIsUnderWay, NEW w \in Worker, Active(w)
                 PROVE  CanGoOn(w)
        BY DEF NobodyIsStuck
    <2>1. CASE worker[w].pc \in Calling
        BY <2>1 DEF CallIsUnderWay, CanGoOn, MessageOf, Awaited
    <2>2. CASE worker[w].pc \in Working
        <3>1. Supports(record, worker[w].snapshot.progress)
            BY <2>2, Taking DEF Owning, KnownSnapshot
        <3>2. StepOf(w) = "poll" => worker[w].snapshot.progress.external_reference # None
            BY DEF StepOf
        <3>. QED  BY <2>2, <3>1, <3>2 DEF CanGoOn, Supports
    <2>. QED  BY <2>1, <2>2 DEF Active
<1>. QED  BY <1>1, <1>2, CallStaysUnderWay, BatchInvariance, PTL DEF BatchSpec

\* An invocation is over after at most 26 steps of its own: no step leads back
\* (runtime.py:43-87), a call is repeated once (mcp.py:40-49), and
\* neither answers, faults nor other invocations send one back.
THEOREM InvocationsAreShort == BatchSpec => InvocationsGoForward
<1>1. BatchInv /\ [BatchNext]_batchVars => [Onward]_batchVars
    <2> SUFFICES ASSUME BatchInv, [BatchNext]_batchVars, NEW u \in Worker
                 PROVE  worker'[u] = worker[u] \/ Remaining(worker'[u]) < Remaining(worker[u])
        BY DEF Onward
    <2>1. worker \in [Worker -> Invocation]
        BY DEF BatchInv, WorkersInv
    <2>2. ASSUME NEW w \in Worker, NEW j, Moves(w, j)
          PROVE  worker'[u] = worker[u] \/ Remaining(worker'[u]) < Remaining(worker[u])
        BY <2>1, <2>2 DEF Moves
    <2>. QED  BY <2>2, StepMoves
<1>. QED  BY <1>1, BatchInvariance, PTL DEF BatchSpec, InvocationsGoForward

-----------------------------------------------------------------------------
(* What is assumed of the business service                                 *)

Promised == INSTANCE OperationRecord WITH Provided <- Agent = "ad-provisioning-agent"

\* The business calls that belong to the operation.
BusinessCalls == IF Agent = "ad-provisioning-agent" THEN {"submit", "poll"} ELSE {"validate"}
LateCallsAreOwn == late \subseteq BusinessCalls

LEMMA PerformIsPromised ==
    ASSUME NEW call \in BusinessCalls, Perform(call), WaitingInv,
           record \in BusinessRecord \cup {None}
    PROVE  [Promised!Next]_record
<1>1. CASE call = "submit"
    BY <1>1 DEF BusinessCalls, Perform, Submit, Promised!Next, Promised!Submit
<1>2. CASE call = "poll"
    <2>1. Agent = "ad-provisioning-agent" /\ Poll
        BY <1>2 DEF BusinessCalls, Perform
    <2>. QED  BY <2>1 DEF Poll, BusinessRecord, Promised!Next, Promised!Poll
<1>3. CASE call = "validate"
    BY <1>3 DEF BusinessCalls, Perform, Validate, Promised!Next, Promised!Validate
<1>. QED  BY <1>1, <1>2, <1>3 DEF BusinessCalls

\* Of a service that keeps its record as OperationRecord says, nothing is ruled
\* out: whatever it does is what one of the business calls may do
\* (mcp_gateway.py:69-107).
THEOREM PromisedIsPerformed == Promised!Next => \E call \in BusinessCalls : Perform(call)
<1>1. Promised!Submit => "submit" \in BusinessCalls /\ Perform("submit")
    BY DEF Promised!Submit, BusinessCalls, Perform, Submit
<1>2. Promised!Poll => "poll" \in BusinessCalls /\ Perform("poll")
    BY DEF Promised!Poll, BusinessCalls, Perform, Poll
<1>3. Promised!Validate => "validate" \in BusinessCalls /\ Perform("validate")
    BY DEF Promised!Validate, BusinessCalls, Perform, Validate
<1>. QED  BY <1>1, <1>2, <1>3 DEF Promised!Next

LEMMA BusinessStep ==
    BatchInv /\ WaitingInv /\ LateCallsAreOwn /\ [BatchNext]_batchVars =>
        LateCallsAreOwn' /\ [Promised!Next]_record
<1> SUFFICES ASSUME BatchInv, WaitingInv, LateCallsAreOwn, [BatchNext]_batchVars
             PROVE  LateCallsAreOwn' /\ [Promised!Next]_record
    OBVIOUS
<1>1. record \in BusinessRecord \cup {None}
    BY DEF BatchInv, LedgersInv
<1>2. CASE UNCHANGED <<record, late>>
    BY <1>2 DEF LateCallsAreOwn, BusinessCalls
<1>3. \A w : StepOf(w) \in BusinessCalls
    BY DEF StepOf, BusinessCalls
<1>4. ASSUME NEW w \in Worker, Perform(StepOf(w)), UNCHANGED late
      PROVE  LateCallsAreOwn' /\ [Promised!Next]_record
    <2>1. [Promised!Next]_record
        BY <1>1, <1>3, <1>4, PerformIsPromised
    <2>. QED  BY <1>4, <2>1 DEF LateCallsAreOwn, BusinessCalls
<1>5. ASSUME NEW w \in Worker, BusinessFails(w)
      PROVE  LateCallsAreOwn' /\ [Promised!Next]_record
    <2>1. ASSUME late' = late \cup {StepOf(w)}, UNCHANGED record
          PROVE  LateCallsAreOwn' /\ [Promised!Next]_record
        BY <1>3, <2>1 DEF LateCallsAreOwn, BusinessCalls
    <2>. QED  BY <1>2, <1>4, <1>5, <2>1 DEF BusinessFails
<1>6. ASSUME NEW w \in Worker, Execute(w) PROVE LateCallsAreOwn' /\ [Promised!Next]_record
    BY <1>4, <1>6 DEF Execute
<1>7. ASSUME NEW call \in late, LateEffect(call)
      PROVE  LateCallsAreOwn' /\ [Promised!Next]_record
    <2>1. call \in BusinessCalls /\ Perform(call) /\ late' \subseteq late
        BY <1>7 DEF LateEffect, LateCallsAreOwn
    <2>2. [Promised!Next]_record
        BY <1>1, <2>1, PerformIsPromised
    <2>. QED  BY <2>1, <2>2 DEF LateCallsAreOwn, BusinessCalls
<1>8. ASSUME NEW w \in Worker, \/ Start(w) \/ Read(w) \/ Decide(w) \/ Conclude(w) \/ Report(w)
                               \/ Retry(w) \/ Stop(w) \/ CredentialsFail(w)
      PROVE  LateCallsAreOwn' /\ [Promised!Next]_record
    BY <1>2, <1>8 DEF Start, Read, Decide, Conclude, Report, Retry, Stop, CredentialsFail
<1>9. ASSUME NEW m \in inflight, Deliver(m) PROVE LateCallsAreOwn' /\ [Promised!Next]_record
    BY <1>2, <1>9 DEF Deliver
<1>10. CASE BatchTick \/ UNCHANGED batchVars
    BY <1>2, <1>10 DEF BatchTick, batchVars
<1>. QED  BY <1>5, <1>6, <1>7, <1>8, <1>9, <1>10 DEF BatchNext, Work

\* And the record does nothing else, however many invocations call, and however
\* late a business call takes effect that has failed for its caller
\* (mcp.py:96-109).
THEOREM BusinessIsAsPromised == BatchSpec => Promised!Spec
<1>1. BatchInit => Promised!Init /\ WaitingInv /\ LateCallsAreOwn
    BY DEF BatchInit, Promised!Init, WaitingInv, LateCallsAreOwn
<1>. QED  BY <1>1, BusinessStep, WaitingStep, BatchInvariance, PTL DEF BatchSpec, Promised!Spec
=============================================================================
