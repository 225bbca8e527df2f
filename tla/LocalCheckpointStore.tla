------------------------ MODULE LocalCheckpointStore ------------------------
(***************************************************************************)
(* The checkpoint store of the local demonstration                         *)
(* (examples/local-business/journey_poc/durable_checkpoints.py): the       *)
(* tables agent_execution, operation_checkpoint and checkpoint_event of    *)
(* one journey, which every batch job opens for itself.  There is no       *)
(* server, no advisory lock and no receipt: a claim reads the row and      *)
(* later compares and sets its version, a save and a finish are one        *)
(* guarded UPDATE, and each call reads its clock before its transaction.   *)
(*                                                                         *)
(* A client is one process that calls the store; it passes the snapshot    *)
(* that its last call returned.  Operations of other journeys share        *)
(* nothing with these rows.  The run that launched an execution and the    *)
(* texts (last_error, timestamps of the audit), which no statement reads,  *)
(* are left out, and checkpoint_id with them, which names one row for      *)
(* good.  Version 0 stands for no row.                                     *)
(***************************************************************************)
EXTENDS Naturals, Sequences

CONSTANTS
    Client,             \* the processes that use the store
    ExternalReference,  \* provider request ids
    ResultReference,    \* references to persisted business results
    None,               \* SQL NULL, Python's None
    LocksRows,          \* whether FOR UPDATE locks (PostgreSQL) or not (SQLite)
    LeaseSeconds,       \* lease_seconds, in ticks of the clock
    MaxClock            \* bound: the clock stops there

Operation == {"apm-validation", "ad-provisioning", "app-factory-validation"}
Stage == {"APM_VALIDATION", "AD_SUBMISSION", "AD_POLLING", "APP_FACTORY_VALIDATION"}
Status == {"PENDING", "RUNNING", "WAITING", "COMPLETED", "FAILED"}
ExecutionResult == {"RUNNING", "INTERRUPTED", "FAILED", "SUCCEEDED"}

\* OPERATIONS
InitialStage ==
    [o \in Operation |-> CASE o = "apm-validation" -> "APM_VALIDATION"
                           [] o = "ad-provisioning" -> "AD_SUBMISSION"
                           [] o = "app-factory-validation" -> "APP_FACTORY_VALIDATION"]

Progress == [current_stage : Stage,
             checkpoint_status : Status,
             external_reference : ExternalReference \cup {None},
             result_reference : ResultReference \cup {None}]

ASSUME LocalLeaseAssumption == LeaseSeconds \in Nat \ {0}
ASSUME LocalClockAssumption == MaxClock \in Nat
ASSUME LocksAssumption == LocksRows \in BOOLEAN

NoLease == 0    \* lease_expires_at IS NULL; a granted lease ends later than 0

VARIABLES
    clock,          \* the clock of the machine the jobs run on
    checkpoint,     \* the row of each operation
    executions,     \* the results of its executions, in the order of insertion
    audit,          \* its checkpoint events, in the order of insertion
    client          \* what each process is doing and holds in memory

storeVars == <<clock, checkpoint, executions, audit, client>>
tables == <<checkpoint, executions, audit>>

InitialProgress(o) ==
    [current_stage |-> InitialStage[o], checkpoint_status |-> "PENDING",
     external_reference |-> None, result_reference |-> None]

Row == [progress : Progress, execution : Nat, version : Nat, lease : Nat]
Event == [execution_id : Nat, previous : Status \cup {None}, new : Status, stage : Stage]

\* The row as a call returned it.
Snapshot == [operation : Operation, progress : Progress, execution : Nat, version : Nat]

\* What a claim read: the version, and whether the execution it found still ran.
Seen == [version : Nat, running : BOOLEAN]
Claim == [kind : {"claim"}, operation : Operation, now : Nat, seen : Seen \cup {None}]
Save == [kind : {"save"}, now : Nat, change : Progress]
Finish == [kind : {"finish"}, now : Nat, failed : BOOLEAN]

ASSUME NoneIsNoValue ==
    None \notin ExternalReference \cup ResultReference \cup Status \cup Snapshot \cup Seen
                \cup Claim \cup Save \cup Finish

Process == [call : Claim \cup Save \cup Finish \cup {None}, snapshot : Snapshot \cup {None}]

Calls(c, kind) == client[c].call # None /\ client[c].call.kind = kind

-----------------------------------------------------------------------------
(* A call begins by reading the clock                                      *)

Begins(c, call) ==
    /\ client[c].call = None
    /\ client' = [client EXCEPT ![c].call = call]
    /\ UNCHANGED <<clock, tables>>

BeginClaim(c, o) ==
    Begins(c, [kind |-> "claim", operation |-> o, now |-> clock, seen |-> None])

BeginSave(c, change) ==
    /\ client[c].snapshot # None
    /\ Begins(c, [kind |-> "save", now |-> clock, change |-> change])

BeginFinish(c, failed) ==
    /\ client[c].snapshot # None
    /\ Begins(c, [kind |-> "finish", now |-> clock, failed |-> failed])

\* It ends with what it returns, or raises and leaves the caller as it was.
Returns(c, snapshot) == client' = [client EXCEPT ![c] = [call |-> None, snapshot |-> snapshot]]
Raises(c) == client' = [client EXCEPT ![c].call = None]

\* A commit whose answer is lost (the connection breaks) raises as well.
Answers(c, heard, snapshot) == IF heard THEN Returns(c, snapshot) ELSE Raises(c)

-----------------------------------------------------------------------------
(* claim                                                                   *)

\* The row that FOR UPDATE keeps locked from the read of a claim to its end.
Locks(c, o) ==
    /\ LocksRows
    /\ Calls(c, "claim")
    /\ client[c].call.operation = o
    /\ client[c].call.seen # None
    /\ client[c].call.seen.version > 0

Unlocked(c, o) == \A d \in Client \ {c} : ~Locks(d, o)

\* The claim finds a lease that has not run out.
Busy(c) == checkpoint[client[c].call.operation].lease > client[c].call.now

\* Read the row, if there is one, and the execution it points at.
ClaimReads(c) ==
    LET call == client[c].call
        row == checkpoint[call.operation]
    IN  /\ Calls(c, "claim") /\ call.seen = None
        /\ Unlocked(c, call.operation)
        /\ IF Busy(c) THEN Raises(c)
           ELSE client' = [client EXCEPT ![c].call.seen =
                    [version |-> row.version,
                     running |-> row.lease # NoLease
                                 /\ executions[call.operation][row.execution] = "RUNNING"]]
        /\ UNCHANGED <<clock, tables>>

\* Mutant: the version is not compared.
StandsAlways(c) == checkpoint[client[c].call.operation].version > 0
                       => client[c].call.seen.version > 0

\* The insert finds no row yet, or the update finds the version that was read.
Stands(c) == client[c].call.seen.version = checkpoint[client[c].call.operation].version

\* An execution that was read as running is over now.
Interrupted(o, running) ==
    IF running THEN [executions[o] EXCEPT ![checkpoint[o].execution] = "INTERRUPTED"]
               ELSE executions[o]

\* Write everything, or nothing: a first insert that lost the race reads
\* again (IntegrityError), an update that lost it is refused.
ClaimWrites(c, heard) ==
    LET call == client[c].call
        o == call.operation
        next == Len(executions[o]) + 1
        row == [checkpoint[o] EXCEPT !.execution = next, !.version = @ + 1,
                                     !.lease = call.now + LeaseSeconds]
    IN  /\ Calls(c, "claim") /\ call.seen # None
        /\ IF Stands(c)
           THEN /\ checkpoint' = [checkpoint EXCEPT ![o] = row]
                /\ executions' = [executions EXCEPT ![o] =
                                     Append(Interrupted(o, call.seen.running), "RUNNING")]
                /\ audit' = IF call.seen.version > 0 THEN audit
                            ELSE [audit EXCEPT ![o] = Append(@,
                                     [execution_id |-> next, previous |-> None,
                                      new |-> "PENDING", stage |-> InitialStage[o]])]
                /\ Answers(c, heard, [operation |-> o, progress |-> row.progress,
                                      execution |-> next, version |-> row.version])
           ELSE /\ IF call.seen.version > 0 THEN Raises(c)
                   ELSE client' = [client EXCEPT ![c].call.now = clock,
                                                 ![c].call.seen = None]
                /\ UNCHANGED tables
        /\ UNCHANGED clock

-----------------------------------------------------------------------------
(* save and finish                                                         *)

\* Mutants: the guard without the lease, and without the version.
OwnsWithoutLease(c) ==
    LET mine == client[c].snapshot
        row == checkpoint[mine.operation]
    IN  row.execution = mine.execution /\ row.version = mine.version
OwnsAnyVersion(c) ==
    LET mine == client[c].snapshot
        row == checkpoint[mine.operation]
    IN  row.execution = mine.execution /\ row.lease > client[c].call.now

\* The WHERE clause of both.
Owns(c) ==
    LET mine == client[c].snapshot
        row == checkpoint[mine.operation]
    IN  /\ row.execution = mine.execution
        /\ row.version = mine.version
        /\ row.lease > client[c].call.now

\* The caller's references stay where the call brings none.
Kept(change, mine) ==
    [change EXCEPT !.external_reference = IF @ = None THEN mine.external_reference ELSE @,
                   !.result_reference = IF @ = None THEN mine.result_reference ELSE @]

SaveWrites(c, heard) ==
    LET mine == client[c].snapshot
        o == mine.operation
        saved == [mine EXCEPT !.progress = Kept(client[c].call.change, mine.progress),
                              !.version = @ + 1]
    IN  /\ Calls(c, "save")
        /\ Unlocked(c, o)
        /\ IF Owns(c)
           THEN /\ checkpoint' = [checkpoint EXCEPT ![o].progress = saved.progress,
                                                    ![o].version = saved.version]
                /\ audit' = [audit EXCEPT ![o] = Append(@,
                       [execution_id |-> mine.execution,
                        previous |-> mine.progress.checkpoint_status,
                        new |-> saved.progress.checkpoint_status,
                        stage |-> saved.progress.current_stage])]
                /\ Answers(c, heard, saved)
           ELSE Raises(c) /\ UNCHANGED <<checkpoint, audit>>
        /\ UNCHANGED <<clock, executions>>

\* The lease is given back; the version stays.
FinishWrites(c) ==
    LET mine == client[c].snapshot
        o == mine.operation
    IN  /\ Calls(c, "finish")
        /\ Unlocked(c, o)
        /\ IF Owns(c)
           THEN /\ checkpoint' = [checkpoint EXCEPT ![o].lease = NoLease]
                /\ executions' = [executions EXCEPT ![o][mine.execution] =
                       IF client[c].call.failed THEN "FAILED" ELSE "SUCCEEDED"]
           ELSE UNCHANGED <<checkpoint, executions>>
        /\ Raises(c)
        /\ UNCHANGED <<clock, audit>>

\* The database refuses the transaction, or the process dies in it: rollback.
CallFails(c) ==
    /\ client[c].call # None
    /\ Raises(c)
    /\ UNCHANGED <<clock, tables>>

StoreTick ==
    /\ clock < MaxClock
    /\ clock' = clock + 1
    /\ UNCHANGED <<tables, client>>

-----------------------------------------------------------------------------

StoreInit ==
    /\ clock = 0
    /\ checkpoint = [o \in Operation |-> [progress |-> InitialProgress(o), execution |-> 0,
                                          version |-> 0, lease |-> NoLease]]
    /\ executions = [o \in Operation |-> <<>>]
    /\ audit = [o \in Operation |-> <<>>]
    /\ client = [c \in Client |-> [call |-> None, snapshot |-> None]]

\* Processes that call what they like, with what they hold in memory.
StoreNext ==
    \/ \E c \in Client :
           \/ \E o \in Operation : BeginClaim(c, o)
           \/ \E change \in Progress : BeginSave(c, change)
           \/ \E failed \in BOOLEAN : BeginFinish(c, failed)
           \/ ClaimReads(c)
           \/ \E heard \in BOOLEAN : ClaimWrites(c, heard) \/ SaveWrites(c, heard)
           \/ FinishWrites(c)
           \/ CallFails(c)
    \/ StoreTick

StoreSpec == StoreInit /\ [][StoreNext]_storeVars

-----------------------------------------------------------------------------
(* Safety                                                                  *)

\* Every variable has the shape of its table or of a process's memory.
StoreTypeOK ==
    /\ clock \in Nat
    /\ checkpoint \in [Operation -> Row]
    /\ executions \in [Operation -> Seq(ExecutionResult)]
    /\ audit \in [Operation -> Seq(Event)]
    /\ client \in [Client -> Process]

\* The audit trail is a chain from creation to the row, although the status
\* an event starts from is what its writer remembers and not what the row held.
TrailLeadsToRow ==
    \A o \in Operation :
        /\ checkpoint[o].version = 0 <=> audit[o] = <<>>
        /\ \A i \in DOMAIN audit[o] :
               audit[o][i].previous = IF i = 1 THEN None ELSE audit[o][i - 1].new
        /\ audit[o] # <<>> =>
               /\ audit[o][Len(audit[o])].new = checkpoint[o].progress.checkpoint_status
               /\ audit[o][Len(audit[o])].stage = checkpoint[o].progress.current_stage

\* A lease that has not run out is nobody's but its execution's to end, even
\* if a claim read the clock and the row long before it writes.
LiveLeaseStands ==
    [][\A o \in Operation :
           /\ checkpoint[o].lease > clock
           /\ \/ checkpoint'[o].lease # checkpoint[o].lease
              \/ checkpoint'[o].execution # checkpoint[o].execution
           => /\ checkpoint'[o].lease = NoLease
              /\ checkpoint'[o].execution = checkpoint[o].execution]_storeVars

\* An execution whose outcome is recorded writes no more progress, although
\* finishing leaves the version, which its late saves carry, as it was.
SilentAfterOutcome ==
    [][\A o \in Operation : audit'[o] # audit[o] =>
           LET writer == audit'[o][Len(audit'[o])].execution_id
           IN  writer \in DOMAIN executions[o] => executions[o][writer] = "RUNNING"]_storeVars

\* The outcome that finishing records is final.
OutcomeStands ==
    [][\A o \in Operation : \A i \in DOMAIN executions[o] :
           executions[o][i] \in {"SUCCEEDED", "FAILED"} =>
               executions'[o][i] = executions[o][i]]_storeVars

-----------------------------------------------------------------------------
(* The store implements the fenced register.  It is not the leased one: a  *)
(* save whose clock was read in time may write after its lease has run out *)
(* and until the next claim.                                               *)

Fence == INSTANCE FencedRegister WITH
    Register <- Operation,
    Value <- Progress,
    InitialValue <- [o \in Operation |-> InitialProgress(o)],
    epoch <- [o \in Operation |-> Len(executions[o])],
    open <- [o \in Operation |-> checkpoint[o].lease # NoLease],
    value <- [o \in Operation |-> checkpoint[o].progress],
    writers <- [o \in Operation |-> [i \in DOMAIN audit[o] |-> audit[o][i].execution_id]]

\* Takeovers fence earlier executions off, and nobody writes after giving up.
ImplementsFence == Fence!Spec
=============================================================================
