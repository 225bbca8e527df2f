---------------------------- MODULE Transactions ----------------------------
(***************************************************************************)
(* How the persistence server runs its tools                               *)
(* (schwab_mcp_persistence/service.py, _transaction): several replicas     *)
(* over one PostgreSQL database at READ COMMITTED, where every statement   *)
(* sees what is committed when it runs.  A replica serves one call at a    *)
(* time; across replicas, advisory locks of the receipt and of the         *)
(* resource keep calls apart until they commit or roll back.               *)
(*                                                                         *)
(* The steps of a call are its statements; what it writes takes effect     *)
(* with its commit, and its answer is sent after that.  FOR UPDATE on an   *)
(* operation's row is left out: it waits for nobody who does not hold the  *)
(* resource.  user_states is read, merged and written as app_states is,    *)
(* under the same lock.  The numbers that the keys are hashed to are taken *)
(* to be distinct.                                                         *)
(***************************************************************************)
EXTENDS SerialServer, Sequences

CONSTANTS
    Replica,        \* processes of the server
    ReplicaOf,      \* the one that each call is sent to
    MaxCrashes      \* bound on crashes of replicas

ASSUME ReplicaAssumption == ReplicaOf \in [Call -> Replica] /\ MaxCrashes \in Nat

VARIABLES
    pc,         \* the next statement of each call
    held,       \* how many of its locks it holds
    memory,     \* what it has read
    crashes     \* how many replicas have crashed

transactionVars == <<serverVars, pc, held, memory, crashes>>

PC == {"locking", "looking", "timing", "reading", "sharing", "committing", "ended"}
Memory == [now : Nat, row : Row, state : Shared \cup {None}]
Blank == [now |-> 0, row |-> [version |-> 0, time |-> 0], state |-> None]

-----------------------------------------------------------------------------
(* The locks                                                               *)

ReplicaLock(c) == <<"replica", ReplicaOf[c]>>
ReceiptLock(r) == <<"receipt", KeyOf(r)>>

\* Mutant: a session's calls lock their session only.
OwnResource(r) == <<"resource", r.resource>>

\* An operation is locked by itself, a session with all of its application.
ResourceLock(r) ==
    <<"resource", IF r.resource \in Session THEN <<"app", AppOf[r.resource]>> ELSE r.resource>>

\* Mutant: the replica's lock is taken within the transaction.
ReplicaSecond(c) ==
    LET r == request[c]
    IN  IF r.mutation_id = None THEN <<ResourceLock(r), ReplicaLock(c)>>
        ELSE <<ReceiptLock(r), ReplicaLock(c), ResourceLock(r)>>

\* What a call locks, in this order; a call that reads has no receipt.
Locks(c) ==
    LET r == request[c]
    IN  IF r.mutation_id = None THEN <<ReplicaLock(c), ResourceLock(r)>>
        ELSE <<ReplicaLock(c), ReceiptLock(r), ResourceLock(r)>>

HeldBy(c) == {Locks(c)[i] : i \in 1 .. held[c]}

Acquire(c) ==
    LET next == held[c] + 1
    IN  /\ pc[c] = "locking"
        /\ \A d \in Call \ {c} : Locks(c)[next] \notin HeldBy(d)
        /\ held' = [held EXCEPT ![c] = next]
        /\ pc' = [pc EXCEPT ![c] = IF next = Len(Locks(c)) THEN "looking" ELSE @]
        /\ UNCHANGED <<serverVars, memory, crashes>>

-----------------------------------------------------------------------------
(* The statements of a call that holds its locks                           *)

\* A call ends with an answer, and its locks end with its transaction.
Over(c) ==
    /\ pc' = [pc EXCEPT ![c] = "ended"]
    /\ held' = [held EXCEPT ![c] = 0]
    /\ memory' = [memory EXCEPT ![c] = Blank]

Ends(c, told) ==
    /\ Answers(c, told)
    /\ Over(c)
    /\ UNCHANGED <<clock, request, returned, tables, crashes>>

Reads(c, field, found, next) ==
    /\ memory' = [memory EXCEPT ![c] = [@ EXCEPT ![field] = found]]
    /\ pc' = [pc EXCEPT ![c] = next]
    /\ UNCHANGED <<serverVars, held, crashes>>

Look(c) ==
    LET r == request[c]
    IN  /\ pc[c] = "looking"
        /\ IF Receipted(r) THEN Ends(c, Acknowledged(r))
           ELSE /\ pc' = [pc EXCEPT ![c] = "timing"]
                /\ UNCHANGED <<serverVars, held, memory, crashes>>

\* clock_timestamp(), which does not stand still in a transaction.
ReadClock(c) == pc[c] = "timing" /\ Reads(c, "now", clock, "reading")

ReadRow(c) ==
    LET r == request[c]
        row == rows[r.resource]
    IN  /\ pc[c] = "reading"
        /\ IF Busy(r, row, memory[c].now) THEN Ends(c, Error("OPERATION_BUSY"))
           ELSE IF Stale(r, row) THEN Ends(c, Error("STALE_SESSION"))
           ELSE Reads(c, "row", row,
                      IF r.resource \in Session THEN "sharing" ELSE "committing")

ReadShared(c) ==
    LET r == request[c]
        state == AppState(r)
    IN  /\ pc[c] = "sharing"
        /\ IF r.tool = "get" THEN Ends(c, Ok(Reply(memory[c].row, state, r)))
           ELSE Reads(c, "state", state, "committing")

\* A receipt that another call has written meanwhile breaks the primary key;
\* no caller is prepared for that error.
Commit(c) ==
    /\ pc[c] = "committing"
    /\ IF Receipted(request[c]) THEN Answers(c, Error("IntegrityError")) /\ UNCHANGED tables
       ELSE Accept(c, memory[c].now, memory[c].row, memory[c].state)
    /\ Over(c)
    /\ UNCHANGED <<clock, request, returned, crashes>>

\* The answer of a transaction that is over is sent to the caller.
Respond(c) == Return(c) /\ UNCHANGED <<pc, held, memory, crashes>>

Step(c) ==
    \/ Acquire(c) \/ Look(c) \/ ReadClock(c) \/ ReadRow(c) \/ ReadShared(c)
    \/ Commit(c) \/ Respond(c)

-----------------------------------------------------------------------------

\* A replica dies with the calls it has not responded to: their transactions
\* roll back, unless they were over and only the answer had to be sent.
Crash(r) ==
    LET lost == {c \in Call \ returned : ReplicaOf[c] = r}
    IN  /\ crashes < MaxCrashes
        /\ crashes' = crashes + 1
        /\ BreakOff(lost)
        /\ pc' = [c \in Call |-> IF c \in lost THEN "ended" ELSE pc[c]]
        /\ held' = [c \in Call |-> IF c \in lost THEN 0 ELSE held[c]]
        /\ memory' = [c \in Call |-> IF c \in lost THEN Blank ELSE memory[c]]

TransactionInit ==
    /\ Init
    /\ pc = [c \in Call |-> "locking"]
    /\ held = [c \in Call |-> 0]
    /\ memory = [c \in Call |-> Blank]
    /\ crashes = 0

TransactionNext ==
    \/ \E c \in Call : Step(c)
    \/ \E r \in Replica : Crash(r)
    \/ Tick /\ UNCHANGED <<pc, held, memory, crashes>>

TransactionSpec == TransactionInit /\ [][TransactionNext]_transactionVars

\* A call whose lock is free and whose database answers goes on.
TransactionFairness == \A c \in Call : WF_transactionVars(Step(c))

FairTransactionSpec == TransactionSpec /\ TransactionFairness

-----------------------------------------------------------------------------

\* The server serves its calls one after the other, although their
\* statements interleave and replicas die, before they commit or with the
\* answer still to be sent: no update of the state that sessions share is
\* lost, no mutation is applied twice or fails on its receipt, and the times
\* that leases are measured from follow the order of the writes.
ImplementsSerial == Spec

\* Nobody waits for ever: the locks of no calls close a circle.
EveryCallAnswered == \A c \in Call : <>(c \in returned)
=============================================================================
