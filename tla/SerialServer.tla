---------------------------- MODULE SerialServer ----------------------------
(***************************************************************************)
(* What the callers of the persistence server may rely on: each call of a  *)
(* tool is served in one step, in some order, at a time no earlier than    *)
(* that of the write it finds; a mutation that was acknowledged is         *)
(* answered from its receipt.  A call may break off before its answer      *)
(* reaches the caller, who cannot tell whether it was served.              *)
(*                                                                         *)
(* One tool stands for each way in which a handler uses the tables: claim  *)
(* creates an operation's row or takes it over by the clock, append        *)
(* advances a session's row by its version and merges state that all       *)
(* sessions of the application share, and get reads both.                  *)
(***************************************************************************)
EXTENDS Naturals

CONSTANTS
    Call,           \* deliveries of requests; a retry is a call of its own
    Operation,      \* durable operations: a journey and an operation key each
    Session,        \* sessions
    Application,    \* applications
    AppOf,          \* the application of each session
    MutationId,     \* mutation_id values
    StateKey,       \* keys of shared state
    Value,          \* its values
    Offered,        \* what the calls may ask for, a request each
    LeaseSeconds,   \* lease_seconds, in ticks of the clock
    MaxClock,       \* bound: the clock stops there
    None            \* absent

Resource == Operation \cup Session
Row == [version : Nat, time : Nat]      \* version 0 stands for no row
Shared == [StateKey -> Value \cup {None}]

ClaimRequest == [tool : {"claim"}, mutation_id : MutationId, resource : Operation]
AppendRequest == [tool : {"append"}, mutation_id : MutationId, resource : Session,
                  expected_version : Nat \ {0}, delta : Shared]
GetRequest == [tool : {"get"}, mutation_id : {None}, resource : Session]
Request == ClaimRequest \cup AppendRequest \cup GetRequest

Response == [row : Row, shared : Shared \cup {None}]
Refusal == {"OPERATION_BUSY", "STALE_SESSION", "IDEMPOTENCY_CONFLICT", "lost"}
Answer == [code : {"ok"}, response : Response] \cup [code : Refusal, response : {None}]

ASSUME ServerAssumption ==
    /\ AppOf \in [Session -> Application]
    /\ Operation \cap Session = {}
    /\ \A asked \in Offered : asked \in [Call -> Request]
    /\ LeaseSeconds \in Nat \ {0} /\ MaxClock \in Nat
ASSUME AbsentAssumption == None \notin MutationId \cup Value \cup Shared \cup Response \cup Answer

VARIABLES
    clock,      \* the database's clock
    request,    \* what each call asks for
    receipts,   \* mcp_mutation_receipt
    rows,       \* operation_checkpoint; sessions with mcp_session_revision
    shared,     \* app_states
    answer,     \* what each call is told, or None
    returned    \* the calls whose callers wait no longer

tables == <<receipts, rows, shared>>
serverVars == <<clock, request, tables, answer, returned>>

-----------------------------------------------------------------------------

\* The calls of one tool come from one workload for one user, which the key of
\* a receipt names as well.
KeyOf(r) == <<r.tool, r.mutation_id>>
Receipted(r) == KeyOf(r) \in DOMAIN receipts

Busy(r, row, now) == r.tool = "claim" /\ row.version > 0 /\ row.time + LeaseSeconds > now
Stale(r, row) == r.tool = "append" /\ row.version # r.expected_version

\* {**record["state"], **delta}
Merged(state, delta) == [k \in StateKey |-> IF delta[k] = None THEN state[k] ELSE delta[k]]

\* The row and the shared state that a mutation leaves, from what it found.
RowAfter(row, now) == [version |-> row.version + 1, time |-> now]
SharedAfter(r, state) == IF r.tool = "append" THEN Merged(state, r.delta) ELSE state

\* A reply shows the row and, for a session, the state it shares.
Reply(row, state, r) ==
    [row |-> row, shared |-> IF r.resource \in Session THEN state ELSE None]

Ok(response) == [code |-> "ok", response |-> response]
Error(code) == [code |-> code, response |-> None]
Answers(c, told) == answer' = [answer EXCEPT ![c] = told]

\* A request that was acknowledged is told the same again.
Acknowledged(r) ==
    IF receipts[KeyOf(r)].request = r THEN Ok(receipts[KeyOf(r)].response)
                                      ELSE Error("IDEMPOTENCY_CONFLICT")

\* The state of the application, where the request has one.
AppState(r) == IF r.resource \in Session THEN shared[AppOf[r.resource]] ELSE None

\* Everything a mutation writes, from what it found at its time.
Accept(c, now, row, state) ==
    LET r == request[c]
        after == RowAfter(row, now)
        told == Reply(after, SharedAfter(r, state), r)
    IN  /\ rows' = [rows EXCEPT ![r.resource] = after]
        /\ shared' = IF r.resource \in Session
                     THEN [shared EXCEPT ![AppOf[r.resource]] = SharedAfter(r, state)]
                     ELSE shared
        /\ receipts' = [k \in DOMAIN receipts \cup {KeyOf(r)} |->
                           IF k = KeyOf(r) THEN [request |-> r, response |-> told]
                                           ELSE receipts[k]]
        /\ Answers(c, Ok(told))

-----------------------------------------------------------------------------

Replay(c) ==
    /\ Receipted(request[c])
    /\ Answers(c, Acknowledged(request[c]))
    /\ UNCHANGED tables

Refuse(c, now) ==
    LET r == request[c]
    IN  /\ ~Receipted(r)
        /\ \/ Busy(r, rows[r.resource], now) /\ Answers(c, Error("OPERATION_BUSY"))
           \/ Stale(r, rows[r.resource]) /\ Answers(c, Error("STALE_SESSION"))
        /\ UNCHANGED tables

Serve(c, now) ==
    LET r == request[c]
        row == rows[r.resource]
    IN  /\ ~Receipted(r) /\ ~Busy(r, row, now) /\ ~Stale(r, row)
        /\ IF r.tool = "get"
           THEN Answers(c, Ok(Reply(row, AppState(r), r))) /\ UNCHANGED tables
           ELSE Accept(c, now, row, AppState(r))

\* The answer reaches the caller.
Return(c) ==
    /\ answer[c] # None /\ c \notin returned
    /\ returned' = returned \cup {c}
    /\ UNCHANGED <<clock, request, tables, answer>>

\* Callers learn that their calls broke off; what was written stays written.
BreakOff(lost) ==
    /\ answer' = [c \in Call |-> IF c \in lost THEN Error("lost") ELSE answer[c]]
    /\ returned' = returned \cup lost
    /\ UNCHANGED <<clock, request, tables>>

Tick ==
    /\ clock < MaxClock
    /\ clock' = clock + 1
    /\ UNCHANGED <<request, tables, answer, returned>>

Init ==
    /\ clock = 0
    /\ request \in Offered
    /\ receipts = [k \in {} |-> None]
    /\ rows = [x \in Resource |-> [version |-> IF x \in Session THEN 1 ELSE 0, time |-> 0]]
    /\ shared = [a \in Application |-> [k \in StateKey |-> None]]
    /\ answer = [c \in Call |-> None]
    /\ returned = {}

Next ==
    \/ \E c \in Call :
           /\ answer[c] = None
           /\ \/ Replay(c)
              \/ \E now \in rows[request[c].resource].time .. clock :
                     Refuse(c, now) \/ Serve(c, now)
           /\ UNCHANGED <<clock, request, returned>>
    \/ \E c \in Call : Return(c)
    \/ \E lost \in SUBSET (Call \ returned) : BreakOff(lost)
    \/ Tick

Spec == Init /\ [][Next]_serverVars
=============================================================================
