---------------------------- MODULE SessionStore ----------------------------
(***************************************************************************)
(* The session half of PersistenceService                                  *)
(* (schwab_mcp_persistence/service.py) for the conversations of one        *)
(* application: a session row with its revision and ordered events, a      *)
(* tombstone per retired session id, and a receipt per mutation.  Each     *)
(* tool is one transaction under the lock of the application.              *)
(*                                                                         *)
(* An event is its identity and the identity claims it writes to the       *)
(* session's state.  What else events say, the other state they write and  *)
(* the state that sessions share are left out, as are the refusals of      *)
(* malformed and foreign arguments, which depend on no state, and the      *)
(* reading tools, which change none.                                       *)
(***************************************************************************)
EXTENDS Naturals, Sequences, FiniteSets

CONSTANTS
    Scope,          \* sessions: a user id and a session id each
    UserOf,         \* the user of each
    MutationId,     \* mutation_id values
    EventId,        \* ids of events
    Claims,         \* identity claims a user can have
    Deleted,        \* the reply to a deletion
    None            \* absent

VARIABLES
    sessions,       \* sessions, mcp_session_revision, events and mcp_session_event
    tombstones,     \* mcp_session_tombstone
    receipts        \* mcp_mutation_receipt

storeVars == <<sessions, tombstones, receipts>>

User == {UserOf[s] : s \in Scope}
ASSUME UserAssumption == DOMAIN UserOf = Scope

\* claims is None in an event that leaves the identity claims alone.
Event == [id : EventId, claims : Claims \cup {None}]
Row == [version : Nat \ {0}, claims : Claims, events : Seq(Event)]
ASSUME NoneAssumption == None \notin Claims \cup Row \cup {Deleted} /\ Deleted \notin Row

CreateRequest == [tool : {"create"}, mutation_id : MutationId, scope : Scope, claims : Claims]
AppendRequest == [tool : {"append"}, mutation_id : MutationId, scope : Scope,
                  expected_version : Nat \ {0}, event : Event]
DeleteRequest == [tool : {"delete"}, mutation_id : MutationId, scope : Scope]
Request == CreateRequest \cup AppendRequest \cup DeleteRequest

Key == User \X {"create", "append", "delete"} \X MutationId
Receipt == [request : Request, response : Row \cup {Deleted}]

-----------------------------------------------------------------------------
(* Deciding on a request                                                   *)

KeyOf(req) == <<UserOf[req.scope], req.tool, req.mutation_id>>

\* Mutant: receipts are written but not looked up.
NeverReceipted(req) == FALSE

Receipted(req) == KeyOf(req) \in DOMAIN receipts

\* Mutant: the tombstone is forgotten.
TakenWhileItExists(scope) == sessions[scope] # None

\* A session id that exists or was retired cannot be used again.
Taken(scope) == sessions[scope] # None \/ scope \in tombstones

\* Mutant: any writer is up to date.
AlwaysUpToDate(req) == TRUE

UpToDate(req) == sessions[req.scope].version = req.expected_version

EventIds(row) == {row.events[i].id : i \in DOMAIN row.events}

\* The answer to a request, in the order the server looks.
Verdict(req) ==
    IF Receipted(req)
    THEN IF receipts[KeyOf(req)].request = req THEN "REPLAYED" ELSE "IDEMPOTENCY_CONFLICT"
    ELSE IF req.tool = "create"
    THEN IF Taken(req.scope) THEN "ALREADY_EXISTS" ELSE "ACCEPTED"
    ELSE IF req.tool = "delete" THEN "ACCEPTED"
    ELSE IF sessions[req.scope] = None THEN "SESSION_NOT_FOUND"
    ELSE IF ~UpToDate(req) THEN "STALE_SESSION"
    ELSE IF req.event.id \in EventIds(sessions[req.scope]) THEN "EVENT_ALREADY_RECORDED"
    ELSE "ACCEPTED"

\* The receipt that commits with the mutation, beside those that are kept.
Acknowledge(req, response, kept) ==
    receipts' = [k \in kept \cup {KeyOf(req)} |->
                    IF k = KeyOf(req) THEN [request |-> req, response |-> response]
                                      ELSE receipts[k]]

-----------------------------------------------------------------------------
(* The tools that change a session                                         *)

CreateSession(req) ==
    /\ req.tool = "create" /\ Verdict(req) = "ACCEPTED"
    /\ sessions' = [sessions EXCEPT
                       ![req.scope] = [version |-> 1, claims |-> req.claims, events |-> <<>>]]
    /\ Acknowledge(req, sessions'[req.scope], DOMAIN receipts)
    /\ UNCHANGED tombstones

AppendEvent(req) ==
    /\ req.tool = "append" /\ Verdict(req) = "ACCEPTED"
    /\ LET row == sessions[req.scope]
       IN  sessions' = [sessions EXCEPT
               ![req.scope] = [version |-> row.version + 1,
                               claims |-> IF req.event.claims = None THEN row.claims
                                                                     ELSE req.event.claims,
                               events |-> Append(row.events, req.event)]]
    /\ Acknowledge(req, sessions'[req.scope], DOMAIN receipts)
    /\ UNCHANGED tombstones

\* Mutant: replies given before a deletion are kept.
KeptEver(scope) == DOMAIN receipts

\* The receipts that a deletion keeps: none of the session's, whose replies
\* hold what was said in it.
Kept(scope) == {k \in DOMAIN receipts : receipts[k].request.scope # scope}

DeleteSession(req) ==
    /\ req.tool = "delete" /\ Verdict(req) = "ACCEPTED"
    /\ sessions' = [sessions EXCEPT ![req.scope] = None]
    /\ tombstones' = tombstones \cup {req.scope}
    /\ Acknowledge(req, Deleted, Kept(req.scope))

-----------------------------------------------------------------------------

Init ==
    /\ sessions = [s \in Scope |-> None]
    /\ tombstones = {}
    /\ receipts = [k \in {} |-> None]

Next == \/ \E req \in CreateRequest : CreateSession(req)
        \/ \E req \in AppendRequest : AppendEvent(req)
        \/ \E req \in DeleteRequest : DeleteSession(req)

Spec == Init /\ [][Next]_storeVars

-----------------------------------------------------------------------------
(* Safety                                                                  *)

\* Every variable has the shape of its tables.
TypeOK ==
    /\ sessions \in [Scope -> Row \cup {None}]
    /\ tombstones \subseteq Scope
    /\ DOMAIN receipts \subseteq Key
    /\ \A k \in DOMAIN receipts : receipts[k] \in Receipt

\* Nothing of a deleted conversation is left to be read or replayed, whatever
\* calls were under way when it was deleted or arrive afterwards.
RetiredLeavesNothing ==
    \A s \in tombstones :
        /\ sessions[s] = None
        /\ \A k \in DOMAIN receipts :
               receipts[k].request.scope = s => receipts[k].response = Deleted

\* Every reply on record is a state the session was in: a replay shows a
\* prefix of the conversation with the revision that belongs to it.
RepliesArePrefixes ==
    \A k \in DOMAIN receipts :
        LET reply == receipts[k].response
            row == sessions[receipts[k].request.scope]
        IN  reply # Deleted => /\ row # None
                               /\ reply.version <= row.version
                               /\ reply.version = Len(reply.events) + 1
                               /\ reply.events = SubSeq(row.events, 1, Len(reply.events))

-----------------------------------------------------------------------------
(* The store implements the log of each conversation.                      *)

Log == INSTANCE ConversationLog WITH
    phase <- [s \in Scope |-> IF s \in tombstones THEN "retired"
                              ELSE IF sessions[s] = None THEN "new" ELSE "open"],
    log <- [s \in Scope |-> IF sessions[s] = None THEN <<>> ELSE sessions[s].events]

\* Sessions are opened once, grow by new events only, and stay deleted,
\* although deleting one forgets which calls were already answered.
ImplementsLog == Log!Spec
=============================================================================
