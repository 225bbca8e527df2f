---------------------------- MODULE Conversation ----------------------------
(***************************************************************************)
(* Turns of conversations: ConversationRuntime.query_async                 *)
(* (cloud_journey_agents/sessions/conversation.py) and the session client  *)
(* (sessions/persistence.py) over an unreliable transport, against the     *)
(* session store (module SessionStore).  Turns of one conversation may     *)
(* overlap, and a conversation may be deleted meanwhile.                   *)
(*                                                                         *)
(* A turn loads or creates its session and brings the identity claims up   *)
(* to date; then the agent runner, which is not part of the repository,    *)
(* loads the session for itself and appends the user's message and the     *)
(* agent's answer.  A mutation is a message that the server handles at any *)
(* later moment, or never; it is repeated once.  A read has no effect and  *)
(* is one step.                                                            *)
(***************************************************************************)
EXTENDS SessionStore

CONSTANTS
    Turn,       \* queries, and deletions of a session
    Deletion,   \* the latter
    ScopeOf,    \* the conversation of each
    ClaimsOf,   \* the verified claims of its user at the time
    MaxFaults   \* bound on timeouts, crashes and failing agents

ASSUME TurnAssumption == /\ Deletion \subseteq Turn
                         /\ ScopeOf \in [Turn -> Scope]
                         /\ ClaimsOf \in [Turn -> Claims]
ASSUME IdAssumption == /\ Turn \X (1 .. 3) \subseteq MutationId
                       /\ Turn \X {"claims", "message", "answer"} \subseteq EventId
ASSUME RequestAssumption == None \notin Request
ASSUME FaultAssumption == MaxFaults \in Nat

VARIABLES
    turn,       \* the turns
    inflight,   \* mutations sent and not handled yet
    faults      \* how many faults have happened

conversationVars == <<storeVars, turn, inflight, faults>>

\* Where a turn is: waiting for one of its mutations, at work between two of
\* them, or ended: answered, refused by the server, or broken off.
Calling == {"creating", "refreshing", "asking", "answering", "deleting"}
Working == {"loaded", "thinking"}
Ended == {"done", "refused", "stopped"}

TurnState == [pc : {"idle"} \cup Calling \cup Working \cup Ended,
              session : Row \cup {None},
              request : Request \cup {None},
              attempt : 0 .. 2,
              calls : 0 .. 3]

Message == [turn : Turn, attempt : {1, 2}, request : Request]

Active(t) == turn[t].pc \in Calling \cup Working

-----------------------------------------------------------------------------
(* The session client                                                      *)

\* A mutation, with a fresh id, from the session the turn has in memory.
Send(t, session, pc, req) ==
    /\ turn' = [turn EXCEPT ![t] = [pc |-> pc, session |-> session, request |-> req,
                                    attempt |-> 1, calls |-> @.calls + 1]]
    /\ inflight' = inflight \cup {[turn |-> t, attempt |-> 1, request |-> req]}

\* Mutant: the id of the mutation before.
LastMutation(t) == <<t, turn[t].calls>>

NextMutation(t) == <<t, turn[t].calls + 1>>

CreateOf(t) == [tool |-> "create", mutation_id |-> NextMutation(t), scope |-> ScopeOf[t],
                claims |-> ClaimsOf[t]]

\* The revision it expects is the one of the session it has in memory.
AppendOf(t, session, kind) ==
    [tool |-> "append", mutation_id |-> NextMutation(t), scope |-> ScopeOf[t],
     expected_version |-> session.version,
     event |-> [id |-> <<t, kind>>,
                claims |-> IF kind = "claims" THEN ClaimsOf[t] ELSE None]]

DeleteOf(t) == [tool |-> "delete", mutation_id |-> NextMutation(t), scope |-> ScopeOf[t]]

Fails(t, pc) == turn' = [turn EXCEPT ![t].pc = pc, ![t].request = None]

-----------------------------------------------------------------------------
(* Turns                                                                   *)

\* query_async: the session of the conversation, with the claims of today.
Begin(t) ==
    /\ turn[t].pc = "idle" /\ t \notin Deletion
    /\ LET row == sessions[ScopeOf[t]]
       IN  IF row = None THEN Send(t, None, "creating", CreateOf(t))
           ELSE IF row.claims # ClaimsOf[t]
           THEN Send(t, row, "refreshing", AppendOf(t, row, "claims"))
           ELSE /\ turn' = [turn EXCEPT ![t].pc = "loaded", ![t].session = row]
                /\ UNCHANGED inflight
    /\ UNCHANGED <<storeVars, faults>>

\* The runner loads the session again; there may be none any more.
Ask(t) ==
    /\ turn[t].pc = "loaded"
    /\ LET row == sessions[ScopeOf[t]]
       IN  IF row = None THEN Fails(t, "stopped") /\ UNCHANGED inflight
           ELSE Send(t, row, "asking", AppendOf(t, row, "message"))
    /\ UNCHANGED <<storeVars, faults>>

\* Mutant: the answer is appended to the session as it is now.
AnswerReloaded(t) ==
    /\ turn[t].pc = "thinking"
    /\ sessions[ScopeOf[t]] # None
    /\ Send(t, sessions[ScopeOf[t]], "answering",
            AppendOf(t, sessions[ScopeOf[t]], "answer"))
    /\ UNCHANGED <<storeVars, faults>>

\* The agent answers the session as the runner has it in memory.
Answer(t) ==
    /\ turn[t].pc = "thinking"
    /\ Send(t, turn[t].session, "answering", AppendOf(t, turn[t].session, "answer"))
    /\ UNCHANGED <<storeVars, faults>>

BeginDeletion(t) ==
    /\ turn[t].pc = "idle" /\ t \in Deletion
    /\ Send(t, None, "deleting", DeleteOf(t))
    /\ UNCHANGED <<storeVars, faults>>

-----------------------------------------------------------------------------
(* The server, the network and the faults                                  *)

Handle(req) ==
    IF Verdict(req) = "ACCEPTED"
    THEN CreateSession(req) \/ AppendEvent(req) \/ DeleteSession(req)
    ELSE UNCHANGED storeVars

Reply(req) == CASE Verdict(req) = "REPLAYED" -> receipts[KeyOf(req)].response
                [] Verdict(req) = "ACCEPTED" -> receipts'[KeyOf(req)].response
                [] OTHER -> None

Awaited(m) == /\ turn[m.turn].request = m.request
              /\ turn[m.turn].attempt = m.attempt

\* Where a turn goes on once its mutation is acknowledged.
Resume == [creating |-> "loaded", refreshing |-> "loaded", asking |-> "thinking",
           answering |-> "done", deleting |-> "done"]

\* The server handles a mutation; its reply reaches the turn that waits for
\* it, and becomes the session that the turn has in memory.
Deliver(m) ==
    /\ Handle(m.request)
    /\ inflight' = inflight \ {m}
    /\ IF ~Awaited(m) THEN UNCHANGED turn
       ELSE IF Reply(m.request) = None THEN Fails(m.turn, "refused")
       ELSE turn' = [turn EXCEPT
                        ![m.turn].pc = Resume[turn[m.turn].pc],
                        ![m.turn].request = None,
                        ![m.turn].session = IF Reply(m.request) = Deleted THEN None
                                                                          ELSE Reply(m.request)]
    /\ UNCHANGED faults

Fault == faults < MaxFaults /\ faults' = faults + 1

\* Mutant: a mutation that times out is taken to have succeeded.
RetryNever(t) ==
    /\ turn[t].pc \in Calling /\ turn[t].attempt = 1
    /\ Fault
    /\ turn' = [turn EXCEPT ![t].pc = Resume[@], ![t].request = None]
    /\ UNCHANGED <<storeVars, inflight>>

\* The first attempt times out; whatever became of it, it is sent again.
Retry(t) ==
    /\ turn[t].pc \in Calling /\ turn[t].attempt = 1
    /\ Fault
    /\ turn' = [turn EXCEPT ![t].attempt = 2]
    /\ inflight' = inflight \cup {[turn |-> t, attempt |-> 2, request |-> turn[t].request]}
    /\ UNCHANGED storeVars

\* The process dies, the agent raises or says nothing, a read fails, or the
\* second attempt times out as well.
Stop(t) ==
    /\ Active(t)
    /\ Fault
    /\ Fails(t, "stopped")
    /\ UNCHANGED <<storeVars, inflight>>

-----------------------------------------------------------------------------

ConversationInit ==
    /\ Init
    /\ turn = [t \in Turn |-> [pc |-> "idle", session |-> None, request |-> None,
                               attempt |-> 0, calls |-> 0]]
    /\ inflight = {}
    /\ faults = 0

Work(t) == Begin(t) \/ Ask(t) \/ Answer(t) \/ BeginDeletion(t)

ConversationNext ==
    \/ \E t \in Turn : Work(t) \/ Retry(t) \/ Stop(t)
    \/ \E m \in inflight : Deliver(m)

ConversationSpec == ConversationInit /\ [][ConversationNext]_conversationVars

-----------------------------------------------------------------------------
(* Safety                                                                  *)

\* Every variable of the composition has the type its comment gives.
ConversationTypeOK ==
    /\ TypeOK
    /\ turn \in [Turn -> TurnState]
    /\ inflight \subseteq Message
    /\ faults \in 0 .. MaxFaults

EventsOf(s) == IF sessions[s] = None THEN <<>> ELSE sessions[s].events

\* What a turn recorded stays together: between a user's message and the
\* answer that another step of the turn appends to it, nobody else, whatever
\* turns of the same conversation are under way, records anything.
AnswersFollowMessages ==
    \A s \in Scope, t \in Turn : \A j \in DOMAIN EventsOf(s) :
        EventsOf(s)[j].id = <<t, "answer">> =>
            j > 1 /\ EventsOf(s)[j - 1].id = <<t, "message">>

\* A turn that got its answer has recorded it, in a conversation that is not
\* deleted, although replies are lost and calls repeated.
AnsweredIsRecorded ==
    \A t \in Turn \ Deletion : turn[t].pc = "done" /\ ScopeOf[t] \notin tombstones =>
        \E i \in DOMAIN EventsOf(ScopeOf[t]) :
            EventsOf(ScopeOf[t])[i].id = <<t, "answer">>

\* A refusal can be believed: unless the conversation was deleted, the call
\* that a turn was refused has not been applied by an earlier delivery of it.
RefusedIsNotApplied ==
    \A t \in Turn : turn[t].pc = "refused" /\ ScopeOf[t] \notin tombstones =>
        <<UserOf[ScopeOf[t]], <<t, turn[t].calls>>>> \notin
            {<<k[1], k[3]>> : k \in DOMAIN receipts}

\* An event is only appended to the conversation that its turn has in memory:
\* nobody answers what they have not seen.
AppendsToWhatWasSeen ==
    [][\A m \in inflight :
           LET s == m.request.scope
           IN  m \notin inflight' /\ Len(EventsOf(s)') > Len(EventsOf(s)) =>
                   EventsOf(s) = turn[m.turn].session.events]_conversationVars
=============================================================================
