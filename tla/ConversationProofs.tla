------------------------- MODULE ConversationProofs -------------------------
(***************************************************************************)
(* Proofs about Conversation, for any number of turns, conversations,      *)
(* users and faults: turns use the session store as its tools allow,       *)
(* append only to what they have seen, keep message and answer together,   *)
(* and are told the truth about what became of their calls.                *)
(***************************************************************************)
EXTENDS Conversation, SessionStoreProofs

-----------------------------------------------------------------------------
(* What the store does between two looks at it                             *)

\* A session that somebody has in memory is a state that row has been in.
SeenIn(session, row) ==
    /\ row # None
    /\ session.version <= row.version
    /\ session.version = Len(session.events) + 1
    /\ session.events = SubSeq(row.events, 1, Len(session.events))

\* A call is settled when it cannot be applied any more.
Settled(req) == Receipted(req) \/ req.scope \in tombstones

\* A call that the store handles is a step of one of its tools, or none.
LEMMA HandleIsStep ==
    ASSUME NEW req \in Request, Handle(req)
    PROVE  [Next]_storeVars
<1>1. CASE Verdict(req) = "ACCEPTED"
    <2>1. CASE CreateSession(req)
        <3>1. req \in CreateRequest
            BY <2>1 DEF CreateSession, Request, AppendRequest, DeleteRequest
        <3>. QED  BY <2>1, <3>1 DEF Next
    <2>2. CASE AppendEvent(req)
        <3>1. req \in AppendRequest
            BY <2>2 DEF AppendEvent, Request, CreateRequest, DeleteRequest
        <3>. QED  BY <2>2, <3>1 DEF Next
    <2>3. CASE DeleteSession(req)
        <3>1. req \in DeleteRequest
            BY <2>3 DEF DeleteSession, Request, AppendRequest, CreateRequest
        <3>. QED  BY <2>3, <3>1 DEF Next
    <2>. QED  BY <1>1, <2>1, <2>2, <2>3 DEF Handle
<1>2. CASE Verdict(req) # "ACCEPTED"
    BY <1>2 DEF Handle
<1>. QED  BY <1>1, <1>2

\* Sessions only grow, until they are deleted.
LEMMA SessionsGrow ==
    ASSUME StoreInv, [Next]_storeVars, NEW s \in Scope, NEW session \in Row,
           SeenIn(session, sessions[s])
    PROVE  s \in tombstones' \/ SeenIn(session, sessions'[s])
<1>1. ASSUME NEW req \in CreateRequest, CreateSession(req)
      PROVE  sessions'[s] = sessions[s]
    <2>1. sessions[req.scope] = None
        BY <1>1 DEF CreateSession, CreateRequest, Verdict, Taken
    <2>. QED  BY <1>1, <2>1 DEF CreateSession, SeenIn, StoreInv, TypeOK
<1>2. ASSUME NEW req \in AppendRequest, AppendEvent(req)
      PROVE  SeenIn(session, sessions'[s])
    <2>1. CASE req.scope # s
        <3>1. sessions'[s] = sessions[s]
            BY <1>2, <2>1, Appended
        <3>. QED  BY <3>1
    <2>2. CASE req.scope = s
        <3>. DEFINE old == sessions[s]
                    row == sessions'[s]
        <3>1. /\ old \in Row /\ row # None
              /\ row.version = old.version + 1
              /\ row.events = Append(old.events, req.event)
              /\ req.event \in Event
            BY <1>2, <2>2, Appended
        <3>2. old.events \in Seq(Event) /\ old.version \in Nat
            BY <3>1 DEF Row
        <3>3. session.version \in Nat /\ Len(session.events) \in Nat
            BY DEF Row
        <3>4. old.version = Len(old.events) + 1
            BY <3>1, NoneAssumption DEF StoreInv, RevisionCounts
        <3>5. Len(session.events) \in 0 .. Len(old.events)
            BY <3>2, <3>3, <3>4 DEF SeenIn
        <3>6. SubSeq(row.events, 1, Len(session.events))
                  = SubSeq(old.events, 1, Len(session.events))
            BY <3>1, <3>2, <3>5, AppendKeepsPrefix
        <3>7. session.version <= row.version
            BY <3>1, <3>2, <3>3 DEF SeenIn
        <3>. QED  BY <3>1, <3>6, <3>7 DEF SeenIn
    <2>. QED  BY <2>1, <2>2
<1>3. ASSUME NEW req \in DeleteRequest, DeleteSession(req)
      PROVE  s \in tombstones' \/ sessions'[s] = sessions[s]
    BY <1>3 DEF DeleteSession, StoreInv, TypeOK
<1>4. CASE UNCHANGED storeVars
    BY <1>4 DEF storeVars
<1>. QED  BY <1>1, <1>2, <1>3, <1>4 DEF Next

-----------------------------------------------------------------------------
(* The inductive invariant                                                 *)

\* The calls of a turn carry ids of its own and concern its conversation.
CallOf(t, req) == /\ req \in Request
                  /\ req.scope = ScopeOf[t]
                  /\ \E i \in 1 .. 3 : req.mutation_id = <<t, i>>

\* The tool a turn waits for.
ToolOf == [creating |-> "create", refreshing |-> "append", asking |-> "append",
           answering |-> "append", deleting |-> "delete"]

\* How many calls a turn has made at most when it is at a place.
CallsAt == [idle |-> 0, creating |-> 1, refreshing |-> 1, deleting |-> 1, loaded |-> 1,
            asking |-> 2, thinking |-> 2, answering |-> 3,
            done |-> 3, refused |-> 3, stopped |-> 3]

\* Receipts belong to calls of turns; deletions alone are answered Deleted.
ReceiptsOfTurns ==
    \A k \in DOMAIN receipts :
        /\ k = KeyOf(receipts[k].request)
        /\ \E t \in Turn : CallOf(t, receipts[k].request)
        /\ receipts[k].response = Deleted <=> receipts[k].request.tool = "delete"

\* A turn that waits has a call out; it names the revision in memory.
Waits(t) ==
    /\ turn[t].calls <= CallsAt[turn[t].pc]
    /\ IF turn[t].pc \in Calling
       THEN /\ CallOf(t, turn[t].request)
            /\ turn[t].request.tool = ToolOf[turn[t].pc]
            /\ turn[t].attempt \in {1, 2}
       ELSE turn[t].request = None
    /\ turn[t].pc \in {"refreshing", "asking", "answering"} =>
           /\ turn[t].session # None
           /\ turn[t].request.expected_version = turn[t].session.version
    /\ turn[t].pc \in Working => turn[t].session # None

\* What a turn has in memory is a state that its conversation was in.
Knows(t) == \/ turn[t].session = None
            \/ ScopeOf[t] \in tombstones
            \/ SeenIn(turn[t].session, sessions[ScopeOf[t]])

\* A call under way is settled, or its turn has not heard of it yet and still
\* has the session in memory that the call was made from.
Pending(m) ==
    \/ Settled(m.request)
    \/ turn[m.turn].pc \in Calling /\ m.request = turn[m.turn].request
    \/ /\ turn[m.turn].pc \in {"refused", "stopped"}
       /\ m.request.tool = "append" =>
              /\ turn[m.turn].session # None
              /\ m.request.expected_version = turn[m.turn].session.version

TurnsInv == /\ turn \in [Turn -> TurnState]
            /\ faults \in 0 .. MaxFaults
            /\ \A t \in Turn : Waits(t) /\ Knows(t)

InflightInv == \A m \in inflight : m \in Message /\ CallOf(m.turn, m.request) /\ Pending(m)

ConversationInv == StoreInv /\ ReceiptsOfTurns /\ TurnsInv /\ InflightInv

-----------------------------------------------------------------------------
(* Settled calls                                                           *)

\* Two calls with one key are of one conversation.
LEMMA SameKeySameScope ==
    ASSUME NEW t \in Turn, NEW req1, CallOf(t, req1),
           NEW u \in Turn, NEW req2, CallOf(u, req2),
           KeyOf(req1) = KeyOf(req2)
    PROVE  req1.scope = req2.scope
BY DEF CallOf, KeyOf

\* What is settled stays settled: a receipt only goes with its session.
LEMMA SettledStays ==
    ASSUME StoreInv, ReceiptsOfTurns, [Next]_storeVars,
           NEW t \in Turn, NEW req, CallOf(t, req), Settled(req)
    PROVE  Settled(req)'
<1>1. ASSUME NEW r \in CreateRequest, CreateSession(r) PROVE Settled(req)'
    BY <1>1 DEF CreateSession, Acknowledge, Settled, Receipted
<1>2. ASSUME NEW r \in AppendRequest, AppendEvent(r) PROVE Settled(req)'
    BY <1>2 DEF AppendEvent, Acknowledge, Settled, Receipted
<1>3. ASSUME NEW r \in DeleteRequest, DeleteSession(r) PROVE Settled(req)'
    <2>1. /\ tombstones' = tombstones \cup {r.scope}
          /\ DOMAIN receipts' = Kept(r.scope) \cup {KeyOf(r)}
        BY <1>3 DEF DeleteSession, Acknowledge
    <2>2. CASE req.scope \in tombstones \cup {r.scope}
        BY <2>1, <2>2 DEF Settled
    <2>3. CASE req.scope \notin tombstones \cup {r.scope}
        <3>1. KeyOf(req) \in DOMAIN receipts
            BY <2>3 DEF Settled, Receipted
        <3>2. PICK u \in Turn : CallOf(u, receipts[KeyOf(req)].request)
            BY <3>1 DEF ReceiptsOfTurns
        <3>3. KeyOf(receipts[KeyOf(req)].request) = KeyOf(req)
            BY <3>1 DEF ReceiptsOfTurns
        <3>4. receipts[KeyOf(req)].request.scope = req.scope
            BY <3>2, <3>3, SameKeySameScope
        <3>. QED  BY <2>1, <2>3, <3>1, <3>4 DEF Kept, Settled, Receipted
    <2>. QED  BY <2>2, <2>3
<1>4. CASE UNCHANGED storeVars
    BY <1>4 DEF storeVars, Settled, Receipted
<1>. QED  BY <1>1, <1>2, <1>3, <1>4 DEF Next

\* A call that gets a reply has its receipt, and the receipt has the reply.
LEMMA ReplyIsReceipt ==
    ASSUME StoreInv, ReceiptsOfTurns, NEW req \in Request, Handle(req), Reply(req) # None
    PROVE  /\ KeyOf(req) \in DOMAIN receipts'
           /\ receipts'[KeyOf(req)] = [request |-> req, response |-> Reply(req)]
<1>1. CASE Verdict(req) = "ACCEPTED"
    <2>1. PICK response, kept : Acknowledge(req, response, kept)
        BY <1>1 DEF Handle, CreateSession, AppendEvent, DeleteSession
    <2>2. Reply(req) = receipts'[KeyOf(req)].response
        BY <1>1 DEF Reply
    <2>. QED  BY <2>1, <2>2 DEF Acknowledge
<1>2. CASE Verdict(req) # "ACCEPTED"
    <2>1. Verdict(req) = "REPLAYED" /\ receipts' = receipts
        BY <1>2 DEF Reply, Handle, storeVars
    <2>2. KeyOf(req) \in DOMAIN receipts /\ receipts[KeyOf(req)].request = req
        BY <2>1 DEF Verdict, Receipted
    <2>3. receipts[KeyOf(req)] \in Receipt /\ Reply(req) = receipts[KeyOf(req)].response
        BY <2>1, <2>2 DEF Reply, StoreInv, TypeOK
    <2>. QED  BY <2>1, <2>2, <2>3 DEF Receipt
<1>. QED  BY <1>1, <1>2

\* The receipts stay those of turns.
LEMMA ReceiptsStay ==
    ASSUME StoreInv, ReceiptsOfTurns, NEW t \in Turn, NEW req, CallOf(t, req), Handle(req)
    PROVE  ReceiptsOfTurns'
<1>1. CASE Verdict(req) = "ACCEPTED"
    <2>1. PICK response, kept :
              /\ kept \subseteq DOMAIN receipts
              /\ Acknowledge(req, response, kept)
              /\ response = Deleted <=> req.tool = "delete"
        <3>1. CASE CreateSession(req)
            <4>1. req \in CreateRequest
                BY <3>1 DEF CreateSession, CallOf, Request, AppendRequest, DeleteRequest
            <4>2. sessions'[req.scope] = [version |-> 1, claims |-> req.claims, events |-> <<>>]
                BY <3>1, <4>1 DEF CreateSession, CreateRequest, StoreInv, TypeOK
            <4>3. [version |-> 1, claims |-> req.claims, events |-> <<>>] \in Row
                BY <4>1 DEF CreateRequest, Row
            <4>4. sessions'[req.scope] # Deleted
                BY <4>2, <4>3, NoneAssumption
            <4>. QED  BY <3>1, <4>4 DEF CreateSession
        <3>2. CASE AppendEvent(req)
            <4>1. req \in AppendRequest
                BY <3>2 DEF AppendEvent, CallOf, Request, CreateRequest, DeleteRequest
            <4>2. sessions'[req.scope] # Deleted
                BY <3>2, <4>1, Appended, NoneAssumption
            <4>. QED  BY <3>2, <4>2 DEF AppendEvent
        <3>3. CASE DeleteSession(req)
            BY <3>3 DEF DeleteSession, Kept
        <3>. QED  BY <1>1, <3>1, <3>2, <3>3 DEF Handle
    <2>. QED  BY <2>1 DEF Acknowledge, ReceiptsOfTurns
<1>2. CASE Verdict(req) # "ACCEPTED"
    BY <1>2 DEF Handle, storeVars, ReceiptsOfTurns
<1>. QED  BY <1>1, <1>2

-----------------------------------------------------------------------------
(* Steps of turns                                                          *)

\* The invariant of the store and of the receipts depends on nothing else.
LEMMA StoreUnchanged ==
    ASSUME ConversationInv, UNCHANGED storeVars
    PROVE  StoreInv' /\ ReceiptsOfTurns' /\ \A req : Settled(req) => Settled(req)'
BY NextInv DEF ConversationInv, storeVars, ReceiptsOfTurns, Settled, Receipted

\* A turn at work has heard of all its calls.
LEMMA AtWorkSettled ==
    ASSUME ConversationInv, NEW m \in inflight, turn[m.turn].pc \in {"idle"} \cup Working
    PROVE  Settled(m.request)
BY DEF ConversationInv, InflightInv, Pending, Calling, Working

\* Sending a call from what the turn has in memory keeps the invariant.
LEMMA SendKeepsInv ==
    ASSUME ConversationInv, UNCHANGED <<storeVars, faults>>,
           NEW t \in Turn, turn[t].pc \in {"idle"} \cup Working,
           NEW pc \in Calling, NEW req, CallOf(t, req), req.tool = ToolOf[pc],
           turn[t].calls + 1 <= CallsAt[pc],
           NEW session \in Row \cup {None},
           pc \in {"refreshing", "asking", "answering"} =>
               session # None /\ req.expected_version = session.version,
           \/ session = None
           \/ ScopeOf[t] \in tombstones
           \/ SeenIn(session, sessions[ScopeOf[t]]),
           Send(t, session, pc, req)
    PROVE  ConversationInv'
<1>1. StoreInv' /\ ReceiptsOfTurns' /\ \A r : Settled(r) => Settled(r)'
    BY StoreUnchanged
<1>. DEFINE now == [pc |-> pc, session |-> session, request |-> req,
                    attempt |-> 1, calls |-> turn[t].calls + 1]
<1>2. turn \in [Turn -> TurnState] /\ turn' = [turn EXCEPT ![t] = now]
    BY DEF Send, ConversationInv, TurnsInv
<1>3. turn[t].calls + 1 \in 0 .. 3
    BY <1>2 DEF TurnState, CallsAt, Calling
<1>4. now \in TurnState
    BY <1>3 DEF TurnState, CallOf
<1>5. turn' \in [Turn -> TurnState] /\ turn'[t] = now
    BY <1>2, <1>4
<1>6. \A u \in Turn \ {t} : turn'[u] = turn[u]
    BY <1>2
<1>7. storeVars' = storeVars /\ faults' = faults
    OBVIOUS
<1>8. ASSUME NEW u \in Turn PROVE Waits(u)' /\ Knows(u)'
    <2>1. CASE u = t
        <3>1. Waits(u)'
            BY <2>1, <1>5 DEF Waits, Calling, Working, CallOf
        <3>2. Knows(u)'
            BY <2>1, <1>5, <1>7 DEF Knows, storeVars, SeenIn
        <3>. QED  BY <3>1, <3>2
    <2>2. CASE u # t
        BY <2>2, <1>6, <1>7 DEF ConversationInv, TurnsInv, Waits, Knows, storeVars, SeenIn, CallOf
    <2>. QED  BY <2>1, <2>2
<1>9. TurnsInv'
    BY <1>5, <1>7, <1>8 DEF TurnsInv, ConversationInv
<1>10. ASSUME NEW m \in inflight'
       PROVE  m \in Message /\ CallOf(m.turn, m.request) /\ Pending(m)'
    <2>1. CASE m \in inflight
        <3>1. m \in Message /\ CallOf(m.turn, m.request) /\ Pending(m)
            BY <2>1 DEF ConversationInv, InflightInv
        <3>2. CASE m.turn = t
            BY <2>1, <3>1, <3>2, <1>1, AtWorkSettled DEF Pending
        <3>3. CASE m.turn # t
            <4>1. turn'[m.turn] = turn[m.turn]
                BY <3>1, <3>3, <1>6 DEF Message
            <4>. QED  BY <3>1, <4>1, <1>1 DEF Pending
        <3>. QED  BY <3>1, <3>2, <3>3
    <2>2. CASE m = [turn |-> t, attempt |-> 1, request |-> req]
        <3>1. m \in Message
            BY <2>2 DEF Message, CallOf
        <3>2. turn'[m.turn].pc \in Calling /\ m.request = turn'[m.turn].request
            BY <2>2, <1>5
        <3>. QED  BY <2>2, <3>1, <3>2 DEF Pending
    <2>. QED  BY <2>1, <2>2 DEF Send
<1>. QED  BY <1>1, <1>9, <1>10 DEF ConversationInv, InflightInv, CallOf, Message

\* A turn that breaks off keeps what it has in memory.
LEMMA FailKeepsInv ==
    ASSUME ConversationInv, UNCHANGED storeVars, faults' \in 0 .. MaxFaults, inflight' = inflight,
           NEW t \in Turn, Active(t), Fails(t, "stopped")
    PROVE  ConversationInv'
<1>1. StoreInv' /\ ReceiptsOfTurns' /\ \A r : Settled(r) => Settled(r)'
    BY StoreUnchanged
<1>2. turn \in [Turn -> TurnState] /\ \A u \in Turn : Waits(u) /\ Knows(u)
    BY DEF ConversationInv, TurnsInv
<1>3. /\ turn' \in [Turn -> TurnState]
      /\ turn'[t].pc = "stopped" /\ turn'[t].request = None
      /\ turn'[t].session = turn[t].session /\ turn'[t].calls = turn[t].calls
      /\ \A u \in Turn \ {t} : turn'[u] = turn[u]
    BY <1>2 DEF Fails, TurnState, Ended
<1>4. ASSUME NEW u \in Turn PROVE Waits(u)' /\ Knows(u)'
    <2>1. CASE u = t
        <3>1. turn'[t].calls <= 3
            BY <1>3 DEF TurnState
        <3>2. Waits(u)'
            BY <2>1, <3>1, <1>3 DEF Waits, Calling, Working, CallsAt
        <3>3. Knows(u)'
            BY <2>1, <1>2, <1>3 DEF Knows, storeVars, SeenIn
        <3>. QED  BY <3>2, <3>3
    <2>2. CASE u # t
        BY <2>2, <1>2, <1>3 DEF Waits, Knows, storeVars, SeenIn, CallOf
    <2>. QED  BY <2>1, <2>2
<1>5. ASSUME NEW m \in inflight PROVE Pending(m)'
    <2>1. m \in Message /\ Pending(m) /\ CallOf(m.turn, m.request)
        BY DEF ConversationInv, InflightInv
    <2>2. CASE m.turn # t
        BY <2>1, <2>2, <1>1, <1>3 DEF Pending, Message
    <2>3. CASE m.turn = t /\ turn[t].pc \in Calling /\ m.request = turn[t].request
        <3>1. m.request.tool = "append" => turn[t].pc \in {"refreshing", "asking", "answering"}
            BY <2>3, <1>2 DEF Waits, ToolOf, Calling
        <3>. QED  BY <2>3, <3>1, <1>2, <1>3 DEF Waits, Pending
    <2>4. CASE Settled(m.request)
        BY <2>4, <1>1 DEF Pending
    <2>. QED  BY <2>1, <2>2, <2>3, <2>4 DEF Pending, Active, Calling, Working
<1>. QED  BY <1>1, <1>3, <1>4, <1>5 DEF ConversationInv, TurnsInv, InflightInv, CallOf, Message

\* Repeating a call adds nothing new to what is under way.
LEMMA RetryKeepsInv ==
    ASSUME ConversationInv, NEW t \in Turn, Retry(t)
    PROVE  ConversationInv'
<1>1. StoreInv' /\ ReceiptsOfTurns' /\ \A r : Settled(r) => Settled(r)'
    BY StoreUnchanged DEF Retry
<1>2. turn \in [Turn -> TurnState] /\ \A u \in Turn : Waits(u) /\ Knows(u)
    BY DEF ConversationInv, TurnsInv
<1>3. /\ turn' \in [Turn -> TurnState]
      /\ turn'[t].pc = turn[t].pc /\ turn'[t].request = turn[t].request
      /\ turn'[t].session = turn[t].session /\ turn'[t].calls = turn[t].calls
      /\ turn'[t].attempt = 2
      /\ \A u \in Turn \ {t} : turn'[u] = turn[u]
    BY <1>2 DEF Retry, TurnState
<1>4. storeVars' = storeVars /\ faults' \in 0 .. MaxFaults
    BY FaultAssumption DEF Retry, Fault, ConversationInv, TurnsInv
<1>5. ASSUME NEW u \in Turn PROVE Waits(u)' /\ Knows(u)'
    <2>1. CASE u = t
        BY <2>1, <1>2, <1>3, <1>4 DEF Waits, Knows, storeVars, SeenIn, CallOf
    <2>2. CASE u # t
        BY <2>2, <1>2, <1>3, <1>4 DEF Waits, Knows, storeVars, SeenIn, CallOf
    <2>. QED  BY <2>1, <2>2
<1>6. ASSUME NEW m \in inflight'
      PROVE  m \in Message /\ CallOf(m.turn, m.request) /\ Pending(m)'
    <2>1. CASE m \in inflight
        <3>1. m \in Message /\ Pending(m) /\ CallOf(m.turn, m.request)
            BY <2>1 DEF ConversationInv, InflightInv
        <3>2. m.turn \in Turn
            BY <3>1 DEF Message
        <3>3. /\ turn'[m.turn].pc = turn[m.turn].pc
              /\ turn'[m.turn].request = turn[m.turn].request
              /\ turn'[m.turn].session = turn[m.turn].session
            BY <3>2, <1>3
        <3>. QED  BY <3>1, <3>3, <1>1 DEF Pending
    <2>2. CASE m = [turn |-> t, attempt |-> 2, request |-> turn[t].request]
        <3>1. turn[t].pc \in Calling /\ CallOf(t, turn[t].request)
            BY <1>2 DEF Retry, Waits
        <3>2. m \in Message
            BY <2>2, <3>1 DEF Message, CallOf
        <3>. QED  BY <2>2, <3>1, <3>2, <1>3 DEF Pending
    <2>. QED  BY <2>1, <2>2 DEF Retry
<1>. QED  BY <1>1, <1>3, <1>4, <1>5, <1>6
          DEF ConversationInv, TurnsInv, InflightInv, CallOf, Message

\* The calls that turns make are calls of theirs.
LEMMA CallsOfTurns ==
    ASSUME NEW t \in Turn, turn \in [Turn -> TurnState], turn[t].calls \in 0 .. 2
    PROVE  /\ CallOf(t, CreateOf(t)) /\ CreateOf(t).tool = "create"
           /\ CallOf(t, DeleteOf(t)) /\ DeleteOf(t).tool = "delete"
           /\ \A session \in Row, kind \in {"claims", "message", "answer"} :
                  LET req == AppendOf(t, session, kind)
                  IN  /\ CallOf(t, req) /\ req.tool = "append"
                      /\ req.expected_version = session.version
<1>1. /\ NextMutation(t) \in MutationId
      /\ \E i \in 1 .. 3 : NextMutation(t) = <<t, i>>
      /\ ScopeOf[t] \in Scope /\ ClaimsOf[t] \in Claims
    BY IdAssumption, TurnAssumption DEF NextMutation
<1>2. CreateOf(t) \in CreateRequest /\ DeleteOf(t) \in DeleteRequest
    BY <1>1 DEF CreateOf, DeleteOf, CreateRequest, DeleteRequest
<1>3. ASSUME NEW session \in Row, NEW kind \in {"claims", "message", "answer"}
      PROVE  AppendOf(t, session, kind) \in AppendRequest
    <2>1. session.version \in Nat \ {0}
        BY DEF Row
    <2>2. [id |-> <<t, kind>>, claims |-> IF kind = "claims" THEN ClaimsOf[t] ELSE None] \in Event
        BY <1>1, IdAssumption DEF Event
    <2>. QED  BY <1>1, <2>1, <2>2 DEF AppendOf, AppendRequest
<1>. QED  BY <1>1, <1>2, <1>3 DEF CallOf, CreateOf, DeleteOf, AppendOf, Request

\* A session read from the store has been seen in it.
LEMMA ReadIsSeen ==
    ASSUME StoreInv, NEW s \in Scope, sessions[s] # None
    PROVE  sessions[s] \in Row /\ SeenIn(sessions[s], sessions[s])
<1>1. sessions[s] \in Row
    BY DEF StoreInv, TypeOK
<1>2. sessions[s].events \in Seq(Event) /\ sessions[s].version \in Nat
    BY <1>1 DEF Row
<1>3. sessions[s].events = SubSeq(sessions[s].events, 1, Len(sessions[s].events))
    BY <1>2, SubSeqFull
<1>. QED  BY <1>1, <1>2, <1>3 DEF SeenIn, StoreInv, RevisionCounts

\* The steps of a turn keep the invariant.
LEMMA WorkKeepsInv ==
    ASSUME ConversationInv, NEW t \in Turn, Work(t)
    PROVE  ConversationInv'
<1>. DEFINE row == sessions[ScopeOf[t]]
<1>1. /\ StoreInv /\ turn \in [Turn -> TurnState] /\ faults \in 0 .. MaxFaults
      /\ \A u \in Turn : Waits(u) /\ Knows(u)
    BY DEF ConversationInv, TurnsInv
<1>2. ScopeOf[t] \in Scope /\ turn[t].calls \in Nat
    BY <1>1, TurnAssumption DEF TurnState
<1>3. row # None => row \in Row /\ SeenIn(row, row)
    BY <1>1, <1>2, ReadIsSeen
<1>4. CASE Begin(t)
    <2>1. turn[t].pc = "idle" /\ UNCHANGED <<storeVars, faults>> /\ turn[t].calls = 0
        BY <1>1, <1>2, <1>4 DEF Begin, Waits, CallsAt
    <2>2. CASE row = None
        <3>1. Send(t, None, "creating", CreateOf(t))
            BY <1>4, <2>2 DEF Begin
        <3>. QED  BY <1>1, <2>1, <3>1, CallsOfTurns, SendKeepsInv DEF Calling, ToolOf, CallsAt
    <2>3. CASE row # None /\ row.claims # ClaimsOf[t]
        <3>1. Send(t, row, "refreshing", AppendOf(t, row, "claims"))
            BY <1>4, <2>3 DEF Begin
        <3>2. LET req == AppendOf(t, row, "claims")
              IN  CallOf(t, req) /\ req.tool = "append" /\ req.expected_version = row.version
            BY <1>1, <1>3, <2>1, <2>3, CallsOfTurns
        <3>. QED  BY <1>3, <2>1, <2>3, <3>1, <3>2, SendKeepsInv DEF Calling, ToolOf, CallsAt
    <2>4. CASE row # None /\ row.claims = ClaimsOf[t]
        <3>1. /\ turn' = [turn EXCEPT ![t].pc = "loaded", ![t].session = row]
              /\ inflight' = inflight
            BY <1>4, <2>4 DEF Begin
        <3>2. /\ turn' \in [Turn -> TurnState]
              /\ turn'[t].pc = "loaded" /\ turn'[t].session = row
              /\ turn'[t].calls = turn[t].calls /\ turn'[t].request = turn[t].request
              /\ \A u \in Turn \ {t} : turn'[u] = turn[u]
            BY <1>1, <1>3, <2>4, <3>1 DEF TurnState, Working
        <3>3. StoreInv' /\ ReceiptsOfTurns' /\ \A r : Settled(r) => Settled(r)'
            BY <2>1, StoreUnchanged
        <3>4. ASSUME NEW u \in Turn PROVE Waits(u)' /\ Knows(u)'
            <4>1. CASE u = t
                BY <4>1, <1>1, <1>3, <2>1, <2>4, <3>2
                DEF Waits, Knows, storeVars, SeenIn, CallsAt, Calling, Working
            <4>2. CASE u # t
                BY <4>2, <1>1, <2>1, <3>2 DEF Waits, Knows, storeVars, SeenIn, CallOf
            <4>. QED  BY <4>1, <4>2
        <3>5. ASSUME NEW m \in inflight PROVE Pending(m)'
            <4>1. m \in Message /\ Pending(m)
                BY DEF ConversationInv, InflightInv
            <4>2. CASE m.turn = t
                BY <4>2, <2>1, <3>3, AtWorkSettled DEF Pending
            <4>3. CASE m.turn # t
                BY <4>1, <4>3, <3>2, <3>3 DEF Pending, Message
            <4>. QED  BY <4>2, <4>3
        <3>. QED  BY <1>1, <2>1, <3>1, <3>2, <3>3, <3>4, <3>5
                  DEF ConversationInv, TurnsInv, InflightInv, CallOf, Message
    <2>. QED  BY <2>2, <2>3, <2>4
<1>5. CASE Ask(t)
    <2>1. turn[t].pc = "loaded" /\ UNCHANGED <<storeVars, faults>> /\ turn[t].calls \in 0 .. 1
        BY <1>1, <1>2, <1>5 DEF Ask, Waits, CallsAt
    <2>2. CASE row = None
        BY <1>1, <1>5, <2>1, <2>2, FailKeepsInv DEF Ask, Active, Working
    <2>3. CASE row # None
        <3>1. Send(t, row, "asking", AppendOf(t, row, "message"))
            BY <1>5, <2>3 DEF Ask
        <3>2. LET req == AppendOf(t, row, "message")
              IN  CallOf(t, req) /\ req.tool = "append" /\ req.expected_version = row.version
            BY <1>1, <1>3, <2>1, <2>3, CallsOfTurns
        <3>. QED  BY <1>3, <2>1, <2>3, <3>1, <3>2, SendKeepsInv
                  DEF Calling, Working, ToolOf, CallsAt
    <2>. QED  BY <2>2, <2>3
<1>6. CASE Answer(t)
    <2>. DEFINE session == turn[t].session
    <2>1. turn[t].pc = "thinking" /\ UNCHANGED <<storeVars, faults>> /\ turn[t].calls \in 0 .. 2
        BY <1>1, <1>2, <1>6 DEF Answer, Waits, CallsAt
    <2>2. session # None /\ session \in Row
        BY <1>1, <2>1 DEF Waits, Working, TurnState
    <2>3. ScopeOf[t] \in tombstones \/ SeenIn(session, row)
        BY <1>1, <2>2 DEF Knows
    <2>4. LET req == AppendOf(t, session, "answer")
          IN  CallOf(t, req) /\ req.tool = "append" /\ req.expected_version = session.version
        BY <1>1, <2>1, <2>2, CallsOfTurns
    <2>5. Send(t, session, "answering", AppendOf(t, session, "answer"))
        BY <1>6 DEF Answer
    <2>. QED  BY <2>1, <2>2, <2>3, <2>4, <2>5, SendKeepsInv DEF Calling, Working, ToolOf, CallsAt
<1>7. CASE BeginDeletion(t)
    <2>1. turn[t].pc = "idle" /\ UNCHANGED <<storeVars, faults>> /\ turn[t].calls = 0
        BY <1>1, <1>2, <1>7 DEF BeginDeletion, Waits, CallsAt
    <2>. QED  BY <1>1, <1>7, <2>1, CallsOfTurns, SendKeepsInv
              DEF BeginDeletion, Calling, ToolOf, CallsAt
<1>. QED  BY <1>4, <1>5, <1>6, <1>7 DEF Work

-----------------------------------------------------------------------------
(* Deliveries                                                              *)

\* The reply to a call of a turn is a state of its conversation, or, if the
\* call deletes, the acknowledgement.
LEMMA ReplyIsSeen ==
    ASSUME StoreInv, ReceiptsOfTurns, NEW t \in Turn, NEW req, CallOf(t, req),
           Handle(req), Reply(req) # None
    PROVE  /\ Settled(req)'
           /\ Reply(req) = Deleted <=> req.tool = "delete"
           /\ Reply(req) # Deleted => /\ Reply(req) \in Row
                                      /\ SeenIn(Reply(req), sessions'[ScopeOf[t]])
<1>1. req \in Request /\ req.scope = ScopeOf[t]
    BY DEF CallOf
<1>2. StoreInv' /\ ReceiptsOfTurns'
    BY <1>1, HandleIsStep, NextInv, ReceiptsStay
<1>. DEFINE k == KeyOf(req)
<1>3. k \in DOMAIN receipts' /\ receipts'[k] = [request |-> req, response |-> Reply(req)]
    BY <1>1, ReplyIsReceipt
<1>4. receipts'[k] \in Receipt
    BY <1>2, <1>3 DEF StoreInv, TypeOK
<1>5. Reply(req) \in Row \cup {Deleted}
    BY <1>3, <1>4 DEF Receipt
<1>6. Reply(req) = Deleted <=> req.tool = "delete"
    BY <1>2, <1>3 DEF ReceiptsOfTurns
<1>7. Reply(req) # Deleted => SeenIn(Reply(req), sessions'[ScopeOf[t]])
    BY <1>1, <1>2, <1>3 DEF StoreInv, RepliesArePrefixes, SeenIn
<1>8. Settled(req)'
    BY <1>3 DEF Settled, Receipted, KeyOf
<1>. QED  BY <1>5, <1>6, <1>7, <1>8

\* What turns have in memory stays seen, whatever the store does.
LEMMA KnowledgeStays ==
    ASSUME StoreInv, [Next]_storeVars, NEW t \in Turn, NEW session \in Row,
           ScopeOf[t] \in tombstones \/ SeenIn(session, sessions[ScopeOf[t]])
    PROVE  ScopeOf[t] \in tombstones' \/ SeenIn(session, sessions'[ScopeOf[t]])
<1>1. ScopeOf[t] \in Scope
    BY TurnAssumption
<1>2. tombstones \subseteq tombstones'
    BY DEF Next, CreateSession, AppendEvent, DeleteSession, storeVars
<1>. QED  BY <1>1, <1>2, SessionsGrow

\* Handling a call keeps the invariant, and so does hearing of its outcome.
LEMMA DeliverKeepsInv ==
    ASSUME ConversationInv, NEW m \in inflight, Deliver(m)
    PROVE  ConversationInv'
<1>. DEFINE t == m.turn
            reply == Reply(m.request)
<1>1. /\ StoreInv /\ ReceiptsOfTurns /\ turn \in [Turn -> TurnState]
      /\ faults \in 0 .. MaxFaults
      /\ \A u \in Turn : Waits(u) /\ Knows(u)
    BY DEF ConversationInv, TurnsInv
<1>2. /\ t \in Turn /\ CallOf(t, m.request) /\ m.request \in Request
      /\ Handle(m.request) /\ inflight' = inflight \ {m} /\ faults' = faults
    BY DEF ConversationInv, InflightInv, Message, CallOf, Deliver
<1>3. [Next]_storeVars /\ StoreInv' /\ ReceiptsOfTurns'
    BY <1>1, <1>2, HandleIsStep, NextInv, ReceiptsStay
<1>4. \A n \in inflight : Settled(n.request) => Settled(n.request)'
    BY <1>1, <1>3, SettledStays DEF ConversationInv, InflightInv, Message
<1>5. ASSUME NEW u \in Turn, turn'[u] = turn[u] PROVE Waits(u)' /\ Knows(u)'
    <2>1. Waits(u)'
        BY <1>1, <1>5 DEF Waits, CallOf
    <2>2. CASE turn[u].session = None
        BY <1>5, <2>1, <2>2 DEF Knows
    <2>3. CASE turn[u].session # None
        <3>1. turn[u].session \in Row
            BY <1>1, <2>3 DEF TurnState
        <3>2. ScopeOf[u] \in tombstones \/ SeenIn(turn[u].session, sessions[ScopeOf[u]])
            BY <1>1, <2>3 DEF Knows
        <3>3. ScopeOf[u] \in tombstones' \/ SeenIn(turn[u].session, sessions'[ScopeOf[u]])
            BY <1>1, <1>3, <3>1, <3>2, KnowledgeStays
        <3>. QED  BY <1>5, <2>1, <3>3 DEF Knows, SeenIn
    <2>. QED  BY <2>2, <2>3
<1>6. ASSUME NEW n \in inflight, turn'[n.turn] = turn[n.turn] PROVE Pending(n)'
    BY <1>4, <1>6 DEF ConversationInv, InflightInv, Pending
<1>7. ASSUME turn' \in [Turn -> TurnState],
             \A u \in Turn \ {t} : turn'[u] = turn[u],
             Waits(t)', Knows(t)',
             \A n \in inflight : n.turn = t => Pending(n)'
      PROVE  ConversationInv'
    <2>1. \A u \in Turn : Waits(u)' /\ Knows(u)'
        BY <1>5, <1>7
    <2>2. \A n \in inflight : n \in Message /\ CallOf(n.turn, n.request) /\ n.turn \in Turn
        BY DEF ConversationInv, InflightInv, Message
    <2>3. \A n \in inflight : Pending(n)'
        BY <1>6, <1>7, <2>2
    <2>. QED  BY <1>1, <1>2, <1>3, <1>7, <2>1, <2>2, <2>3
              DEF ConversationInv, TurnsInv, InflightInv, CallOf, Message
<1>8. CASE ~Awaited(m)
    <2>1. turn' = turn
        BY <1>8 DEF Deliver
    <2>. QED  BY <1>1, <1>2, <1>5, <1>6, <1>7, <2>1
<1>9. CASE Awaited(m)
    <2>1. turn[t].pc \in Calling /\ turn[t].request = m.request
        BY <1>1, <1>2, <1>9, RequestAssumption DEF Awaited, Waits
    <2>2. ASSUME NEW n \in inflight, n.turn = t
          PROVE  Settled(n.request) \/ n.request = m.request
        BY <2>1, <2>2 DEF ConversationInv, InflightInv, Pending, Calling
    <2>3. CASE reply = None
        <3>1. Fails(t, "refused")
            BY <1>9, <2>3 DEF Deliver
        <3>2. /\ turn' \in [Turn -> TurnState]
              /\ turn'[t].pc = "refused" /\ turn'[t].request = None
              /\ turn'[t].session = turn[t].session /\ turn'[t].calls \in 0 .. 3
              /\ \A u \in Turn \ {t} : turn'[u] = turn[u]
            BY <1>1, <1>2, <3>1 DEF Fails, TurnState, Ended
        <3>3. Waits(t)'
            BY <3>2 DEF Waits, Calling, Working, CallsAt
        <3>4. Knows(t)'
            <4>1. CASE turn[t].session = None
                BY <3>2, <4>1 DEF Knows
            <4>2. CASE turn[t].session # None
                <5>1. turn[t].session \in Row
                    BY <1>1, <1>2, <4>2 DEF TurnState
                <5>2. ScopeOf[t] \in tombstones' \/ SeenIn(turn[t].session, sessions'[ScopeOf[t]])
                    BY <1>1, <1>2, <1>3, <4>2, <5>1, KnowledgeStays DEF Knows
                <5>. QED  BY <3>2, <5>2 DEF Knows, SeenIn
            <4>. QED  BY <4>1, <4>2
        <3>5. ASSUME NEW n \in inflight, n.turn = t PROVE Pending(n)'
            <4>1. CASE Settled(n.request)
                BY <4>1, <1>4 DEF Pending
            <4>2. CASE n.request = m.request
                <5>1. m.request.tool = "append" =>
                          turn[t].pc \in {"refreshing", "asking", "answering"}
                    BY <1>1, <1>2, <2>1 DEF Waits, ToolOf, Calling
                <5>. QED  BY <1>1, <1>2, <2>1, <3>2, <3>5, <4>2, <5>1 DEF Waits, Pending
            <4>. QED  BY <2>2, <3>5, <4>1, <4>2
        <3>. QED  BY <1>7, <3>2, <3>3, <3>4, <3>5
    <2>4. CASE reply # None
        <3>. DEFINE session == IF reply = Deleted THEN None ELSE reply
                    pc == Resume[turn[t].pc]
        <3>1. turn' = [turn EXCEPT ![t].pc = pc, ![t].request = None, ![t].session = session]
            BY <1>9, <2>4 DEF Deliver
        <3>2. /\ Settled(m.request)'
              /\ reply = Deleted <=> m.request.tool = "delete"
              /\ reply # Deleted => /\ reply \in Row
                                    /\ SeenIn(reply, sessions'[ScopeOf[t]])
            BY <1>1, <1>2, <2>4, ReplyIsSeen
        <3>3. pc \in {"loaded", "thinking", "done"}
            BY <2>1 DEF Resume, Calling
        <3>4. session \in Row \cup {None}
            BY <3>2
        <3>5. /\ turn' \in [Turn -> TurnState]
              /\ turn'[t].pc = pc /\ turn'[t].request = None
              /\ turn'[t].session = session /\ turn'[t].calls = turn[t].calls
              /\ \A u \in Turn \ {t} : turn'[u] = turn[u]
            <4>. HIDE DEF pc, session
            <4>. QED  BY <1>1, <1>2, <3>1, <3>3, <3>4 DEF TurnState, Working, Ended
        <3>6. turn[t].calls <= CallsAt[pc] /\ (pc \in Working => reply # Deleted)
            <4>1. turn[t].calls <= CallsAt[turn[t].pc] /\ turn[t].calls \in Nat
                BY <1>1, <1>2 DEF Waits, TurnState
            <4>2. turn[t].request.tool = ToolOf[turn[t].pc]
                BY <1>2, <1>1, <2>1 DEF Waits
            <4>. QED  BY <4>1, <4>2, <2>1, <3>2 DEF CallsAt, Resume, Calling, Working, ToolOf
        <3>7. Waits(t)'
            <4>1. pc \in Working => session # None
                BY <3>2, <3>6, NoneAssumption
            <4>. HIDE DEF pc, session
            <4>. QED  BY <3>3, <3>5, <3>6, <4>1 DEF Waits, Calling, Working
        <3>8. Knows(t)'
            BY <3>2, <3>5 DEF Knows, SeenIn
        <3>9. ASSUME NEW n \in inflight, n.turn = t PROVE Pending(n)'
            <4>1. CASE Settled(n.request)
                BY <4>1, <1>4 DEF Pending
            <4>2. CASE n.request = m.request
                BY <4>2, <3>2 DEF Pending
            <4>. QED  BY <2>2, <3>9, <4>1, <4>2
        <3>. QED  BY <1>7, <3>5, <3>7, <3>8, <3>9
    <2>. QED  BY <2>3, <2>4
<1>. QED  BY <1>8, <1>9


-----------------------------------------------------------------------------
(* What turns record                                                       *)

\* The events that a turn appends.
KindOf == [refreshing |-> "claims", asking |-> "message", answering |-> "answer"]

\* What was recorded last.
EndsWith(events, id) == events # <<>> /\ events[Len(events)].id = id

\* The calls that anybody remembers: under way, waited for, or on record.
Remembered == {m.request : m \in inflight}
                  \cup ({turn[t].request : t \in Turn} \ {None})
                  \cup {receipts[k].request : k \in DOMAIN receipts}

\* A call is one of those that its turn has made so far.
Made(t, req) == /\ CallOf(t, req)
                /\ \E i \in 1 .. turn[t].calls : req.mutation_id = <<t, i>>
                /\ req.tool = "append" =>
                       \E kind \in {"claims", "message", "answer"} : req.event.id = <<t, kind>>

\* An id stands for one call.
CallsInv == /\ \A req \in Remembered : \E t \in Turn : Made(t, req)
            /\ \A req1, req2 \in Remembered :
                   req1.mutation_id = req2.mutation_id => req1 = req2

\* A reply to an append shows the event as the last one.
RepliesEndWith ==
    \A k \in DOMAIN receipts :
        receipts[k].request.tool = "append" =>
            EndsWith(receipts[k].response.events, receipts[k].request.event.id)

\* What a turn is about and has in memory.
Tells(t) ==
    LET pc == turn[t].pc
    IN  /\ pc \in Calling => turn[t].request.mutation_id = <<t, turn[t].calls>>
        /\ pc \in DOMAIN KindOf => turn[t].request.event.id = <<t, KindOf[pc]>>
        /\ pc \in {"thinking", "answering"} =>
               EndsWith(turn[t].session.events, <<t, "message">>)
        /\ pc = "deleting" => t \in Deletion
        /\ pc = "done" /\ t \notin Deletion =>
               turn[t].session # None /\ EndsWith(turn[t].session.events, <<t, "answer">>)

\* An answer that can still be recorded was given to the turn's own message.
AnswersOut ==
    \A m \in inflight :
        m.request.tool = "append" /\ m.request.event.id = <<m.turn, "answer">> =>
            \/ Settled(m.request)
            \/ EndsWith(turn[m.turn].session.events, <<m.turn, "message">>)

\* A call that can not be applied any more, although it never was.
Hopeless(req) ==
    LET row == sessions[req.scope]
    IN  \/ req.scope \in tombstones
        \/ req.tool = "create" /\ row # None
        \/ /\ req.tool = "append" /\ row # None
           /\ row.version > req.expected_version \/ req.event.id \in EventIds(row)

\* What a turn was refused, is not on record, and what is under way of it is
\* not going to be.
RefusalsStand ==
    \A t \in Turn : turn[t].pc = "refused" =>
        \/ ScopeOf[t] \in tombstones
        \/ /\ \A k \in DOMAIN receipts : receipts[k].request.mutation_id # <<t, turn[t].calls>>
           /\ \A m \in inflight : m.request.mutation_id = <<t, turn[t].calls>> =>
                  Hopeless(m.request)

StoryInv == /\ CallsInv
            /\ RepliesEndWith
            /\ \A t \in Turn : Tells(t)
            /\ AnswersOut
            /\ AnswersFollowMessages
            /\ RefusalsStand

-----------------------------------------------------------------------------
(* What a delivery does to what the story is about                         *)

\* A receipt is an old one or that of the call just applied.
LEMMA NewReceipt ==
    ASSUME NEW req \in Request, Handle(req), NEW k \in DOMAIN receipts'
    PROVE  \/ k \in DOMAIN receipts /\ receipts'[k] = receipts[k]
           \/ Verdict(req) = "ACCEPTED" /\ receipts'[k].request = req
<1>1. CASE Verdict(req) = "ACCEPTED"
    <2>1. PICK response, kept : kept \subseteq DOMAIN receipts /\ Acknowledge(req, response, kept)
        BY <1>1 DEF Handle, CreateSession, AppendEvent, DeleteSession, Kept
    <2>. QED  BY <1>1, <2>1 DEF Acknowledge
<1>2. CASE Verdict(req) # "ACCEPTED"
    BY <1>2 DEF Handle, storeVars
<1>. QED  BY <1>1, <1>2

\* Only a call that is neither receipted nor applicable is refused.
LEMMA RefusedVerdict ==
    ASSUME StoreInv, NEW req \in Request, Handle(req), Reply(req) = None
    PROVE  Verdict(req) \notin {"ACCEPTED", "REPLAYED"}
<1>1. StoreInv'
    BY HandleIsStep, NextInv
<1>2. ASSUME Verdict(req) = "ACCEPTED" PROVE FALSE
    <2>1. PICK response, kept : Acknowledge(req, response, kept)
        BY <1>2 DEF Handle, CreateSession, AppendEvent, DeleteSession
    <2>2. KeyOf(req) \in DOMAIN receipts'
        BY <2>1 DEF Acknowledge
    <2>3. receipts'[KeyOf(req)] \in Receipt
        BY <1>1, <2>2 DEF StoreInv, TypeOK
    <2>4. receipts'[KeyOf(req)].response = None
        BY <1>2 DEF Reply
    <2>. QED  BY <2>3, <2>4, NoneAssumption DEF Receipt
<1>3. ASSUME Verdict(req) = "REPLAYED" PROVE FALSE
    <2>1. KeyOf(req) \in DOMAIN receipts
        BY <1>3 DEF Verdict, Receipted
    <2>2. receipts[KeyOf(req)] \in Receipt
        BY <2>1 DEF StoreInv, TypeOK
    <2>3. receipts[KeyOf(req)].response = None
        BY <1>3 DEF Reply
    <2>. QED  BY <2>2, <2>3, NoneAssumption DEF Receipt
<1>. QED  BY <1>2, <1>3

\* The store answers an append with the event as the last one.
LEMMA RepliesStay ==
    ASSUME StoreInv, RepliesEndWith, [Next]_storeVars
    PROVE  RepliesEndWith'
<1>1. ASSUME NEW req \in CreateRequest, CreateSession(req) PROVE RepliesEndWith'
    <2>1. req.tool # "append" /\ Acknowledge(req, sessions'[req.scope], DOMAIN receipts)
        BY <1>1 DEF CreateSession
    <2>. QED  BY <2>1 DEF Acknowledge, RepliesEndWith, EndsWith
<1>2. ASSUME NEW req \in AppendRequest, AppendEvent(req) PROVE RepliesEndWith'
    <2>1. /\ sessions[req.scope] \in Row /\ req.event \in Event
          /\ sessions'[req.scope].events = Append(sessions[req.scope].events, req.event)
        BY <1>2, Appended
    <2>2. sessions[req.scope].events \in Seq(Event)
        BY <2>1 DEF Row
    <2>3. EndsWith(sessions'[req.scope].events, req.event.id)
        BY <2>1, <2>2, AppendProperties DEF EndsWith
    <2>4. Acknowledge(req, sessions'[req.scope], DOMAIN receipts)
        BY <1>2 DEF AppendEvent
    <2>. QED  BY <2>3, <2>4 DEF Acknowledge, RepliesEndWith, EndsWith
<1>3. ASSUME NEW req \in DeleteRequest, DeleteSession(req) PROVE RepliesEndWith'
    BY <1>3 DEF DeleteSession, Kept, Acknowledge, RepliesEndWith, EndsWith
<1>4. CASE UNCHANGED storeVars
    BY <1>4 DEF storeVars, RepliesEndWith, EndsWith
<1>. QED  BY <1>1, <1>2, <1>3, <1>4 DEF Next

\* A hopeless call is not accepted, unless it deletes once more.
LEMMA HopelessIsRefused ==
    ASSUME StoreInv, NEW req \in Request, Hopeless(req), req.scope \notin tombstones
    PROVE  Verdict(req) # "ACCEPTED"
<1>. DEFINE row == sessions[req.scope]
<1>1. CASE req.tool = "create" /\ row # None
    BY <1>1 DEF Verdict, Taken
<1>2. CASE /\ req.tool = "append" /\ row # None
           /\ row.version > req.expected_version \/ req.event.id \in EventIds(row)
    <2>1. req \in AppendRequest /\ row \in Row
        BY <1>2 DEF Request, CreateRequest, DeleteRequest, AppendRequest, StoreInv, TypeOK
    <2>2. row.version \in Nat /\ req.expected_version \in Nat
        BY <2>1 DEF AppendRequest, Row
    <2>3. ~UpToDate(req) \/ req.event.id \in EventIds(row)
        BY <1>2, <2>2 DEF UpToDate
    <2>. QED  BY <1>2, <2>3 DEF Verdict
<1>. QED  BY <1>1, <1>2 DEF Hopeless

\* A hopeless call stays hopeless.
LEMMA HopelessStays ==
    ASSUME StoreInv, [Next]_storeVars, NEW req \in Request, Hopeless(req)
    PROVE  Hopeless(req)'
<1>. DEFINE s == req.scope
<1>0. s \in Scope /\ sessions \in [Scope -> Row \cup {None}]
    BY DEF Request, CreateRequest, AppendRequest, DeleteRequest, StoreInv, TypeOK
<1>1. CASE s \in tombstones
    BY <1>1 DEF Hopeless, Next, CreateSession, AppendEvent, DeleteSession, storeVars
<1>2. CASE sessions'[s] = sessions[s] /\ tombstones \subseteq tombstones'
    BY <1>2 DEF Hopeless, EventIds
<1>3. ASSUME NEW r \in CreateRequest, CreateSession(r), s \notin tombstones PROVE Hopeless(req)'
    <2>1. sessions[s] # None
        BY <1>3 DEF Hopeless
    <2>2. r.scope # s
        BY <1>3, <2>1 DEF CreateSession, Verdict, Taken
    <2>3. sessions'[s] = sessions[s] /\ tombstones' = tombstones
        BY <1>0, <1>3, <2>2 DEF CreateSession
    <2>. QED  BY <1>2, <2>3
<1>4. ASSUME NEW r \in AppendRequest, AppendEvent(r), s \notin tombstones PROVE Hopeless(req)'
    <2>1. CASE r.scope # s
        BY <1>0, <1>2, <1>4, <2>1, Appended
    <2>2. CASE r.scope = s
        <3>. DEFINE old == sessions[s]
                    row == sessions'[s]
        <3>1. /\ old \in Row /\ row # None /\ row.version = old.version + 1
              /\ row.events = Append(old.events, r.event) /\ r.event \in Event
            BY <1>4, <2>2, Appended
        <3>2. old.events \in Seq(Event) /\ old.version \in Nat
            BY <3>1 DEF Row
        <3>3. \A i \in DOMAIN old.events : i \in DOMAIN row.events /\ row.events[i] = old.events[i]
            <4>. HIDE DEF row, old
            <4>. QED  BY <3>1, <3>2, AppendProperties
        <3>4. req.tool = "append" => req.expected_version \in Nat
            BY DEF Request, CreateRequest, AppendRequest, DeleteRequest
        <3>5. row.version > req.expected_version
              \/ ~(req.tool = "append" /\ old.version > req.expected_version)
            BY <3>1, <3>2, <3>4
        <3>6. EventIds(old) \subseteq EventIds(row)
            <4>. HIDE DEF row, old
            <4>. QED  BY <3>3 DEF EventIds
        <3>. QED  BY <1>4, <3>1, <3>5, <3>6 DEF Hopeless, EventIds
    <2>. QED  BY <2>1, <2>2
<1>5. ASSUME NEW r \in DeleteRequest, DeleteSession(r), s \notin tombstones PROVE Hopeless(req)'
    <2>1. CASE r.scope = s
        BY <1>5, <2>1 DEF DeleteSession, Hopeless
    <2>2. CASE r.scope # s
        <3>1. sessions'[s] = sessions[s] /\ tombstones \subseteq tombstones'
            BY <1>0, <1>5, <2>2 DEF DeleteSession
        <3>. QED  BY <1>2, <3>1
    <2>. QED  BY <2>1, <2>2
<1>6. CASE UNCHANGED storeVars
    BY <1>2, <1>6 DEF storeVars
<1>. QED  BY <1>1, <1>3, <1>4, <1>5, <1>6 DEF Next

\* An append is applied to the session that its turn has in memory.
LEMMA AppliesToMemory ==
    ASSUME ConversationInv, NEW m \in inflight, m.request.tool = "append",
           Verdict(m.request) = "ACCEPTED"
    PROVE  LET row == sessions[m.request.scope]
               session == turn[m.turn].session
           IN  /\ ~Settled(m.request)
               /\ row \in Row /\ row # None
               /\ session \in Row /\ session # None
               /\ session.events = row.events
<1>. DEFINE t == m.turn
            req == m.request
            row == sessions[req.scope]
            session == turn[t].session
<1>2. /\ t \in Turn /\ CallOf(t, req) /\ req \in Request /\ Pending(m)
      /\ req.scope = ScopeOf[t] /\ req.scope \in Scope
    BY TurnAssumption DEF ConversationInv, InflightInv, Message, CallOf
<1>3. StoreInv /\ Waits(t) /\ Knows(t) /\ turn \in [Turn -> TurnState]
    BY <1>2 DEF ConversationInv, TurnsInv
<1>7. ~Receipted(req) /\ row # None /\ row.version = req.expected_version
    BY DEF Verdict, UpToDate
<1>8. req.scope \notin tombstones
    BY <1>3, <1>7 DEF StoreInv
<1>9. ~Settled(req)
    BY <1>7, <1>8 DEF Settled
<1>10. session # None /\ req.expected_version = session.version
    <2>1. CASE turn[t].pc \in Calling /\ req = turn[t].request
        BY <1>3, <2>1 DEF Waits, ToolOf, Calling
    <2>. QED  BY <1>2, <1>9, <2>1 DEF Pending
<1>11. session \in Row /\ row \in Row
    BY <1>2, <1>3, <1>7, <1>10 DEF TurnState, StoreInv, TypeOK
<1>12. SeenIn(session, row)
    BY <1>2, <1>3, <1>8, <1>10 DEF Knows
<1>13. Len(session.events) = Len(row.events) /\ row.events \in Seq(Event)
    <2>1. row.version = Len(row.events) + 1
        BY <1>2, <1>3, <1>7 DEF StoreInv, RevisionCounts
    <2>2. session.version = Len(session.events) + 1
        BY <1>12 DEF SeenIn
    <2>3. ASSUME NEW r \in Row PROVE r.events \in Seq(Event) /\ Len(r.events) \in Nat
        <3>1. r.events \in Seq(Event)
            BY DEF Row
        <3>. QED  BY <3>1
    <2>4. row.version = session.version
        BY <1>7, <1>10
    <2>5. Len(row.events) + 1 = Len(session.events) + 1
        BY <2>1, <2>2, <2>4
    <2>. HIDE DEF row, session
    <2>6. /\ row.events \in Seq(Event)
          /\ Len(session.events) \in Nat /\ Len(row.events) \in Nat
        BY <1>11, <2>3
    <2>. QED  BY <2>5, <2>6
<1>14. session.events = row.events
    BY <1>12, <1>13, SubSeqFull DEF SeenIn
<1>. QED  BY <1>7, <1>9, <1>10, <1>11, <1>14

-----------------------------------------------------------------------------
(* Steps of turns and the story                                            *)

\* The story is kept by a step of a turn that does not touch the store, if
\* the turn's own part of it is.
LEMMA TurnKeepsStory ==
    ASSUME ConversationInv, StoryInv, UNCHANGED storeVars, NEW t \in Turn,
           \A u \in Turn \ {t} : turn'[u] = turn[u],
           CallsInv', Tells(t)', turn'[t].pc # "refused",
           \A m \in inflight' : m \in inflight \/ (m.turn = t /\ CallOf(t, m.request)),
           \A m \in inflight' :
               m.turn = t /\ m.request.tool = "append" /\ m.request.event.id = <<t, "answer">> =>
                   Settled(m.request) \/ EndsWith(turn'[t].session.events, <<t, "message">>)
    PROVE  StoryInv'
<1>1. \A m \in inflight : m.turn \in Turn /\ CallOf(m.turn, m.request)
    BY DEF ConversationInv, InflightInv, Message
<1>2. \A req : Settled(req) => Settled(req)'
    BY DEF storeVars, Settled, Receipted
<1>3. RepliesEndWith'
    BY DEF storeVars, StoryInv, RepliesEndWith, EndsWith
<1>4. ASSUME NEW u \in Turn PROVE Tells(u)'
    <2>1. CASE u # t
        BY <2>1 DEF StoryInv, Tells, EndsWith
    <2>. QED  BY <2>1
<1>5. AnswersOut'
    <2> SUFFICES ASSUME NEW m \in inflight', m.request.tool = "append",
                        m.request.event.id = <<m.turn, "answer">>
                 PROVE  \/ Settled(m.request)'
                        \/ EndsWith(turn'[m.turn].session.events, <<m.turn, "message">>)
        BY DEF AnswersOut, EndsWith
    <2>1. CASE m.turn = t
        BY <2>1, <1>2
    <2>2. CASE m.turn # t
        <3>1. m \in inflight
            BY <2>2
        <3>2. turn'[m.turn] = turn[m.turn]
            BY <2>2, <3>1, <1>1
        <3>. QED  BY <3>1, <3>2, <1>2 DEF StoryInv, AnswersOut
    <2>. QED  BY <2>1, <2>2
<1>6. AnswersFollowMessages'
    BY DEF StoryInv, AnswersFollowMessages, EventsOf, storeVars
<1>7. RefusalsStand'
    <2> SUFFICES ASSUME NEW u \in Turn, turn'[u].pc = "refused", ScopeOf[u] \notin tombstones'
                 PROVE  /\ \A k \in DOMAIN receipts' :
                               receipts'[k].request.mutation_id # <<u, turn'[u].calls>>
                        /\ \A m \in inflight' :
                               m.request.mutation_id = <<u, turn'[u].calls>> =>
                                   Hopeless(m.request)'
        BY DEF RefusalsStand, Hopeless, EventIds
    <2>1. u # t /\ turn'[u] = turn[u]
        OBVIOUS
    <2>2. /\ \A k \in DOMAIN receipts : receipts[k].request.mutation_id # <<u, turn[u].calls>>
          /\ \A m \in inflight : m.request.mutation_id = <<u, turn[u].calls>> =>
                 Hopeless(m.request)
        BY <2>1 DEF StoryInv, RefusalsStand, storeVars
    <2>3. \A m \in inflight' : m.request.mutation_id = <<u, turn[u].calls>> => m \in inflight
        BY <2>1 DEF CallOf
    <2>4. \A req : Hopeless(req) => Hopeless(req)'
        BY DEF Hopeless, storeVars, EventIds
    <2>. QED  BY <2>1, <2>2, <2>3, <2>4 DEF storeVars
<1>. QED  BY <1>3, <1>4, <1>5, <1>6, <1>7 DEF StoryInv

\* Nothing new is called: the calls stay what they are.
LEMMA CallsStay ==
    ASSUME CallsInv, Remembered' \subseteq Remembered,
           \A t \in Turn : turn'[t].calls = turn[t].calls
    PROVE  CallsInv'
<1>1. ASSUME NEW t \in Turn, NEW req, Made(t, req) PROVE Made(t, req)'
    BY <1>1 DEF Made, CallOf
<1>. QED  BY <1>1 DEF CallsInv

\* A new call has a new id.
LEMMA SendKeepsCalls ==
    ASSUME ConversationInv, CallsInv, UNCHANGED storeVars,
           NEW t \in Turn, turn[t].pc \in {"idle"} \cup Working,
           NEW session, NEW pc, NEW req, CallOf(t, req), req.mutation_id = NextMutation(t),
           req.tool = "append" =>
               \E kind \in {"claims", "message", "answer"} : req.event.id = <<t, kind>>,
           Send(t, session, pc, req)
    PROVE  CallsInv'
<1>1. turn \in [Turn -> TurnState] /\ turn[t].calls \in Nat
    BY DEF ConversationInv, TurnsInv, TurnState
<1>2. /\ turn'[t].calls = turn[t].calls + 1 /\ turn'[t].request = req
      /\ \A u \in Turn \ {t} : turn'[u] = turn[u]
    BY <1>1 DEF Send
<1>3. Remembered' \subseteq Remembered \cup {req}
    BY <1>2 DEF Remembered, Send, storeVars
<1>4. ASSUME NEW u \in Turn, NEW r, Made(u, r) PROVE Made(u, r)'
    <2>1. PICK i \in 1 .. turn[u].calls : r.mutation_id = <<u, i>>
        BY <1>4 DEF Made
    <2>2. turn[u].calls \in Nat /\ turn'[u].calls \in {turn[u].calls, turn[u].calls + 1}
        BY <1>1, <1>2 DEF TurnState
    <2>3. i \in 1 .. turn'[u].calls
        BY <2>2
    <2>. QED  BY <1>4, <2>1, <2>3 DEF Made, CallOf
<1>5. Made(t, req)'
    <2>1. turn[t].calls + 1 \in 1 .. turn'[t].calls
        BY <1>1, <1>2
    <2>. QED  BY <2>1 DEF Made, CallOf, NextMutation
<1>6. ASSUME NEW r \in Remembered PROVE r.mutation_id # req.mutation_id
    <2>1. PICK u \in Turn : Made(u, r)
        BY DEF CallsInv
    <2>2. PICK i \in 1 .. turn[u].calls : r.mutation_id = <<u, i>>
        BY <2>1 DEF Made
    <2>3. ~(u = t /\ i = turn[t].calls + 1)
        BY <1>1, <2>2
    <2>. QED  BY <2>2, <2>3 DEF NextMutation
<1>. QED  BY <1>3, <1>4, <1>5, <1>6 DEF CallsInv

\* Sending a call keeps the story.
LEMMA SendKeepsStory ==
    ASSUME ConversationInv, StoryInv, UNCHANGED storeVars,
           NEW t \in Turn, turn[t].pc \in {"idle"} \cup Working,
           NEW pc \in Calling, NEW req, CallOf(t, req), req.mutation_id = NextMutation(t),
           req.tool = "append" => pc \in DOMAIN KindOf,
           pc \in DOMAIN KindOf => req.event.id = <<t, KindOf[pc]>>,
           NEW session,
           pc = "answering" => EndsWith(session.events, <<t, "message">>),
           pc = "deleting" => t \in Deletion,
           Send(t, session, pc, req)
    PROVE  StoryInv'
<1>1. turn \in [Turn -> TurnState]
    BY DEF ConversationInv, TurnsInv
<1>2. /\ turn'[t] = [pc |-> pc, session |-> session, request |-> req,
                     attempt |-> 1, calls |-> turn[t].calls + 1]
      /\ \A u \in Turn \ {t} : turn'[u] = turn[u]
      /\ inflight' = inflight \cup {[turn |-> t, attempt |-> 1, request |-> req]}
    BY <1>1 DEF Send
<1>3. req.tool = "append" =>
          \E kind \in {"claims", "message", "answer"} : req.event.id = <<t, kind>>
    BY DEF KindOf
<1>4. CallsInv'
    BY <1>3, SendKeepsCalls DEF StoryInv
<1>5. Tells(t)'
    BY <1>2 DEF Tells, Calling, EndsWith, NextMutation
<1>6. ASSUME NEW m \in inflight', m.turn = t, m.request.tool = "append",
             m.request.event.id = <<t, "answer">>
      PROVE  Settled(m.request) \/ EndsWith(turn'[t].session.events, <<t, "message">>)
    <2>1. CASE m \in inflight
        BY <1>6, <2>1, AtWorkSettled
    <2>2. CASE m.request = req
        <3>1. pc = "answering"
            BY <1>6, <2>2 DEF KindOf
        <3>. QED  BY <3>1, <1>2
    <2>. QED  BY <1>2, <2>1, <2>2
<1>7. turn'[t].pc # "refused"
    BY <1>2 DEF Calling
<1>8. ASSUME NEW m \in inflight' PROVE m \in inflight \/ (m.turn = t /\ CallOf(t, m.request))
    <2>. DEFINE msg == [turn |-> t, attempt |-> 1, request |-> req]
    <2>1. msg.turn = t /\ msg.request = req
        OBVIOUS
    <2>2. inflight' = inflight \cup {msg}
        BY <1>2
    <2>. HIDE DEF msg
    <2>. QED  BY <2>1, <2>2
<1>. QED  BY <1>2, <1>4, <1>5, <1>6, <1>7, <1>8, TurnKeepsStory

\* So does going on, or breaking off, without a call.
LEMMA QuietKeepsStory ==
    ASSUME ConversationInv, StoryInv, UNCHANGED storeVars, NEW t \in Turn,
           \A u \in Turn \ {t} : turn'[u] = turn[u],
           turn'[t].calls = turn[t].calls,
           \/ /\ turn[t].pc = "idle" /\ turn'[t].pc = "loaded" /\ turn'[t].request = None
              /\ inflight' = inflight
           \/ /\ turn'[t].pc = "stopped" /\ turn'[t].request = None
              /\ turn'[t].session = turn[t].session
              /\ inflight' = inflight
           \/ /\ turn[t].pc \in Calling
              /\ turn'[t].pc = turn[t].pc /\ turn'[t].request = turn[t].request
              /\ turn'[t].session = turn[t].session
              /\ inflight' = inflight
                     \cup {[turn |-> t, attempt |-> 2, request |-> turn[t].request]}
    PROVE  StoryInv'
<1>1. CallsInv'
    <2>1. Remembered' \subseteq Remembered
        <3>1. ASSUME NEW m \in inflight' PROVE m.request \in Remembered
            <4>1. CASE m \in inflight
                BY <4>1 DEF Remembered
            <4>2. CASE /\ m = [turn |-> t, attempt |-> 2, request |-> turn[t].request]
                       /\ turn[t].pc \in Calling
                <5>1. turn[t].request \in Request
                    BY <4>2 DEF ConversationInv, TurnsInv, Waits, CallOf
                <5>. QED  BY <4>2, <5>1, RequestAssumption DEF Remembered
            <4>. QED  BY <4>1, <4>2
        <3>2. ASSUME NEW u \in Turn, turn'[u].request # None
              PROVE  turn'[u].request = turn[u].request
            BY <3>2
        <3>. QED  BY <3>1, <3>2 DEF Remembered, storeVars
    <2>. QED  BY <2>1, CallsStay DEF StoryInv
<1>2. Tells(t)'
    <2>1. CASE turn'[t].pc \in {"loaded", "stopped"}
        BY <2>1 DEF Tells, Calling, KindOf
    <2>2. CASE turn'[t].pc \notin {"loaded", "stopped"}
        BY <2>2 DEF StoryInv, Tells, EndsWith
    <2>. QED  BY <2>1, <2>2
<1>3. turn'[t].pc # "refused"
    BY DEF Calling
<1>4. ASSUME NEW m \in inflight' PROVE m \in inflight \/ (m.turn = t /\ CallOf(t, m.request))
    <2>. DEFINE msg == [turn |-> t, attempt |-> 2, request |-> turn[t].request]
    <2>1. msg.turn = t /\ msg.request = turn[t].request
        OBVIOUS
    <2>2. inflight' = inflight \/ (inflight' = inflight \cup {msg} /\ turn[t].pc \in Calling)
        OBVIOUS
    <2>3. turn[t].pc \in Calling => CallOf(t, turn[t].request)
        BY DEF ConversationInv, TurnsInv, Waits
    <2>. HIDE DEF msg
    <2>. QED  BY <2>1, <2>2, <2>3
<1>5. ASSUME NEW m \in inflight', m.turn = t, m.request.tool = "append",
             m.request.event.id = <<t, "answer">>
      PROVE  Settled(m.request) \/ EndsWith(turn'[t].session.events, <<t, "message">>)
    <2>1. CASE turn[t].pc = "idle" /\ m \in inflight
        BY <1>5, <2>1, AtWorkSettled
    <2>2. CASE turn'[t].session = turn[t].session /\ m \in inflight
        BY <1>5, <2>2 DEF StoryInv, AnswersOut
    <2>3. CASE /\ turn[t].pc \in Calling /\ m.request = turn[t].request
               /\ turn'[t].session = turn[t].session
        <3>1. turn[t].pc \in DOMAIN KindOf /\ Tells(t)
            BY <1>5, <2>3 DEF ConversationInv, TurnsInv, Waits, ToolOf, KindOf, Calling, StoryInv
        <3>2. turn[t].request.event.id = <<t, KindOf[turn[t].pc]>>
            BY <3>1 DEF Tells
        <3>3. turn[t].pc = "answering"
            BY <1>5, <2>3, <3>1, <3>2 DEF KindOf
        <3>4. EndsWith(turn[t].session.events, <<t, "message">>)
            BY <3>1, <3>3 DEF Tells
        <3>. QED  BY <2>3, <3>4
    <2>. QED  BY <2>1, <2>2, <2>3
<1>. QED  BY <1>1, <1>2, <1>3, <1>4, <1>5, TurnKeepsStory

\* A turn that breaks off.
LEMMA FailKeepsStory ==
    ASSUME ConversationInv, StoryInv, UNCHANGED storeVars, inflight' = inflight,
           NEW t \in Turn, Fails(t, "stopped")
    PROVE  StoryInv'
<1>1. turn \in [Turn -> TurnState]
    BY DEF ConversationInv, TurnsInv
<1>2. /\ turn'[t].pc = "stopped" /\ turn'[t].request = None
      /\ turn'[t].session = turn[t].session /\ turn'[t].calls = turn[t].calls
      /\ \A u \in Turn \ {t} : turn'[u] = turn[u]
    BY <1>1 DEF Fails, TurnState
<1>. QED  BY <1>2, QuietKeepsStory

\* A call that is repeated.
LEMMA RetryKeepsStory ==
    ASSUME ConversationInv, StoryInv, NEW t \in Turn, Retry(t)
    PROVE  StoryInv'
<1>1. turn \in [Turn -> TurnState]
    BY DEF ConversationInv, TurnsInv
<1>2. /\ turn'[t].pc = turn[t].pc /\ turn'[t].request = turn[t].request
      /\ turn'[t].session = turn[t].session /\ turn'[t].calls = turn[t].calls
      /\ \A u \in Turn \ {t} : turn'[u] = turn[u]
    BY <1>1 DEF Retry, TurnState
<1>. QED  BY <1>2, QuietKeepsStory DEF Retry

\* The steps of a turn keep the story.
LEMMA WorkKeepsStory ==
    ASSUME ConversationInv, StoryInv, NEW t \in Turn, Work(t)
    PROVE  StoryInv'
<1>. DEFINE row == sessions[ScopeOf[t]]
<1>1. /\ StoreInv /\ turn \in [Turn -> TurnState]
      /\ Waits(t) /\ Knows(t) /\ Tells(t)
    BY DEF ConversationInv, TurnsInv, StoryInv
<1>2. ScopeOf[t] \in Scope /\ turn[t].calls \in Nat
    BY <1>1, TurnAssumption DEF TurnState
<1>3. row # None => row \in Row
    BY <1>1, <1>2 DEF StoreInv, TypeOK
<1>4. ASSUME NEW session, NEW kind
      PROVE  LET req == AppendOf(t, session, kind)
             IN  /\ req.tool = "append" /\ req.mutation_id = NextMutation(t)
                 /\ req.event.id = <<t, kind>>
    BY DEF AppendOf
<1>5. CASE Begin(t)
    <2>1. turn[t].pc = "idle" /\ UNCHANGED storeVars /\ turn[t].calls = 0
        BY <1>1, <1>2, <1>5 DEF Begin, Waits, CallsAt
    <2>2. CASE row = None
        <3>1. Send(t, None, "creating", CreateOf(t))
            BY <1>5, <2>2 DEF Begin
        <3>2. CallOf(t, CreateOf(t))
            BY <1>1, <2>1, CallsOfTurns
        <3>3. CreateOf(t).tool = "create" /\ CreateOf(t).mutation_id = NextMutation(t)
            BY DEF CreateOf
        <3>. QED  BY <2>1, <3>1, <3>2, <3>3, SendKeepsStory DEF Calling, KindOf
    <2>3. CASE row # None /\ row.claims # ClaimsOf[t]
        <3>1. Send(t, row, "refreshing", AppendOf(t, row, "claims"))
            BY <1>5, <2>3 DEF Begin
        <3>2. CallOf(t, AppendOf(t, row, "claims"))
            BY <1>1, <1>3, <2>1, <2>3, CallsOfTurns
        <3>. QED  BY <1>4, <2>1, <3>1, <3>2, SendKeepsStory DEF Calling, KindOf
    <2>4. CASE row # None /\ row.claims = ClaimsOf[t]
        <3>1. /\ turn' = [turn EXCEPT ![t].pc = "loaded", ![t].session = row]
              /\ inflight' = inflight
            BY <1>5, <2>4 DEF Begin
        <3>2. turn[t].request = None
            BY <1>1, <2>1 DEF Waits, Calling
        <3>3. /\ turn'[t].pc = "loaded" /\ turn'[t].request = None
              /\ turn'[t].calls = turn[t].calls
              /\ \A u \in Turn \ {t} : turn'[u] = turn[u]
            BY <1>1, <3>1, <3>2 DEF TurnState
        <3>. QED  BY <2>1, <3>1, <3>3, QuietKeepsStory
    <2>. QED  BY <2>2, <2>3, <2>4
<1>6. CASE Ask(t)
    <2>1. turn[t].pc = "loaded" /\ UNCHANGED storeVars /\ turn[t].calls \in 0 .. 2
        BY <1>1, <1>2, <1>6 DEF Ask, Waits, CallsAt
    <2>2. CASE row = None
        <3>1. Fails(t, "stopped") /\ inflight' = inflight
            BY <1>6, <2>2 DEF Ask
        <3>. QED  BY <1>1, <2>1, <3>1, FailKeepsStory
    <2>3. CASE row # None
        <3>1. Send(t, row, "asking", AppendOf(t, row, "message"))
            BY <1>6, <2>3 DEF Ask
        <3>2. CallOf(t, AppendOf(t, row, "message"))
            BY <1>1, <1>3, <2>1, <2>3, CallsOfTurns
        <3>. QED  BY <1>4, <2>1, <3>1, <3>2, SendKeepsStory DEF Calling, Working, KindOf
    <2>. QED  BY <2>2, <2>3
<1>7. CASE Answer(t)
    <2>. DEFINE session == turn[t].session
    <2>1. turn[t].pc = "thinking" /\ UNCHANGED storeVars /\ turn[t].calls \in 0 .. 2
        BY <1>1, <1>2, <1>7 DEF Answer, Waits, CallsAt
    <2>2. session \in Row /\ EndsWith(session.events, <<t, "message">>)
        BY <1>1, <2>1 DEF Waits, Working, TurnState, Tells
    <2>3. CallOf(t, AppendOf(t, session, "answer"))
        BY <1>1, <2>1, <2>2, CallsOfTurns
    <2>4. Send(t, session, "answering", AppendOf(t, session, "answer"))
        BY <1>7 DEF Answer
    <2>. HIDE DEF session
    <2>. QED  BY <1>4, <2>1, <2>2, <2>3, <2>4, SendKeepsStory DEF Calling, Working, KindOf
<1>8. CASE BeginDeletion(t)
    <2>1. turn[t].pc = "idle" /\ UNCHANGED storeVars /\ turn[t].calls = 0 /\ t \in Deletion
        BY <1>1, <1>2, <1>8 DEF BeginDeletion, Waits, CallsAt
    <2>2. Send(t, None, "deleting", DeleteOf(t))
        BY <1>8 DEF BeginDeletion
    <2>3. CallOf(t, DeleteOf(t))
        BY <1>1, <2>1, CallsOfTurns
    <2>4. DeleteOf(t).tool = "delete" /\ DeleteOf(t).mutation_id = NextMutation(t)
        BY DEF DeleteOf
    <2>. QED  BY <2>1, <2>2, <2>3, <2>4, SendKeepsStory DEF Calling, KindOf
<1>. QED  BY <1>5, <1>6, <1>7, <1>8 DEF Work

-----------------------------------------------------------------------------
(* Deliveries and the story                                                *)

\* An answer is recorded behind the message it answers.
LEMMA DeliverKeepsOrder ==
    ASSUME ConversationInv, StoryInv, NEW m \in inflight, Handle(m.request)
    PROVE  AnswersFollowMessages'
<1>. DEFINE req == m.request
<1>1. /\ StoreInv /\ req \in Request /\ m.turn \in Turn /\ req.scope \in Scope
    BY TurnAssumption DEF ConversationInv, InflightInv, Message, CallOf
<1>2. SUFFICES ASSUME NEW s \in Scope, NEW t \in Turn, NEW j \in DOMAIN EventsOf(s)',
                      EventsOf(s)'[j].id = <<t, "answer">>
               PROVE  j > 1 /\ EventsOf(s)'[j - 1].id = <<t, "message">>
    BY DEF AnswersFollowMessages, EventsOf
<1>3. CASE sessions'[s] = sessions[s]
    BY <1>2, <1>3 DEF StoryInv, AnswersFollowMessages, EventsOf
<1>4. CASE EventsOf(s)' = <<>>
    BY <1>2, <1>4
<1>5. CASE Verdict(req) = "ACCEPTED" /\ AppendEvent(req) /\ req.scope = s
    <2>. DEFINE old == sessions[s].events
                event == req.event
    <2>1. req \in AppendRequest /\ req.tool = "append"
        BY <1>1, <1>5 DEF AppendEvent, Request, CreateRequest, DeleteRequest
    <2>2. /\ sessions[s] # None /\ sessions[s] \in Row /\ event \in Event
          /\ sessions'[s] # None
          /\ sessions'[s].events = Append(old, event)
        BY <1>1, <1>5, <2>1, Appended
    <2>3. EventsOf(s)' = Append(old, event) /\ EventsOf(s) = old /\ old \in Seq(Event)
        BY <2>2 DEF EventsOf, Row
    <2>. HIDE DEF old, event
    <2>4. /\ Len(old) \in Nat /\ j \in 1 .. Len(old) + 1
          /\ DOMAIN old = 1 .. Len(old)
          /\ Append(old, event)[Len(old) + 1] = event
          /\ \A i \in 1 .. Len(old) : Append(old, event)[i] = old[i]
        BY <1>2, <2>2, <2>3, AppendProperties
    <2>5. CASE j \in 1 .. Len(old)
        <3>1. old[j].id = <<t, "answer">>
            BY <1>2, <2>3, <2>4, <2>5
        <3>2. j > 1 /\ old[j - 1].id = <<t, "message">>
            BY <2>3, <2>4, <2>5, <3>1 DEF StoryInv, AnswersFollowMessages
        <3>3. j - 1 \in 1 .. Len(old)
            BY <2>4, <2>5, <3>2
        <3>. QED  BY <2>3, <2>4, <3>2, <3>3
    <2>6. CASE j = Len(old) + 1
        <3>1. event.id = <<t, "answer">>
            BY <1>2, <2>3, <2>4, <2>6
        <3>2. PICK u \in Turn : Made(u, req)
            <4>1. req \in Remembered
                BY DEF Remembered
            <4>. QED  BY <4>1 DEF StoryInv, CallsInv
        <3>3. t = u /\ u = m.turn
            <4>1. t = u
                BY <2>1, <3>1, <3>2 DEF Made, event
            <4>2. u = m.turn
                BY <3>2 DEF Made, CallOf, ConversationInv, InflightInv
            <4>. QED  BY <4>1, <4>2
        <3>4. ~Settled(req) /\ turn[t].session.events = old
            BY <1>5, <2>1, <3>3, AppliesToMemory DEF old
        <3>5. EndsWith(old, <<t, "message">>)
            BY <2>1, <3>1, <3>3, <3>4 DEF StoryInv, AnswersOut, event
        <3>6. Len(old) # 0
            BY <2>3, <3>5, EmptySeq DEF EndsWith
        <3>7. j > 1 /\ j - 1 = Len(old) /\ Len(old) \in 1 .. Len(old)
            BY <2>4, <2>6, <3>6
        <3>. QED  BY <2>3, <2>4, <3>5, <3>7 DEF EndsWith
    <2>. QED  BY <2>4, <2>5, <2>6
<1>6. CASE Verdict(req) = "ACCEPTED"
    <2>1. CASE CreateSession(req)
        <3>1. CASE req.scope = s
            <4>1. sessions'[s].events = <<>>
                BY <1>1, <2>1, <3>1 DEF CreateSession, StoreInv, TypeOK
            <4>. QED  BY <1>4, <4>1 DEF EventsOf
        <3>2. CASE req.scope # s
            BY <1>1, <1>3, <2>1, <3>2 DEF CreateSession, StoreInv, TypeOK
        <3>. QED  BY <3>1, <3>2
    <2>2. CASE AppendEvent(req)
        <3>1. CASE req.scope # s
            BY <1>1, <1>3, <2>2, <3>1 DEF AppendEvent, StoreInv, TypeOK
        <3>. QED  BY <1>5, <1>6, <2>2, <3>1
    <2>3. CASE DeleteSession(req)
        <3>1. CASE req.scope = s
            BY <1>1, <1>4, <2>3, <3>1 DEF DeleteSession, StoreInv, TypeOK, EventsOf
        <3>2. CASE req.scope # s
            BY <1>1, <1>3, <2>3, <3>2 DEF DeleteSession, StoreInv, TypeOK
        <3>. QED  BY <3>1, <3>2
    <2>. QED  BY <1>6, <2>1, <2>2, <2>3 DEF Handle
<1>7. CASE Verdict(req) # "ACCEPTED"
    BY <1>3, <1>7 DEF Handle, storeVars
<1>. QED  BY <1>6, <1>7

\* What is refused is neither on record nor applicable.
LEMMA RefusedIsHopeless ==
    ASSUME ConversationInv, StoryInv, NEW m \in inflight, Handle(m.request),
           Reply(m.request) = None, Awaited(m), ScopeOf[m.turn] \notin tombstones
    PROVE  /\ \A k \in DOMAIN receipts : receipts[k].request.mutation_id # m.request.mutation_id
           /\ Hopeless(m.request)
<1>. DEFINE t == m.turn
            req == m.request
            row == sessions[req.scope]
<1>1. /\ StoreInv /\ req \in Request /\ t \in Turn /\ CallOf(t, req)
      /\ req.scope = ScopeOf[t] /\ req.scope \in Scope
      /\ turn \in [Turn -> TurnState] /\ Waits(t) /\ Knows(t)
    BY TurnAssumption DEF ConversationInv, InflightInv, Message, CallOf, TurnsInv
<1>2. turn[t].pc \in Calling /\ turn[t].request = req
    BY <1>1, RequestAssumption DEF Awaited, Waits
<1>3. Verdict(req) \notin {"ACCEPTED", "REPLAYED"}
    BY <1>1, RefusedVerdict
<1>4. ASSUME NEW k \in DOMAIN receipts, receipts[k].request.mutation_id = req.mutation_id
      PROVE  FALSE
    <2>1. receipts[k].request = req
        BY <1>4 DEF StoryInv, CallsInv, Remembered
    <2>2. k = KeyOf(req)
        BY <2>1 DEF ConversationInv, ReceiptsOfTurns
    <2>. QED  BY <1>3, <2>1, <2>2 DEF Verdict, Receipted
<1>5. ~Receipted(req)
    <2> SUFFICES ASSUME KeyOf(req) \in DOMAIN receipts PROVE FALSE
        BY DEF Receipted
    <2>1. KeyOf(receipts[KeyOf(req)].request) = KeyOf(req)
        BY DEF ConversationInv, ReceiptsOfTurns
    <2>2. receipts[KeyOf(req)].request.mutation_id = req.mutation_id
        BY <2>1 DEF KeyOf
    <2>. QED  BY <1>4, <2>2
<1>6. CASE req.tool = "create"
    BY <1>1, <1>3, <1>4, <1>5, <1>6 DEF Verdict, Taken, Hopeless
<1>7. CASE req.tool = "append"
    <2>1. /\ turn[t].session # None
          /\ req.expected_version = turn[t].session.version
        BY <1>1, <1>2, <1>7 DEF Waits, ToolOf, Calling
    <2>2. SeenIn(turn[t].session, row)
        BY <1>1, <2>1 DEF Knows
    <2>3. row # None /\ row \in Row /\ turn[t].session \in Row
        BY <1>1, <2>1, <2>2 DEF SeenIn, StoreInv, TypeOK, TurnState
    <2>4. row.version \in Nat /\ turn[t].session.version \in Nat
        BY <2>3 DEF Row
    <2>5. req.event.id \in EventIds(row) \/ row.version # req.expected_version
        BY <1>3, <1>5, <1>7, <2>3 DEF Verdict, UpToDate
    <2>6. row.version >= req.expected_version
        BY <2>1, <2>2, <2>4 DEF SeenIn
    <2>7. req.expected_version \in Nat
        BY <2>1, <2>4
    <2>8. row.version > req.expected_version \/ req.event.id \in EventIds(row)
        <3>. HIDE DEF row
        <3>. QED  BY <2>4, <2>5, <2>6, <2>7
    <2>. QED  BY <1>4, <1>7, <2>3, <2>8 DEF Hopeless
<1>8. CASE req.tool = "delete"
    BY <1>3, <1>5, <1>8 DEF Verdict
<1>. QED  BY <1>1, <1>4, <1>6, <1>7, <1>8
          DEF Request, CreateRequest, AppendRequest, DeleteRequest

\* Handling a call keeps the story, and so does hearing of its outcome.
LEMMA DeliverKeepsStory ==
    ASSUME ConversationInv, StoryInv, NEW m \in inflight, Deliver(m)
    PROVE  StoryInv'
<1>. DEFINE t == m.turn
            req == m.request
            reply == Reply(m.request)
<1>1. /\ StoreInv /\ ReceiptsOfTurns /\ turn \in [Turn -> TurnState]
      /\ t \in Turn /\ CallOf(t, req) /\ req \in Request
      /\ Waits(t) /\ Tells(t)
    BY DEF ConversationInv, TurnsInv, InflightInv, Message, CallOf, StoryInv
<1>2. Handle(req) /\ inflight' = inflight \ {m}
    BY DEF Deliver
<1>3. [Next]_storeVars /\ StoreInv' /\ tombstones \subseteq tombstones'
    BY <1>1, <1>2, HandleIsStep, NextInv
    DEF Next, CreateSession, AppendEvent, DeleteSession, storeVars
<1>4. /\ \A u \in Turn \ {t} : turn'[u] = turn[u]
      /\ turn'[t].calls = turn[t].calls
      /\ turn'[t].request \in {None, turn[t].request}
    BY <1>1 DEF Deliver, Fails, TurnState
<1>5. CallsInv'
    <2>1. ASSUME NEW k \in DOMAIN receipts' PROVE receipts'[k].request \in Remembered
        BY <1>1, <1>2, NewReceipt DEF Remembered
    <2>2. ASSUME NEW u \in Turn, turn'[u].request # None
          PROVE  turn'[u].request \in Remembered
        BY <1>4, <2>2 DEF Remembered
    <2>3. \A n \in inflight' : n.request \in Remembered
        BY <1>2 DEF Remembered
    <2>4. Remembered' \subseteq Remembered
        BY <2>1, <2>2, <2>3 DEF Remembered
    <2>. QED  BY <1>4, <2>4, CallsStay DEF StoryInv
<1>6. RepliesEndWith'
    BY <1>1, <1>3, RepliesStay DEF StoryInv
<1>7. AnswersFollowMessages'
    BY <1>2, DeliverKeepsOrder
<1>8. \A n \in inflight : Settled(n.request) => Settled(n.request)'
    BY <1>1, <1>3, SettledStays DEF ConversationInv, InflightInv, Message
<1>9. ASSUME NEW n \in inflight, turn'[n.turn].session = turn[n.turn].session,
             n.request.tool = "append", n.request.event.id = <<n.turn, "answer">>
      PROVE  \/ Settled(n.request)'
             \/ EndsWith(turn'[n.turn].session.events, <<n.turn, "message">>)
    BY <1>8, <1>9 DEF StoryInv, AnswersOut
<1>10. ASSUME NEW u \in Turn, turn'[u].pc = "refused", turn'[u] = turn[u],
              ScopeOf[u] \notin tombstones'
       PROVE  /\ \A k \in DOMAIN receipts' :
                     receipts'[k].request.mutation_id # <<u, turn[u].calls>>
              /\ \A n \in inflight' : n.request.mutation_id = <<u, turn[u].calls>> =>
                     Hopeless(n.request)'
    <2>1. /\ \A k \in DOMAIN receipts : receipts[k].request.mutation_id # <<u, turn[u].calls>>
          /\ \A n \in inflight : n.request.mutation_id = <<u, turn[u].calls>> =>
                 Hopeless(n.request)
        BY <1>3, <1>10 DEF StoryInv, RefusalsStand
    <2>2. ASSUME req.mutation_id = <<u, turn[u].calls>> PROVE Verdict(req) # "ACCEPTED"
        <3>1. u = t
            BY <1>1, <2>2 DEF CallOf
        <3>2. req.scope \notin tombstones
            BY <1>1, <1>3, <1>10, <3>1 DEF CallOf
        <3>. QED  BY <1>1, <2>1, <2>2, <3>2, HopelessIsRefused
    <2>3. \A k \in DOMAIN receipts' : receipts'[k].request.mutation_id # <<u, turn[u].calls>>
        BY <1>1, <1>2, <2>1, <2>2, NewReceipt
    <2>4. \A n \in inflight : Hopeless(n.request) => Hopeless(n.request)'
        BY <1>1, <1>3, HopelessStays DEF ConversationInv, InflightInv, CallOf
    <2>. QED  BY <1>2, <2>1, <2>3, <2>4
<1>11. ASSUME Tells(t)',
              \A n \in inflight :
                  n.turn = t /\ n.request.tool = "append" /\ n.request.event.id = <<t, "answer">> =>
                      \/ Settled(n.request)'
                      \/ EndsWith(turn'[t].session.events, <<t, "message">>),
              turn'[t].pc = "refused" /\ ScopeOf[t] \notin tombstones' =>
                  /\ \A k \in DOMAIN receipts' :
                         receipts'[k].request.mutation_id # <<t, turn'[t].calls>>
                  /\ \A n \in inflight' : n.request.mutation_id = <<t, turn'[t].calls>> =>
                         Hopeless(n.request)'
       PROVE  StoryInv'
    <2>1. ASSUME NEW u \in Turn PROVE Tells(u)'
        <3>1. CASE u # t
            BY <1>4, <3>1 DEF StoryInv, Tells, EndsWith
        <3>. QED  BY <1>11, <3>1
    <2>2. AnswersOut'
        <3> SUFFICES ASSUME NEW n \in inflight', n.request.tool = "append",
                            n.request.event.id = <<n.turn, "answer">>
                     PROVE  \/ Settled(n.request)'
                            \/ EndsWith(turn'[n.turn].session.events, <<n.turn, "message">>)
            BY DEF AnswersOut, EndsWith
        <3>1. n \in inflight /\ n.turn \in Turn
            BY <1>2 DEF ConversationInv, InflightInv, Message
        <3>. QED  BY <1>4, <1>9, <1>11, <3>1
    <2>3. RefusalsStand'
        <3> SUFFICES ASSUME NEW u \in Turn, turn'[u].pc = "refused",
                            ScopeOf[u] \notin tombstones'
                     PROVE  /\ \A k \in DOMAIN receipts' :
                                   receipts'[k].request.mutation_id # <<u, turn'[u].calls>>
                            /\ \A n \in inflight' :
                                   n.request.mutation_id = <<u, turn'[u].calls>> =>
                                       Hopeless(n.request)'
            BY DEF RefusalsStand, Hopeless, EventIds
        <3>1. CASE u = t
            BY <1>11, <3>1
        <3>2. CASE u # t
            <4>1. turn'[u] = turn[u]
                BY <1>4, <3>2
            <4>. QED  BY <1>10, <4>1
        <3>. QED  BY <3>1, <3>2
    <2>. QED  BY <1>5, <1>6, <1>7, <2>1, <2>2, <2>3 DEF StoryInv
<1>12. CASE ~Awaited(m)
    <2>1. turn' = turn
        BY <1>12 DEF Deliver
    <2>2. Tells(t)'
        BY <1>1, <2>1 DEF Tells, EndsWith
    <2>. QED  BY <1>1, <1>9, <1>10, <1>11, <2>1, <2>2
<1>13. CASE Awaited(m)
    <2>1. turn[t].pc \in Calling /\ turn[t].request = req
        BY <1>1, <1>13, RequestAssumption DEF Awaited, Waits
    <2>2. CASE reply = None
        <3>1. Fails(t, "refused")
            BY <1>13, <2>2 DEF Deliver
        <3>2. /\ turn'[t].pc = "refused" /\ turn'[t].request = None
              /\ turn'[t].session = turn[t].session
            BY <1>1, <3>1 DEF Fails, TurnState
        <3>3. Tells(t)'
            BY <3>2 DEF Tells, Calling, KindOf
        <3>4. ASSUME ScopeOf[t] \notin tombstones'
              PROVE  /\ \A k \in DOMAIN receipts' :
                            receipts'[k].request.mutation_id # <<t, turn'[t].calls>>
                     /\ \A n \in inflight' : n.request.mutation_id = <<t, turn'[t].calls>> =>
                            Hopeless(n.request)'
            <4>1. req.mutation_id = <<t, turn'[t].calls>>
                BY <1>1, <1>4, <2>1 DEF Tells
            <4>2. /\ \A k \in DOMAIN receipts : receipts[k].request.mutation_id # req.mutation_id
                  /\ Hopeless(req)
                BY <1>2, <1>3, <1>13, <2>2, <3>4, RefusedIsHopeless
            <4>3. Verdict(req) # "ACCEPTED"
                BY <1>1, <1>2, <2>2, RefusedVerdict
            <4>4. receipts' = receipts
                BY <1>2, <4>3 DEF Handle, storeVars
            <4>5. Hopeless(req)'
                BY <1>1, <1>3, <4>2, HopelessStays
            <4>6. \A n \in inflight : n.request.mutation_id = req.mutation_id => n.request = req
                BY DEF StoryInv, CallsInv, Remembered
            <4>7. ASSUME NEW n \in inflight', n.request.mutation_id = <<t, turn'[t].calls>>
                  PROVE  Hopeless(n.request)'
                <5>1. n.request = req
                    BY <1>2, <4>1, <4>6, <4>7
                <5>. QED  BY <4>5, <5>1
            <4>. QED  BY <4>1, <4>2, <4>4, <4>7
        <3>5. ASSUME NEW n \in inflight, n.turn = t, n.request.tool = "append",
                     n.request.event.id = <<t, "answer">>
              PROVE  \/ Settled(n.request)'
                     \/ EndsWith(turn'[t].session.events, <<t, "message">>)
            BY <1>9, <3>2, <3>5
        <3>. QED  BY <1>11, <3>3, <3>4, <3>5
    <2>3. CASE reply # None
        <3>. DEFINE session == IF reply = Deleted THEN None ELSE reply
                    pc == Resume[turn[t].pc]
        <3>1. turn' = [turn EXCEPT ![t].pc = pc, ![t].request = None, ![t].session = session]
            BY <1>13, <2>3 DEF Deliver
        <3>2. /\ turn'[t].pc = pc /\ turn'[t].session = session
            <4>. HIDE DEF pc, session
            <4>. QED  BY <1>1, <3>1 DEF TurnState
        <3>3. pc \in {"loaded", "thinking", "done"}
            BY <2>1 DEF Resume, Calling
        <3>4. /\ Settled(req)'
              /\ reply = Deleted <=> req.tool = "delete"
            BY <1>1, <1>2, <2>3, ReplyIsSeen
        <3>5. req.tool = "append" => EndsWith(reply.events, req.event.id)
            <4>1. /\ KeyOf(req) \in DOMAIN receipts'
                  /\ receipts'[KeyOf(req)] = [request |-> req, response |-> reply]
                BY <1>1, <1>2, <2>3, ReplyIsReceipt
            <4>2. receipts'[KeyOf(req)].request = req /\ receipts'[KeyOf(req)].response = reply
                BY <4>1
            <4>. HIDE DEF req, reply
            <4>. QED  BY <1>6, <4>1, <4>2 DEF RepliesEndWith, EndsWith
        <3>6. ASSUME pc = "thinking" \/ (pc = "done" /\ t \notin Deletion)
              PROVE  /\ session # None
                     /\ EndsWith(session.events,
                                 <<t, IF pc = "done" THEN "answer" ELSE "message">>)
            <4>1. turn[t].pc \in {"asking", "answering"}
                BY <1>1, <2>1, <3>6 DEF Resume, Calling, Tells
            <4>2. req.tool = "append" /\ req.event.id = <<t, KindOf[turn[t].pc]>>
                BY <1>1, <2>1, <4>1 DEF Waits, ToolOf, Tells, KindOf
            <4>3. session = reply
                BY <3>4, <4>2
            <4>4. KindOf[turn[t].pc] = IF pc = "done" THEN "answer" ELSE "message"
                BY <4>1 DEF KindOf, Resume
            <4>. QED  BY <2>3, <3>5, <4>2, <4>3, <4>4
        <3>7. Tells(t)'
            BY <3>2, <3>3, <3>6 DEF Tells, Calling, KindOf, EndsWith
        <3>8. ASSUME NEW n \in inflight, n.turn = t PROVE Settled(n.request)'
            <4>1. Settled(n.request) \/ n.request = req
                BY <2>1, <3>8 DEF ConversationInv, InflightInv, Pending, Calling
            <4>. QED  BY <1>8, <3>4, <4>1
        <3>. QED  BY <1>11, <3>2, <3>3, <3>7, <3>8
    <2>. QED  BY <2>2, <2>3
<1>. QED  BY <1>12, <1>13
-----------------------------------------------------------------------------
(* Theorems                                                                *)

\* At first nobody has called.
LEMMA ConversationInitInv == ConversationInit => ConversationInv
<1> SUFFICES ASSUME ConversationInit PROVE ConversationInv
    OBVIOUS
<1>1. StoreInv /\ ReceiptsOfTurns
    BY InitInv DEF ConversationInit, Init, ReceiptsOfTurns
<1>2. \A t \in Turn : turn[t] \in TurnState /\ turn[t].pc = "idle"
                       /\ turn[t].session = None /\ turn[t].request = None /\ turn[t].calls = 0
    BY DEF ConversationInit, TurnState
<1>3. \A t \in Turn : Waits(t) /\ Knows(t)
    BY <1>2 DEF Waits, Knows, CallsAt, Calling, Working
<1>4. turn \in [Turn -> TurnState] /\ faults \in 0 .. MaxFaults
    BY <1>2, FaultAssumption DEF ConversationInit
<1>. QED  BY <1>1, <1>3, <1>4 DEF ConversationInit, ConversationInv, TurnsInv, InflightInv

\* Every step keeps the invariant.
LEMMA ConversationNextInv ==
    ConversationInv /\ [ConversationNext]_conversationVars => ConversationInv'
<1> SUFFICES ASSUME ConversationInv, [ConversationNext]_conversationVars
             PROVE  ConversationInv'
    OBVIOUS
<1>1. ASSUME NEW t \in Turn, Stop(t) PROVE ConversationInv'
    BY <1>1, FailKeepsInv, FaultAssumption DEF Stop, Fault, ConversationInv, TurnsInv
<1>2. CASE UNCHANGED conversationVars
    <2>1. StoreInv' /\ ReceiptsOfTurns' /\ \A r : Settled(r) => Settled(r)'
        BY <1>2, StoreUnchanged DEF conversationVars
    <2>2. TurnsInv'
        BY <1>2 DEF conversationVars, storeVars, ConversationInv, TurnsInv, Waits, Knows,
                    SeenIn, CallOf
    <2>3. InflightInv'
        BY <1>2, <2>1 DEF conversationVars, ConversationInv, InflightInv, Pending, CallOf, Message
    <2>. QED  BY <2>1, <2>2, <2>3 DEF ConversationInv
<1>. QED  BY <1>1, <1>2, WorkKeepsInv, RetryKeepsInv, DeliverKeepsInv DEF ConversationNext

\* What turns do to the store, its tools do.
LEMMA ConversationStep ==
    ConversationInv /\ [ConversationNext]_conversationVars => [Next]_storeVars
<1> SUFFICES ASSUME ConversationInv, [ConversationNext]_conversationVars PROVE [Next]_storeVars
    OBVIOUS
<1>1. ASSUME NEW m \in inflight, Deliver(m) PROVE [Next]_storeVars
    BY <1>1, HandleIsStep DEF Deliver, ConversationInv, InflightInv, CallOf
<1>2. ASSUME NEW t \in Turn, Work(t) \/ Retry(t) \/ Stop(t) PROVE UNCHANGED storeVars
    BY <1>2 DEF Work, Begin, Ask, Answer, BeginDeletion, Retry, Stop
<1>. QED  BY <1>1, <1>2 DEF ConversationNext, conversationVars

\* The types hold for every number of turns, users and conversations.
THEOREM ConversationTypes == ConversationSpec => []ConversationTypeOK
<1>1. ConversationInv => ConversationTypeOK
    BY DEF ConversationInv, StoreInv, TurnsInv, InflightInv, ConversationTypeOK
<1>. QED  BY <1>1, ConversationInitInv, ConversationNextInv, PTL DEF ConversationSpec

\* Turns over an unreliable network use the store as its tools allow
\* (persistence.py:39-47, mcp.py:40-49).
THEOREM UsesTheSessions == ConversationSpec => Spec
<1>1. ConversationInit => Init
    BY DEF ConversationInit
<1>. QED  BY <1>1, ConversationInitInv, ConversationNextInv, ConversationStep, PTL
          DEF ConversationSpec, Spec

\* Whatever was under way when a conversation was deleted, nothing of it is
\* left or comes back (service.py:335-342).
THEOREM DeletedForGood == ConversationSpec => []RetiredLeavesNothing
BY UsesTheSessions, DeletionIsComplete, PTL

\* A message or an answer is only appended to the conversation that its turn
\* has in memory, however many turns overlap and calls repeat
\* (persistence.py:112-137, service.py:345).
THEOREM NobodyAnswersUnseen == ConversationSpec => AppendsToWhatWasSeen
<1>. DEFINE Seen == \A m \in inflight :
                        LET s == m.request.scope
                        IN  m \notin inflight' /\ Len(EventsOf(s)') > Len(EventsOf(s)) =>
                                EventsOf(s) = turn[m.turn].session.events
<1>1. ConversationInv /\ [ConversationNext]_conversationVars => [Seen]_conversationVars
    <2> SUFFICES ASSUME ConversationInv, ConversationNext, NEW m \in inflight,
                        m \notin inflight',
                        Len(EventsOf(m.request.scope)') > Len(EventsOf(m.request.scope))
                 PROVE  EventsOf(m.request.scope) = turn[m.turn].session.events
        OBVIOUS
    <2>. DEFINE t == m.turn
                req == m.request
    <2>1. Deliver(m)
        BY DEF ConversationNext, Work, Begin, Ask, Answer, BeginDeletion, Send, Retry, Stop, Deliver
    <2>2. t \in Turn /\ req \in Request /\ req.scope \in Scope
        BY TurnAssumption DEF ConversationInv, InflightInv, Message, CallOf
    <2>3. StoreInv
        BY DEF ConversationInv
    <2>4. Verdict(req) = "ACCEPTED"
        BY <2>1 DEF Deliver, Handle, storeVars, EventsOf
    <2>5. AppendEvent(req)
        <3>1. CASE CreateSession(req)
            <4>1. EventsOf(req.scope)' = <<>> /\ EventsOf(req.scope) = <<>>
                BY <2>2, <2>3, <2>4, <3>1
                DEF CreateSession, EventsOf, Verdict, Taken, StoreInv, TypeOK
            <4>. QED  BY <4>1
        <3>2. CASE DeleteSession(req)
            <4>1. EventsOf(req.scope)' = <<>>
                BY <2>2, <2>3, <3>2 DEF DeleteSession, EventsOf, StoreInv, TypeOK
            <4>2. Len(EventsOf(req.scope)) \in Nat
                BY <2>2, <2>3 DEF EventsOf, StoreInv, TypeOK, Row
            <4>. QED  BY <4>1, <4>2
        <3>. QED  BY <2>1, <2>4, <3>1, <3>2 DEF Deliver, Handle
    <2>6. req.tool = "append"
        BY <2>5 DEF AppendEvent
    <2>. QED  BY <2>4, <2>6, AppliesToMemory DEF EventsOf
<1>. QED  BY <1>1, ConversationInitInv, ConversationNextInv, PTL
          DEF ConversationSpec, AppendsToWhatWasSeen

-----------------------------------------------------------------------------
(* Theorems about the story                                                *)

\* At first there is nothing to tell.
LEMMA StoryInitInv == ConversationInit => StoryInv
<1> SUFFICES ASSUME ConversationInit PROVE StoryInv
    OBVIOUS
<1>1. \A t \in Turn : turn[t].pc = "idle" /\ turn[t].request = None
    BY DEF ConversationInit
<1>2. DOMAIN receipts = {} /\ inflight = {}
    BY DEF ConversationInit, Init
<1>3. Remembered = {}
    BY <1>1, <1>2 DEF Remembered
<1>4. \A s \in Scope : EventsOf(s) = <<>>
    BY DEF ConversationInit, Init, EventsOf
<1>. QED  BY <1>1, <1>2, <1>3, <1>4
          DEF StoryInv, CallsInv, RepliesEndWith, Tells, AnswersOut, AnswersFollowMessages,
              RefusalsStand, Calling, KindOf

\* Every step keeps the story.
LEMMA StoryNextInv ==
    ConversationInv /\ StoryInv /\ [ConversationNext]_conversationVars => StoryInv'
<1> SUFFICES ASSUME ConversationInv, StoryInv, [ConversationNext]_conversationVars
             PROVE  StoryInv'
    OBVIOUS
<1>1. CASE UNCHANGED conversationVars
    <2>1. CallsInv'
        <3>1. Remembered' = Remembered
            BY <1>1 DEF conversationVars, storeVars, Remembered
        <3>. QED  BY <1>1, <3>1, CallsStay DEF conversationVars, StoryInv
    <2>2. RepliesEndWith'
        BY <1>1 DEF conversationVars, storeVars, StoryInv, RepliesEndWith, EndsWith
    <2>3. AnswersFollowMessages'
        BY <1>1 DEF conversationVars, storeVars, StoryInv, AnswersFollowMessages, EventsOf
    <2>4. (\A t \in Turn : Tells(t)') /\ AnswersOut'
        BY <1>1 DEF conversationVars, storeVars, StoryInv, Tells, EndsWith, AnswersOut, Settled,
                    Receipted
    <2>5. RefusalsStand'
        BY <1>1 DEF conversationVars, storeVars, StoryInv, RefusalsStand, Hopeless, EventIds
    <2>. QED  BY <2>1, <2>2, <2>3, <2>4, <2>5 DEF StoryInv
<1>2. ASSUME NEW t \in Turn, Stop(t) PROVE StoryInv'
    BY <1>2, FailKeepsStory DEF Stop
<1>. QED  BY <1>1, <1>2, WorkKeepsStory, RetryKeepsStory, DeliverKeepsStory DEF ConversationNext

\* In every conversation a turn's answer stands directly behind its message,
\* however many turns overlap (conversation.py:66-85, persistence.py:112-137).
THEOREM TurnsStayTogether == ConversationSpec => []AnswersFollowMessages
<1>1. StoryInv => AnswersFollowMessages
    BY DEF StoryInv
<1>. QED  BY <1>1, ConversationInitInv, ConversationNextInv, StoryInitInv, StoryNextInv, PTL
          DEF ConversationSpec

\* An answered turn's answer is on record, whatever was lost or repeated on
\* the way (persistence.py:39-47, mcp.py:40-49).
THEOREM AnswersAreOnRecord == ConversationSpec => []AnsweredIsRecorded
<1>1. ConversationInv /\ StoryInv => AnsweredIsRecorded
    <2> SUFFICES ASSUME ConversationInv, StoryInv, NEW t \in Turn \ Deletion,
                        turn[t].pc = "done", ScopeOf[t] \notin tombstones
                 PROVE  \E i \in DOMAIN EventsOf(ScopeOf[t]) :
                            EventsOf(ScopeOf[t])[i].id = <<t, "answer">>
        BY DEF AnsweredIsRecorded
    <2>. DEFINE row == sessions[ScopeOf[t]]
                seen == turn[t].session.events
    <2>1. turn[t].session # None /\ EndsWith(seen, <<t, "answer">>)
        BY DEF StoryInv, Tells
    <2>2. SeenIn(turn[t].session, row)
        BY <2>1 DEF ConversationInv, TurnsInv, Knows
    <2>3. turn[t].session \in Row /\ row \in Row /\ row # None
        BY <2>1, <2>2, TurnAssumption
        DEF ConversationInv, StoreInv, TypeOK, TurnsInv, TurnState, SeenIn
    <2>4. /\ seen \in Seq(Event) /\ row.events \in Seq(Event)
          /\ seen = SubSeq(row.events, 1, Len(seen)) /\ EventsOf(ScopeOf[t]) = row.events
        BY <2>2, <2>3 DEF SeenIn, EventsOf, Row
    <2>5. Len(seen) <= Len(row.events)
        BY <2>2, <2>3, TurnAssumption
        DEF SeenIn, Row, ConversationInv, StoreInv, RevisionCounts
    <2>. HIDE DEF row, seen
    <2>6. Len(seen) \in DOMAIN row.events /\ row.events[Len(seen)] = seen[Len(seen)]
        <3>1. Len(seen) \in Nat /\ Len(seen) # 0 /\ Len(row.events) \in Nat
            BY <2>1, <2>4, EmptySeq DEF EndsWith
        <3>2. Len(seen) \in 1 .. Len(row.events)
            BY <3>1, <2>5
        <3>. QED  BY <2>4, <3>1, <3>2
    <2>. QED  BY <2>1, <2>4, <2>6 DEF EndsWith
<1>. QED  BY <1>1, ConversationInitInv, ConversationNextInv, StoryInitInv, StoryNextInv, PTL
          DEF ConversationSpec

\* A refused turn's call has not been applied by another delivery of it, and
\* no copy still under way will be (service.py:285-333, mcp.py:40-49).
THEOREM RefusalsAreFinal == ConversationSpec => []RefusedIsNotApplied
<1>1. ConversationInv /\ StoryInv => RefusedIsNotApplied
    <2> SUFFICES ASSUME ConversationInv, StoryInv, NEW t \in Turn, turn[t].pc = "refused",
                        ScopeOf[t] \notin tombstones, NEW k \in DOMAIN receipts,
                        k[3] = <<t, turn[t].calls>>
                 PROVE  FALSE
        BY DEF RefusedIsNotApplied
    <2>1. k = KeyOf(receipts[k].request)
        BY DEF ConversationInv, ReceiptsOfTurns
    <2>2. receipts[k].request.mutation_id = k[3]
        BY <2>1 DEF KeyOf
    <2>. QED  BY <2>2 DEF StoryInv, RefusalsStand
<1>. QED  BY <1>1, ConversationInitInv, ConversationNextInv, StoryInitInv, StoryNextInv, PTL
          DEF ConversationSpec
=============================================================================
