------------------------- MODULE SessionStoreProofs -------------------------
(***************************************************************************)
(* Proofs about SessionStore, for all sets of sessions, users, events and  *)
(* claims, and however many calls there are.                               *)
(***************************************************************************)
EXTENDS SessionStore, SequenceTheorems, TLAPS

-----------------------------------------------------------------------------
(* Prefixes                                                                *)

\* Appending leaves the prefixes of a sequence alone.
LEMMA AppendKeepsPrefix ==
    ASSUME NEW S, NEW q \in Seq(S), NEW e \in S, NEW n \in 0 .. Len(q)
    PROVE  SubSeq(Append(q, e), 1, n) = SubSeq(q, 1, n)
<1>1. Append(q, e) = q \o <<e>> /\ <<e>> \in Seq(S)
    BY AppendIsConcat
<1>. QED  BY <1>1, SubSeqOfConcat1

-----------------------------------------------------------------------------
(* The inductive invariant                                                 *)

\* The revision of a session counts its events.
RevisionCounts ==
    \A s \in Scope : sessions[s] # None => sessions[s].version = Len(sessions[s].events) + 1

StoreInv == /\ TypeOK
            /\ RevisionCounts
            /\ \A s \in tombstones : sessions[s] = None
            /\ RepliesArePrefixes

\* A receipt is stored under its own key.
LEMMA AcknowledgeType ==
    ASSUME NEW req \in Request, NEW response \in Row \cup {Deleted}, NEW kept,
           kept \subseteq DOMAIN receipts,
           DOMAIN receipts \subseteq Key, \A k \in DOMAIN receipts : receipts[k] \in Receipt,
           Acknowledge(req, response, kept)
    PROVE  /\ DOMAIN receipts' = kept \cup {KeyOf(req)}
           /\ DOMAIN receipts' \subseteq Key
           /\ \A k \in DOMAIN receipts' : receipts'[k] \in Receipt
           /\ receipts'[KeyOf(req)] = [request |-> req, response |-> response]
           /\ \A k \in kept : k # KeyOf(req) => receipts'[k] = receipts[k]
<1>1. KeyOf(req) \in Key
    BY DEF KeyOf, Key, User, Request, CreateRequest, AppendRequest, DeleteRequest
<1>2. [request |-> req, response |-> response] \in Receipt
    BY DEF Receipt
<1>. QED  BY <1>1, <1>2 DEF Acknowledge

\* Creating a session keeps the invariant: no reply of the session is on
\* record before there is a session.
LEMMA CreateKeepsInv ==
    ASSUME StoreInv, NEW req \in CreateRequest, CreateSession(req)
    PROVE  StoreInv'
<1>. DEFINE row == [version |-> 1, claims |-> req.claims, events |-> <<>>]
            s == req.scope
<1>1. s \in Scope /\ req \in Request /\ req.tool = "create"
    BY DEF CreateRequest, Request
<1>2. row \in Row
    BY DEF Row, CreateRequest
<1>3. sessions[s] = None /\ s \notin tombstones
    BY <1>1 DEF CreateSession, Verdict, Taken
<1>4. sessions' = [sessions EXCEPT ![s] = row] /\ tombstones' = tombstones
    BY DEF CreateSession
<1>5. sessions' \in [Scope -> Row \cup {None}] /\ sessions'[s] = row
    BY <1>1, <1>2, <1>4 DEF StoreInv, TypeOK
<1>6. Acknowledge(req, row, DOMAIN receipts)
    BY <1>5 DEF CreateSession
<1>7. /\ DOMAIN receipts' = DOMAIN receipts \cup {KeyOf(req)}
      /\ DOMAIN receipts' \subseteq Key
      /\ \A k \in DOMAIN receipts' : receipts'[k] \in Receipt
      /\ receipts'[KeyOf(req)] = [request |-> req, response |-> row]
      /\ \A k \in DOMAIN receipts : k # KeyOf(req) => receipts'[k] = receipts[k]
    <2>1. row \in Row \cup {Deleted} /\ DOMAIN receipts \subseteq DOMAIN receipts
        BY <1>2
    <2>2. DOMAIN receipts \subseteq Key /\ \A k \in DOMAIN receipts : receipts[k] \in Receipt
        BY DEF StoreInv, TypeOK
    <2>. HIDE DEF row
    <2>. QED  BY <1>1, <1>6, <2>1, <2>2, AcknowledgeType
<1>8. TypeOK'
    BY <1>4, <1>5, <1>7 DEF StoreInv, TypeOK
<1>9. RevisionCounts'
    BY <1>1, <1>4, <1>5 DEF StoreInv, TypeOK, RevisionCounts
<1>10. \A t \in tombstones' : sessions'[t] = None
    BY <1>3, <1>4 DEF StoreInv, TypeOK
<1>11. RepliesArePrefixes'
    <2> SUFFICES ASSUME NEW k \in DOMAIN receipts', receipts'[k].response # Deleted
                 PROVE  LET reply == receipts'[k].response
                            now == sessions'[receipts'[k].request.scope]
                        IN  /\ now # None
                            /\ reply.version <= now.version
                            /\ reply.version = Len(reply.events) + 1
                            /\ reply.events = SubSeq(now.events, 1, Len(reply.events))
        BY DEF RepliesArePrefixes
    <2>1. CASE k = KeyOf(req)
        <3>1. receipts'[k].response = row /\ sessions'[receipts'[k].request.scope] = row
            BY <1>5, <1>7, <2>1
        <3>2. row # None
            BY <1>2, NoneAssumption
        <3>3. Len(<<>>) = 0 /\ SubSeq(<<>>, 1, 0) = <<>>
            OBVIOUS
        <3>. QED  BY <3>1, <3>2, <3>3
    <2>2. CASE k # KeyOf(req)
        <3>1. k \in DOMAIN receipts /\ receipts'[k] = receipts[k]
            BY <1>7, <2>2
        <3>2. sessions[receipts[k].request.scope] # None
            BY <3>1 DEF StoreInv, RepliesArePrefixes
        <3>3. sessions'[receipts[k].request.scope] = sessions[receipts[k].request.scope]
            BY <3>2, <1>3, <1>4, <1>1 DEF StoreInv, TypeOK
        <3>. QED  BY <3>1, <3>3 DEF StoreInv, RepliesArePrefixes
    <2>. QED  BY <2>1, <2>2
<1>. QED  BY <1>8, <1>9, <1>10, <1>11 DEF StoreInv

\* What an append does to its session and leaves of the others.
LEMMA Appended ==
    ASSUME StoreInv, NEW req \in AppendRequest, AppendEvent(req)
    PROVE  LET s == req.scope
           IN  /\ s \in Scope /\ req.event \in Event
               /\ sessions[s] \in Row /\ sessions[s] # None
               /\ req.event.id \notin EventIds(sessions[s])
               /\ sessions'[s] \in Row /\ sessions'[s] # None
               /\ sessions'[s].version = sessions[s].version + 1
               /\ sessions'[s].events = Append(sessions[s].events, req.event)
               /\ \A t \in Scope \ {s} : sessions'[t] = sessions[t]
               /\ DOMAIN sessions' = Scope
               /\ tombstones' = tombstones
<1>. DEFINE s == req.scope
            old == sessions[s]
            row == [version |-> old.version + 1,
                    claims |-> IF req.event.claims = None THEN old.claims
                                                          ELSE req.event.claims,
                    events |-> Append(old.events, req.event)]
<1>1. s \in Scope /\ req.event \in Event /\ req.tool = "append"
    BY DEF AppendRequest
<1>2. old # None /\ req.event.id \notin EventIds(old)
    BY <1>1 DEF AppendEvent, Verdict
<1>3. old \in Row
    BY <1>1, <1>2 DEF StoreInv, TypeOK
<1>4. row.claims \in Claims
    BY <1>1, <1>3 DEF Event, Row
<1>5. row.version \in Nat \ {0} /\ row.events \in Seq(Event)
    BY <1>1, <1>3 DEF Row
<1>6. row \in Row /\ row # None
    <2>1. row \in Row
        BY <1>4, <1>5 DEF Row
    <2>. QED  BY <2>1, NoneAssumption
<1>7. sessions' = [sessions EXCEPT ![s] = row] /\ tombstones' = tombstones
    BY DEF AppendEvent
<1>8. /\ sessions'[s] = row
      /\ \A t \in Scope \ {s} : sessions'[t] = sessions[t]
      /\ DOMAIN sessions' = Scope
    BY <1>1, <1>7 DEF StoreInv, TypeOK
<1>. QED  BY <1>1, <1>2, <1>3, <1>6, <1>7, <1>8

\* Appending keeps it: what replies show is still a prefix.
LEMMA AppendKeepsInv ==
    ASSUME StoreInv, NEW req \in AppendRequest, AppendEvent(req)
    PROVE  StoreInv'
<1>. DEFINE s == req.scope
            old == sessions[s]
            row == sessions'[s]
<1>1. s \in Scope /\ req \in Request /\ req.event \in Event
    BY DEF AppendRequest, Request
<1>2. old # None /\ old \in Row /\ row \in Row /\ row # None
    BY Appended
<1>3. old.version \in Nat \ {0} /\ old.events \in Seq(Event)
    BY <1>2 DEF Row
<1>4. row.version = old.version + 1 /\ row.events = Append(old.events, req.event)
    BY Appended
<1>5. row.events \in Seq(Event) /\ Len(row.events) = Len(old.events) + 1
    BY <1>1, <1>3, <1>4, AppendProperties
<1>7. /\ \A t \in Scope \ {s} : sessions'[t] = sessions[t]
      /\ tombstones' = tombstones
    BY Appended
<1>8. sessions' \in [Scope -> Row \cup {None}]
    <2>1. sessions' = [sessions EXCEPT ![s] = row]
        BY <1>1 DEF AppendEvent, StoreInv, TypeOK
    <2>. QED  BY <2>1, <1>1, <1>2 DEF StoreInv, TypeOK
<1>9. Acknowledge(req, row, DOMAIN receipts)
    BY DEF AppendEvent
<1>10. /\ DOMAIN receipts' = DOMAIN receipts \cup {KeyOf(req)}
       /\ DOMAIN receipts' \subseteq Key
       /\ \A k \in DOMAIN receipts' : receipts'[k] \in Receipt
       /\ receipts'[KeyOf(req)] = [request |-> req, response |-> row]
       /\ \A k \in DOMAIN receipts : k # KeyOf(req) => receipts'[k] = receipts[k]
    <2>1. row \in Row \cup {Deleted} /\ DOMAIN receipts \subseteq DOMAIN receipts
        BY <1>2
    <2>2. DOMAIN receipts \subseteq Key /\ \A k \in DOMAIN receipts : receipts[k] \in Receipt
        BY DEF StoreInv, TypeOK
    <2>. HIDE DEF row
    <2>. QED  BY <1>1, <1>9, <2>1, <2>2, AcknowledgeType
<1>12. old.version = Len(old.events) + 1 /\ row.version = Len(row.events) + 1
    BY <1>1, <1>2, <1>3, <1>4, <1>5 DEF StoreInv, RevisionCounts
<1>13. TypeOK'
    BY <1>7, <1>8, <1>10 DEF StoreInv, TypeOK
<1>14. RevisionCounts'
    BY <1>1, <1>7, <1>12 DEF StoreInv, TypeOK, RevisionCounts
<1>15. \A t \in tombstones' : sessions'[t] = None
    BY <1>2, <1>7 DEF StoreInv, TypeOK
<1>16. RepliesArePrefixes'
    <2> SUFFICES ASSUME NEW k \in DOMAIN receipts', receipts'[k].response # Deleted
                 PROVE  LET reply == receipts'[k].response
                            now == sessions'[receipts'[k].request.scope]
                        IN  /\ now # None
                            /\ reply.version <= now.version
                            /\ reply.version = Len(reply.events) + 1
                            /\ reply.events = SubSeq(now.events, 1, Len(reply.events))
        BY DEF RepliesArePrefixes
    <2>1. CASE k = KeyOf(req)
        <3>1. receipts'[k].response = row /\ sessions'[receipts'[k].request.scope] = row
            BY <1>10, <2>1
        <3>2. row.events = SubSeq(row.events, 1, Len(row.events)) /\ row.version \in Nat
            BY <1>3, <1>4, <1>5, SubSeqFull
        <3>. QED  BY <3>1, <3>2, <1>2, <1>12
    <2>2. CASE k # KeyOf(req)
        <3>. DEFINE reply == receipts[k].response
                    t == receipts[k].request.scope
        <3>1. k \in DOMAIN receipts /\ receipts'[k] = receipts[k]
            BY <1>10, <2>2
        <3>2. /\ sessions[t] # None
              /\ reply.version <= sessions[t].version
              /\ reply.version = Len(reply.events) + 1
              /\ reply.events = SubSeq(sessions[t].events, 1, Len(reply.events))
            BY <3>1 DEF StoreInv, RepliesArePrefixes
        <3>3. reply \in Row /\ reply.version \in Nat /\ reply.events \in Seq(Event)
            BY <3>1 DEF StoreInv, TypeOK, Receipt, Row
        <3>4. CASE t # s
            <4>1. t \in Scope
                BY <3>1 DEF StoreInv, TypeOK, Receipt, Request,
                            CreateRequest, AppendRequest, DeleteRequest
            <4>. QED  BY <3>1, <3>2, <3>4, <4>1, <1>7
        <3>5. CASE t = s
            <4>1. sessions'[t] = row /\ sessions[t] = old
                BY <3>5
            <4>2. Len(reply.events) \in 0 .. Len(old.events)
                BY <3>2, <3>3, <4>1, <1>3, <1>12
            <4>3. SubSeq(row.events, 1, Len(reply.events))
                      = SubSeq(old.events, 1, Len(reply.events))
                BY <4>2, <1>1, <1>3, <1>4, AppendKeepsPrefix
            <4>4. reply.version <= row.version
                BY <3>2, <3>3, <4>1, <1>3, <1>4
            <4>. QED  BY <3>1, <3>2, <4>1, <4>3, <4>4, <1>2
        <3>. QED  BY <3>4, <3>5
    <2>. QED  BY <2>1, <2>2
<1>. QED  BY <1>13, <1>14, <1>15, <1>16 DEF StoreInv

\* Deleting keeps it, because the receipts of the session go as well.
LEMMA DeleteKeepsInv ==
    ASSUME StoreInv, NEW req \in DeleteRequest, DeleteSession(req)
    PROVE  StoreInv'
<1>. DEFINE s == req.scope
<1>1. s \in Scope /\ req \in Request
    BY DEF DeleteRequest, Request
<1>2. /\ sessions' = [sessions EXCEPT ![s] = None]
      /\ tombstones' = tombstones \cup {s}
      /\ Acknowledge(req, Deleted, Kept(s))
    BY DEF DeleteSession
<1>3. /\ DOMAIN receipts' = Kept(s) \cup {KeyOf(req)}
      /\ DOMAIN receipts' \subseteq Key
      /\ \A k \in DOMAIN receipts' : receipts'[k] \in Receipt
      /\ receipts'[KeyOf(req)] = [request |-> req, response |-> Deleted]
      /\ \A k \in Kept(s) : k # KeyOf(req) => receipts'[k] = receipts[k]
    <2>1. Kept(s) \subseteq DOMAIN receipts /\ Deleted \in Row \cup {Deleted}
        BY DEF Kept
    <2>. QED  BY <1>1, <1>2, <2>1, AcknowledgeType DEF StoreInv, TypeOK
<1>4. TypeOK'
    BY <1>1, <1>2, <1>3 DEF StoreInv, TypeOK
<1>5. RevisionCounts'
    BY <1>1, <1>2 DEF StoreInv, TypeOK, RevisionCounts
<1>6. \A t \in tombstones' : sessions'[t] = None
    BY <1>1, <1>2 DEF StoreInv, TypeOK
<1>7. RepliesArePrefixes'
    <2> SUFFICES ASSUME NEW k \in DOMAIN receipts', receipts'[k].response # Deleted
                 PROVE  LET reply == receipts'[k].response
                            now == sessions'[receipts'[k].request.scope]
                        IN  /\ now # None
                            /\ reply.version <= now.version
                            /\ reply.version = Len(reply.events) + 1
                            /\ reply.events = SubSeq(now.events, 1, Len(reply.events))
        BY DEF RepliesArePrefixes
    <2>1. k \in Kept(s) /\ receipts'[k] = receipts[k]
        BY <1>3
    <2>2. k \in DOMAIN receipts /\ receipts[k].request.scope # s
        BY <2>1 DEF Kept
    <2>3. sessions'[receipts[k].request.scope] = sessions[receipts[k].request.scope]
        BY <2>2, <1>2, <1>1 DEF StoreInv, TypeOK, RepliesArePrefixes
    <2>. QED  BY <2>1, <2>2, <2>3 DEF StoreInv, RepliesArePrefixes
<1>. QED  BY <1>4, <1>5, <1>6, <1>7 DEF StoreInv

-----------------------------------------------------------------------------
(* Theorems                                                                *)

\* At first there is nothing.
LEMMA InitInv == Init => StoreInv
BY DEF Init, StoreInv, TypeOK, RevisionCounts, RepliesArePrefixes

\* The tools keep the invariant.
LEMMA NextInv == StoreInv /\ [Next]_storeVars => StoreInv'
<1> SUFFICES ASSUME StoreInv, [Next]_storeVars PROVE StoreInv'
    OBVIOUS
<1>1. CASE Next
    BY <1>1, CreateKeepsInv, AppendKeepsInv, DeleteKeepsInv DEF Next
<1>2. CASE UNCHANGED storeVars
    BY <1>2 DEF storeVars, StoreInv, TypeOK, RevisionCounts, RepliesArePrefixes
<1>. QED  BY <1>1, <1>2

\* Nothing of a deleted session is left: a reply with its text would be the
\* prefix of a session that is gone.
LEMMA InvRetires == StoreInv => RetiredLeavesNothing
BY DEF StoreInv, RepliesArePrefixes, RetiredLeavesNothing

\* The session tables keep their shape (migrations/session-state/001).
THEOREM SessionTypes == Spec => []TypeOK
<1>1. StoreInv => TypeOK
    BY DEF StoreInv
<1>. QED  BY <1>1, InitInv, NextInv, PTL DEF Spec

\* Once a session is deleted no read and no replay shows anything of it,
\* whatever is called afterwards (service.py:335-342).
THEOREM DeletionIsComplete == Spec => []RetiredLeavesNothing
BY InitInv, NextInv, InvRetires, PTL DEF Spec

\* A replayed reply is a state the session was in, with the revision that
\* belongs to it (service.py:128-145).
THEOREM ReplaysAreHistory == Spec => []RepliesArePrefixes
<1>1. StoreInv => RepliesArePrefixes
    BY DEF StoreInv
<1>. QED  BY <1>1, InitInv, NextInv, PTL DEF Spec

-----------------------------------------------------------------------------
(* Refinement                                                              *)

\* What the tables say of each session, as the abstract log has it.
PhaseOf == [s \in Scope |-> IF s \in tombstones THEN "retired"
                            ELSE IF sessions[s] = None THEN "new" ELSE "open"]
LogOf == [s \in Scope |-> IF sessions[s] = None THEN <<>> ELSE sessions[s].events]

\* A creation opens the log.
LEMMA CreateOpens ==
    ASSUME StoreInv, NEW req \in CreateRequest, CreateSession(req)
    PROVE  Log!Open(req.scope)
<1>. DEFINE s == req.scope
            row == [version |-> 1, claims |-> req.claims, events |-> <<>>]
<1>1. s \in Scope /\ req.tool = "create" /\ row \in Row
    BY DEF CreateRequest, Row
<1>2. sessions[s] = None /\ s \notin tombstones
    BY <1>1 DEF CreateSession, Verdict, Taken
<1>3. sessions' = [sessions EXCEPT ![s] = row] /\ tombstones' = tombstones
    BY DEF CreateSession
<1>4. row # None /\ sessions'[s] = row
    BY <1>1, <1>3, NoneAssumption DEF StoreInv, TypeOK
<1>5. \A t \in Scope \ {s} : sessions'[t] = sessions[t]
    BY <1>1, <1>3 DEF StoreInv, TypeOK
<1>6. PhaseOf[s] = "new" /\ PhaseOf' = [PhaseOf EXCEPT ![s] = "open"]
    BY <1>1, <1>2, <1>3, <1>4, <1>5 DEF PhaseOf
<1>7. row.events = <<>>
    OBVIOUS
<1>8. \A t \in Scope : (IF sessions'[t] = None THEN <<>> ELSE sessions'[t].events)
                          = (IF sessions[t] = None THEN <<>> ELSE sessions[t].events)
    BY <1>2, <1>4, <1>5, <1>7
<1>9. LogOf' = LogOf
    BY <1>8 DEF LogOf
<1>. QED  BY <1>6, <1>9 DEF Log!Open, PhaseOf, LogOf

\* An append logs an event that was not there.
LEMMA AppendLogs ==
    ASSUME StoreInv, NEW req \in AppendRequest, AppendEvent(req)
    PROVE  Log!Append_(req.scope, req.event)
<1>. DEFINE s == req.scope
<1>1. /\ s \in Scope /\ sessions[s] # None /\ sessions'[s] # None
      /\ \A t \in Scope \ {s} : sessions'[t] = sessions[t]
      /\ tombstones' = tombstones
    BY Appended
<1>2. PhaseOf[s] = "open" /\ PhaseOf' = PhaseOf
    BY <1>1 DEF PhaseOf, StoreInv
<1>3. LogOf[s] = sessions[s].events
    BY <1>1 DEF LogOf
<1>4. sessions'[s].events = Append(sessions[s].events, req.event)
    BY Appended
<1>5. LogOf' = [LogOf EXCEPT ![s] = Append(@, req.event)]
    BY <1>1, <1>3, <1>4 DEF LogOf
<1>6. req.event.id \notin EventIds(sessions[s])
    BY Appended
<1>7. \A i \in DOMAIN LogOf[s] : LogOf[s][i] # req.event
    BY <1>3, <1>6 DEF EventIds
<1>. QED  BY <1>2, <1>5, <1>7 DEF Log!Append_, PhaseOf, LogOf

\* A deletion retires the session, whether or not there is one.
LEMMA DeleteRetires ==
    ASSUME StoreInv, NEW req \in DeleteRequest, DeleteSession(req)
    PROVE  Log!Retire(req.scope)
<1>. DEFINE s == req.scope
<1>1. s \in Scope
    BY DEF DeleteRequest
<1>2. sessions' = [sessions EXCEPT ![s] = None] /\ tombstones' = tombstones \cup {s}
    BY DEF DeleteSession
<1>3. sessions'[s] = None /\ \A t \in Scope \ {s} : sessions'[t] = sessions[t]
    BY <1>1, <1>2 DEF StoreInv, TypeOK
<1>4. PhaseOf' = [PhaseOf EXCEPT ![s] = "retired"]
    BY <1>1, <1>2, <1>3 DEF PhaseOf
<1>5. LogOf' = [LogOf EXCEPT ![s] = <<>>]
    BY <1>1, <1>3 DEF LogOf
<1>. QED  BY <1>4, <1>5 DEF Log!Retire, PhaseOf, LogOf

\* The session tools implement a log per session that is opened once, grows by
\* new events only and stays retired (service.py:325-366).
THEOREM SessionsAreLogs == Spec => ImplementsLog
<1>1. Init => Log!Init
    BY DEF Init, Log!Init
<1>2. StoreInv /\ [Next]_storeVars => [Log!Next]_Log!vars
    <2> SUFFICES ASSUME StoreInv, [Next]_storeVars PROVE [Log!Next]_Log!vars
        OBVIOUS
    <2>1. ASSUME NEW req \in CreateRequest, CreateSession(req) PROVE Log!Next
        BY <2>1, CreateOpens DEF Log!Next, CreateRequest
    <2>2. ASSUME NEW req \in AppendRequest, AppendEvent(req) PROVE Log!Next
        BY <2>2, AppendLogs DEF Log!Next, AppendRequest
    <2>3. ASSUME NEW req \in DeleteRequest, DeleteSession(req) PROVE Log!Next
        BY <2>3, DeleteRetires DEF Log!Next, DeleteRequest
    <2>4. CASE UNCHANGED storeVars
        BY <2>4 DEF storeVars, Log!vars
    <2>. QED  BY <2>1, <2>2, <2>3, <2>4 DEF Next
<1>. QED  BY <1>1, <1>2, InitInv, NextInv, PTL DEF Spec, ImplementsLog, Log!Spec
=============================================================================
