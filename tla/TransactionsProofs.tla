------------------------- MODULE TransactionsProofs -------------------------
(***************************************************************************)
(* Proof that the server's transactions implement the serial server, for   *)
(* every number of calls, replicas and resources, any requests and any     *)
(* crashes; and that calls neither wait in a circle nor run for ever.      *)
(***************************************************************************)
EXTENDS Transactions, TLAPS

-----------------------------------------------------------------------------
(* The inductive invariant                                                 *)

Inside == {"looking", "timing", "reading", "sharing", "committing"}

\* What the proof needs to know of the types.
Shapes ==
    /\ clock \in Nat
    /\ request \in [Call -> Request]
    /\ rows \in [Resource -> Row]
    /\ shared \in [Application -> Shared]
    /\ \A k \in DOMAIN receipts : receipts[k].response \in Response
    /\ answer \in [Call -> Answer \cup {None}]
    /\ pc \in [Call -> PC]
    /\ held \in [Call -> Nat]
    /\ DOMAIN memory = Call
    /\ \A c \in Call : memory[c] = [now |-> memory[c].now, row |-> memory[c].row,
                                    state |-> memory[c].state]

\* A call that runs its statements has all of its locks, and no lock is held
\* by two calls.
LocksAreHeld ==
    /\ \A c \in Call : pc[c] = "locking" => held[c] < Len(Locks(c))
    /\ \A c \in Call : pc[c] \in Inside => held[c] = Len(Locks(c))
    /\ \A c, d \in Call : c # d => HeldBy(c) \cap HeldBy(d) = {}

\* A call is over when it is answered.
EndsWithAnswer == \A c \in Call : pc[c] # "ended" <=> answer[c] = None

\* What a call has read is how things are until it ends.
ReadsAreFresh ==
    \A c \in Call :
        LET r == request[c]
            row == rows[r.resource]
        IN  /\ pc[c] \in Inside \ {"looking"} => ~Receipted(r)
            /\ pc[c] \in {"reading", "sharing", "committing"} =>
                   memory[c].now \in row.time .. clock
            /\ pc[c] \in {"sharing", "committing"} =>
                   /\ memory[c].row = row
                   /\ ~Busy(r, row, memory[c].now) /\ ~Stale(r, row)
            /\ pc[c] = "sharing" => r.resource \in Session
            /\ pc[c] = "committing" =>
                   /\ r.tool # "get"
                   /\ r.resource \in Session => memory[c].state = AppState(r)

\* Rows carry no time that the clock has not reached.
TimesPassed == \A x \in Resource : rows[x].time <= clock

ServerInv == Shapes /\ LocksAreHeld /\ EndsWithAnswer /\ ReadsAreFresh

-----------------------------------------------------------------------------
(* Locks                                                                   *)

\* Requests name what they are about.
LEMMA RequestParts ==
    ASSUME Shapes, NEW c \in Call
    PROVE  /\ request[c] \in Request
           /\ request[c].resource \in Resource
           /\ request[c].mutation_id = None <=> request[c].tool = "get"
           /\ request[c].tool \in {"claim", "append", "get"}
           /\ request[c].resource \in Session => AppOf[request[c].resource] \in Application
           /\ request[c].tool \in {"append", "get"} => request[c].resource \in Session
           /\ request[c].tool = "claim" => request[c].resource \notin Session
<1>1. request[c] \in Request
    BY DEF Shapes
<1>2. None \notin MutationId /\ AppOf \in [Session -> Application] /\ Operation \cap Session = {}
    BY ServerAssumption, AbsentAssumption
<1>. QED  BY <1>1, <1>2 DEF Request, ClaimRequest, AppendRequest, GetRequest, Resource

LEMMA LockCount ==
    ASSUME NEW c \in Call
    PROVE  /\ Len(Locks(c)) \in Nat
           /\ request[c].mutation_id = None => Len(Locks(c)) = 2
           /\ request[c].mutation_id # None => Len(Locks(c)) = 3
           /\ ResourceLock(request[c]) = Locks(c)[Len(Locks(c))]
           /\ request[c].mutation_id # None => ReceiptLock(request[c]) = Locks(c)[2]
<1>1. CASE request[c].mutation_id = None
    <2>1. Locks(c) = <<ReplicaLock(c), ResourceLock(request[c])>>
        BY <1>1 DEF Locks
    <2>. QED  BY <1>1, <2>1
<1>2. CASE request[c].mutation_id # None
    <2>1. Locks(c) = <<ReplicaLock(c), ReceiptLock(request[c]), ResourceLock(request[c])>>
        BY <1>2 DEF Locks
    <2>. QED  BY <1>2, <2>1
<1>. QED  BY <1>1, <1>2

\* A call inside its transaction holds the locks of its resource and receipt.
LEMMA InsideHolds ==
    ASSUME LocksAreHeld, NEW c \in Call, pc[c] \in Inside
    PROVE  /\ ResourceLock(request[c]) \in HeldBy(c)
           /\ request[c].mutation_id # None => ReceiptLock(request[c]) \in HeldBy(c)
<1>1. held[c] = Len(Locks(c))
    BY DEF LocksAreHeld
<1>2. Len(Locks(c)) = IF request[c].mutation_id = None THEN 2 ELSE 3
    BY LockCount
<1>3. Len(Locks(c)) \in 1 .. held[c] /\ (request[c].mutation_id # None => 2 \in 1 .. held[c])
    BY <1>1, <1>2
<1>. QED  BY <1>3, LockCount DEF HeldBy

\* Two calls inside their transactions have no resource in common, share no
\* application and would not write the same receipt.
LEMMA InsideApart ==
    ASSUME ServerInv, NEW c \in Call, NEW d \in Call, c # d, pc[c] \in Inside, pc[d] \in Inside
    PROVE  /\ request[c].resource # request[d].resource
           /\ request[c].resource \in Session /\ request[d].resource \in Session =>
                  AppOf[request[c].resource] # AppOf[request[d].resource]
           /\ request[c].tool # "get" => KeyOf(request[c]) # KeyOf(request[d])
<1>1. ResourceLock(request[c]) # ResourceLock(request[d])
    BY InsideHolds DEF ServerInv, LocksAreHeld
<1>2. request[c].resource # request[d].resource
    BY <1>1 DEF ResourceLock
<1>3. request[c].resource \in Session /\ request[d].resource \in Session =>
          AppOf[request[c].resource] # AppOf[request[d].resource]
    BY <1>1 DEF ResourceLock
<1>4. ASSUME request[c].tool # "get", KeyOf(request[c]) = KeyOf(request[d]) PROVE FALSE
    <2>1. request[d].tool # "get"
        BY <1>4 DEF KeyOf
    <2>2. request[c].mutation_id # None /\ request[d].mutation_id # None
        BY <1>4, <2>1, RequestParts DEF ServerInv
    <2>3. ReceiptLock(request[c]) = ReceiptLock(request[d])
        BY <1>4 DEF ReceiptLock
    <2>. QED  BY <2>2, <2>3, InsideHolds DEF ServerInv, LocksAreHeld
<1>. QED  BY <1>2, <1>3, <1>4

-----------------------------------------------------------------------------
(* Steps and the parts of the invariant                                    *)

Fresh(c) ==
    LET r == request[c]
        row == rows[r.resource]
    IN  /\ pc[c] \in Inside \ {"looking"} => ~Receipted(r)
        /\ pc[c] \in {"reading", "sharing", "committing"} =>
               memory[c].now \in row.time .. clock
        /\ pc[c] \in {"sharing", "committing"} =>
               /\ memory[c].row = row
               /\ ~Busy(r, row, memory[c].now) /\ ~Stale(r, row)
        /\ pc[c] = "sharing" => r.resource \in Session
        /\ pc[c] = "committing" =>
               /\ r.tool # "get"
               /\ r.resource \in Session => memory[c].state = AppState(r)

LEMMA FreshReads == ReadsAreFresh <=> \A c \in Call : Fresh(c)
BY DEF ReadsAreFresh, Fresh

\* As long as nobody commits, what was read stays as it is.
LEMMA QuietFresh ==
    ASSUME ServerInv, NEW c \in Call, UNCHANGED <<request, tables>>,
           clock' \in {clock, clock + 1}, pc'[c] = pc[c], memory'[c] = memory[c]
    PROVE  Fresh(c)'
<1>1. Fresh(c)
    BY FreshReads DEF ServerInv
<1>2. request' = request /\ rows' = rows /\ receipts' = receipts /\ shared' = shared
    BY DEF tables
<1>3. rows[request[c].resource] \in Row /\ clock \in Nat
    BY RequestParts DEF ServerInv, Shapes
<1>4. \A now \in rows[request[c].resource].time .. clock :
          now \in rows[request[c].resource].time .. clock'
    BY <1>3 DEF Row
<1>5. Receipted(request[c])' <=> Receipted(request[c])
    BY <1>2 DEF Receipted, KeyOf
<1>6. AppState(request[c])' = AppState(request[c])
    BY <1>2 DEF AppState
<1>. QED  BY <1>1, <1>2, <1>4, <1>5, <1>6 DEF Fresh, Busy, Stale

\* Locks are given back, and no call goes inside.
LEMMA ReleasingKeepsLocks ==
    ASSUME ServerInv, request' = request,
           \A c \in Call : /\ held'[c] \in {held[c], 0}
                           /\ pc'[c] = "locking" => pc[c] = "locking"
                           /\ pc'[c] \in Inside => pc[c] \in Inside /\ held'[c] = held[c]
    PROVE  LocksAreHeld'
<1>1. \A c \in Call : Locks(c)' = Locks(c)
    BY DEF Locks, ReplicaLock, ReceiptLock, ResourceLock, KeyOf
<1>2. ASSUME NEW c \in Call PROVE HeldBy(c)' \subseteq HeldBy(c)
    <2>1. held[c] \in Nat
        BY DEF ServerInv, Shapes
    <2>. QED  BY <1>1, <2>1 DEF HeldBy
<1>3. ASSUME NEW c \in Call
      PROVE  /\ pc'[c] = "locking" => held'[c] < Len(Locks(c)')
             /\ pc'[c] \in Inside => held'[c] = Len(Locks(c)')
    <2>1. /\ held[c] \in Nat /\ Len(Locks(c)) \in Nat \ {0}
          /\ pc[c] = "locking" => held[c] < Len(Locks(c))
        <3>1. Len(Locks(c)) # 0
            BY LockCount
        <3>. QED  BY <3>1, LockCount DEF ServerInv, Shapes, LocksAreHeld
    <2>2. pc[c] \in Inside => held[c] = Len(Locks(c))
        BY DEF ServerInv, LocksAreHeld
    <2>. QED  BY <1>1, <2>1, <2>2
<1>4. ASSUME NEW c \in Call, NEW d \in Call, c # d PROVE (HeldBy(c) \cap HeldBy(d) = {})'
    <2>1. HeldBy(c) \cap HeldBy(d) = {}
        BY <1>4 DEF ServerInv, LocksAreHeld
    <2>. QED  BY <1>2, <2>1
<1>. QED  BY <1>3, <1>4 DEF LocksAreHeld

LEMMA AcquireKeepsInv ==
    ASSUME ServerInv, NEW c \in Call, Acquire(c)
    PROVE  ServerInv'
<1>. DEFINE next == held[c] + 1
<1>1. /\ pc[c] = "locking" /\ held' = [held EXCEPT ![c] = next]
      /\ pc' = [pc EXCEPT ![c] = IF next = Len(Locks(c)) THEN "looking" ELSE pc[c]]
      /\ \A d \in Call \ {c} : Locks(c)[next] \notin HeldBy(d)
      /\ UNCHANGED <<request, tables>> /\ clock' = clock /\ answer' = answer
      /\ memory' = memory
    BY DEF Acquire, serverVars
<1>2. Shapes
    BY DEF ServerInv
<1>3. held[c] \in Nat /\ next \in Nat /\ Len(Locks(c)) \in Nat
    BY <1>2, LockCount DEF Shapes
<1>4. Shapes'
    BY <1>1, <1>2, <1>3 DEF Shapes, tables, PC
<1>5. \A d \in Call : Locks(d)' = Locks(d)
    BY <1>1 DEF Locks, ReplicaLock, ReceiptLock, ResourceLock, KeyOf
<1>6. held'[c] = next /\ \A d \in Call \ {c} : held'[d] = held[d] /\ pc'[d] = pc[d]
    BY <1>1, <1>2 DEF Shapes
<1>7. pc'[c] = IF next = Len(Locks(c)) THEN "looking" ELSE "locking"
    BY <1>1, <1>2 DEF Shapes
<1>8. held[c] < Len(Locks(c))
    BY <1>1 DEF ServerInv, LocksAreHeld
<1>9. LocksAreHeld'
    <2>1. pc'[c] = "locking" => held'[c] < Len(Locks(c)')
        BY <1>3, <1>5, <1>6, <1>7, <1>8
    <2>2. pc'[c] \in Inside => held'[c] = Len(Locks(c)')
        BY <1>5, <1>6, <1>7 DEF Inside
    <2>3. HeldBy(c)' \subseteq HeldBy(c) \cup {Locks(c)[next]}
        BY <1>3, <1>5, <1>6 DEF HeldBy
    <2>4. \A d \in Call \ {c} : HeldBy(d)' = HeldBy(d)
        BY <1>5, <1>6 DEF HeldBy
    <2>5. \A d, e \in Call : d # e => HeldBy(d) \cap HeldBy(e) = {}
        BY DEF ServerInv, LocksAreHeld
    <2>6. \A d, e \in Call : d # e => HeldBy(d)' \cap HeldBy(e)' = {}
        BY <1>1, <2>3, <2>4, <2>5
    <2>7. \A d \in Call \ {c} : /\ pc'[d] = "locking" => held'[d] < Len(Locks(d)')
                                /\ pc'[d] \in Inside => held'[d] = Len(Locks(d)')
        BY <1>5, <1>6 DEF ServerInv, LocksAreHeld
    <2>. QED  BY <2>1, <2>2, <2>6, <2>7 DEF LocksAreHeld
<1>10. EndsWithAnswer'
    BY <1>1, <1>6, <1>7 DEF ServerInv, EndsWithAnswer
<1>11. ReadsAreFresh'
    <2>1. \A d \in Call \ {c} : Fresh(d)'
        BY <1>1, <1>6, QuietFresh
    <2>2. Fresh(c)'
        BY <1>7 DEF Fresh, Inside
    <2>. QED  BY <2>1, <2>2 DEF ReadsAreFresh, Fresh
<1>. QED  BY <1>4, <1>9, <1>10, <1>11 DEF ServerInv

\* A statement that only reads: what it learns has to be fresh.
LEMMA ReadingKeepsInv ==
    ASSUME ServerInv, NEW c \in Call, NEW next \in Inside, pc[c] \in Inside,
           UNCHANGED <<serverVars, held>>, pc' = [pc EXCEPT ![c] = next],
           DOMAIN memory' = Call, \A d \in Call \ {c} : memory'[d] = memory[d],
           memory'[c] = [now |-> memory'[c].now, row |-> memory'[c].row,
                         state |-> memory'[c].state],
           Fresh(c)'
    PROVE  ServerInv'
<1>1. /\ request' = request /\ clock' = clock /\ answer' = answer /\ UNCHANGED tables
      /\ held' = held
    BY DEF serverVars
<1>2. Shapes
    BY DEF ServerInv
<1>3. \A d \in Call \ {c} : pc'[d] = pc[d] /\ memory'[d] = memory[d]
    BY <1>2 DEF Shapes
<1>4. pc'[c] = next
    BY <1>2 DEF Shapes
<1>5. Shapes'
    BY <1>1, <1>2, <1>3 DEF Shapes, tables, PC, Inside
<1>6. LocksAreHeld'
    BY <1>1, <1>3, <1>4, ReleasingKeepsLocks DEF Inside
<1>7. EndsWithAnswer'
    BY <1>1, <1>3, <1>4 DEF ServerInv, EndsWithAnswer, Inside
<1>8. \A d \in Call \ {c} : Fresh(d)'
    BY <1>1, <1>3, QuietFresh
<1>9. ReadsAreFresh'
    BY <1>8 DEF ReadsAreFresh, Fresh
<1>. QED  BY <1>5, <1>6, <1>7, <1>9 DEF ServerInv

\* Calls that end without a write, whether answered or lost.
LEMMA EndingKeepsInv ==
    ASSUME ServerInv, NEW ending \in SUBSET Call, UNCHANGED <<clock, request, tables>>,
           \A c \in ending : answer'[c] # None,
           answer' \in [Call -> Answer \cup {None}],
           \A c \in Call \ ending : answer'[c] = answer[c],
           pc' = [c \in Call |-> IF c \in ending THEN "ended" ELSE pc[c]],
           held' = [c \in Call |-> IF c \in ending THEN 0 ELSE held[c]],
           memory' = [c \in Call |-> IF c \in ending THEN Blank ELSE memory[c]]
    PROVE  ServerInv'
<1>1. request' = request /\ clock' = clock /\ UNCHANGED tables
    OBVIOUS
<1>2. Shapes
    BY DEF ServerInv
<1>3. \A d \in Call \ ending : pc'[d] = pc[d] /\ memory'[d] = memory[d] /\ held'[d] = held[d]
    OBVIOUS
<1>4. \A d \in ending : pc'[d] = "ended" /\ held'[d] = 0
    OBVIOUS
<1>5. Shapes'
    BY <1>1, <1>2 DEF Shapes, tables, PC, Blank
<1>6. LocksAreHeld'
    BY <1>1, <1>3, <1>4, ReleasingKeepsLocks DEF Inside
<1>7. EndsWithAnswer'
    BY <1>3, <1>4 DEF ServerInv, EndsWithAnswer
<1>8. \A d \in Call \ ending : Fresh(d)'
    BY <1>1, <1>3, QuietFresh
<1>9. \A d \in ending : Fresh(d)'
    BY <1>4 DEF Fresh, Inside
<1>10. ReadsAreFresh'
    BY <1>8, <1>9 DEF ReadsAreFresh, Fresh
<1>. QED  BY <1>5, <1>6, <1>7, <1>10 DEF ServerInv

\* A call that ends does so alone.
LEMMA EndsKeepsInv ==
    ASSUME ServerInv, NEW c \in Call, NEW told \in Answer, pc[c] \in Inside, Ends(c, told)
    PROVE  ServerInv'
<1>1. Shapes
    BY DEF ServerInv
<1>2. answer[c] = None /\ told # None
    BY AbsentAssumption DEF ServerInv, EndsWithAnswer, Inside
<1>3. /\ UNCHANGED <<clock, request, tables>>
      /\ answer' = [answer EXCEPT ![c] = told]
      /\ pc' = [pc EXCEPT ![c] = "ended"]
      /\ held' = [held EXCEPT ![c] = 0]
      /\ memory' = [memory EXCEPT ![c] = Blank]
    BY DEF Ends, Answers, Over
<1>4. PICK ending \in SUBSET Call : ending = {c}
    OBVIOUS
<1>5. /\ pc' = [d \in Call |-> IF d \in ending THEN "ended" ELSE pc[d]]
      /\ held' = [d \in Call |-> IF d \in ending THEN 0 ELSE held[d]]
    BY <1>1, <1>3, <1>4 DEF Shapes
<1>6. memory' = [d \in Call |-> IF d \in ending THEN Blank ELSE memory[d]]
    <2>1. DOMAIN memory = Call
        BY <1>1 DEF Shapes
    <2>2. memory' = [d \in DOMAIN memory |-> IF d = c THEN Blank ELSE memory[d]]
        BY <1>3
    <2>. QED  BY <1>4, <2>1, <2>2
<1>7. /\ answer' \in [Call -> Answer \cup {None}] /\ answer'[c] = told
      /\ \A d \in Call \ {c} : answer'[d] = answer[d]
    BY <1>1, <1>3 DEF Shapes
<1>8. /\ \A d \in ending : answer'[d] # None
      /\ \A d \in Call \ ending : answer'[d] = answer[d]
    BY <1>2, <1>4, <1>7
<1>. QED  BY <1>3, <1>5, <1>6, <1>7, <1>8, EndingKeepsInv

-----------------------------------------------------------------------------
(* Commits                                                                 *)

LEMMA ReplyShape ==
    ASSUME NEW r, NEW row \in Row, NEW state, r.resource \in Session => state \in Shared
    PROVE  Reply(row, state, r) \in Response
BY DEF Reply, Response

LEMMA OkIsAnswer ==
    ASSUME NEW response \in Response
    PROVE  Ok(response) \in Answer
BY DEF Ok, Answer

\* What a commit writes is what it found a moment before, advanced.
LEMMA CommitAccepts ==
    ASSUME ServerInv, NEW c \in Call, Commit(c)
    PROVE  LET r == request[c]
           IN  /\ pc[c] = "committing" /\ r.tool # "get" /\ ~Receipted(r)
               /\ memory[c].now \in rows[r.resource].time .. clock
               /\ ~Busy(r, rows[r.resource], memory[c].now) /\ ~Stale(r, rows[r.resource])
               /\ Accept(c, memory[c].now, rows[r.resource], AppState(r))
               /\ Over(c) /\ UNCHANGED <<clock, request, returned, crashes>>
<1>1. pc[c] = "committing"
    BY DEF Commit
<1>2. Fresh(c)
    BY FreshReads DEF ServerInv
<1>3. /\ ~Receipted(request[c]) /\ request[c].tool # "get"
      /\ memory[c].row = rows[request[c].resource]
      /\ memory[c].now \in rows[request[c].resource].time .. clock
      /\ request[c].resource \in Session => memory[c].state = AppState(request[c])
      /\ ~Busy(request[c], rows[request[c].resource], memory[c].now)
      /\ ~Stale(request[c], rows[request[c].resource])
    BY <1>1, <1>2 DEF Fresh, Inside
<1>4. Accept(c, memory[c].now, memory[c].row, memory[c].state)
      /\ Over(c) /\ UNCHANGED <<clock, request, returned, crashes>>
    BY <1>3 DEF Commit
<1>5. Accept(c, memory[c].now, rows[request[c].resource], AppState(request[c]))
    <2>1. CASE request[c].resource \in Session
        BY <1>3, <1>4, <2>1
    <2>2. CASE request[c].resource \notin Session
        <3>1. request[c].tool # "append"
            BY <2>2, RequestParts DEF ServerInv
        <3>. QED  BY <1>3, <1>4, <2>2, <3>1 DEF Accept, Reply
    <2>. QED  BY <2>1, <2>2
<1>. QED  BY <1>1, <1>3, <1>4, <1>5

LEMMA CommitKeepsInv ==
    ASSUME ServerInv, NEW c \in Call, Commit(c)
    PROVE  ServerInv'
<1>. DEFINE r == request[c]
            now == memory[c].now
            row == rows[r.resource]
            state == AppState(r)
            after == RowAfter(row, now)
            told == Reply(after, SharedAfter(r, state), r)
<1>1. /\ pc[c] = "committing" /\ r.tool # "get" /\ now \in row.time .. clock
      /\ rows' = [rows EXCEPT ![r.resource] = after]
      /\ shared' = IF r.resource \in Session
                   THEN [shared EXCEPT ![AppOf[r.resource]] = SharedAfter(r, state)]
                   ELSE shared
      /\ receipts' = [k \in DOMAIN receipts \cup {KeyOf(r)} |->
                         IF k = KeyOf(r) THEN [request |-> r, response |-> told]
                                         ELSE receipts[k]]
      /\ answer' = [answer EXCEPT ![c] = Ok(told)]
      /\ pc' = [pc EXCEPT ![c] = "ended"] /\ held' = [held EXCEPT ![c] = 0]
      /\ memory' = [memory EXCEPT ![c] = Blank]
      /\ clock' = clock /\ request' = request
    BY CommitAccepts DEF Accept, Over, Answers
<1>2. Shapes
    BY DEF ServerInv
<1>3. /\ r \in Request /\ r.resource \in Resource /\ row \in Row
      /\ r.resource \in Session => AppOf[r.resource] \in Application
    BY <1>2, RequestParts DEF Shapes
<1>4. after \in Row
    <2>1. now \in Nat /\ row.version + 1 \in Nat
        BY <1>1, <1>2, <1>3 DEF Shapes, Row
    <2>. QED  BY <2>1 DEF RowAfter, Row
<1>5. r.resource \in Session => SharedAfter(r, state) \in Shared
    <2> SUFFICES ASSUME r.resource \in Session PROVE SharedAfter(r, state) \in Shared
        OBVIOUS
    <2>1. state \in Shared
        BY <1>2, <1>3 DEF AppState, Shapes
    <2>2. r.tool = "append" => r.delta \in Shared
        BY <1>3 DEF Request, ClaimRequest, AppendRequest, GetRequest
    <2>. HIDE DEF state, r
    <2>. QED  BY <2>1, <2>2 DEF SharedAfter, Merged, Shared
<1>6. told \in Response /\ Ok(told) \in Answer
    BY <1>4, <1>5, ReplyShape, OkIsAnswer
<1>. HIDE DEF after, told, state
<1>7. Shapes'
    <2>1. rows' \in [Resource -> Row]
        BY <1>1, <1>2, <1>3, <1>4 DEF Shapes
    <2>2. shared' \in [Application -> Shared]
        BY <1>1, <1>2, <1>3, <1>5 DEF Shapes
    <2>3. \A k \in DOMAIN receipts' : receipts'[k].response \in Response
        BY <1>1, <1>2, <1>6 DEF Shapes
    <2>4. answer' \in [Call -> Answer \cup {None}]
        BY <1>1, <1>2, <1>6 DEF Shapes
    <2>5. pc' \in [Call -> PC] /\ held' \in [Call -> Nat]
        BY <1>1, <1>2 DEF Shapes, PC
    <2>6. /\ DOMAIN memory' = Call
          /\ \A d \in Call : memory'[d] = [now |-> memory'[d].now, row |-> memory'[d].row,
                                           state |-> memory'[d].state]
        BY <1>1, <1>2 DEF Shapes, Blank
    <2>. QED  BY <1>1, <1>2, <2>1, <2>2, <2>3, <2>4, <2>5, <2>6 DEF Shapes
<1>8. /\ pc'[c] = "ended" /\ held'[c] = 0 /\ answer'[c] = Ok(told)
      /\ \A d \in Call \ {c} : /\ pc'[d] = pc[d] /\ held'[d] = held[d]
                               /\ answer'[d] = answer[d] /\ memory'[d] = memory[d]
    BY <1>1, <1>2 DEF Shapes
<1>9. LocksAreHeld'
    BY <1>1, <1>8, ReleasingKeepsLocks DEF Inside
<1>10. EndsWithAnswer'
    <2>1. Ok(told) # None
        BY <1>6, AbsentAssumption
    <2>. QED  BY <1>8, <2>1 DEF ServerInv, EndsWithAnswer
<1>11. ASSUME NEW d \in Call \ {c} PROVE Fresh(d)'
    <2>1. CASE pc[d] \notin Inside
        BY <1>8, <2>1 DEF Fresh, Inside
    <2>2. CASE pc[d] \in Inside
        <3>1. /\ r.resource # request[d].resource
              /\ r.resource \in Session /\ request[d].resource \in Session =>
                     AppOf[r.resource] # AppOf[request[d].resource]
              /\ KeyOf(r) # KeyOf(request[d])
            BY <1>1, <2>2, InsideApart DEF Inside
        <3>2. Fresh(d)
            BY FreshReads DEF ServerInv
        <3>3. /\ request[d].resource \in Resource
              /\ request[d].resource \in Session => AppOf[request[d].resource] \in Application
            BY <1>2, RequestParts
        <3>4. rows'[request[d].resource] = rows[request[d].resource]
            BY <1>1, <1>2, <3>1, <3>3 DEF Shapes
        <3>5. AppState(request[d])' = AppState(request[d])
            BY <1>1, <1>2, <3>1, <3>3 DEF Shapes, AppState
        <3>6. Receipted(request[d])' <=> Receipted(request[d])
            BY <1>1, <3>1 DEF Receipted, KeyOf
        <3>7. request'[d] = request[d] /\ memory'[d] = memory[d] /\ pc'[d] = pc[d] /\ clock' = clock
            BY <1>1, <1>8
        <3>. QED  BY <3>2, <3>4, <3>5, <3>6, <3>7 DEF Fresh, Busy, Stale
    <2>. QED  BY <2>1, <2>2
<1>12. Fresh(c)'
    BY <1>8 DEF Fresh, Inside
<1>13. ReadsAreFresh'
    BY <1>11, <1>12 DEF ReadsAreFresh, Fresh
<1>. QED  BY <1>7, <1>9, <1>10, <1>13 DEF ServerInv

-----------------------------------------------------------------------------
(* Statements that read                                                    *)

LEMMA LookKeepsInv ==
    ASSUME ServerInv, NEW c \in Call, Look(c)
    PROVE  ServerInv'
<1>1. Shapes /\ pc[c] = "looking" /\ pc[c] \in Inside
    BY DEF ServerInv, Look, Inside
<1>2. CASE Receipted(request[c])
    <2>1. receipts[KeyOf(request[c])].response \in Response
        BY <1>1, <1>2 DEF Shapes, Receipted
    <2>2. Acknowledged(request[c]) \in Answer
        BY <2>1 DEF Acknowledged, Ok, Error, Answer, Refusal
    <2>3. Ends(c, Acknowledged(request[c]))
        BY <1>2 DEF Look
    <2>. QED  BY <1>1, <2>2, <2>3, EndsKeepsInv
<1>3. CASE ~Receipted(request[c])
    <2>1. pc' = [pc EXCEPT ![c] = "timing"] /\ UNCHANGED <<serverVars, held, memory, crashes>>
        BY <1>3 DEF Look
    <2>2. DOMAIN memory' = Call /\ \A d \in Call \ {c} : memory'[d] = memory[d]
        BY <1>1, <2>1 DEF Shapes
    <2>3. memory'[c] = [now |-> memory'[c].now, row |-> memory'[c].row,
                        state |-> memory'[c].state]
        BY <1>1, <2>1 DEF Shapes
    <2>4. pc'[c] = "timing" /\ request' = request /\ receipts' = receipts
        BY <1>1, <2>1 DEF Shapes, serverVars, tables
    <2>5. ~Receipted(request[c])'
        BY <1>3, <2>4 DEF Receipted, KeyOf
    <2>6. Fresh(c)'
        BY <2>4, <2>5 DEF Fresh
    <2>. QED  BY <1>1, <2>1, <2>2, <2>3, <2>6, ReadingKeepsInv DEF Inside
<1>. QED  BY <1>2, <1>3

\* Rows never carry a time that the clock has not reached.
LEMMA ReadClockKeepsInv ==
    ASSUME ServerInv, TimesPassed, NEW c \in Call, ReadClock(c)
    PROVE  ServerInv'
<1>1. Shapes /\ pc[c] = "timing" /\ pc[c] \in Inside
    BY DEF ServerInv, ReadClock, Inside
<1>2. /\ pc' = [pc EXCEPT ![c] = "reading"] /\ UNCHANGED <<serverVars, held, crashes>>
      /\ memory' = [memory EXCEPT ![c] = [memory[c] EXCEPT !["now"] = clock]]
    BY DEF ReadClock, Reads
<1>3. memory'[c] = [memory[c] EXCEPT !["now"] = clock]
    BY <1>1, <1>2 DEF Shapes
<1>4. memory[c] = [now |-> memory[c].now, row |-> memory[c].row, state |-> memory[c].state]
    BY <1>1 DEF Shapes
<1>5. /\ memory'[c] = [now |-> memory'[c].now, row |-> memory'[c].row,
                       state |-> memory'[c].state]
      /\ memory'[c].now = clock
    BY <1>3, <1>4
<1>6. DOMAIN memory' = Call /\ \A d \in Call \ {c} : memory'[d] = memory[d]
    BY <1>1, <1>2 DEF Shapes
<1>7. /\ pc'[c] = "reading" /\ request' = request /\ receipts' = receipts
      /\ rows' = rows /\ clock' = clock
    BY <1>1, <1>2 DEF Shapes, serverVars, tables
<1>8. ~Receipted(request[c])'
    <2>1. Fresh(c)
        BY FreshReads DEF ServerInv
    <2>. QED  BY <1>1, <1>7, <2>1 DEF Fresh, Receipted, KeyOf
<1>9. clock \in rows[request[c].resource].time .. clock
    <2>1. rows[request[c].resource] \in Row /\ clock \in Nat
        BY <1>1, RequestParts DEF Shapes
    <2>2. rows[request[c].resource].time <= clock
        BY <1>1, RequestParts DEF TimesPassed
    <2>. QED  BY <2>1, <2>2 DEF Row
<1>10. Fresh(c)'
    BY <1>5, <1>7, <1>8, <1>9 DEF Fresh
<1>. QED  BY <1>1, <1>2, <1>5, <1>6, <1>10, ReadingKeepsInv DEF Inside

LEMMA ReadRowKeepsInv ==
    ASSUME ServerInv, NEW c \in Call, ReadRow(c)
    PROVE  ServerInv'
<1>. DEFINE r == request[c]
            row == rows[r.resource]
<1>1. Shapes /\ pc[c] = "reading" /\ pc[c] \in Inside /\ Fresh(c)
    BY FreshReads DEF ServerInv, ReadRow, Inside
<1>2. CASE Busy(r, row, memory[c].now)
    <2>1. Ends(c, Error("OPERATION_BUSY"))
        BY <1>2 DEF ReadRow
    <2>2. Error("OPERATION_BUSY") \in Answer
        BY DEF Error, Answer, Refusal
    <2>. QED  BY <1>1, <2>1, <2>2, EndsKeepsInv
<1>3. CASE ~Busy(r, row, memory[c].now) /\ Stale(r, row)
    <2>1. Ends(c, Error("STALE_SESSION"))
        BY <1>3 DEF ReadRow
    <2>2. Error("STALE_SESSION") \in Answer
        BY DEF Error, Answer, Refusal
    <2>. QED  BY <1>1, <2>1, <2>2, EndsKeepsInv
<1>4. CASE ~Busy(r, row, memory[c].now) /\ ~Stale(r, row)
    <2>. DEFINE next == IF r.resource \in Session THEN "sharing" ELSE "committing"
    <2>1. /\ pc' = [pc EXCEPT ![c] = next] /\ UNCHANGED <<serverVars, held, crashes>>
          /\ memory' = [memory EXCEPT ![c] = [memory[c] EXCEPT !["row"] = row]]
        BY <1>4 DEF ReadRow, Reads
    <2>2. memory'[c] = [memory[c] EXCEPT !["row"] = row]
        BY <1>1, <2>1 DEF Shapes
    <2>3. memory[c] = [now |-> memory[c].now, row |-> memory[c].row, state |-> memory[c].state]
        BY <1>1 DEF Shapes
    <2>4. /\ memory'[c] = [now |-> memory'[c].now, row |-> memory'[c].row,
                           state |-> memory'[c].state]
          /\ memory'[c].now = memory[c].now /\ memory'[c].row = row
        BY <2>2, <2>3
    <2>5. DOMAIN memory' = Call /\ \A d \in Call \ {c} : memory'[d] = memory[d]
        BY <1>1, <2>1 DEF Shapes
    <2>6. /\ pc'[c] = next /\ request' = request /\ receipts' = receipts
          /\ rows' = rows /\ clock' = clock
        BY <1>1, <2>1 DEF Shapes, serverVars, tables
    <2>7. ~Receipted(request[c])' /\ memory[c].now \in row.time .. clock
        BY <1>1, <2>6 DEF Fresh, Receipted, KeyOf, Inside
    <2>8. next = "committing" => r.tool # "get" /\ r.resource \notin Session
        BY <1>1, RequestParts
    <2>9. next = "sharing" => r.resource \in Session
        OBVIOUS
    <2>10. next \in {"sharing", "committing"}
        OBVIOUS
    <2>. HIDE DEF next, row, r
    <2>11. Fresh(c)'
        BY <1>4, <2>4, <2>6, <2>7, <2>8, <2>9, <2>10 DEF Fresh, Busy, Stale, row, r
    <2>. QED  BY <1>1, <2>1, <2>4, <2>5, <2>10, <2>11, ReadingKeepsInv DEF Inside
<1>. QED  BY <1>2, <1>3, <1>4

LEMMA ReadSharedKeepsInv ==
    ASSUME ServerInv, NEW c \in Call, ReadShared(c)
    PROVE  ServerInv'
<1>. DEFINE r == request[c]
            row == rows[r.resource]
            state == AppState(r)
<1>1. Shapes /\ pc[c] = "sharing" /\ pc[c] \in Inside /\ Fresh(c)
    BY FreshReads DEF ServerInv, ReadShared, Inside
<1>2. CASE r.tool = "get"
    <2>1. Ends(c, Ok(Reply(memory[c].row, state, r)))
        BY <1>2 DEF ReadShared
    <2>2. memory[c].row \in Row
        BY <1>1, RequestParts DEF Fresh, Shapes
    <2>3. r.resource \in Session => state \in Shared
        BY <1>1, RequestParts DEF AppState, Shapes
    <2>4. Ok(Reply(memory[c].row, state, r)) \in Answer
        BY <2>2, <2>3, ReplyShape, OkIsAnswer
    <2>. QED  BY <1>1, <2>1, <2>4, EndsKeepsInv
<1>3. CASE r.tool # "get"
    <2>1. /\ pc' = [pc EXCEPT ![c] = "committing"] /\ UNCHANGED <<serverVars, held, crashes>>
          /\ memory' = [memory EXCEPT ![c] = [memory[c] EXCEPT !["state"] = state]]
        BY <1>3 DEF ReadShared, Reads
    <2>2. memory'[c] = [memory[c] EXCEPT !["state"] = state]
        BY <1>1, <2>1 DEF Shapes
    <2>3. memory[c] = [now |-> memory[c].now, row |-> memory[c].row, state |-> memory[c].state]
        BY <1>1 DEF Shapes
    <2>4. /\ memory'[c] = [now |-> memory'[c].now, row |-> memory'[c].row,
                           state |-> memory'[c].state]
          /\ memory'[c].now = memory[c].now /\ memory'[c].row = memory[c].row
          /\ memory'[c].state = state
        BY <2>2, <2>3
    <2>5. DOMAIN memory' = Call /\ \A d \in Call \ {c} : memory'[d] = memory[d]
        BY <1>1, <2>1 DEF Shapes
    <2>6. /\ pc'[c] = "committing" /\ request' = request /\ receipts' = receipts
          /\ rows' = rows /\ clock' = clock /\ shared' = shared
        BY <1>1, <2>1 DEF Shapes, serverVars, tables
    <2>7. /\ ~Receipted(request[c])' /\ memory[c].now \in row.time .. clock
          /\ memory[c].row = row /\ ~Busy(r, row, memory[c].now) /\ ~Stale(r, row)
        BY <1>1, <2>6 DEF Fresh, Receipted, KeyOf, Inside
    <2>8. AppState(request[c])' = state
        BY <2>6 DEF AppState
    <2>. HIDE DEF state
    <2>9. Fresh(c)'
        BY <1>3, <2>4, <2>6, <2>7, <2>8 DEF Fresh, Busy, Stale
    <2>. QED  BY <1>1, <2>1, <2>4, <2>5, <2>9, ReadingKeepsInv DEF Inside
<1>. QED  BY <1>2, <1>3

-----------------------------------------------------------------------------
(* Every step                                                              *)

LEMMA CrashKeepsInv ==
    ASSUME ServerInv, NEW dead \in Replica, Crash(dead)
    PROVE  ServerInv'
<1>1. PICK lost \in SUBSET Call : lost = {c \in Call \ returned : ReplicaOf[c] = dead}
    OBVIOUS
<1>2. /\ UNCHANGED <<clock, request, tables>>
      /\ answer' = [c \in Call |-> IF c \in lost THEN Error("lost") ELSE answer[c]]
      /\ pc' = [c \in Call |-> IF c \in lost THEN "ended" ELSE pc[c]]
      /\ held' = [c \in Call |-> IF c \in lost THEN 0 ELSE held[c]]
      /\ memory' = [c \in Call |-> IF c \in lost THEN Blank ELSE memory[c]]
    BY <1>1 DEF Crash, BreakOff
<1>3. Error("lost") \in Answer /\ Error("lost") # None
    <2>1. Error("lost") \in Answer
        BY DEF Error, Answer, Refusal
    <2>. QED  BY <2>1, AbsentAssumption
<1>4. answer \in [Call -> Answer \cup {None}]
    BY DEF ServerInv, Shapes
<1>5. /\ \A c \in lost : answer'[c] # None
      /\ answer' \in [Call -> Answer \cup {None}]
      /\ \A c \in Call \ lost : answer'[c] = answer[c]
    BY <1>1, <1>2, <1>3, <1>4
<1>. QED  BY <1>2, <1>5, EndingKeepsInv

LEMMA TickKeepsInv ==
    ASSUME ServerInv, Tick, UNCHANGED <<pc, held, memory, crashes>>
    PROVE  ServerInv'
<1>1. /\ UNCHANGED <<request, tables>> /\ clock' = clock + 1 /\ answer' = answer
      /\ request' = request /\ pc' = pc /\ held' = held /\ memory' = memory
    BY DEF Tick
<1>2. Shapes'
    BY <1>1 DEF ServerInv, Shapes, tables
<1>3. LocksAreHeld'
    BY <1>1, ReleasingKeepsLocks DEF ServerInv, Shapes
<1>4. EndsWithAnswer'
    BY <1>1 DEF ServerInv, EndsWithAnswer
<1>5. \A c \in Call : Fresh(c)'
    BY <1>1, QuietFresh
<1>6. ReadsAreFresh'
    BY <1>5 DEF ReadsAreFresh, Fresh
<1>. QED  BY <1>2, <1>3, <1>4, <1>6 DEF ServerInv

\* Callers that have their answers change nothing for the server.
LEMMA StillKeepsInv ==
    ASSUME ServerInv, UNCHANGED <<clock, request, tables, answer, pc, held, memory>>
    PROVE  ServerInv'
<1>1. /\ clock' = clock /\ request' = request /\ answer' = answer /\ UNCHANGED tables
      /\ pc' = pc /\ held' = held /\ memory' = memory
    OBVIOUS
<1>2. Shapes'
    BY <1>1 DEF ServerInv, Shapes, tables
<1>3. LocksAreHeld'
    BY <1>1, ReleasingKeepsLocks DEF ServerInv, Shapes
<1>4. EndsWithAnswer'
    BY <1>1 DEF ServerInv, EndsWithAnswer
<1>5. \A c \in Call : Fresh(c)'
    BY <1>1, QuietFresh
<1>6. ReadsAreFresh'
    BY <1>5 DEF ReadsAreFresh, Fresh
<1>. QED  BY <1>2, <1>3, <1>4, <1>6 DEF ServerInv

LEMMA StepKeepsInv ==
    ASSUME ServerInv, TimesPassed, NEW c \in Call, Step(c)
    PROVE  ServerInv'
<1>1. Respond(c) => UNCHANGED <<clock, request, tables, answer, pc, held, memory>>
    BY DEF Respond, Return
<1>. QED  BY <1>1, StillKeepsInv, AcquireKeepsInv, LookKeepsInv, ReadClockKeepsInv,
             ReadRowKeepsInv, ReadSharedKeepsInv, CommitKeepsInv DEF Step

\* Whoever does not commit leaves the tables and the clock.
LEMMA StatementIsQuiet ==
    ASSUME NEW c \in Call, Step(c), ~Commit(c)
    PROVE  UNCHANGED <<clock, request, tables>>
<1>1. ASSUME NEW told, Ends(c, told) PROVE UNCHANGED <<clock, request, tables>>
    BY <1>1 DEF Ends
<1>2. ASSUME NEW field, NEW found, NEW next, Reads(c, field, found, next)
      PROVE UNCHANGED <<clock, request, tables>>
    BY <1>2 DEF Reads, serverVars
<1>3. CASE Acquire(c)
    BY <1>3 DEF Acquire, serverVars
<1>4. CASE Look(c)
    BY <1>1, <1>4 DEF Look, serverVars
<1>5. CASE ReadClock(c)
    BY <1>2, <1>5 DEF ReadClock
<1>6. CASE ReadRow(c)
    BY <1>1, <1>2, <1>6 DEF ReadRow
<1>7. CASE ReadShared(c)
    BY <1>1, <1>2, <1>7 DEF ReadShared
<1>8. CASE Respond(c)
    BY <1>8 DEF Respond, Return
<1>. QED  BY <1>3, <1>4, <1>5, <1>6, <1>7, <1>8 DEF Step

LEMMA TimesKeepPassing ==
    ASSUME ServerInv, TimesPassed, [TransactionNext]_transactionVars
    PROVE  TimesPassed'
<1>. DEFINE Quiet == rows' = rows /\ clock' \in {clock, clock + 1}
<1>1. clock \in Nat /\ rows \in [Resource -> Row]
    BY DEF ServerInv, Shapes
<1>2. ASSUME Quiet PROVE TimesPassed'
    <2>1. \A x \in Resource : rows[x].time \in Nat
        BY <1>1 DEF Row
    <2>. QED  BY <1>1, <1>2, <2>1 DEF TimesPassed
<1>3. ASSUME NEW c \in Call, Commit(c) PROVE TimesPassed'
    <2>. DEFINE now == memory[c].now
                x == request[c].resource
    <2>1. /\ now \in rows[x].time .. clock /\ clock' = clock
          /\ rows' = [rows EXCEPT ![x] = RowAfter(rows[x], now)]
        BY <1>3, CommitAccepts DEF Accept
    <2>2. x \in Resource /\ rows[x] \in Row
        BY <1>1, RequestParts DEF ServerInv
    <2>3. now <= clock
        BY <1>1, <2>1, <2>2 DEF Row
    <2>4. RowAfter(rows[x], now).time <= clock
        BY <2>3 DEF RowAfter
    <2>. HIDE DEF now, x
    <2>5. \A y \in Resource : rows'[y].time <= clock
        BY <1>1, <2>1, <2>2, <2>4 DEF TimesPassed
    <2>. QED  BY <2>1, <2>5 DEF TimesPassed
<1>4. ASSUME NEW c \in Call, Step(c), ~Commit(c) PROVE Quiet
    BY <1>4, StatementIsQuiet DEF tables
<1>5. ASSUME NEW dead \in Replica, Crash(dead) PROVE Quiet
    BY <1>5 DEF Crash, BreakOff, tables
<1>6. ASSUME Tick PROVE Quiet
    BY <1>6 DEF Tick, tables
<1>7. ASSUME UNCHANGED transactionVars PROVE Quiet
    BY <1>7 DEF transactionVars, serverVars, tables
<1>. HIDE DEF Quiet
<1>. QED  BY <1>2, <1>3, <1>4, <1>5, <1>6, <1>7 DEF TransactionNext

LEMMA InvAtStart == TransactionInit => ServerInv /\ TimesPassed
<1> SUFFICES ASSUME TransactionInit PROVE ServerInv /\ TimesPassed
    OBVIOUS
<1>1. /\ clock = 0 /\ request \in Offered /\ answer = [c \in Call |-> None]
      /\ receipts = [k \in {} |-> None]
      /\ rows = [x \in Resource |-> [version |-> IF x \in Session THEN 1 ELSE 0, time |-> 0]]
      /\ shared = [a \in Application |-> [k \in StateKey |-> None]]
      /\ pc = [c \in Call |-> "locking"] /\ held = [c \in Call |-> 0]
      /\ memory = [c \in Call |-> Blank]
    BY DEF TransactionInit, Init
<1>2. request \in [Call -> Request]
    BY <1>1, ServerAssumption
<1>3. shared \in [Application -> Shared]
    BY <1>1 DEF Shared
<1>4. Shapes
    <2>1. \A k \in DOMAIN receipts : receipts[k].response \in Response
        BY <1>1
    <2>2. rows \in [Resource -> Row]
        BY <1>1 DEF Row
    <2>3. pc \in [Call -> PC] /\ held \in [Call -> Nat] /\ answer \in [Call -> Answer \cup {None}]
        BY <1>1 DEF PC
    <2>4. \A c \in Call : memory[c] = [now |-> memory[c].now, row |-> memory[c].row,
                                       state |-> memory[c].state]
        BY <1>1 DEF Blank
    <2>. QED  BY <1>1, <1>2, <1>3, <2>1, <2>2, <2>3, <2>4 DEF Shapes
<1>5. LocksAreHeld
    <2>1. ASSUME NEW c \in Call PROVE HeldBy(c) = {}
        <3>1. held[c] = 0
            BY <1>1
        <3>2. 1 .. held[c] = {}
            BY <3>1
        <3>. QED  BY <3>2 DEF HeldBy
    <2>2. ASSUME NEW c \in Call PROVE held[c] < Len(Locks(c))
        <3>1. Len(Locks(c)) \in {2, 3}
            BY LockCount
        <3>2. held[c] = 0
            BY <1>1
        <3>. QED  BY <3>1, <3>2
    <2>3. \A c \in Call : pc[c] \notin Inside
        BY <1>1 DEF Inside
    <2>. QED  BY <2>1, <2>2, <2>3 DEF LocksAreHeld
<1>6. EndsWithAnswer
    BY <1>1 DEF EndsWithAnswer
<1>7. ReadsAreFresh
    <2>1. \A c \in Call : Fresh(c)
        BY <1>1 DEF Fresh, Inside
    <2>. QED  BY <2>1, FreshReads
<1>8. TimesPassed
    BY <1>1 DEF TimesPassed
<1>. QED  BY <1>4, <1>5, <1>6, <1>7, <1>8 DEF ServerInv

LEMMA InvKept ==
    ServerInv /\ TimesPassed /\ [TransactionNext]_transactionVars => (ServerInv /\ TimesPassed)'
<1> SUFFICES ASSUME ServerInv, TimesPassed, [TransactionNext]_transactionVars
             PROVE  ServerInv'
    BY TimesKeepPassing
<1>1. CASE UNCHANGED transactionVars
    BY <1>1, StillKeepsInv DEF transactionVars, serverVars
<1>2. CASE \E c \in Call : Step(c)
    BY <1>2, StepKeepsInv
<1>3. CASE \E dead \in Replica : Crash(dead)
    BY <1>3, CrashKeepsInv
<1>4. CASE Tick /\ UNCHANGED <<pc, held, memory, crashes>>
    BY <1>4, TickKeepsInv
<1>. QED  BY <1>1, <1>2, <1>3, <1>4 DEF TransactionNext

-----------------------------------------------------------------------------
(* Statements and the serial server's steps                                *)

\* A call is served when it ends.
Served(c) ==
    /\ answer[c] = None
    /\ \/ Replay(c)
       \/ \E now \in rows[request[c].resource].time .. clock : Refuse(c, now) \/ Serve(c, now)
    /\ UNCHANGED <<clock, request, returned>>

LEMMA StepIsServed ==
    ASSUME ServerInv, NEW c \in Call, Step(c)
    PROVE  Served(c) \/ Return(c) \/ UNCHANGED serverVars
<1>. DEFINE r == request[c]
            row == rows[r.resource]
            now == memory[c].now
<1>1. Fresh(c)
    BY FreshReads DEF ServerInv
<1>2. pc[c] \in Inside => answer[c] = None
    BY DEF ServerInv, EndsWithAnswer, Inside
<1>3. CASE Acquire(c)
    BY <1>3 DEF Acquire
<1>4. CASE Look(c)
    <2>1. pc[c] = "looking"
        BY <1>4 DEF Look
    <2>2. CASE Receipted(r)
        <3>1. /\ Answers(c, Acknowledged(r))
              /\ UNCHANGED tables /\ UNCHANGED <<clock, request, returned>>
            BY <1>4, <2>2 DEF Look, Ends
        <3>. QED  BY <1>2, <2>1, <2>2, <3>1 DEF Served, Replay, Inside
    <2>3. CASE ~Receipted(r)
        BY <1>4, <2>3 DEF Look
    <2>. QED  BY <2>2, <2>3
<1>5. CASE ReadClock(c)
    BY <1>5 DEF ReadClock, Reads
<1>6. CASE ReadRow(c)
    <2>1. pc[c] = "reading" /\ answer[c] = None /\ ~Receipted(r) /\ now \in row.time .. clock
        BY <1>1, <1>2, <1>6 DEF ReadRow, Fresh, Inside
    <2>2. CASE Busy(r, row, now)
        <3>1. Answers(c, Error("OPERATION_BUSY")) /\ UNCHANGED tables
              /\ UNCHANGED <<clock, request, returned>>
            BY <1>6, <2>2 DEF ReadRow, Ends
        <3>2. Refuse(c, now)
            BY <2>1, <2>2, <3>1 DEF Refuse
        <3>. QED  BY <2>1, <3>1, <3>2 DEF Served
    <2>3. CASE ~Busy(r, row, now) /\ Stale(r, row)
        <3>1. /\ Answers(c, Error("STALE_SESSION"))
              /\ UNCHANGED tables /\ UNCHANGED <<clock, request, returned>>
            BY <1>6, <2>3 DEF ReadRow, Ends
        <3>2. Refuse(c, now)
            BY <2>1, <2>3, <3>1 DEF Refuse
        <3>. QED  BY <2>1, <3>1, <3>2 DEF Served
    <2>4. CASE ~Busy(r, row, now) /\ ~Stale(r, row)
        BY <1>6, <2>4 DEF ReadRow, Reads
    <2>. QED  BY <2>2, <2>3, <2>4
<1>7. CASE ReadShared(c)
    <2>1. CASE r.tool = "get"
        <3>1. /\ answer[c] = None /\ ~Receipted(r) /\ now \in row.time .. clock
              /\ memory[c].row = row /\ ~Busy(r, row, now) /\ ~Stale(r, row)
            BY <1>1, <1>2, <1>7 DEF ReadShared, Fresh, Inside
        <3>2. /\ Answers(c, Ok(Reply(row, AppState(r), r)))
              /\ UNCHANGED tables /\ UNCHANGED <<clock, request, returned>>
            BY <1>7, <2>1, <3>1 DEF ReadShared, Ends
        <3>3. Serve(c, now)
            BY <2>1, <3>1, <3>2 DEF Serve
        <3>. QED  BY <3>1, <3>2, <3>3 DEF Served
    <2>2. CASE r.tool # "get"
        BY <1>7, <2>2 DEF ReadShared, Reads
    <2>. QED  BY <2>1, <2>2
<1>8. CASE Commit(c)
    <2>1. /\ pc[c] = "committing" /\ r.tool # "get" /\ ~Receipted(r)
          /\ now \in row.time .. clock /\ ~Busy(r, row, now) /\ ~Stale(r, row)
          /\ Accept(c, now, row, AppState(r)) /\ UNCHANGED <<clock, request, returned>>
        BY <1>8, CommitAccepts
    <2>2. Serve(c, now)
        BY <2>1 DEF Serve
    <2>. QED  BY <1>2, <2>1, <2>2 DEF Served, Inside
<1>9. CASE Respond(c)
    BY <1>9 DEF Respond
<1>. QED  BY <1>3, <1>4, <1>5, <1>6, <1>7, <1>8, <1>9 DEF Step

LEMMA NextIsServed ==
    ASSUME ServerInv, [TransactionNext]_transactionVars
    PROVE  [Next]_serverVars
<1>1. ASSUME NEW c \in Call, Step(c) PROVE [Next]_serverVars
    <2>1. Served(c) => Next
        BY DEF Served, Next
    <2>2. Return(c) => Next
        BY DEF Next
    <2>. QED  BY <1>1, <2>1, <2>2, StepIsServed
<1>2. ASSUME NEW dead \in Replica, Crash(dead) PROVE Next
    <2>1. PICK lost \in SUBSET (Call \ returned) :
              lost = {c \in Call \ returned : ReplicaOf[c] = dead}
        OBVIOUS
    <2>2. BreakOff(lost)
        BY <1>2, <2>1 DEF Crash
    <2>. QED  BY <2>2 DEF Next
<1>3. CASE Tick
    BY <1>3 DEF Next
<1>4. CASE UNCHANGED transactionVars
    BY <1>4 DEF transactionVars
<1>. QED  BY <1>1, <1>2, <1>3, <1>4 DEF TransactionNext

\* Whatever the interleaving of their statements, and whichever replicas crash,
\* before a commit or after it with the answer still to be sent, calls are
\* served one after the other (service.py:111-149): the two locks of a call
\* keep what it has read as it is until it commits.
THEOREM SerialService == TransactionSpec => ImplementsSerial
<1>1. TransactionInit => ServerInv /\ TimesPassed
    BY InvAtStart
<1>2. ServerInv /\ TimesPassed /\ [TransactionNext]_transactionVars =>
          (ServerInv /\ TimesPassed)'
    BY InvKept
<1>3. ServerInv /\ [TransactionNext]_transactionVars => [Next]_serverVars
    BY NextIsServed
<1>4. TransactionInit => Init
    BY DEF TransactionInit
<1>. QED  BY <1>1, <1>2, <1>3, <1>4, PTL DEF TransactionSpec, ImplementsSerial, Spec

-----------------------------------------------------------------------------
(* Waiting                                                                 *)

NextLock(c) == Locks(c)[held[c] + 1]
WaitsFor(c, d) == c # d /\ pc[c] = "locking" /\ NextLock(c) \in HeldBy(d)

\* A transaction that is over holds no locks.
OverHoldsNothing == \A c \in Call : pc[c] = "ended" => held[c] = 0

\* While a call is without an answer, there is one that waits for nobody.
SomebodyGoesOn ==
    (\E c \in Call : answer[c] = None) =>
        \E c \in Call : answer[c] = None /\ \A d \in Call : ~WaitsFor(c, d)

\* Locks are taken in the order of what they lock.
Level(lock) == CASE lock[1] = "replica" -> 1 [] lock[1] = "receipt" -> 2 [] OTHER -> 3

LEMMA LocksAscend ==
    ASSUME NEW c \in Call, NEW i \in 1 .. Len(Locks(c)), NEW j \in 1 .. Len(Locks(c))
    PROVE  /\ Level(Locks(c)[i]) \in 1 .. 3
           /\ i < j => Level(Locks(c)[i]) < Level(Locks(c)[j])
<1>1. /\ Level(ReplicaLock(c)) = 1
      /\ Level(ReceiptLock(request[c])) = 2
      /\ Level(ResourceLock(request[c])) = 3
    BY DEF Level, ReplicaLock, ReceiptLock, ResourceLock
<1>2. CASE request[c].mutation_id = None
    <2>1. Locks(c) = <<ReplicaLock(c), ResourceLock(request[c])>>
        BY <1>2 DEF Locks
    <2>2. i \in 1 .. 2 /\ j \in 1 .. 2
        BY <2>1
    <2>3. Locks(c)[1] = ReplicaLock(c) /\ Locks(c)[2] = ResourceLock(request[c])
        BY <2>1
    <2>. QED  BY <1>1, <2>2, <2>3
<1>3. CASE request[c].mutation_id # None
    <2>1. Locks(c) = <<ReplicaLock(c), ReceiptLock(request[c]), ResourceLock(request[c])>>
        BY <1>3 DEF Locks
    <2>2. i \in 1 .. 3 /\ j \in 1 .. 3
        BY <2>1
    <2>3. /\ Locks(c)[1] = ReplicaLock(c) /\ Locks(c)[2] = ReceiptLock(request[c])
          /\ Locks(c)[3] = ResourceLock(request[c])
        BY <2>1
    <2>. QED  BY <1>1, <2>2, <2>3
<1>. QED  BY <1>2, <1>3

\* Whoever is waited for is not over, and waits in turn only for a lock that
\* comes later.
LEMMA WaitsAscend ==
    ASSUME ServerInv, OverHoldsNothing, NEW c \in Call, NEW d \in Call, WaitsFor(c, d)
    PROVE  /\ answer[d] = None
           /\ Level(NextLock(c)) \in 1 .. 3
           /\ pc[d] = "locking" => Level(NextLock(c)) < Level(NextLock(d))
<1>1. PICK i \in 1 .. held[d] : NextLock(c) = Locks(d)[i]
    BY DEF WaitsFor, HeldBy
<1>2. held[c] \in Nat /\ held[d] \in Nat /\ Len(Locks(c)) \in Nat /\ Len(Locks(d)) \in Nat
    BY LockCount DEF ServerInv, Shapes
<1>3. pc[d] # "ended"
    BY <1>1, <1>2 DEF OverHoldsNothing
<1>4. answer[d] = None
    BY <1>3 DEF ServerInv, EndsWithAnswer
<1>5. held[c] + 1 \in 1 .. Len(Locks(c))
    BY <1>2 DEF WaitsFor, ServerInv, LocksAreHeld
<1>6. Level(NextLock(c)) \in 1 .. 3
    BY <1>5, LocksAscend DEF NextLock
<1>7. ASSUME pc[d] = "locking" PROVE Level(NextLock(c)) < Level(NextLock(d))
    <2>1. held[d] < Len(Locks(d))
        BY <1>7 DEF ServerInv, LocksAreHeld
    <2>2. i \in 1 .. Len(Locks(d)) /\ held[d] + 1 \in 1 .. Len(Locks(d)) /\ i < held[d] + 1
        BY <1>2, <2>1
    <2>. QED  BY <1>1, <2>2, LocksAscend DEF NextLock
<1>. QED  BY <1>4, <1>6, <1>7

\* So no chain of calls that wait has more than three links.
LEMMA ChainsEnd == ServerInv /\ OverHoldsNothing => SomebodyGoesOn
<1> SUFFICES ASSUME ServerInv, OverHoldsNothing, NEW c \in Call, answer[c] = None,
                    \A a \in Call : answer[a] = None => \E b \in Call : WaitsFor(a, b)
             PROVE  FALSE
    BY DEF SomebodyGoesOn
<1>1. PICK d \in Call : WaitsFor(c, d)
    OBVIOUS
<1>2. answer[d] = None /\ Level(NextLock(c)) \in 1 .. 3
    BY <1>1, WaitsAscend
<1>3. PICK e \in Call : WaitsFor(d, e)
    BY <1>2
<1>4. answer[e] = None /\ Level(NextLock(d)) \in 1 .. 3 /\ Level(NextLock(c)) < Level(NextLock(d))
    BY <1>1, <1>3, WaitsAscend DEF WaitsFor
<1>5. PICK f \in Call : WaitsFor(e, f)
    BY <1>4
<1>6. answer[f] = None /\ Level(NextLock(e)) \in 1 .. 3 /\ Level(NextLock(d)) < Level(NextLock(e))
    BY <1>3, <1>5, WaitsAscend DEF WaitsFor
<1>7. PICK g \in Call : WaitsFor(f, g)
    BY <1>6
<1>8. Level(NextLock(f)) \in 1 .. 3 /\ Level(NextLock(e)) < Level(NextLock(f))
    BY <1>5, <1>7, WaitsAscend DEF WaitsFor
<1>. QED  BY <1>2, <1>4, <1>6, <1>8

\* How many steps a call has before it at most; the last of them is its answer.
Left(c) ==
    CASE pc[c] = "locking" -> 6 + (Len(Locks(c)) - held[c])
      [] pc[c] = "looking" -> 6
      [] pc[c] = "timing" -> 5
      [] pc[c] = "reading" -> 4
      [] pc[c] = "sharing" -> 3
      [] pc[c] = "committing" -> 2
      [] pc[c] = "ended" -> IF c \in returned THEN 0 ELSE 1

GoesOn(c) == Left(c)' < Left(c)
StaysPut(c) ==
    /\ pc'[c] = pc[c] /\ held'[c] = held[c] /\ memory'[c] = memory[c]
    /\ answer'[c] = answer[c] /\ (c \in returned' <=> c \in returned)

\* A step takes one call on and leaves the others where they are; a crash ends
\* the calls it interrupts; nothing takes a call back.
Forward == \A c \in Call : (GoesOn(c) \/ StaysPut(c)) /\ (Step(c) => GoesOn(c))
CallsGoForward == [][Forward]_transactionVars

LEMMA EndIsForward ==
    ASSUME ServerInv, NEW c \in Call, pc[c] # "ended", pc'[c] = "ended"
    PROVE  GoesOn(c)
<1>1. Left(c)' \in {0, 1}
    BY DEF Left
<1>2. held[c] \in Nat /\ Len(Locks(c)) \in Nat /\ pc[c] \in PC
    BY LockCount DEF ServerInv, Shapes
<1>3. pc[c] = "locking" => held[c] < Len(Locks(c))
    BY DEF ServerInv, LocksAreHeld
<1>4. Left(c) \in Nat \ {0, 1}
    BY <1>2, <1>3 DEF Left, PC
<1>. QED  BY <1>1, <1>4 DEF GoesOn

LEMMA StepIsForward ==
    ASSUME ServerInv, NEW c \in Call, Step(c)
    PROVE  /\ GoesOn(c)
           /\ \A d \in Call \ {c} : StaysPut(d)
           /\ pc'[c] = "ended" => held'[c] = 0 \/ (pc[c] = "ended" /\ held'[c] = held[c])
<1>1. /\ held[c] \in Nat /\ Len(Locks(c)) \in Nat /\ DOMAIN pc = Call /\ DOMAIN held = Call
      /\ DOMAIN memory = Call /\ DOMAIN answer = Call
    BY LockCount DEF ServerInv, Shapes
<1>2. CASE Acquire(c)
    <2>1. /\ pc[c] = "locking" /\ held' = [held EXCEPT ![c] = held[c] + 1]
          /\ pc' = [pc EXCEPT ![c] = IF held[c] + 1 = Len(Locks(c)) THEN "looking" ELSE pc[c]]
          /\ request' = request /\ answer' = answer /\ memory' = memory /\ returned' = returned
        BY <1>2 DEF Acquire, serverVars
    <2>2. Locks(c)' = Locks(c)
        BY <2>1 DEF Locks, ReplicaLock, ReceiptLock, ResourceLock, KeyOf
    <2>3. held'[c] = held[c] + 1
        BY <1>1, <2>1
    <2>4. pc'[c] = IF held[c] + 1 = Len(Locks(c)) THEN "looking" ELSE "locking"
        BY <1>1, <2>1
    <2>5. Left(c) = 6 + (Len(Locks(c)) - held[c])
        BY <2>1 DEF Left
    <2>6. Left(c)' = 6 + (Len(Locks(c)) - (held[c] + 1))
        <3>1. CASE held[c] + 1 = Len(Locks(c))
            BY <1>1, <2>4, <3>1 DEF Left
        <3>2. CASE held[c] + 1 # Len(Locks(c))
            <4>1. Left(c)' = 6 + (Len(Locks(c)') - held'[c])
                BY <2>4, <3>2 DEF Left
            <4>. QED  BY <2>2, <2>3, <4>1
        <3>. QED  BY <3>1, <3>2
    <2>7. GoesOn(c)
        BY <1>1, <2>5, <2>6 DEF GoesOn
    <2>8. \A d \in Call \ {c} : StaysPut(d)
        BY <1>1, <2>1 DEF StaysPut
    <2>. QED  BY <2>4, <2>7, <2>8
<1>3. ASSUME pc[c] # "ended", Over(c), \A d \in Call \ {c} : answer'[d] = answer[d],
             returned' = returned
      PROVE  GoesOn(c) /\ (\A d \in Call \ {c} : StaysPut(d)) /\ held'[c] = 0
    <2>1. pc'[c] = "ended" /\ held'[c] = 0
        BY <1>1, <1>3 DEF Over
    <2>2. \A d \in Call \ {c} : StaysPut(d)
        BY <1>1, <1>3 DEF Over, StaysPut
    <2>. QED  BY <1>3, <2>1, <2>2, EndIsForward
<1>4. ASSUME NEW told, pc[c] # "ended", Ends(c, told)
      PROVE  GoesOn(c) /\ (\A d \in Call \ {c} : StaysPut(d)) /\ held'[c] = 0
    BY <1>1, <1>3, <1>4 DEF Ends, Answers
<1>5. ASSUME NEW field, NEW found, NEW next \in Inside, next # "looking",
             pc[c] \in Inside, Reads(c, field, found, next)
      PROVE  (\A d \in Call \ {c} : StaysPut(d)) /\ pc'[c] = next
    <2>1. pc' = [pc EXCEPT ![c] = next] /\ held' = held /\ answer' = answer /\ returned' = returned
        BY <1>5 DEF Reads, serverVars
    <2>2. \A d \in Call \ {c} : memory'[d] = memory[d]
        BY <1>1, <1>5 DEF Reads
    <2>. QED  BY <1>1, <2>1, <2>2 DEF StaysPut
<1>6. CASE Look(c)
    <2>1. pc[c] = "looking"
        BY <1>6 DEF Look
    <2>2. CASE Receipted(request[c])
        BY <1>4, <1>6, <2>1, <2>2 DEF Look
    <2>3. CASE ~Receipted(request[c])
        <3>1. pc' = [pc EXCEPT ![c] = "timing"] /\ held' = held
              /\ answer' = answer /\ memory' = memory /\ returned' = returned
            BY <1>6, <2>3 DEF Look, serverVars
        <3>2. pc'[c] = "timing"
            BY <1>1, <3>1
        <3>. QED  BY <1>1, <2>1, <3>1, <3>2 DEF StaysPut, GoesOn, Left
    <2>. QED  BY <2>2, <2>3
<1>7. CASE ReadClock(c)
    <2>1. pc[c] = "timing" /\ Reads(c, "now", clock, "reading")
        BY <1>7 DEF ReadClock
    <2>2. (\A d \in Call \ {c} : StaysPut(d)) /\ pc'[c] = "reading"
        BY <1>5, <2>1 DEF Inside
    <2>. QED  BY <2>1, <2>2 DEF GoesOn, Left
<1>8. CASE ReadRow(c)
    <2>1. pc[c] = "reading"
        BY <1>8 DEF ReadRow
    <2>2. CASE \E told : Ends(c, told)
        BY <1>4, <2>1, <2>2
    <2>3. CASE ~ \E told : Ends(c, told)
        <3>1. PICK next \in {"sharing", "committing"} :
                  Reads(c, "row", rows[request[c].resource], next)
            BY <1>8, <2>3 DEF ReadRow
        <3>2. (\A d \in Call \ {c} : StaysPut(d)) /\ pc'[c] = next
            BY <1>5, <2>1, <3>1 DEF Inside
        <3>. QED  BY <2>1, <3>2 DEF GoesOn, Left
    <2>. QED  BY <2>2, <2>3
<1>9. CASE ReadShared(c)
    <2>1. pc[c] = "sharing"
        BY <1>9 DEF ReadShared
    <2>2. CASE request[c].tool = "get"
        BY <1>4, <1>9, <2>1, <2>2 DEF ReadShared
    <2>3. CASE request[c].tool # "get"
        <3>1. Reads(c, "state", AppState(request[c]), "committing")
            BY <1>9, <2>3 DEF ReadShared
        <3>2. (\A d \in Call \ {c} : StaysPut(d)) /\ pc'[c] = "committing"
            BY <1>5, <2>1, <3>1 DEF Inside
        <3>. QED  BY <2>1, <3>2 DEF GoesOn, Left
    <2>. QED  BY <2>2, <2>3
<1>10. CASE Commit(c)
    <2>1. pc[c] = "committing" /\ Over(c) /\ returned' = returned
        BY <1>10 DEF Commit
    <2>2. \A d \in Call \ {c} : answer'[d] = answer[d]
        <3>1. \E told : answer' = [answer EXCEPT ![c] = told]
            BY <1>10 DEF Commit, Accept, Answers
        <3>. QED  BY <1>1, <3>1
    <2>. QED  BY <1>3, <2>1, <2>2
<1>11. CASE Respond(c)
    <2>1. /\ returned' = returned \cup {c} /\ c \notin returned /\ answer[c] # None
          /\ pc' = pc /\ held' = held /\ memory' = memory /\ answer' = answer
        BY <1>11 DEF Respond, Return
    <2>2. pc[c] = "ended"
        BY <2>1 DEF ServerInv, EndsWithAnswer
    <2>3. GoesOn(c)
        BY <2>1, <2>2 DEF GoesOn, Left
    <2>. QED  BY <2>1, <2>2, <2>3 DEF StaysPut
<1>. QED  BY <1>2, <1>6, <1>7, <1>8, <1>9, <1>10, <1>11 DEF Step

LEMMA CrashIsForward ==
    ASSUME ServerInv, NEW dead \in Replica, Crash(dead), NEW c \in Call
    PROVE  /\ GoesOn(c) \/ StaysPut(c)
           /\ (pc'[c] = pc[c] /\ held'[c] = held[c]) \/ held'[c] = 0
<1>1. CASE ReplicaOf[c] = dead /\ c \notin returned
    <2>1. pc'[c] = "ended" /\ held'[c] = 0 /\ c \in returned'
        BY <1>1 DEF Crash, BreakOff
    <2>2. pc[c] = "ended" => GoesOn(c)
        BY <1>1, <2>1 DEF GoesOn, Left
    <2>. QED  BY <2>1, <2>2, EndIsForward
<1>2. CASE ~(ReplicaOf[c] = dead /\ c \notin returned)
    BY <1>2 DEF Crash, BreakOff, StaysPut
<1>. QED  BY <1>1, <1>2

LEMMA OverKept ==
    ServerInv /\ OverHoldsNothing /\ [TransactionNext]_transactionVars => OverHoldsNothing'
<1> SUFFICES ASSUME ServerInv, OverHoldsNothing, [TransactionNext]_transactionVars,
                    NEW c \in Call, pc'[c] = "ended"
             PROVE  held'[c] = 0
    BY DEF OverHoldsNothing
<1>1. pc[c] = "ended" => held[c] = 0
    BY DEF OverHoldsNothing
<1>2. CASE \E d \in Call : Step(d)
    <2>1. PICK d \in Call : Step(d)
        BY <1>2
    <2>2. d # c => StaysPut(c)
        BY <2>1, StepIsForward
    <2>3. d = c => held'[c] = 0 \/ (pc[c] = "ended" /\ held'[c] = held[c])
        BY <2>1, StepIsForward
    <2>. QED  BY <1>1, <2>2, <2>3 DEF StaysPut
<1>3. CASE \E dead \in Replica : Crash(dead)
    BY <1>1, <1>3, CrashIsForward
<1>4. CASE UNCHANGED <<pc, held>>
    BY <1>1, <1>4
<1>. QED  BY <1>2, <1>3, <1>4 DEF TransactionNext, transactionVars

\* Calls do not wait for each other in a circle (service.py:112-124): while one
\* of them is unanswered, one of the unanswered can take its next statement.
THEOREM NoCircleOfLocks == TransactionSpec => []SomebodyGoesOn
<1>1. TransactionInit => ServerInv /\ TimesPassed /\ OverHoldsNothing
    <2>1. TransactionInit => OverHoldsNothing
        BY DEF TransactionInit, OverHoldsNothing
    <2>. QED  BY <2>1, InvAtStart
<1>2. ServerInv /\ TimesPassed /\ OverHoldsNothing /\ [TransactionNext]_transactionVars =>
          (ServerInv /\ TimesPassed /\ OverHoldsNothing)'
    BY InvKept, OverKept
<1>3. ServerInv /\ OverHoldsNothing => SomebodyGoesOn
    BY ChainsEnd
<1>. QED  BY <1>1, <1>2, <1>3, PTL DEF TransactionSpec

\* A call has as many steps as it has locks and statements, and one for its
\* answer (service.py:111-149): each step takes one call on and delays no
\* other, and so does a crash.
THEOREM CallsAreShort == TransactionSpec => CallsGoForward
<1>1. TransactionInit => ServerInv /\ TimesPassed
    BY InvAtStart
<1>2. ServerInv /\ TimesPassed /\ [TransactionNext]_transactionVars =>
          (ServerInv /\ TimesPassed)'
    BY InvKept
<1>3. ServerInv /\ [TransactionNext]_transactionVars => [Forward]_transactionVars
    <2> SUFFICES ASSUME ServerInv, [TransactionNext]_transactionVars, NEW c \in Call
                 PROVE  GoesOn(c) \/ StaysPut(c)
        BY StepIsForward DEF Forward
    <2>1. CASE \E d \in Call : Step(d)
        BY <2>1, StepIsForward
    <2>2. CASE \E dead \in Replica : Crash(dead)
        BY <2>2, CrashIsForward
    <2>3. CASE UNCHANGED <<pc, held, memory, answer, returned>>
        BY <2>3 DEF StaysPut
    <2>. QED  BY <2>1, <2>2, <2>3 DEF TransactionNext, transactionVars, serverVars, Tick
<1>. QED  BY <1>1, <1>2, <1>3, PTL DEF TransactionSpec, CallsGoForward
=============================================================================
