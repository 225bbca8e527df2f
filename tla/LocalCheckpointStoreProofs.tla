---------------------- MODULE LocalCheckpointStoreProofs ----------------------
(***************************************************************************)
(* Proofs about LocalCheckpointStore, for every number of processes and    *)
(* references and every clock.  They hold with and without row locks,      *)
(* except that the last one needs the locks: without them the store does   *)
(* not have that property.                                                 *)
(***************************************************************************)
EXTENDS LocalCheckpointStore, SequenceTheorems, TLAPS

-----------------------------------------------------------------------------
(* The inductive invariant                                                 *)

\* The row counts its executions, and there is a row as soon as there is one.
RowCounts ==
    \A o \in Operation :
        /\ checkpoint[o].execution = Len(executions[o])
        /\ checkpoint[o].version = 0 <=> executions[o] = <<>>
        /\ checkpoint[o].lease # NoLease => executions[o] # <<>>
        /\ executions[o] = <<>> => checkpoint[o].progress = InitialProgress(o)

\* Only the newest execution runs, and just as long as it holds the lease.
OneRuns ==
    \A o \in Operation : \A i \in DOMAIN executions[o] :
        executions[o][i] = "RUNNING" <=>
            i = Len(executions[o]) /\ checkpoint[o].lease # NoLease

\* A claim that may still write found a lease that has run out, and knows of
\* an execution that runs.
ClaimsAreFresh ==
    \A c \in Client : Calls(c, "claim") /\ client[c].call.seen # None =>
        LET call == client[c].call
            row == checkpoint[call.operation]
        IN  /\ call.seen.version <= row.version
            /\ call.seen.version = row.version =>
                   /\ row.lease <= call.now
                   /\ row.lease # NoLease => call.seen.running
            /\ call.seen.running => call.seen.version > 0

\* What a process remembers is the row as it is, or as it was before.
SnapshotsAreHistory ==
    \A c \in Client : client[c].snapshot # None =>
        LET mine == client[c].snapshot
            row == checkpoint[mine.operation]
        IN  /\ mine.version <= row.version
            /\ mine.version > 0
            /\ mine.execution \in DOMAIN executions[mine.operation]
            /\ mine.version = row.version => mine.progress = row.progress

\* Calls read the clock when they began.
CallsBegan ==
    \A c \in Client : client[c].call # None =>
        /\ client[c].call.now <= clock
        /\ client[c].call.kind \in {"save", "finish"} => client[c].snapshot # None

\* Where rows are locked, what a claim found is how it stays.
LocksHold ==
    \A o \in Operation : \A c \in Client : Locks(c, o) =>
        /\ \A d \in Client : Locks(d, o) => d = c
        /\ client[c].call.seen.version = checkpoint[o].version
        /\ client[c].call.seen.running => checkpoint[o].lease # NoLease

StoreInv ==
    /\ StoreTypeOK
    /\ RowCounts
    /\ OneRuns
    /\ ClaimsAreFresh
    /\ SnapshotsAreHistory
    /\ CallsBegan
    /\ LocksHold

-----------------------------------------------------------------------------
(* What the steps do                                                       *)

\* The memory of a process, taken apart.
LEMMA ProcessParts ==
    ASSUME StoreTypeOK, NEW c \in Client
    PROVE  /\ client[c] = [call |-> client[c].call, snapshot |-> client[c].snapshot]
           /\ client[c].call \in Claim \cup Save \cup Finish \cup {None}
           /\ client[c].snapshot \in Snapshot \cup {None}
           /\ Calls(c, "claim") => client[c].call \in Claim
           /\ Calls(c, "save") => client[c].call \in Save
           /\ Calls(c, "finish") => client[c].call \in Finish
           /\ client[c].snapshot # None => client[c].snapshot \in Snapshot
BY DEF StoreTypeOK, Process, Calls, Claim, Save, Finish

\* How a call ends for its process.
LEMMA Ending ==
    ASSUME StoreTypeOK, NEW c \in Client, NEW heard \in BOOLEAN, NEW snapshot \in Snapshot,
           Answers(c, heard, snapshot) \/ Raises(c)
    PROVE  /\ client' \in [Client -> Process]
           /\ \A d \in Client \ {c} : client'[d] = client[d]
           /\ client'[c].call = None
           /\ client'[c].snapshot \in {client[c].snapshot, snapshot}
           /\ Raises(c) => client'[c].snapshot = client[c].snapshot
<1>1. client[c].snapshot \in Snapshot \cup {None}
    BY ProcessParts
<1>2. CASE Raises(c)
    <2>1. client' = [client EXCEPT ![c].call = None]
        BY <1>2 DEF Raises
    <2>2. client \in [Client -> Process]
        BY DEF StoreTypeOK
    <2>. QED  BY <1>1, <2>1, <2>2 DEF Process
<1>3. CASE Returns(c, snapshot)
    <2>1. client' = [client EXCEPT ![c] = [call |-> None, snapshot |-> snapshot]]
        BY <1>3 DEF Returns
    <2>2. client \in [Client -> Process] /\ [call |-> None, snapshot |-> snapshot] \in Process
        BY DEF StoreTypeOK, Process
    <2>3. client'[c] = [call |-> None, snapshot |-> snapshot]
        BY <2>1, <2>2
    <2>4. Raises(c) => client'[c].snapshot = client[c].snapshot
        BY <2>2 DEF Raises, Process
    <2>. QED  BY <2>1, <2>2, <2>3, <2>4
<1>. QED  BY <1>2, <1>3 DEF Answers

\* A claim that goes through: the row is taken over by a new execution, and
\* no earlier one runs.
LEMMA ClaimCommits ==
    ASSUME StoreInv, NEW c \in Client, NEW heard \in BOOLEAN, ClaimWrites(c, heard), Stands(c)
    PROVE  LET call == client[c].call
               o == call.operation
               next == Len(executions[o]) + 1
               snapshot == [operation |-> o, progress |-> checkpoint[o].progress,
                            execution |-> next, version |-> checkpoint[o].version + 1]
           IN  /\ call \in Claim /\ call.seen \in Seen /\ call.seen # None /\ o \in Operation
               /\ call.seen.version = checkpoint[o].version
               /\ checkpoint[o].lease <= call.now /\ call.now <= clock
               /\ checkpoint' \in [Operation -> Row]
               /\ \A p \in Operation \ {o} : checkpoint'[p] = checkpoint[p]
               /\ checkpoint'[o].progress = checkpoint[o].progress
               /\ checkpoint'[o].execution = next
               /\ checkpoint'[o].version = checkpoint[o].version + 1
               /\ checkpoint'[o].lease = call.now + LeaseSeconds
               /\ checkpoint'[o].lease # NoLease
               /\ executions' \in [Operation -> Seq(ExecutionResult)]
               /\ \A p \in Operation \ {o} : executions'[p] = executions[p]
               /\ Len(executions'[o]) = next
               /\ executions'[o][next] = "RUNNING"
               /\ \A i \in 1 .. Len(executions[o]) :
                      /\ executions'[o][i] # "RUNNING"
                      /\ ~call.seen.running => executions'[o][i] = executions[o][i]
                      /\ i # Len(executions[o]) => executions'[o][i] = executions[o][i]
               /\ snapshot \in Snapshot
               /\ Answers(c, heard, snapshot)
               /\ audit' = IF checkpoint[o].version > 0 THEN audit
                           ELSE [audit EXCEPT ![o] = Append(@,
                                    [execution_id |-> next, previous |-> None,
                                     new |-> "PENDING", stage |-> InitialStage[o]])]
               /\ UNCHANGED clock
<1>. DEFINE call == client[c].call
            o == call.operation
            old == checkpoint[o]
            next == Len(executions[o]) + 1
            row == [old EXCEPT !.execution = next, !.version = old.version + 1,
                               !.lease = call.now + LeaseSeconds]
            kept == Interrupted(o, call.seen.running)
            snapshot == [operation |-> o, progress |-> old.progress,
                         execution |-> next, version |-> old.version + 1]
<1>1. Calls(c, "claim") /\ call.seen # None /\ call.seen.version = old.version
    BY DEF ClaimWrites, Stands
<1>2. StoreTypeOK
    BY DEF StoreInv
<1>3. call \in Claim
    BY <1>1, <1>2, ProcessParts
<1>4. call.seen \in Seen /\ o \in Operation /\ call.now \in Nat /\ call # None
    BY <1>1, <1>3 DEF Claim, Calls
<1>5. old.lease <= call.now /\ call.now <= clock
    BY <1>1, <1>4 DEF StoreInv, ClaimsAreFresh, CallsBegan
<1>6. old \in Row /\ executions[o] \in Seq(ExecutionResult)
    BY <1>2, <1>4 DEF StoreTypeOK
<1>7. next \in Nat /\ call.now + LeaseSeconds \in Nat /\ call.now + LeaseSeconds # NoLease
    <2>1. Len(executions[o]) \in Nat
        BY <1>6
    <2>2. LeaseSeconds \in Nat /\ LeaseSeconds # 0 /\ call.now \in Nat
        BY <1>4, LocalLeaseAssumption
    <2>3. next \in Nat
        BY <2>1
    <2>. HIDE DEF call
    <2>. QED  BY <2>2, <2>3 DEF NoLease
<1>8. /\ row \in Row /\ row.progress = old.progress /\ row.execution = next
      /\ row.version = old.version + 1 /\ row.lease = call.now + LeaseSeconds
    <2>1. old \in Row /\ old.version + 1 \in Nat
        BY <1>6 DEF Row
    <2>. HIDE DEF old, next, call
    <2>. QED  BY <2>1, <1>7 DEF Row
<1>9. snapshot \in Snapshot
    BY <1>4, <1>6, <1>7 DEF Row, Snapshot
<1>10. /\ checkpoint' = [checkpoint EXCEPT ![o] = row]
       /\ executions' = [executions EXCEPT ![o] = Append(kept, "RUNNING")]
       /\ audit' = IF call.seen.version > 0 THEN audit
                   ELSE [audit EXCEPT ![o] = Append(audit[o],
                            [execution_id |-> next, previous |-> None,
                             new |-> "PENDING", stage |-> InitialStage[o]])]
       /\ Answers(c, heard, [operation |-> o, progress |-> row.progress,
                             execution |-> next, version |-> row.version])
       /\ UNCHANGED clock
    BY DEF ClaimWrites
<1>11. /\ kept \in Seq(ExecutionResult) /\ Len(kept) = Len(executions[o])
       /\ \A i \in 1 .. Len(executions[o]) :
              /\ kept[i] # "RUNNING"
              /\ ~call.seen.running => kept[i] = executions[o][i]
              /\ i # Len(executions[o]) => kept[i] = executions[o][i]
    <2>1. old.execution = Len(executions[o])
        BY <1>4 DEF StoreInv, RowCounts
    <2>2. \A i \in 1 .. Len(executions[o]) :
              executions[o][i] = "RUNNING" => i = Len(executions[o]) /\ call.seen.running
        BY <1>1, <1>4, <1>6 DEF StoreInv, OneRuns, ClaimsAreFresh
    <2>3. CASE call.seen.running
        <3>1. kept = [executions[o] EXCEPT ![old.execution] = "INTERRUPTED"]
            BY <2>3 DEF Interrupted
        <3>2. "INTERRUPTED" \in ExecutionResult /\ "INTERRUPTED" # "RUNNING"
            BY DEF ExecutionResult
        <3>3. kept \in Seq(ExecutionResult) /\ Len(kept) = Len(executions[o])
            <4>1. executions[o] # <<>>
                BY <1>1, <1>4, <2>3 DEF StoreInv, RowCounts, ClaimsAreFresh
            <4>2. old.execution \in 1 .. Len(executions[o])
                BY <1>6, <2>1, <4>1
            <4>. QED  BY <1>6, <3>1, <3>2, <4>2, ExceptSeq
        <3>4. \A i \in 1 .. Len(executions[o]) :
                  kept[i] = IF i = old.execution THEN "INTERRUPTED" ELSE executions[o][i]
            BY <1>6, <3>1
        <3>. QED  BY <2>1, <2>2, <2>3, <3>2, <3>3, <3>4
    <2>4. CASE ~call.seen.running
        <3>1. kept = executions[o]
            BY <2>4 DEF Interrupted
        <3>. QED  BY <1>6, <2>2, <2>4, <3>1
    <2>. QED  BY <2>3, <2>4
<1>12. /\ Append(kept, "RUNNING") \in Seq(ExecutionResult)
       /\ Len(Append(kept, "RUNNING")) = next
       /\ Append(kept, "RUNNING")[next] = "RUNNING"
       /\ \A i \in 1 .. Len(executions[o]) : Append(kept, "RUNNING")[i] = kept[i]
    <2>1. "RUNNING" \in ExecutionResult
        BY DEF ExecutionResult
    <2>. HIDE DEF kept
    <2>. QED  BY <1>11, <2>1
<1>13. /\ checkpoint' \in [Operation -> Row] /\ checkpoint'[o] = row
       /\ \A p \in Operation \ {o} : checkpoint'[p] = checkpoint[p]
    <2>1. checkpoint \in [Operation -> Row]
        BY <1>2 DEF StoreTypeOK
    <2>. HIDE DEF row
    <2>. QED  BY <1>4, <1>8, <1>10, <2>1
<1>14. /\ executions' \in [Operation -> Seq(ExecutionResult)]
       /\ executions'[o] = Append(kept, "RUNNING")
       /\ \A p \in Operation \ {o} : executions'[p] = executions[p]
    <2>1. executions \in [Operation -> Seq(ExecutionResult)]
        BY <1>2 DEF StoreTypeOK
    <2>. HIDE DEF kept
    <2>. QED  BY <1>4, <1>10, <1>12, <2>1
<1>15. Answers(c, heard, snapshot)
    BY <1>8, <1>10
<1>. HIDE DEF row, kept, snapshot
<1>. QED  BY <1>1, <1>3, <1>4, <1>5, <1>7, <1>8, <1>9, <1>10, <1>11, <1>12, <1>13, <1>14, <1>15
            DEF snapshot

\* References that a call does not bring are kept.
LEMMA KeptIsProgress ==
    ASSUME NEW change \in Progress, NEW mine \in Progress
    PROVE  Kept(change, mine) \in Progress
BY DEF Kept, Progress

\* A call of an execution that owns its row: it remembers the row as it is.
LEMMA OwnerRemembers ==
    ASSUME StoreInv, NEW c \in Client, Calls(c, "save") \/ Calls(c, "finish"), Owns(c)
    PROVE  LET mine == client[c].snapshot
               o == mine.operation
           IN  /\ mine \in Snapshot /\ mine # None /\ o \in Operation
               /\ client[c].call.now \in Nat
               /\ mine.version = checkpoint[o].version /\ mine.version > 0
               /\ mine.execution = Len(executions[o])
               /\ mine.execution = checkpoint[o].execution
               /\ mine.execution \in 1 .. Len(executions[o])
               /\ mine.progress = checkpoint[o].progress
               /\ checkpoint[o] \in Row /\ executions[o] \in Seq(ExecutionResult)
               /\ checkpoint[o].lease # NoLease
               /\ executions[o][mine.execution] = "RUNNING"
<1>. DEFINE mine == client[c].snapshot
            o == mine.operation
<1>1. StoreTypeOK
    BY DEF StoreInv
<1>2. client[c].call \in Save \cup Finish /\ client[c].call # None
    BY <1>1, ProcessParts DEF Calls
<1>3. client[c].call.now \in Nat /\ client[c].call.kind \in {"save", "finish"}
    BY <1>2 DEF Save, Finish
<1>4. mine # None
    BY <1>2, <1>3 DEF StoreInv, CallsBegan
<1>5. mine \in Snapshot /\ o \in Operation
    BY <1>1, <1>4, ProcessParts DEF Snapshot
<1>6. checkpoint[o] \in Row /\ executions[o] \in Seq(ExecutionResult)
    BY <1>1, <1>5 DEF StoreTypeOK
<1>7. /\ mine.execution = checkpoint[o].execution /\ mine.version = checkpoint[o].version
      /\ checkpoint[o].lease > client[c].call.now
    BY DEF Owns
<1>8. checkpoint[o].lease # NoLease
    BY <1>3, <1>6, <1>7 DEF Row, NoLease
<1>9. /\ mine.version > 0 /\ mine.execution \in DOMAIN executions[o]
      /\ mine.progress = checkpoint[o].progress
    BY <1>4, <1>7 DEF StoreInv, SnapshotsAreHistory
<1>10. mine.execution = Len(executions[o])
    BY <1>5, <1>7 DEF StoreInv, RowCounts
<1>11. mine.execution \in 1 .. Len(executions[o])
    BY <1>6, <1>9
<1>12. executions[o][mine.execution] = "RUNNING"
    BY <1>5, <1>8, <1>9, <1>10 DEF StoreInv, OneRuns
<1>. QED  BY <1>3, <1>4, <1>5, <1>6, <1>7, <1>8, <1>9, <1>10, <1>11, <1>12

\* A save that goes through.
LEMMA SaveCommits ==
    ASSUME StoreInv, NEW c \in Client, NEW heard \in BOOLEAN, SaveWrites(c, heard), Owns(c)
    PROVE  LET mine == client[c].snapshot
               o == mine.operation
               saved == [mine EXCEPT !.progress = Kept(client[c].call.change, mine.progress),
                                     !.version = mine.version + 1]
           IN  /\ saved \in Snapshot /\ saved.operation = o
               /\ saved.execution = mine.execution /\ saved.version = mine.version + 1
               /\ saved.progress \in Progress
               /\ checkpoint' \in [Operation -> Row]
               /\ \A p \in Operation \ {o} : checkpoint'[p] = checkpoint[p]
               /\ checkpoint'[o].progress = saved.progress
               /\ checkpoint'[o].execution = checkpoint[o].execution
               /\ checkpoint'[o].version = checkpoint[o].version + 1
               /\ checkpoint'[o].lease = checkpoint[o].lease
               /\ checkpoint' = [checkpoint EXCEPT ![o] = checkpoint'[o]]
               /\ audit' = [audit EXCEPT ![o] = Append(audit[o],
                       [execution_id |-> mine.execution,
                        previous |-> mine.progress.checkpoint_status,
                        new |-> saved.progress.checkpoint_status,
                        stage |-> saved.progress.current_stage])]
               /\ Answers(c, heard, saved)
               /\ UNCHANGED <<clock, executions>>
<1>. DEFINE mine == client[c].snapshot
            o == mine.operation
            change == client[c].call.change
            saved == [mine EXCEPT !.progress = Kept(change, mine.progress),
                                  !.version = mine.version + 1]
            row == [checkpoint[o] EXCEPT !.progress = saved.progress,
                                         !.version = saved.version]
<1>1. Calls(c, "save")
    BY DEF SaveWrites
<1>2. StoreTypeOK
    BY DEF StoreInv
<1>3. /\ mine \in Snapshot /\ o \in Operation /\ checkpoint[o] \in Row
      /\ mine.version = checkpoint[o].version
    BY <1>1, OwnerRemembers
<1>4. change \in Progress
    <2>1. client[c].call \in Save
        BY <1>1, <1>2, ProcessParts
    <2>. QED  BY <2>1 DEF Save
<1>5. Kept(change, mine.progress) \in Progress /\ mine.version + 1 \in Nat
    BY <1>3, <1>4, KeptIsProgress DEF Snapshot
<1>6. /\ saved \in Snapshot /\ saved.operation = o /\ saved.execution = mine.execution
      /\ saved.version = mine.version + 1 /\ saved.progress = Kept(change, mine.progress)
    <2>. HIDE DEF change
    <2>. QED  BY <1>3, <1>5 DEF Snapshot
<1>7. checkpoint' = [checkpoint EXCEPT ![o].progress = saved.progress,
                                       ![o].version = saved.version]
    BY DEF SaveWrites
<1>8. checkpoint \in [Operation -> Row]
    BY <1>2 DEF StoreTypeOK
<1>9. saved.progress \in Progress /\ saved.version \in Nat
    BY <1>5, <1>6
<1>10. /\ checkpoint' = [checkpoint EXCEPT ![o] = row]
       /\ row \in Row /\ row.progress = saved.progress /\ row.version = saved.version
       /\ row.execution = checkpoint[o].execution /\ row.lease = checkpoint[o].lease
    <2>. HIDE DEF saved, mine
    <2>1. row \in Row /\ row.progress = saved.progress /\ row.version = saved.version
          /\ row.execution = checkpoint[o].execution /\ row.lease = checkpoint[o].lease
        BY <1>3, <1>9 DEF Row
    <2>2. checkpoint' = [checkpoint EXCEPT ![o] = row]
        BY <1>3, <1>7, <1>8
    <2>. QED  BY <2>1, <2>2
<1>11. /\ checkpoint' \in [Operation -> Row] /\ checkpoint'[o] = row
       /\ \A p \in Operation \ {o} : checkpoint'[p] = checkpoint[p]
    <2>. HIDE DEF row
    <2>. QED  BY <1>3, <1>8, <1>10
<1>12. /\ audit' = [audit EXCEPT ![o] = Append(audit[o],
               [execution_id |-> mine.execution,
                previous |-> mine.progress.checkpoint_status,
                new |-> saved.progress.checkpoint_status,
                stage |-> saved.progress.current_stage])]
       /\ Answers(c, heard, saved)
       /\ UNCHANGED <<clock, executions>>
    BY DEF SaveWrites
<1>. HIDE DEF row
<1>. QED  BY <1>3, <1>6, <1>9, <1>10, <1>11, <1>12

\* A finish that goes through: the newest execution is over.
LEMMA FinishCommits ==
    ASSUME StoreInv, NEW c \in Client, FinishWrites(c), Owns(c)
    PROVE  LET mine == client[c].snapshot
               o == mine.operation
           IN  /\ checkpoint' \in [Operation -> Row]
               /\ \A p \in Operation \ {o} : checkpoint'[p] = checkpoint[p]
               /\ checkpoint'[o].progress = checkpoint[o].progress
               /\ checkpoint'[o].execution = checkpoint[o].execution
               /\ checkpoint'[o].version = checkpoint[o].version
               /\ checkpoint'[o].lease = NoLease
               /\ executions' \in [Operation -> Seq(ExecutionResult)]
               /\ \A p \in Operation \ {o} : executions'[p] = executions[p]
               /\ Len(executions'[o]) = Len(executions[o])
               /\ \A i \in 1 .. Len(executions[o]) :
                      /\ executions'[o][i] # "RUNNING"
                      /\ i # mine.execution => executions'[o][i] = executions[o][i]
               /\ Raises(c)
               /\ UNCHANGED <<clock, audit>>
<1>. DEFINE mine == client[c].snapshot
            o == mine.operation
            outcome == IF client[c].call.failed THEN "FAILED" ELSE "SUCCEEDED"
            row == [checkpoint[o] EXCEPT !.lease = NoLease]
            results == [executions[o] EXCEPT ![mine.execution] = outcome]
<1>1. Calls(c, "finish")
    BY DEF FinishWrites
<1>2. StoreTypeOK
    BY DEF StoreInv
<1>3. /\ o \in Operation /\ checkpoint[o] \in Row /\ executions[o] \in Seq(ExecutionResult)
      /\ mine.execution = Len(executions[o]) /\ mine.execution \in 1 .. Len(executions[o])
    BY <1>1, OwnerRemembers
<1>4. checkpoint \in [Operation -> Row] /\ executions \in [Operation -> Seq(ExecutionResult)]
    BY <1>2 DEF StoreTypeOK
<1>5. /\ checkpoint' = [checkpoint EXCEPT ![o].lease = NoLease]
      /\ executions' = [executions EXCEPT ![o][mine.execution] = outcome]
      /\ Raises(c)
      /\ UNCHANGED <<clock, audit>>
    BY DEF FinishWrites
<1>6. /\ row \in Row /\ row.progress = checkpoint[o].progress /\ row.lease = NoLease
      /\ row.execution = checkpoint[o].execution /\ row.version = checkpoint[o].version
    <2>. HIDE DEF o
    <2>. QED  BY <1>3 DEF Row, NoLease
<1>7. outcome \in ExecutionResult /\ outcome # "RUNNING"
    BY DEF ExecutionResult
<1>8. /\ results \in Seq(ExecutionResult) /\ Len(results) = Len(executions[o])
      /\ \A i \in 1 .. Len(executions[o]) :
             results[i] = IF i = mine.execution THEN outcome ELSE executions[o][i]
    <2>. HIDE DEF outcome
    <2>. QED  BY <1>3, <1>7, ExceptSeq
<1>9. \A i \in 1 .. Len(executions[o]) : i # mine.execution => executions[o][i] # "RUNNING"
    BY <1>3 DEF StoreInv, OneRuns
<1>10. /\ checkpoint' \in [Operation -> Row] /\ checkpoint'[o] = row
       /\ \A p \in Operation \ {o} : checkpoint'[p] = checkpoint[p]
    BY <1>3, <1>4, <1>5, <1>6
<1>11. /\ executions' \in [Operation -> Seq(ExecutionResult)] /\ executions'[o] = results
       /\ \A p \in Operation \ {o} : executions'[p] = executions[p]
    <2>. HIDE DEF outcome
    <2>. QED  BY <1>3, <1>4, <1>5, <1>8
<1>. HIDE DEF row, results, outcome
<1>12. /\ Len(executions'[o]) = Len(executions[o])
       /\ \A i \in 1 .. Len(executions[o]) :
              /\ executions'[o][i] # "RUNNING"
              /\ i # mine.execution => executions'[o][i] = executions[o][i]
    <2>. HIDE DEF o, mine
    <2>. QED  BY <1>7, <1>8, <1>9, <1>11
<1>. QED  BY <1>3, <1>5, <1>6, <1>10, <1>11, <1>12

-----------------------------------------------------------------------------
(* Every step keeps the invariant                                          *)

\* A claim that may still write, with what it read.
Pending(c) == Calls(c, "claim") /\ client[c].call.seen # None

\* What the invariant asks of one such claim, and of the others while it
\* holds the lock.
PendingIsSound(c) ==
    LET call == client[c].call
        row == checkpoint[call.operation]
    IN  /\ call.seen.version <= row.version
        /\ call.seen.version = row.version =>
               /\ row.lease <= call.now
               /\ row.lease # NoLease => call.seen.running
        /\ call.seen.running => call.seen.version > 0
        /\ Locks(c, call.operation) =>
               /\ call.seen.version = row.version
               /\ call.seen.running => row.lease # NoLease
               /\ \A d \in Client : Locks(d, call.operation) => d = c

\* Steps of one process that leave the tables alone.
LEMMA ClientSteps ==
    ASSUME StoreInv, NEW c \in Client, UNCHANGED tables,
           clock' \in Nat, clock <= clock',
           client' \in [Client -> Process],
           \A d \in Client \ {c} : client'[d] = client[d],
           client'[c].snapshot = client[c].snapshot,
           client'[c].call # None =>
               /\ client'[c].call.now <= clock'
               /\ client'[c].call.kind \in {"save", "finish"} => client'[c].snapshot # None,
           Pending(c)' => PendingIsSound(c)'
    PROVE  StoreInv'
<1>1. checkpoint' = checkpoint /\ executions' = executions /\ audit' = audit
    BY DEF tables
<1>2. StoreTypeOK'
    BY <1>1 DEF StoreInv, StoreTypeOK
<1>3. RowCounts' /\ OneRuns'
    BY <1>1 DEF StoreInv, RowCounts, OneRuns
<1>4. ClaimsAreFresh'
    <2> SUFFICES ASSUME NEW d \in Client, Pending(d)'
                 PROVE  (LET call == client[d].call
                             row == checkpoint[call.operation]
                         IN  /\ call.seen.version <= row.version
                             /\ call.seen.version = row.version =>
                                    /\ row.lease <= call.now
                                    /\ row.lease # NoLease => call.seen.running
                             /\ call.seen.running => call.seen.version > 0)'
        BY DEF ClaimsAreFresh, Pending
    <2>1. CASE d = c
        BY <2>1 DEF PendingIsSound
    <2>2. CASE d # c
        <3>1. client'[d] = client[d]
            BY <2>2
        <3>2. Pending(d)
            BY <3>1 DEF Pending, Calls
        <3>. QED  BY <1>1, <3>1, <3>2 DEF StoreInv, ClaimsAreFresh, Pending
    <2>. QED  BY <2>1, <2>2
<1>5. SnapshotsAreHistory'
    <2>1. \A d \in Client : client'[d].snapshot = client[d].snapshot
        OBVIOUS
    <2>. QED  BY <1>1, <2>1 DEF StoreInv, SnapshotsAreHistory
<1>6. CallsBegan'
    <2> SUFFICES ASSUME NEW d \in Client, client'[d].call # None
                 PROVE  /\ client'[d].call.now <= clock'
                        /\ client'[d].call.kind \in {"save", "finish"} =>
                               client'[d].snapshot # None
        BY DEF CallsBegan
    <2>1. CASE d # c
        <3>1. client'[d] = client[d]
            BY <2>1
        <3>2. client[d].call.now <= clock
            BY <3>1 DEF StoreInv, CallsBegan
        <3>3. client[d].call \in Claim \cup Save \cup Finish
            BY <3>1, ProcessParts DEF StoreInv
        <3>4. client[d].call.now \in Nat /\ clock \in Nat
            BY <3>3 DEF Claim, Save, Finish, StoreInv, StoreTypeOK
        <3>5. client'[d].call.now <= clock'
            BY <3>1, <3>2, <3>4
        <3>. QED  BY <3>1, <3>5 DEF StoreInv, CallsBegan
    <2>. QED  BY <2>1
<1>7. LocksHold'
    <2> SUFFICES ASSUME NEW o \in Operation, NEW d \in Client, Locks(d, o)'
                 PROVE  (/\ \A e \in Client : Locks(e, o) => e = d
                         /\ client[d].call.seen.version = checkpoint[o].version
                         /\ client[d].call.seen.running => checkpoint[o].lease # NoLease)'
        BY DEF LocksHold
    <2>0. \A e \in Client \ {c} : Locks(e, o)' <=> Locks(e, o)
        BY DEF Locks, Calls
    <2>1. CASE d = c
        <3>1. Pending(c)' /\ client'[c].call.operation = o
            BY <2>1 DEF Locks, Pending
        <3>. QED  BY <2>1, <3>1 DEF PendingIsSound
    <2>2. CASE d # c
        <3>1. client'[d] = client[d] /\ Locks(d, o)
            BY <2>0, <2>2
        <3>2. \A e \in Client \ {c} : Locks(e, o)' => e = d
            BY <2>0, <3>1 DEF StoreInv, LocksHold
        <3>3. ~Locks(c, o)'
            <4> SUFFICES ASSUME Locks(c, o)' PROVE FALSE
                OBVIOUS
            <4>1. Pending(c)' /\ client'[c].call.operation = o
                BY DEF Locks, Pending
            <4>. QED  BY <2>2, <4>1 DEF PendingIsSound
        <3>. QED  BY <1>1, <3>1, <3>2, <3>3 DEF StoreInv, LocksHold
    <2>. QED  BY <2>1, <2>2
<1>. QED  BY <1>2, <1>3, <1>4, <1>5, <1>6, <1>7 DEF StoreInv

\* A process's memory of the row of the operation o, after a write to it.
Remembers(mine, o) ==
    /\ mine.operation = o
    /\ mine.version = checkpoint[o].version
    /\ mine.execution \in DOMAIN executions[o]
    /\ mine.progress = checkpoint[o].progress

\* Steps of one process that write the row of o.
LEMMA CommitSteps ==
    ASSUME StoreInv, NEW c \in Client, NEW o \in Operation, UNCHANGED clock,
           checkpoint' \in [Operation -> Row],
           executions' \in [Operation -> Seq(ExecutionResult)],
           audit' \in [Operation -> Seq(Event)],
           client' \in [Client -> Process],
           \A p \in Operation \ {o} :
               checkpoint'[p] = checkpoint[p] /\ executions'[p] = executions[p],
           \A d \in Client \ {c} : client'[d] = client[d],
           client'[c].call = None,
           client'[c].snapshot = client[c].snapshot \/ Remembers(client[c].snapshot, o)',
           checkpoint'[o].execution = Len(executions'[o]),
           Len(executions[o]) <= Len(executions'[o]),
           executions'[o] # <<>>, checkpoint'[o].version > 0,
           \A i \in DOMAIN executions'[o] :
               executions'[o][i] = "RUNNING" <=>
                   i = Len(executions'[o]) /\ checkpoint'[o].lease # NoLease,
           \/ checkpoint'[o].version = checkpoint[o].version + 1
           \/ /\ checkpoint'[o].version = checkpoint[o].version
              /\ checkpoint'[o].lease = NoLease
              /\ checkpoint'[o].progress = checkpoint[o].progress,
           \A d \in Client \ {c} : ~Locks(d, o)
    PROVE  StoreInv'
<1>1. StoreTypeOK /\ checkpoint[o] \in Row /\ checkpoint'[o] \in Row
      /\ executions[o] \in Seq(ExecutionResult) /\ executions'[o] \in Seq(ExecutionResult)
    BY DEF StoreInv, StoreTypeOK
<1>2. StoreTypeOK'
    BY <1>1 DEF StoreTypeOK
<1>3. RowCounts'
    <2> SUFFICES ASSUME NEW p \in Operation
                 PROVE  /\ checkpoint'[p].execution = Len(executions'[p])
                        /\ checkpoint'[p].version = 0 <=> executions'[p] = <<>>
                        /\ checkpoint'[p].lease # NoLease => executions'[p] # <<>>
                        /\ executions'[p] = <<>> =>
                               checkpoint'[p].progress = InitialProgress(p)
        BY DEF RowCounts
    <2>1. CASE p = o
        <3>1. checkpoint'[o].version # 0
            BY <1>1 DEF Row
        <3>. QED  BY <2>1, <3>1
    <2>2. CASE p # o
        BY <2>2 DEF StoreInv, RowCounts
    <2>. QED  BY <2>1, <2>2
<1>4. OneRuns'
    <2> SUFFICES ASSUME NEW p \in Operation, NEW i \in DOMAIN executions'[p]
                 PROVE  executions'[p][i] = "RUNNING" <=>
                            i = Len(executions'[p]) /\ checkpoint'[p].lease # NoLease
        BY DEF OneRuns
    <2>1. CASE p # o
        <3>1. executions'[p] = executions[p] /\ checkpoint'[p] = checkpoint[p]
            BY <2>1
        <3>2. i \in DOMAIN executions[p]
            BY <3>1
        <3>3. executions[p][i] = "RUNNING" <=>
                  i = Len(executions[p]) /\ checkpoint[p].lease # NoLease
            BY <3>2 DEF StoreInv, OneRuns
        <3>. QED  BY <3>1, <3>3
    <2>. QED  BY <2>1
<1>5. ASSUME NEW d \in Client \ {c}, Pending(d)
      PROVE  /\ client[d].call.operation \in Operation
             /\ client[d].call.now \in Nat /\ client[d].call.seen.version \in Nat
    <2>1. client[d].call \in Claim /\ client[d].call.seen # None
        BY <1>1, <1>5, ProcessParts DEF Pending
    <2>. QED  BY <2>1 DEF Claim, Seen
<1>6. ClaimsAreFresh'
    <2> SUFFICES ASSUME NEW d \in Client, Pending(d)'
                 PROVE  (LET call == client[d].call
                             row == checkpoint[call.operation]
                         IN  /\ call.seen.version <= row.version
                             /\ call.seen.version = row.version =>
                                    /\ row.lease <= call.now
                                    /\ row.lease # NoLease => call.seen.running
                             /\ call.seen.running => call.seen.version > 0)'
        BY DEF ClaimsAreFresh, Pending
    <2>1. d # c /\ client'[d] = client[d] /\ Pending(d)
        BY DEF Pending, Calls
    <2>. DEFINE call == client[d].call
    <2>2. /\ call.operation \in Operation /\ call.now \in Nat /\ call.seen.version \in Nat
        BY <1>5, <2>1
    <2>3. /\ call.seen.version <= checkpoint[call.operation].version
          /\ call.seen.version = checkpoint[call.operation].version =>
                 /\ checkpoint[call.operation].lease <= call.now
                 /\ checkpoint[call.operation].lease # NoLease => call.seen.running
          /\ call.seen.running => call.seen.version > 0
        BY <2>1 DEF StoreInv, ClaimsAreFresh, Pending
    <2>4. CASE call.operation # o
        BY <2>1, <2>2, <2>3, <2>4
    <2>5. CASE call.operation = o
        <3>1. checkpoint[o].version \in Nat /\ checkpoint'[o].version \in Nat
            BY <1>1 DEF Row
        <3>2. call.seen.version <= checkpoint'[o].version
            BY <2>2, <2>3, <2>5, <3>1
        <3>3. ASSUME call.seen.version = checkpoint'[o].version
              PROVE  checkpoint'[o].lease = NoLease /\ checkpoint'[o].lease <= call.now
            <4>1. checkpoint'[o].lease = NoLease
                BY <2>2, <2>3, <2>5, <3>1, <3>3
            <4>. QED  BY <2>2, <4>1 DEF NoLease
        <3>. QED  BY <2>1, <2>3, <2>5, <3>2, <3>3
    <2>. QED  BY <2>4, <2>5
<1>7. SnapshotsAreHistory'
    <2> SUFFICES ASSUME NEW d \in Client, client'[d].snapshot # None
                 PROVE  (LET mine == client[d].snapshot
                             row == checkpoint[mine.operation]
                         IN  /\ mine.version <= row.version
                             /\ mine.version > 0
                             /\ mine.execution \in DOMAIN executions[mine.operation]
                             /\ mine.version = row.version => mine.progress = row.progress)'
        BY DEF SnapshotsAreHistory
    <2>. DEFINE mine == client'[d].snapshot
    <2>1. checkpoint[o].version \in Nat /\ checkpoint'[o].version \in Nat
        BY <1>1 DEF Row
    <2>2. CASE mine = client[d].snapshot
        <3>1. mine \in Snapshot
            BY <1>1, <2>2, ProcessParts
        <3>2. mine.operation \in Operation /\ mine.version \in Nat
            BY <3>1 DEF Snapshot
        <3>3. /\ mine.version <= checkpoint[mine.operation].version
              /\ mine.version > 0
              /\ mine.execution \in DOMAIN executions[mine.operation]
              /\ mine.version = checkpoint[mine.operation].version =>
                     mine.progress = checkpoint[mine.operation].progress
            BY <2>2 DEF StoreInv, SnapshotsAreHistory
        <3>4. CASE mine.operation # o
            BY <3>2, <3>3, <3>4
        <3>5. CASE mine.operation = o
            <4>1. mine.execution \in DOMAIN executions'[o]
                BY <1>1, <3>3, <3>5
            <4>2. mine.version <= checkpoint'[o].version
                BY <2>1, <3>2, <3>3, <3>5
            <4>3. mine.version = checkpoint'[o].version =>
                      mine.progress = checkpoint'[o].progress
                BY <2>1, <3>2, <3>3, <3>5
            <4>. HIDE DEF mine
            <4>. QED  BY <3>3, <3>5, <4>1, <4>2, <4>3 DEF mine
        <3>. QED  BY <3>4, <3>5
    <2>3. CASE mine # client[d].snapshot
        <3>1. d = c /\ Remembers(client[c].snapshot, o)'
            BY <2>3
        <3>. QED  BY <2>1, <3>1 DEF Remembers
    <2>. QED  BY <2>2, <2>3
<1>8. CallsBegan'
    <2> SUFFICES ASSUME NEW d \in Client, client'[d].call # None
                 PROVE  /\ client'[d].call.now <= clock'
                        /\ client'[d].call.kind \in {"save", "finish"} =>
                               client'[d].snapshot # None
        BY DEF CallsBegan
    <2>1. client'[d] = client[d]
        OBVIOUS
    <2>. QED  BY <2>1 DEF StoreInv, CallsBegan
<1>9. LocksHold'
    <2> SUFFICES ASSUME NEW p \in Operation, NEW d \in Client, Locks(d, p)'
                 PROVE  (/\ \A e \in Client : Locks(e, p) => e = d
                         /\ client[d].call.seen.version = checkpoint[p].version
                         /\ client[d].call.seen.running => checkpoint[p].lease # NoLease)'
        BY DEF LocksHold
    <2>1. \A e \in Client \ {c} : Locks(e, p)' <=> Locks(e, p)
        BY DEF Locks, Calls
    <2>2. ~Locks(c, p)'
        BY DEF Locks, Calls
    <2>3. d # c /\ Locks(d, p) /\ client'[d] = client[d]
        BY <2>1, <2>2
    <2>4. p # o
        BY <2>3
    <2>5. /\ \A e \in Client : Locks(e, p) => e = d
          /\ client[d].call.seen.version = checkpoint[p].version
          /\ client[d].call.seen.running => checkpoint[p].lease # NoLease
        BY <2>3 DEF StoreInv, LocksHold
    <2>6. \A e \in Client : Locks(e, p)' => e = d
        BY <2>1, <2>2, <2>5
    <2>7. checkpoint'[p] = checkpoint[p]
        BY <2>4
    <2>. QED  BY <2>3, <2>5, <2>6, <2>7
<1>. QED  BY <1>2, <1>3, <1>4, <1>6, <1>7, <1>8, <1>9 DEF StoreInv

\* A sequence with an element is not empty.
LEMMA Occupied ==
    ASSUME NEW S, NEW s \in Seq(S), NEW i \in 1 .. Len(s)
    PROVE  /\ Len(s) \in Nat /\ s # <<>>
           /\ i \in DOMAIN s /\ DOMAIN s = 1 .. Len(s)
<1>1. Len(s) \in Nat /\ DOMAIN s = 1 .. Len(s)
    OBVIOUS
<1>2. Len(s) # 0
    BY <1>1
<1>3. s # <<>>
    BY <1>2
<1>. QED  BY <1>1, <1>3

\* Nobody holds the lock that another process has passed.
LEMMA OthersUnlocked ==
    ASSUME NEW c \in Client, NEW o, Unlocked(c, o)
    PROVE  \A d \in Client \ {c} : ~Locks(d, o)
BY DEF Unlocked

LEMMA ClaimKeepsInv ==
    ASSUME StoreInv, NEW c \in Client, NEW heard \in BOOLEAN, ClaimWrites(c, heard), Stands(c)
    PROVE  StoreInv'
<1>0. PICK o \in Operation : o = client[c].call.operation
    BY ClaimCommits
<1>. DEFINE next == Len(executions[o]) + 1
            snapshot == [operation |-> o, progress |-> checkpoint[o].progress,
                         execution |-> next, version |-> checkpoint[o].version + 1]
<1>1. /\ client[c].call \in Claim /\ client[c].call.seen \in Seen
      /\ client[c].call.seen # None /\ o \in Operation
      /\ client[c].call.seen.version = checkpoint[o].version
      /\ checkpoint' \in [Operation -> Row]
      /\ \A p \in Operation \ {o} : checkpoint'[p] = checkpoint[p]
      /\ checkpoint'[o].progress = checkpoint[o].progress
      /\ checkpoint'[o].execution = next
      /\ checkpoint'[o].version = checkpoint[o].version + 1
      /\ checkpoint'[o].lease # NoLease
      /\ executions' \in [Operation -> Seq(ExecutionResult)]
      /\ \A p \in Operation \ {o} : executions'[p] = executions[p]
      /\ Len(executions'[o]) = next
      /\ executions'[o][next] = "RUNNING"
      /\ \A i \in 1 .. Len(executions[o]) : executions'[o][i] # "RUNNING"
      /\ snapshot \in Snapshot
      /\ Answers(c, heard, snapshot)
      /\ audit' = IF checkpoint[o].version > 0 THEN audit
                  ELSE [audit EXCEPT ![o] = Append(audit[o],
                           [execution_id |-> next, previous |-> None,
                            new |-> "PENDING", stage |-> InitialStage[o]])]
      /\ UNCHANGED clock
    BY <1>0, ClaimCommits
<1>2. StoreTypeOK /\ checkpoint[o] \in Row /\ executions[o] \in Seq(ExecutionResult)
      /\ executions'[o] \in Seq(ExecutionResult)
    BY <1>1 DEF StoreInv, StoreTypeOK
<1>. HIDE DEF snapshot, next
<1>3. audit' \in [Operation -> Seq(Event)]
    <2>. DEFINE event == [execution_id |-> next, previous |-> None,
                          new |-> "PENDING", stage |-> InitialStage[o]]
    <2>1. InitialStage[o] \in Stage
        BY <1>1 DEF InitialStage, Stage, Operation
    <2>2. event \in Event
        BY <1>2, <2>1 DEF Event, Status, next
    <2>3. audit \in [Operation -> Seq(Event)]
        BY <1>2 DEF StoreTypeOK
    <2>4. audit' = audit \/ audit' = [audit EXCEPT ![o] = Append(audit[o], event)]
        BY <1>1
    <2>. HIDE DEF event
    <2>. QED  BY <1>1, <2>2, <2>3, <2>4
<1>4. /\ client' \in [Client -> Process]
      /\ \A d \in Client \ {c} : client'[d] = client[d]
      /\ client'[c].call = None
      /\ client'[c].snapshot \in {client[c].snapshot, snapshot}
    <2>. QED  BY <1>1, <1>2, Ending
<1>5. checkpoint[o].version \in Nat /\ next \in Nat \ {0}
    BY <1>2 DEF Row, next
<1>6. DOMAIN executions'[o] = 1 .. next /\ DOMAIN executions[o] = 1 .. Len(executions[o])
    BY <1>1, <1>2
<1>7. client'[c].snapshot = client[c].snapshot \/ Remembers(client[c].snapshot, o)'
    <2> SUFFICES ASSUME client'[c].snapshot = snapshot
                 PROVE  Remembers(client[c].snapshot, o)'
        BY <1>4
    <2>1. next \in DOMAIN executions'[o]
        BY <1>5, <1>6
    <2>. QED  BY <1>1, <2>1 DEF Remembers, snapshot
<1>8. /\ Len(executions[o]) <= Len(executions'[o]) /\ executions'[o] # <<>>
      /\ checkpoint'[o].version > 0
    <2>1. Len(executions[o]) \in Nat
        BY <1>2
    <2>2. Len(executions'[o]) # 0
        BY <1>1, <1>5
    <2>3. Len(executions[o]) <= Len(executions'[o])
        BY <1>1, <2>1 DEF next
    <2>4. executions'[o] # <<>>
        BY <1>2, <2>2
    <2>5. checkpoint'[o].version > 0
        BY <1>1, <1>5
    <2>. QED  BY <2>3, <2>4, <2>5
<1>9. \A i \in DOMAIN executions'[o] :
          executions'[o][i] = "RUNNING" <=>
              i = Len(executions'[o]) /\ checkpoint'[o].lease # NoLease
    <2>1. \A i \in 1 .. next : i # next => i \in 1 .. Len(executions[o])
        BY <1>2 DEF next
    <2>. QED  BY <1>1, <1>6, <2>1
<1>10. \A d \in Client \ {c} : ~Locks(d, o)
    <2> SUFFICES ASSUME NEW d \in Client \ {c}, Locks(d, o) PROVE FALSE
        OBVIOUS
    <2>1. /\ client[d].call.seen.version = checkpoint[o].version
          /\ client[d].call.seen.version > 0 /\ LocksRows
        BY <1>1 DEF StoreInv, LocksHold, Locks
    <2>2. Locks(c, o)
        BY <1>1, <2>1, <1>0 DEF Locks, Calls, Claim, ClaimWrites
    <2>. QED  BY <1>1, <2>2 DEF StoreInv, LocksHold
<1>. QED  BY <1>1, <1>3, <1>4, <1>7, <1>8, <1>9, <1>10, CommitSteps

LEMMA SaveKeepsInv ==
    ASSUME StoreInv, NEW c \in Client, NEW heard \in BOOLEAN, SaveWrites(c, heard), Owns(c)
    PROVE  StoreInv'
<1>0. PICK o \in Operation : o = client[c].snapshot.operation
    BY OwnerRemembers DEF SaveWrites
<1>. DEFINE mine == client[c].snapshot
            saved == [mine EXCEPT !.progress = Kept(client[c].call.change, mine.progress),
                                  !.version = mine.version + 1]
            event == [execution_id |-> mine.execution,
                      previous |-> mine.progress.checkpoint_status,
                      new |-> saved.progress.checkpoint_status,
                      stage |-> saved.progress.current_stage]
<1>1. /\ mine \in Snapshot /\ mine.version = checkpoint[o].version
      /\ mine.execution = Len(executions[o]) /\ mine.execution = checkpoint[o].execution
      /\ mine.execution \in 1 .. Len(executions[o])
      /\ executions[o] \in Seq(ExecutionResult) /\ checkpoint[o] \in Row
    BY <1>0, OwnerRemembers DEF SaveWrites
<1>2. /\ saved \in Snapshot /\ saved.operation = o
      /\ saved.execution = mine.execution /\ saved.version = mine.version + 1
      /\ saved.progress \in Progress
      /\ checkpoint' \in [Operation -> Row]
      /\ \A p \in Operation \ {o} : checkpoint'[p] = checkpoint[p]
      /\ checkpoint'[o].progress = saved.progress
      /\ checkpoint'[o].execution = checkpoint[o].execution
      /\ checkpoint'[o].version = checkpoint[o].version + 1
      /\ checkpoint'[o].lease = checkpoint[o].lease
      /\ audit' = [audit EXCEPT ![o] = Append(audit[o], event)]
      /\ Answers(c, heard, saved)
      /\ UNCHANGED <<clock, executions>>
    <2>. DEFINE p == mine.operation
    <2>1. /\ saved \in Snapshot /\ saved.operation = p
          /\ saved.execution = mine.execution /\ saved.version = mine.version + 1
          /\ saved.progress \in Progress
          /\ checkpoint' \in [Operation -> Row]
          /\ \A q \in Operation \ {p} : checkpoint'[q] = checkpoint[q]
          /\ checkpoint'[p].progress = saved.progress
          /\ checkpoint'[p].execution = checkpoint[p].execution
          /\ checkpoint'[p].version = checkpoint[p].version + 1
          /\ checkpoint'[p].lease = checkpoint[p].lease
          /\ audit' = [audit EXCEPT ![p] = Append(audit[p], event)]
          /\ Answers(c, heard, saved)
          /\ UNCHANGED <<clock, executions>>
        BY SaveCommits
    <2>2. p = o
        BY <1>0
    <2>. HIDE DEF saved, event, p
    <2>. QED  BY <2>1, <2>2
<1>. HIDE DEF saved, event, mine
<1>3. StoreTypeOK
    BY DEF StoreInv
<1>4. audit' \in [Operation -> Seq(Event)]
    <2>1. event \in Event
        BY <1>1, <1>2 DEF Event, Snapshot, Progress, event
    <2>2. audit \in [Operation -> Seq(Event)]
        BY <1>3 DEF StoreTypeOK
    <2>. QED  BY <1>2, <2>1, <2>2
<1>5. /\ client' \in [Client -> Process]
      /\ \A d \in Client \ {c} : client'[d] = client[d]
      /\ client'[c].call = None
      /\ client'[c].snapshot \in {client[c].snapshot, saved}
    BY <1>2, <1>3, Ending
<1>6. client'[c].snapshot = client[c].snapshot \/ Remembers(client[c].snapshot, o)'
    <2> SUFFICES ASSUME client'[c].snapshot = saved
                 PROVE  Remembers(client[c].snapshot, o)'
        BY <1>5
    <2>1. executions'[o] = executions[o]
        BY <1>2
    <2>2. mine.execution \in DOMAIN executions'[o]
        BY <1>1, <2>1, Occupied
    <2>. QED  BY <1>1, <1>2, <2>2 DEF Remembers
<1>7. /\ executions' \in [Operation -> Seq(ExecutionResult)]
      /\ \A p \in Operation \ {o} : executions'[p] = executions[p]
      /\ checkpoint'[o].execution = Len(executions'[o])
      /\ Len(executions[o]) <= Len(executions'[o])
      /\ executions'[o] # <<>>
    <2>1. executions' = executions /\ executions \in [Operation -> Seq(ExecutionResult)]
        BY <1>2, <1>3 DEF StoreTypeOK
    <2>2. Len(executions[o]) \in Nat /\ executions[o] # <<>>
        BY <1>1, Occupied
    <2>3. checkpoint'[o].execution = Len(executions'[o])
        BY <1>1, <1>2, <2>1
    <2>. QED  BY <2>1, <2>2, <2>3
<1>8. checkpoint'[o].version > 0
    BY <1>1, <1>2 DEF Row
<1>9. \A i \in DOMAIN executions'[o] :
          executions'[o][i] = "RUNNING" <=>
              i = Len(executions'[o]) /\ checkpoint'[o].lease # NoLease
    BY <1>2 DEF StoreInv, OneRuns
<1>10. \A d \in Client \ {c} : ~Locks(d, o)
    BY <1>0, OthersUnlocked DEF SaveWrites
<1>. QED  BY <1>2, <1>4, <1>5, <1>6, <1>7, <1>8, <1>9, <1>10, CommitSteps

LEMMA FinishKeepsInv ==
    ASSUME StoreInv, NEW c \in Client, FinishWrites(c), Owns(c)
    PROVE  StoreInv'
<1>0. PICK o \in Operation : o = client[c].snapshot.operation
    BY OwnerRemembers DEF FinishWrites
<1>. DEFINE mine == client[c].snapshot
<1>1. /\ mine \in Snapshot /\ mine.version = checkpoint[o].version /\ mine.version > 0
      /\ mine.execution = Len(executions[o]) /\ mine.execution = checkpoint[o].execution
      /\ mine.execution \in 1 .. Len(executions[o])
      /\ executions[o] \in Seq(ExecutionResult) /\ checkpoint[o] \in Row
    BY <1>0, OwnerRemembers DEF FinishWrites
<1>2. /\ checkpoint' \in [Operation -> Row]
      /\ \A p \in Operation \ {o} : checkpoint'[p] = checkpoint[p]
      /\ checkpoint'[o].progress = checkpoint[o].progress
      /\ checkpoint'[o].execution = checkpoint[o].execution
      /\ checkpoint'[o].version = checkpoint[o].version
      /\ checkpoint'[o].lease = NoLease
      /\ executions' \in [Operation -> Seq(ExecutionResult)]
      /\ \A p \in Operation \ {o} : executions'[p] = executions[p]
      /\ Len(executions'[o]) = Len(executions[o])
      /\ \A i \in 1 .. Len(executions[o]) : executions'[o][i] # "RUNNING"
      /\ Raises(c)
      /\ UNCHANGED <<clock, audit>>
    BY <1>0, FinishCommits
<1>3. StoreTypeOK
    BY DEF StoreInv
<1>4. /\ client' \in [Client -> Process]
      /\ \A d \in Client \ {c} : client'[d] = client[d]
      /\ client'[c].call = None
      /\ client'[c].snapshot = client[c].snapshot
    BY <1>1, <1>2, <1>3, Ending
<1>5. audit' \in [Operation -> Seq(Event)]
    BY <1>2, <1>3 DEF StoreTypeOK
<1>6. executions'[o] \in Seq(ExecutionResult)
    BY <1>2
<1>. HIDE DEF mine
<1>7. /\ checkpoint'[o].execution = Len(executions'[o])
      /\ Len(executions[o]) <= Len(executions'[o])
      /\ executions'[o] # <<>>
      /\ checkpoint'[o].version > 0
    <2>1. Len(executions[o]) \in Nat
        BY <1>1, Occupied
    <2>2. mine.execution \in 1 .. Len(executions'[o])
        BY <1>1, <1>2
    <2>3. executions'[o] # <<>>
        BY <1>6, <2>2, Occupied
    <2>4. Len(executions[o]) <= Len(executions'[o])
        BY <1>2, <2>1
    <2>5. checkpoint'[o].execution = Len(executions'[o])
        BY <1>1, <1>2
    <2>6. checkpoint'[o].version > 0
        BY <1>1, <1>2
    <2>. QED  BY <2>3, <2>4, <2>5, <2>6
<1>8. \A i \in DOMAIN executions'[o] :
          executions'[o][i] = "RUNNING" <=>
              i = Len(executions'[o]) /\ checkpoint'[o].lease # NoLease
    BY <1>2, <1>6
<1>9. \A d \in Client \ {c} : ~Locks(d, o)
    BY <1>0, OthersUnlocked DEF FinishWrites
<1>. QED  BY <1>2, <1>4, <1>5, <1>7, <1>8, <1>9, CommitSteps

-----------------------------------------------------------------------------
(* Calls that begin, read or fail                                          *)

LEMMA BeginKeepsInv ==
    ASSUME StoreInv, NEW c \in Client, NEW call \in Claim \cup Save \cup Finish,
           call.now = clock, call.kind = "claim" => call.seen = None,
           call.kind \in {"save", "finish"} => client[c].snapshot # None,
           Begins(c, call)
    PROVE  StoreInv'
<1>1. StoreTypeOK /\ client \in [Client -> Process] /\ clock \in Nat
    BY DEF StoreInv, StoreTypeOK
<1>2. client' = [client EXCEPT ![c].call = call] /\ UNCHANGED <<clock, tables>>
    BY DEF Begins
<1>3. client' \in [Client -> Process]
    BY <1>1, <1>2 DEF Process
<1>4. /\ \A d \in Client \ {c} : client'[d] = client[d]
      /\ client'[c].call = call /\ client'[c].snapshot = client[c].snapshot
    BY <1>1, <1>2 DEF Process
<1>5. ~Pending(c)'
    BY <1>4 DEF Pending, Calls
<1>6. clock' \in Nat /\ clock <= clock' /\ client'[c].call.now <= clock'
    BY <1>1, <1>2, <1>4
<1>. QED  BY <1>2, <1>3, <1>4, <1>5, <1>6, ClientSteps

LEMMA RaiseKeepsInv ==
    ASSUME StoreInv, NEW c \in Client, Raises(c), UNCHANGED <<clock, tables>>
    PROVE  StoreInv'
<1>1. StoreTypeOK /\ client \in [Client -> Process] /\ clock \in Nat
    BY DEF StoreInv, StoreTypeOK
<1>2. client' = [client EXCEPT ![c].call = None]
    BY DEF Raises
<1>3. client' \in [Client -> Process]
    BY <1>1, <1>2 DEF Process
<1>4. /\ \A d \in Client \ {c} : client'[d] = client[d]
      /\ client'[c].call = None /\ client'[c].snapshot = client[c].snapshot
    BY <1>1, <1>2 DEF Process
<1>5. ~Pending(c)'
    BY <1>4 DEF Pending, Calls
<1>6. clock' \in Nat /\ clock <= clock'
    BY <1>1
<1>. QED  BY <1>3, <1>4, <1>5, <1>6, ClientSteps

\* A claim that reads finds an expired lease, and nobody has the row locked.
LEMMA ReadKeepsInv ==
    ASSUME StoreInv, NEW c \in Client, ClaimReads(c), ~Busy(c)
    PROVE  StoreInv'
<1>0. StoreTypeOK /\ client \in [Client -> Process] /\ clock \in Nat
    BY DEF StoreInv, StoreTypeOK
<1>1. client[c].call \in Claim
    BY <1>0, ProcessParts DEF ClaimReads
<1>2. PICK o \in Operation : o = client[c].call.operation
    BY <1>1 DEF Claim
<1>3. PICK seen : /\ seen.version = checkpoint[o].version
                  /\ seen.running = (/\ checkpoint[o].lease # NoLease
                                     /\ executions[o][checkpoint[o].execution] = "RUNNING")
                  /\ seen = [version |-> seen.version, running |-> seen.running]
                  /\ client' = [client EXCEPT ![c].call.seen = seen]
    <2>. DEFINE seen == [version |-> checkpoint[o].version,
                         running |-> checkpoint[o].lease # NoLease
                             /\ executions[o][checkpoint[o].execution] = "RUNNING"]
    <2>1. client' = [client EXCEPT ![c].call.seen = seen]
        BY <1>2 DEF ClaimReads
    <2>2. seen.version = checkpoint[o].version
        OBVIOUS
    <2>3. seen.running = (/\ checkpoint[o].lease # NoLease
                          /\ executions[o][checkpoint[o].execution] = "RUNNING")
        OBVIOUS
    <2>4. seen = [version |-> seen.version, running |-> seen.running]
        OBVIOUS
    <2>. HIDE DEF seen
    <2>. QED  BY <2>1, <2>2, <2>3, <2>4 DEF NoLease
<1>4. checkpoint[o] \in Row /\ executions[o] \in Seq(ExecutionResult)
    BY <1>0 DEF StoreTypeOK
<1>5. seen \in Seen /\ seen.version \in Nat /\ seen.running \in BOOLEAN
    BY <1>3, <1>4 DEF Row, Seen
<1>6. PICK call \in Claim :
          /\ call.kind = "claim" /\ call.operation = o /\ call.seen = seen
          /\ call.now = client[c].call.now
          /\ client' = [client EXCEPT ![c].call = call]
    <2>. DEFINE call == [client[c].call EXCEPT !.seen = seen]
    <2>1. call \in Claim /\ call.kind = "claim" /\ call.operation = o
          /\ call.seen = seen /\ call.now = client[c].call.now
        BY <1>1, <1>2, <1>5 DEF Claim
    <2>2. client' = [client EXCEPT ![c].call = call]
        BY <1>3
    <2>. QED  BY <2>1, <2>2
<1>7. client' \in [Client -> Process]
    BY <1>0, <1>6 DEF Process
<1>8. /\ \A d \in Client \ {c} : client'[d] = client[d]
      /\ client'[c].call = call /\ client'[c].snapshot = client[c].snapshot
    BY <1>0, <1>6 DEF Process
<1>9. /\ checkpoint' = checkpoint /\ executions' = executions
      /\ audit' = audit /\ clock' = clock
    BY DEF ClaimReads, tables
<1>10. client[c].call.now <= clock
    BY <1>1, NoneIsNoValue DEF StoreInv, CallsBegan
<1>11. checkpoint[o].lease <= call.now
    <2>1. ~(checkpoint[o].lease > call.now)
        BY <1>2, <1>6 DEF Busy
    <2>2. checkpoint[o].lease \in Nat /\ call.now \in Nat
        BY <1>4, <1>6 DEF Row, Claim
    <2>. QED  BY <2>1, <2>2
<1>12. checkpoint[o].lease # NoLease => seen.running /\ seen.version > 0
    <2> SUFFICES ASSUME checkpoint[o].lease # NoLease
                 PROVE  seen.running /\ seen.version > 0
        OBVIOUS
    <2>1. executions[o] # <<>> /\ checkpoint[o].execution = Len(executions[o])
        BY DEF StoreInv, RowCounts
    <2>2. checkpoint[o].version # 0
        BY <2>1 DEF StoreInv, RowCounts
    <2>3. Len(executions[o]) \in DOMAIN executions[o]
        BY <1>4, <2>1
    <2>4. executions[o][Len(executions[o])] = "RUNNING"
        BY <2>3 DEF StoreInv, OneRuns
    <2>. QED  BY <1>3, <1>5, <2>1, <2>2, <2>4
<1>13. seen.running => checkpoint[o].lease # NoLease
    BY <1>3
<1>14. ASSUME NEW d \in Client, Locks(d, o)' PROVE d = c
    <2>1. CASE d # c
        <3>1. Locks(d, o)
            BY <1>8, <1>14, <2>1 DEF Locks, Calls
        <3>. QED  BY <1>2, <2>1, <3>1 DEF ClaimReads, Unlocked
    <2>. QED  BY <2>1
<1>15. PendingIsSound(c)'
    <2>1. /\ seen.version <= checkpoint[o].version
          /\ seen.running => seen.version > 0
        BY <1>3, <1>5, <1>12, <1>13
    <2>. QED  BY <1>3, <1>6, <1>8, <1>9, <1>11, <1>12, <1>13, <1>14, <2>1 DEF PendingIsSound
<1>16. clock' \in Nat /\ clock <= clock' /\ client'[c].call.now <= clock'
    BY <1>0, <1>6, <1>8, <1>9, <1>10
<1>17. client'[c].call.kind = "claim"
    BY <1>6, <1>8
<1>18. UNCHANGED tables
    BY DEF ClaimReads
<1>. QED  BY <1>7, <1>8, <1>15, <1>16, <1>17, <1>18, ClientSteps

\* A first insert that lost the race begins again with a new clock.
BeginsAgain(c) == client' = [client EXCEPT ![c].call.now = clock, ![c].call.seen = None]

LEMMA RetryKeepsInv ==
    ASSUME StoreInv, NEW c \in Client, Calls(c, "claim"), UNCHANGED <<clock, tables>>,
           BeginsAgain(c)
    PROVE  StoreInv'
<1>1. StoreTypeOK /\ client \in [Client -> Process] /\ clock \in Nat
    BY DEF StoreInv, StoreTypeOK
<1>2. client[c].call \in Claim
    BY <1>1, ProcessParts
<1>3. PICK call \in Claim : /\ call.kind = "claim" /\ call.seen = None /\ call.now = clock
                            /\ client' = [client EXCEPT ![c].call = call]
    <2>. DEFINE call == [client[c].call EXCEPT !.now = clock, !.seen = None]
    <2>1. call \in Claim /\ call.kind = "claim" /\ call.seen = None /\ call.now = clock
        BY <1>1, <1>2 DEF Claim
    <2>2. client' = [client EXCEPT ![c].call = call]
        BY <1>1 DEF BeginsAgain
    <2>. QED  BY <2>1, <2>2
<1>4. client' \in [Client -> Process]
    BY <1>1, <1>3 DEF Process
<1>5. /\ \A d \in Client \ {c} : client'[d] = client[d]
      /\ client'[c].call = call /\ client'[c].snapshot = client[c].snapshot
    BY <1>1, <1>3 DEF Process
<1>6. ~Pending(c)'
    BY <1>3, <1>5 DEF Pending
<1>7. clock' \in Nat /\ clock <= clock' /\ client'[c].call.now <= clock'
    BY <1>1, <1>3, <1>5
<1>. QED  BY <1>3, <1>4, <1>5, <1>6, <1>7, ClientSteps

-----------------------------------------------------------------------------
(* Every reachable state                                                   *)

LEMMA InitHasInv == StoreInit => StoreInv
<1> SUFFICES ASSUME StoreInit PROVE StoreInv
    OBVIOUS
<1>1. \A o \in Operation : InitialProgress(o) \in Progress
    BY DEF InitialProgress, InitialStage, Progress, Operation, Stage, Status
<1>2. StoreTypeOK
    BY <1>1, LocalClockAssumption
       DEF StoreInit, StoreTypeOK, Row, Process, NoLease
<1>3. RowCounts /\ OneRuns
    BY DEF StoreInit, RowCounts, OneRuns, NoLease
<1>4. \A c \in Client : client[c].call = None /\ client[c].snapshot = None
    BY DEF StoreInit
<1>5. ClaimsAreFresh /\ SnapshotsAreHistory /\ CallsBegan /\ LocksHold
    BY <1>4 DEF ClaimsAreFresh, SnapshotsAreHistory, CallsBegan, LocksHold, Calls, Locks
<1>. QED  BY <1>2, <1>3, <1>5 DEF StoreInv

LEMMA BeginsKeepInv ==
    ASSUME StoreInv, NEW c \in Client,
           \/ \E o \in Operation : BeginClaim(c, o)
           \/ \E change \in Progress : BeginSave(c, change)
           \/ \E failed \in BOOLEAN : BeginFinish(c, failed)
    PROVE  StoreInv'
<1>1. clock \in Nat
    BY DEF StoreInv, StoreTypeOK
<1>2. ASSUME NEW o \in Operation, BeginClaim(c, o) PROVE StoreInv'
    <2>. DEFINE call == [kind |-> "claim", operation |-> o, now |-> clock, seen |-> None]
    <2>1. call \in Claim /\ call.now = clock /\ call.kind = "claim" /\ call.seen = None
        BY <1>1 DEF Claim
    <2>2. Begins(c, call)
        BY <1>2 DEF BeginClaim
    <2>. HIDE DEF call
    <2>. QED  BY <2>1, <2>2, BeginKeepsInv
<1>3. ASSUME NEW change \in Progress, BeginSave(c, change) PROVE StoreInv'
    <2>. DEFINE call == [kind |-> "save", now |-> clock, change |-> change]
    <2>1. call \in Save /\ call.now = clock /\ call.kind = "save"
        BY <1>1 DEF Save
    <2>2. Begins(c, call) /\ client[c].snapshot # None
        BY <1>3 DEF BeginSave
    <2>. HIDE DEF call
    <2>. QED  BY <2>1, <2>2, BeginKeepsInv
<1>4. ASSUME NEW failed \in BOOLEAN, BeginFinish(c, failed) PROVE StoreInv'
    <2>. DEFINE call == [kind |-> "finish", now |-> clock, failed |-> failed]
    <2>1. call \in Finish /\ call.now = clock /\ call.kind = "finish"
        BY <1>1 DEF Finish
    <2>2. Begins(c, call) /\ client[c].snapshot # None
        BY <1>4 DEF BeginFinish
    <2>. HIDE DEF call
    <2>. QED  BY <2>1, <2>2, BeginKeepsInv
<1>. QED  BY <1>2, <1>3, <1>4

\* The clock and what is read at one moment leave the rest as it was.
LEMMA TickKeepsInv ==
    ASSUME StoreInv, StoreTick
    PROVE  StoreInv'
<1>1. /\ checkpoint' = checkpoint /\ executions' = executions
      /\ audit' = audit /\ client' = client /\ clock' = clock + 1
    BY DEF StoreTick, tables
<1>2. clock \in Nat /\ clock' \in Nat
    BY <1>1 DEF StoreInv, StoreTypeOK
<1>3. StoreTypeOK'
    BY <1>1, <1>2 DEF StoreInv, StoreTypeOK
<1>4. RowCounts' /\ OneRuns' /\ ClaimsAreFresh' /\ SnapshotsAreHistory' /\ LocksHold'
    BY <1>1 DEF StoreInv, RowCounts, OneRuns, ClaimsAreFresh, SnapshotsAreHistory,
                LocksHold, Locks, Calls
<1>5. CallsBegan'
    <2> SUFFICES ASSUME NEW c \in Client, client[c].call # None
                 PROVE  /\ client[c].call.now <= clock'
                        /\ client[c].call.kind \in {"save", "finish"} =>
                               client[c].snapshot # None
        BY <1>1 DEF CallsBegan
    <2>1. client[c].call \in Claim \cup Save \cup Finish
        BY ProcessParts DEF StoreInv
    <2>2. client[c].call.now \in Nat
        BY <2>1 DEF Claim, Save, Finish
    <2>. QED  BY <1>1, <1>2, <2>2 DEF StoreInv, CallsBegan
<1>. QED  BY <1>3, <1>4, <1>5 DEF StoreInv

LEMMA NextKeepsInv == StoreInv /\ [StoreNext]_storeVars => StoreInv'
<1> SUFFICES ASSUME StoreInv, [StoreNext]_storeVars PROVE StoreInv'
    OBVIOUS
<1>1. ASSUME NEW c \in Client, ClaimReads(c) PROVE StoreInv'
    <2>1. CASE Busy(c)
        BY <1>1, <2>1, RaiseKeepsInv DEF ClaimReads
    <2>. QED  BY <1>1, <2>1, ReadKeepsInv
<1>2. ASSUME NEW c \in Client, NEW heard \in BOOLEAN, ClaimWrites(c, heard) PROVE StoreInv'
    <2>1. CASE ~Stands(c)
        <3>1. /\ UNCHANGED <<clock, tables>> /\ Calls(c, "claim")
              /\ Raises(c) \/ BeginsAgain(c)
            BY <1>2, <2>1 DEF ClaimWrites, BeginsAgain
        <3>. QED  BY <3>1, RaiseKeepsInv, RetryKeepsInv
    <2>. QED  BY <1>2, <2>1, ClaimKeepsInv
<1>3. ASSUME NEW c \in Client, NEW heard \in BOOLEAN, SaveWrites(c, heard) PROVE StoreInv'
    <2>1. CASE ~Owns(c)
        <3>1. UNCHANGED <<clock, tables>> /\ Raises(c)
            BY <1>3, <2>1 DEF SaveWrites, tables
        <3>. QED  BY <3>1, RaiseKeepsInv
    <2>. QED  BY <1>3, <2>1, SaveKeepsInv
<1>4. ASSUME NEW c \in Client, FinishWrites(c) PROVE StoreInv'
    <2>1. CASE ~Owns(c)
        <3>1. UNCHANGED <<clock, tables>> /\ Raises(c)
            BY <1>4, <2>1 DEF FinishWrites, tables
        <3>. QED  BY <3>1, RaiseKeepsInv
    <2>. QED  BY <1>4, <2>1, FinishKeepsInv
<1>5. ASSUME NEW c \in Client, CallFails(c) PROVE StoreInv'
    BY <1>5, RaiseKeepsInv DEF CallFails
<1>6. CASE UNCHANGED storeVars
    BY <1>6 DEF storeVars, StoreInv, StoreTypeOK, RowCounts, OneRuns, ClaimsAreFresh,
                SnapshotsAreHistory, CallsBegan, LocksHold, Locks, Calls
<1>. QED  BY <1>1, <1>2, <1>3, <1>4, <1>5, <1>6, BeginsKeepInv, TickKeepsInv DEF StoreNext

\* The inductive invariant holds of every reachable state.
LEMMA StoreInvHolds == StoreSpec => []StoreInv
<1>. QED  BY InitHasInv, NextKeepsInv, PTL DEF StoreSpec

\* Rows, executions, audit trail and memory keep their shape
\* (durable_checkpoints.py, the three tables of durable_models.py).
THEOREM LocalStoreTypes == StoreSpec => []StoreTypeOK
<1>1. StoreInv => StoreTypeOK
    BY DEF StoreInv
<1>. QED  BY <1>1, StoreInvHolds, PTL

-----------------------------------------------------------------------------
(* What a step does to the tables, whoever takes it                        *)

OthersStay(o) ==
    /\ checkpoint' \in [Operation -> Row]
    /\ executions' \in [Operation -> Seq(ExecutionResult)]
    /\ \A p \in Operation \ {o} :
           checkpoint'[p] = checkpoint[p] /\ executions'[p] = executions[p]

\* A new execution takes the row over.
TakesOver(o) ==
    /\ OthersStay(o)
    /\ checkpoint[o].lease <= clock
    /\ checkpoint'[o].progress = checkpoint[o].progress
    /\ checkpoint'[o].lease # NoLease
    /\ Len(executions'[o]) = Len(executions[o]) + 1
    /\ LocksRows => \A i \in 1 .. Len(executions[o]) :
           executions[o][i] # "RUNNING" => executions'[o][i] = executions[o][i]
    /\ audit' = IF executions[o] # <<>> THEN audit
                ELSE [audit EXCEPT ![o] = Append(audit[o],
                         [execution_id |-> 1, previous |-> None,
                          new |-> "PENDING", stage |-> InitialStage[o]])]

\* The running execution records progress.
Writes(o, progress) ==
    /\ OthersStay(o)
    /\ executions[o] # <<>> /\ executions[o][Len(executions[o])] = "RUNNING"
    /\ checkpoint[o].lease # NoLease
    /\ checkpoint'[o].progress = progress
    /\ checkpoint'[o].execution = checkpoint[o].execution
    /\ checkpoint'[o].lease = checkpoint[o].lease
    /\ audit' = [audit EXCEPT ![o] = Append(audit[o],
           [execution_id |-> Len(executions[o]),
            previous |-> checkpoint[o].progress.checkpoint_status,
            new |-> progress.checkpoint_status, stage |-> progress.current_stage])]
    /\ UNCHANGED executions

\* It gives the row up.
GivesUp(o) ==
    /\ OthersStay(o)
    /\ executions[o] # <<>> /\ checkpoint[o].lease # NoLease
    /\ checkpoint'[o].progress = checkpoint[o].progress
    /\ checkpoint'[o].execution = checkpoint[o].execution
    /\ checkpoint'[o].lease = NoLease
    /\ Len(executions'[o]) = Len(executions[o])
    /\ \A i \in 1 .. Len(executions[o]) :
           executions[o][i] # "RUNNING" => executions'[o][i] = executions[o][i]
    /\ UNCHANGED audit

LEMMA ClaimTakesOver ==
    ASSUME StoreInv, NEW c \in Client, NEW heard \in BOOLEAN, ClaimWrites(c, heard), Stands(c)
    PROVE  \E o \in Operation : TakesOver(o)
<1>0. PICK o \in Operation : o = client[c].call.operation
    BY ClaimCommits
<1>. DEFINE next == Len(executions[o]) + 1
<1>1. /\ client[c].call \in Claim /\ client[c].call.seen \in Seen
      /\ client[c].call.seen # None
      /\ client[c].call.seen.version = checkpoint[o].version
      /\ checkpoint[o].lease <= client[c].call.now /\ client[c].call.now <= clock
      /\ checkpoint' \in [Operation -> Row]
      /\ \A p \in Operation \ {o} : checkpoint'[p] = checkpoint[p]
      /\ checkpoint'[o].progress = checkpoint[o].progress
      /\ checkpoint'[o].lease # NoLease
      /\ executions' \in [Operation -> Seq(ExecutionResult)]
      /\ \A p \in Operation \ {o} : executions'[p] = executions[p]
      /\ Len(executions'[o]) = next
      /\ \A i \in 1 .. Len(executions[o]) :
             /\ ~client[c].call.seen.running => executions'[o][i] = executions[o][i]
             /\ i # Len(executions[o]) => executions'[o][i] = executions[o][i]
      /\ audit' = IF checkpoint[o].version > 0 THEN audit
                  ELSE [audit EXCEPT ![o] = Append(audit[o],
                           [execution_id |-> next, previous |-> None,
                            new |-> "PENDING", stage |-> InitialStage[o]])]
    BY <1>0, ClaimCommits
<1>2. /\ checkpoint[o] \in Row /\ executions[o] \in Seq(ExecutionResult)
      /\ clock \in Nat /\ checkpoint[o].lease \in Nat /\ checkpoint[o].version \in Nat
      /\ client[c].call.now \in Nat
    BY <1>1 DEF StoreInv, StoreTypeOK, Row, Claim
<1>3. checkpoint[o].lease <= clock
    BY <1>1, <1>2
<1>4. checkpoint[o].version = 0 <=> executions[o] = <<>>
    BY DEF StoreInv, RowCounts
<1>5. audit' = IF executions[o] # <<>> THEN audit
               ELSE [audit EXCEPT ![o] = Append(audit[o],
                        [execution_id |-> 1, previous |-> None,
                         new |-> "PENDING", stage |-> InitialStage[o]])]
    <2>1. CASE executions[o] # <<>>
        BY <1>1, <1>2, <1>4, <2>1
    <2>2. CASE executions[o] = <<>>
        <3>1. next = 1 /\ ~(checkpoint[o].version > 0)
            BY <1>4, <2>2
        <3>. HIDE DEF next
        <3>. QED  BY <1>1, <2>2, <3>1
    <2>. QED  BY <2>1, <2>2
<1>6. ASSUME LocksRows, NEW i \in 1 .. Len(executions[o]), executions[o][i] # "RUNNING"
      PROVE  executions'[o][i] = executions[o][i]
    <2> SUFFICES ASSUME client[c].call.seen.running, i = Len(executions[o]) PROVE FALSE
        BY <1>1
    <2>1. client[c].call.seen.version > 0
        BY <1>1 DEF StoreInv, ClaimsAreFresh, ClaimWrites
    <2>2. Locks(c, o)
        BY <1>0, <1>1, <1>6, <2>1 DEF Locks, ClaimWrites
    <2>3. checkpoint[o].lease # NoLease
        BY <2>2 DEF StoreInv, LocksHold
    <2>4. i \in DOMAIN executions[o]
        BY <1>2
    <2>. QED  BY <1>6, <2>3, <2>4 DEF StoreInv, OneRuns
<1>. HIDE DEF next
<1>7. TakesOver(o)
    BY <1>1, <1>3, <1>5, <1>6 DEF TakesOver, OthersStay, next
<1>. QED  BY <1>7

LEMMA SaveWritesProgress ==
    ASSUME StoreInv, NEW c \in Client, NEW heard \in BOOLEAN, SaveWrites(c, heard), Owns(c)
    PROVE  \E o \in Operation : \E progress \in Progress : Writes(o, progress)
<1>0. PICK o \in Operation : o = client[c].snapshot.operation
    BY OwnerRemembers DEF SaveWrites
<1>1. /\ client[c].snapshot.execution = Len(executions[o])
      /\ client[c].snapshot.execution \in 1 .. Len(executions[o])
      /\ client[c].snapshot.progress = checkpoint[o].progress
      /\ executions[o] \in Seq(ExecutionResult)
      /\ checkpoint[o].lease # NoLease
      /\ executions[o][Len(executions[o])] = "RUNNING"
    BY <1>0, OwnerRemembers DEF SaveWrites
<1>2. PICK progress \in Progress :
          /\ checkpoint' \in [Operation -> Row]
          /\ \A p \in Operation \ {o} : checkpoint'[p] = checkpoint[p]
          /\ checkpoint'[o].progress = progress
          /\ checkpoint'[o].execution = checkpoint[o].execution
          /\ checkpoint'[o].lease = checkpoint[o].lease
          /\ audit' = [audit EXCEPT ![o] = Append(audit[o],
                 [execution_id |-> client[c].snapshot.execution,
                  previous |-> client[c].snapshot.progress.checkpoint_status,
                  new |-> progress.checkpoint_status, stage |-> progress.current_stage])]
          /\ UNCHANGED executions
    <2>. DEFINE mine == client[c].snapshot
                p == mine.operation
                saved == [mine EXCEPT !.progress = Kept(client[c].call.change, mine.progress),
                                      !.version = mine.version + 1]
    <2>1. /\ saved.progress \in Progress
          /\ checkpoint' \in [Operation -> Row]
          /\ \A q \in Operation \ {p} : checkpoint'[q] = checkpoint[q]
          /\ checkpoint'[p].progress = saved.progress
          /\ checkpoint'[p].execution = checkpoint[p].execution
          /\ checkpoint'[p].lease = checkpoint[p].lease
          /\ audit' = [audit EXCEPT ![p] = Append(audit[p],
                 [execution_id |-> mine.execution,
                  previous |-> mine.progress.checkpoint_status,
                  new |-> saved.progress.checkpoint_status,
                  stage |-> saved.progress.current_stage])]
          /\ UNCHANGED executions
        BY SaveCommits
    <2>2. p = o
        BY <1>0
    <2>. HIDE DEF saved, p
    <2>. QED  BY <2>1, <2>2
<1>3. executions[o] # <<>>
    BY <1>1, Occupied
<1>4. executions' \in [Operation -> Seq(ExecutionResult)]
    BY <1>2 DEF StoreInv, StoreTypeOK
<1>5. Writes(o, progress)
    BY <1>1, <1>2, <1>3, <1>4 DEF Writes, OthersStay
<1>. QED  BY <1>5

LEMMA FinishGivesUp ==
    ASSUME StoreInv, NEW c \in Client, FinishWrites(c), Owns(c)
    PROVE  \E o \in Operation : GivesUp(o)
<1>0. PICK o \in Operation : o = client[c].snapshot.operation
    BY OwnerRemembers DEF FinishWrites
<1>1. /\ client[c].snapshot.execution \in 1 .. Len(executions[o])
      /\ executions[o] \in Seq(ExecutionResult)
      /\ checkpoint[o].lease # NoLease
      /\ executions[o][client[c].snapshot.execution] = "RUNNING"
    BY <1>0, OwnerRemembers DEF FinishWrites
<1>2. executions[o] # <<>>
    BY <1>1, Occupied
<1>3. GivesUp(o)
    BY <1>0, <1>1, <1>2, FinishCommits DEF GivesUp, OthersStay
<1>. QED  BY <1>3

\* Every step is one of these, or leaves the tables alone.
LEMMA TableSteps ==
    ASSUME StoreInv, [StoreNext]_storeVars
    PROVE  \/ UNCHANGED tables
           \/ \E o \in Operation : TakesOver(o)
           \/ \E o \in Operation : \E progress \in Progress : Writes(o, progress)
           \/ \E o \in Operation : GivesUp(o)
<1> SUFFICES ASSUME ~UNCHANGED tables
             PROVE  \/ \E o \in Operation : TakesOver(o)
                    \/ \E o \in Operation : \E progress \in Progress : Writes(o, progress)
                    \/ \E o \in Operation : GivesUp(o)
    OBVIOUS
<1>1. PICK c \in Client : \/ \E heard \in BOOLEAN : ClaimWrites(c, heard) \/ SaveWrites(c, heard)
                         \/ FinishWrites(c)
    BY DEF StoreNext, storeVars, tables, BeginClaim, BeginSave, BeginFinish, Begins,
           ClaimReads, CallFails, StoreTick
<1>2. ASSUME NEW heard \in BOOLEAN, ClaimWrites(c, heard)
      PROVE  \E o \in Operation : TakesOver(o)
    <2>1. Stands(c)
        BY <1>2 DEF ClaimWrites
    <2>. QED  BY <1>2, <2>1, ClaimTakesOver
<1>3. ASSUME NEW heard \in BOOLEAN, SaveWrites(c, heard)
      PROVE  \E o \in Operation : \E progress \in Progress : Writes(o, progress)
    <2>1. Owns(c)
        BY <1>3 DEF SaveWrites, tables
    <2>. QED  BY <1>3, <2>1, SaveWritesProgress
<1>4. ASSUME FinishWrites(c) PROVE \E o \in Operation : GivesUp(o)
    <2>1. Owns(c)
        BY <1>4 DEF FinishWrites, tables
    <2>. QED  BY <1>4, <2>1, FinishGivesUp
<1>. QED  BY <1>1, <1>2, <1>3, <1>4

-----------------------------------------------------------------------------
(* Leases and outcomes                                                     *)

LEMMA LiveLeaseStep ==
    ASSUME StoreInv, [StoreNext]_storeVars, NEW o \in Operation,
           checkpoint[o].lease > clock,
           checkpoint'[o].lease # checkpoint[o].lease
               \/ checkpoint'[o].execution # checkpoint[o].execution
    PROVE  checkpoint'[o].lease = NoLease /\ checkpoint'[o].execution = checkpoint[o].execution
<1>1. checkpoint' # checkpoint
    OBVIOUS
<1>2. checkpoint[o].lease \in Nat /\ clock \in Nat
    BY DEF StoreInv, StoreTypeOK, Row
<1>3. ASSUME NEW p \in Operation, TakesOver(p) PROVE FALSE
    <2>1. p = o
        BY <1>3 DEF TakesOver, OthersStay
    <2>. QED  BY <1>2, <1>3, <2>1 DEF TakesOver
<1>4. ASSUME NEW p \in Operation, NEW progress \in Progress, Writes(p, progress) PROVE FALSE
    <2>1. p = o
        BY <1>4 DEF Writes, OthersStay
    <2>. QED  BY <1>4, <2>1 DEF Writes
<1>5. PICK p \in Operation : GivesUp(p)
    BY <1>1, <1>3, <1>4, TableSteps DEF tables
<1>6. p = o
    BY <1>5 DEF GivesUp, OthersStay
<1>. QED  BY <1>5, <1>6 DEF GivesUp

\* A lease that has not run out is ended by its own execution or by nobody,
\* however old the clock and the row are that a claim goes by
\* (durable_checkpoints.py, claim against save and finish).
THEOREM LocalLeases == StoreSpec => LiveLeaseStands
<1>1. StoreInv /\ [StoreNext]_storeVars =>
          [\A o \in Operation :
               /\ checkpoint[o].lease > clock
               /\ \/ checkpoint'[o].lease # checkpoint[o].lease
                  \/ checkpoint'[o].execution # checkpoint[o].execution
               => /\ checkpoint'[o].lease = NoLease
                  /\ checkpoint'[o].execution = checkpoint[o].execution]_storeVars
    BY LiveLeaseStep
<1>. QED  BY <1>1, StoreInvHolds, PTL DEF StoreSpec, LiveLeaseStands

LEMMA SilentStep ==
    ASSUME StoreInv, [StoreNext]_storeVars, NEW o \in Operation, audit'[o] # audit[o],
           audit'[o][Len(audit'[o])].execution_id \in DOMAIN executions[o]
    PROVE  executions[o][audit'[o][Len(audit'[o])].execution_id] = "RUNNING"
<1>1. audit' # audit
    OBVIOUS
<1>2. audit \in [Operation -> Seq(Event)] /\ audit[o] \in Seq(Event)
    BY DEF StoreInv, StoreTypeOK
<1>3. ASSUME NEW event, audit' = [audit EXCEPT ![o] = Append(audit[o], event)]
      PROVE  audit'[o][Len(audit'[o])] = event
    <2>1. audit'[o] = Append(audit[o], event)
        BY <1>2, <1>3
    <2>. QED  BY <1>2, <2>1
<1>4. ASSUME NEW p \in Operation, TakesOver(p) PROVE FALSE
    <2>. DEFINE event == [execution_id |-> 1, previous |-> None,
                          new |-> "PENDING", stage |-> InitialStage[p]]
    <2>1. executions[p] = <<>> /\ audit' = [audit EXCEPT ![p] = Append(audit[p], event)]
        BY <1>1, <1>4 DEF TakesOver
    <2>. HIDE DEF event
    <2>2. p = o
        BY <1>2, <2>1
    <2>3. executions[o] = <<>>
        BY <2>1, <2>2
    <2>. QED  BY <2>3
<1>5. PICK p \in Operation, progress \in Progress : Writes(p, progress)
    BY <1>1, <1>4, TableSteps DEF tables, GivesUp
<1>. DEFINE event == [execution_id |-> Len(executions[p]),
                      previous |-> checkpoint[p].progress.checkpoint_status,
                      new |-> progress.checkpoint_status, stage |-> progress.current_stage]
<1>6. /\ audit' = [audit EXCEPT ![p] = Append(audit[p], event)]
      /\ executions[p][Len(executions[p])] = "RUNNING"
    BY <1>5 DEF Writes
<1>7. event.execution_id = Len(executions[p])
    OBVIOUS
<1>. HIDE DEF event
<1>8. p = o
    BY <1>2, <1>6
<1>9. audit'[o][Len(audit'[o])] = event
    BY <1>3, <1>6, <1>8
<1>. QED  BY <1>6, <1>7, <1>8, <1>9

\* No execution whose outcome is recorded writes progress any more
\* (durable_checkpoints.py, finish, which leaves the version as it was).
THEOREM LocalSilence == StoreSpec => SilentAfterOutcome
<1>1. StoreInv /\ [StoreNext]_storeVars =>
          [\A o \in Operation : audit'[o] # audit[o] =>
               LET writer == audit'[o][Len(audit'[o])].execution_id
               IN  writer \in DOMAIN executions[o] =>
                       executions[o][writer] = "RUNNING"]_storeVars
    BY SilentStep
<1>. QED  BY <1>1, StoreInvHolds, PTL DEF StoreSpec, SilentAfterOutcome

LEMMA OutcomeStep ==
    ASSUME LocksRows, StoreInv, [StoreNext]_storeVars, NEW o \in Operation,
           NEW i \in DOMAIN executions[o], executions[o][i] # "RUNNING"
    PROVE  executions'[o][i] = executions[o][i]
<1>1. i \in 1 .. Len(executions[o])
    BY DEF StoreInv, StoreTypeOK
<1>2. ASSUME NEW p \in Operation, TakesOver(p) \/ GivesUp(p)
      PROVE  executions'[o][i] = executions[o][i]
    BY <1>1, <1>2 DEF TakesOver, GivesUp, OthersStay
<1>. QED  BY <1>2, TableSteps DEF tables, Writes

\* Where rows are locked (PostgreSQL), the outcome that finishing records is
\* final; without locks (SQLite) a claim may overwrite it
\* (durable_checkpoints.py, _claim against finish).
THEOREM LockedOutcomesStand ==
    ASSUME LocksRows
    PROVE  StoreSpec => OutcomeStands
<1>1. StoreInv /\ [StoreNext]_storeVars =>
          [\A o \in Operation : \A i \in DOMAIN executions[o] :
               executions[o][i] \in {"SUCCEEDED", "FAILED"} =>
                   executions'[o][i] = executions[o][i]]_storeVars
    BY OutcomeStep
<1>. QED  BY <1>1, StoreInvHolds, PTL DEF StoreSpec, OutcomeStands

-----------------------------------------------------------------------------
(* The audit trail                                                         *)

\* The chain grows by one event that starts where the last one ended.
LEMMA TrailGrows ==
    ASSUME NEW trail \in Seq(Event), NEW event \in Event,
           \A i \in DOMAIN trail :
               trail[i].previous = IF i = 1 THEN None ELSE trail[i - 1].new,
           event.previous = IF trail = <<>> THEN None ELSE trail[Len(trail)].new
    PROVE  LET longer == Append(trail, event)
           IN  /\ longer # <<>> /\ longer[Len(longer)] = event
               /\ \A i \in DOMAIN longer :
                      longer[i].previous = IF i = 1 THEN None ELSE longer[i - 1].new
<1>. DEFINE longer == Append(trail, event)
<1>1. /\ Len(trail) \in Nat /\ DOMAIN trail = 1 .. Len(trail)
      /\ longer \in Seq(Event) /\ Len(longer) = Len(trail) + 1
      /\ DOMAIN longer = 1 .. Len(trail) + 1 /\ longer[Len(trail) + 1] = event
      /\ \A i \in 1 .. Len(trail) : longer[i] = trail[i]
    OBVIOUS
<1>2. Len(trail) = 0 <=> trail = <<>>
    OBVIOUS
<1>. HIDE DEF longer
<1>3. longer # <<>> /\ longer[Len(longer)] = event
    <2>1. Len(trail) + 1 \in 1 .. Len(longer)
        BY <1>1
    <2>. QED  BY <1>1, <2>1, Occupied
<1>4. ASSUME NEW i \in DOMAIN longer
      PROVE  longer[i].previous = IF i = 1 THEN None ELSE longer[i - 1].new
    <2>1. CASE i = Len(trail) + 1
        <3>1. CASE i = 1
            BY <1>1, <1>2, <2>1, <3>1
        <3>2. CASE i # 1
            <4>1. Len(trail) \in 1 .. Len(trail) /\ i - 1 = Len(trail) /\ trail # <<>>
                BY <1>1, <1>2, <2>1, <3>2
            <4>. QED  BY <1>1, <2>1, <3>2, <4>1
        <3>. QED  BY <3>1, <3>2
    <2>2. CASE i \in 1 .. Len(trail)
        <3>1. i = 1 \/ i - 1 \in 1 .. Len(trail)
            BY <1>1, <2>2
        <3>. QED  BY <1>1, <2>2, <3>1
    <2>. QED  BY <1>1, <2>1, <2>2
<1>. QED  BY <1>3, <1>4 DEF longer

LEMMA TrailStep ==
    ASSUME StoreInv, TrailLeadsToRow, [StoreNext]_storeVars
    PROVE  TrailLeadsToRow'
<1>1. StoreInv' /\ RowCounts /\ RowCounts'
    BY NextKeepsInv DEF StoreInv
<1>2. audit \in [Operation -> Seq(Event)] /\ audit' \in [Operation -> Seq(Event)]
    BY <1>1 DEF StoreInv, StoreTypeOK
<1>3. \A p \in Operation :
          /\ checkpoint[p].version = 0 <=> executions[p] = <<>>
          /\ checkpoint'[p].version = 0 <=> executions'[p] = <<>>
    BY <1>1 DEF RowCounts
<1>4. \A p \in Operation : (audit[p] = <<>>) <=> (executions[p] = <<>>)
    BY <1>3 DEF TrailLeadsToRow
<1>5. ASSUME NEW o \in Operation, NEW event \in Event,
             \A p \in Operation \ {o} :
                 checkpoint'[p] = checkpoint[p] /\ executions'[p] = executions[p],
             audit' = [audit EXCEPT ![o] = Append(audit[o], event)],
             event.previous = IF audit[o] = <<>> THEN None ELSE audit[o][Len(audit[o])].new,
             event.new = checkpoint'[o].progress.checkpoint_status,
             event.stage = checkpoint'[o].progress.current_stage,
             executions'[o] # <<>>
      PROVE  TrailLeadsToRow'
    <2>1. audit'[o] = Append(audit[o], event) /\ audit[o] \in Seq(Event)
        BY <1>2, <1>5
    <2>2. /\ audit'[o] # <<>> /\ audit'[o][Len(audit'[o])] = event
          /\ \A i \in DOMAIN audit'[o] :
                 audit'[o][i].previous = IF i = 1 THEN None ELSE audit'[o][i - 1].new
        <3>1. \A i \in DOMAIN audit[o] :
                 audit[o][i].previous = IF i = 1 THEN None ELSE audit[o][i - 1].new
            BY DEF TrailLeadsToRow
        <3>. QED  BY <1>5, <2>1, <3>1, TrailGrows
    <2>3. \A p \in Operation \ {o} : audit'[p] = audit[p]
        BY <1>2, <1>5
    <2> SUFFICES ASSUME NEW p \in Operation
                 PROVE  (/\ checkpoint[p].version = 0 <=> audit[p] = <<>>
                         /\ \A i \in DOMAIN audit[p] :
                                audit[p][i].previous =
                                    IF i = 1 THEN None ELSE audit[p][i - 1].new
                         /\ audit[p] # <<>> =>
                                /\ audit[p][Len(audit[p])].new =
                                       checkpoint[p].progress.checkpoint_status
                                /\ audit[p][Len(audit[p])].stage =
                                       checkpoint[p].progress.current_stage)'
        BY DEF TrailLeadsToRow
    <2>4. CASE p = o
        BY <1>3, <1>5, <2>2, <2>4
    <2>5. CASE p # o
        <3>1. checkpoint'[p] = checkpoint[p] /\ audit'[p] = audit[p]
            BY <1>5, <2>3, <2>5
        <3>. QED  BY <3>1 DEF TrailLeadsToRow
    <2>. QED  BY <2>4, <2>5
<1>6. ASSUME NEW o \in Operation,
             \A p \in Operation \ {o} :
                 checkpoint'[p] = checkpoint[p] /\ executions'[p] = executions[p],
             audit' = audit, executions[o] # <<>>, executions'[o] # <<>>,
             checkpoint'[o].progress = checkpoint[o].progress
      PROVE  TrailLeadsToRow'
    <2>1. \A p \in Operation : checkpoint'[p].progress = checkpoint[p].progress
        BY <1>6
    <2>2. \A p \in Operation : checkpoint'[p].version = 0 <=> audit'[p] = <<>>
        BY <1>3, <1>4, <1>6
    <2>. QED  BY <1>6, <2>1, <2>2 DEF TrailLeadsToRow
<1>7. ASSUME NEW o \in Operation, TakesOver(o) PROVE TrailLeadsToRow'
    <2>1. /\ executions'[o] # <<>>
          /\ \A p \in Operation \ {o} :
                 checkpoint'[p] = checkpoint[p] /\ executions'[p] = executions[p]
        <3>1. /\ executions[o] \in Seq(ExecutionResult)
              /\ executions'[o] \in Seq(ExecutionResult)
              /\ Len(executions'[o]) = Len(executions[o]) + 1
            BY <1>7 DEF TakesOver, OthersStay, StoreInv, StoreTypeOK
        <3>2. Len(executions'[o]) \in 1 .. Len(executions'[o])
            BY <3>1
        <3>3. executions'[o] # <<>>
            BY <3>1, <3>2, Occupied
        <3>. QED  BY <1>7, <3>3 DEF TakesOver, OthersStay
    <2>2. CASE executions[o] # <<>>
        BY <1>6, <1>7, <2>1, <2>2 DEF TakesOver
    <2>3. CASE executions[o] = <<>>
        <3>. DEFINE event == [execution_id |-> 1, previous |-> None,
                              new |-> "PENDING", stage |-> InitialStage[o]]
        <3>1. event \in Event
            BY DEF Event, Status, InitialStage, Stage, Operation
        <3>2. checkpoint[o].progress = InitialProgress(o)
            BY <1>1, <2>3 DEF RowCounts
        <3>3. audit[o] = <<>>
            BY <1>4, <2>3
        <3>4. event.previous = None
            OBVIOUS
        <3>5. /\ event.new = checkpoint'[o].progress.checkpoint_status
              /\ event.stage = checkpoint'[o].progress.current_stage
            BY <1>7, <3>2 DEF TakesOver, InitialProgress
        <3>6. audit' = [audit EXCEPT ![o] = Append(audit[o], event)]
            BY <1>7, <2>3 DEF TakesOver
        <3>. HIDE DEF event
        <3>. QED  BY <1>5, <2>1, <3>1, <3>3, <3>4, <3>5, <3>6
    <2>. QED  BY <2>2, <2>3
<1>8. ASSUME NEW o \in Operation, NEW progress \in Progress, Writes(o, progress)
      PROVE  TrailLeadsToRow'
    <2>. DEFINE event == [execution_id |-> Len(executions[o]),
                          previous |-> checkpoint[o].progress.checkpoint_status,
                          new |-> progress.checkpoint_status,
                          stage |-> progress.current_stage]
    <2>1. checkpoint[o] \in Row /\ executions[o] \in Seq(ExecutionResult)
        BY DEF StoreInv, StoreTypeOK
    <2>2. event \in Event
        BY <2>1 DEF Event, Row, Progress
    <2>3. /\ audit[o] # <<>> /\ executions'[o] # <<>>
          /\ event.previous = audit[o][Len(audit[o])].new
        BY <1>4, <1>8 DEF TrailLeadsToRow, Writes
    <2>4. /\ event.new = checkpoint'[o].progress.checkpoint_status
          /\ event.stage = checkpoint'[o].progress.current_stage
        BY <1>8 DEF Writes
    <2>5. audit' = [audit EXCEPT ![o] = Append(audit[o], event)]
        BY <1>8 DEF Writes
    <2>6. \A p \in Operation \ {o} :
              checkpoint'[p] = checkpoint[p] /\ executions'[p] = executions[p]
        BY <1>8 DEF Writes, OthersStay
    <2>. HIDE DEF event
    <2>. QED  BY <1>5, <2>2, <2>3, <2>4, <2>5, <2>6
<1>9. ASSUME NEW o \in Operation, GivesUp(o) PROVE TrailLeadsToRow'
    <2>1. /\ executions[o] \in Seq(ExecutionResult)
          /\ executions'[o] \in Seq(ExecutionResult)
          /\ Len(executions'[o]) = Len(executions[o]) /\ executions[o] # <<>>
        BY <1>9 DEF GivesUp, OthersStay, StoreInv, StoreTypeOK
    <2>2. executions'[o] # <<>>
        <3>1. Len(executions'[o]) \in 1 .. Len(executions'[o])
            BY <2>1
        <3>. QED  BY <2>1, <3>1, Occupied
    <2>. QED  BY <1>6, <1>9, <2>2 DEF GivesUp, OthersStay
<1>10. CASE UNCHANGED tables
    BY <1>10 DEF tables, TrailLeadsToRow
<1>. QED  BY <1>7, <1>8, <1>9, <1>10, TableSteps

\* The audit trail of every operation is an unbroken chain from its creation
\* to its row (durable_checkpoints.py, the inserts into checkpoint_event).
THEOREM LocalTrail == StoreSpec => []TrailLeadsToRow
<1>1. StoreInit => TrailLeadsToRow
    BY DEF StoreInit, TrailLeadsToRow
<1>2. TrailLeadsToRow /\ StoreInv /\ [StoreNext]_storeVars => TrailLeadsToRow'
    BY TrailStep
<1>. QED  BY <1>1, <1>2, StoreInvHolds, PTL DEF StoreSpec

-----------------------------------------------------------------------------
(* The refinement                                                          *)

\* The variables of the fenced register, as this store has them.
epochs == [o \in Operation |-> Len(executions[o])]
opens == [o \in Operation |-> checkpoint[o].lease # NoLease]
values == [o \in Operation |-> checkpoint[o].progress]
writersOf == [o \in Operation |-> [i \in DOMAIN audit[o] |-> audit[o][i].execution_id]]

\* An event at the end of a trail is a writer at the end of the writers.
LEMMA WriterAppended ==
    ASSUME StoreInv, NEW o \in Operation, NEW event \in Event,
           audit' = [audit EXCEPT ![o] = Append(audit[o], event)]
    PROVE  writersOf' = [writersOf EXCEPT ![o] = Append(@, event.execution_id)]
<1>1. audit \in [Operation -> Seq(Event)]
    BY DEF StoreInv, StoreTypeOK
<1>. DEFINE trail == audit[o]
            ids == [i \in DOMAIN trail |-> trail[i].execution_id]
<1>2. trail \in Seq(Event) /\ audit'[o] = Append(trail, event)
    BY <1>1
<1>3. [i \in DOMAIN Append(trail, event) |-> Append(trail, event)[i].execution_id]
          = Append(ids, event.execution_id)
    <2>1. ids \in Seq(Nat) /\ Len(ids) = Len(trail)
        <3>1. /\ Len(trail) \in Nat /\ DOMAIN trail = 1 .. Len(trail)
              /\ \A i \in 1 .. Len(trail) : trail[i] \in Event
            BY <1>2
        <3>2. ids \in [1 .. Len(trail) -> Nat]
            <4>. HIDE DEF trail
            <4>. QED  BY <3>1 DEF Event
        <3>. HIDE DEF ids, trail
        <3>. QED  BY <3>1, <3>2, SeqDef
    <2>2. event.execution_id \in Nat
        BY DEF Event
    <2>3. /\ DOMAIN Append(trail, event) = 1 .. Len(trail) + 1
          /\ \A i \in 1 .. Len(trail) : Append(trail, event)[i] = trail[i]
          /\ Append(trail, event)[Len(trail) + 1] = event
        BY <1>2
    <2>4. /\ Append(ids, event.execution_id) \in Seq(Nat)
          /\ DOMAIN Append(ids, event.execution_id) = 1 .. Len(trail) + 1
          /\ \A i \in 1 .. Len(trail) : Append(ids, event.execution_id)[i] = ids[i]
          /\ Append(ids, event.execution_id)[Len(trail) + 1] = event.execution_id
        <3>. HIDE DEF ids, trail
        <3>. QED  BY <2>1, <2>2
    <2>5. \A i \in 1 .. Len(trail) : ids[i] = trail[i].execution_id
        BY <1>2
    <2>6. Append(ids, event.execution_id)
              = [i \in 1 .. Len(trail) + 1 |-> Append(ids, event.execution_id)[i]]
        <3>. HIDE DEF ids, trail
        <3>. QED  BY <2>4
    <2>7. \A i \in 1 .. Len(trail) + 1 :
              Append(ids, event.execution_id)[i] = Append(trail, event)[i].execution_id
        <3>1. Len(trail) \in Nat
            BY <1>2
        <3>. HIDE DEF ids, trail
        <3>. QED  BY <2>3, <2>4, <2>5, <3>1
    <2>. HIDE DEF ids, trail
    <2>. QED  BY <2>3, <2>6, <2>7
<1>4. writersOf'[o] = Append(writersOf[o], event.execution_id)
    BY <1>2, <1>3 DEF writersOf
<1>5. \A p \in Operation \ {o} : writersOf'[p] = writersOf[p]
    BY <1>1 DEF writersOf
<1>6. writersOf' = [p \in Operation |-> writersOf'[p]]
    BY DEF writersOf
<1>7. writersOf = [p \in Operation |-> writersOf[p]]
    BY DEF writersOf
<1>. QED  BY <1>4, <1>5, <1>6, <1>7

LEMMA FenceInit == StoreInit => Fence!Init
<1> SUFFICES ASSUME StoreInit PROVE Fence!Init
    OBVIOUS
<1>1. epochs = [o \in Operation |-> 0]
    BY DEF StoreInit, epochs
<1>2. opens = [o \in Operation |-> FALSE]
    BY DEF StoreInit, opens, NoLease
<1>3. values = [o \in Operation |-> InitialProgress(o)]
    BY DEF StoreInit, values
<1>4. writersOf = [o \in Operation |-> <<>>]
    BY DEF StoreInit, writersOf
<1>. QED  BY <1>1, <1>2, <1>3, <1>4 DEF Fence!Init, epochs, opens, values, writersOf

\* Every step of the store is a step of the register, or a stutter.
LEMMA FenceStep ==
    ASSUME StoreInv, [StoreNext]_storeVars
    PROVE  [Fence!Next]_Fence!vars
<1>1. CASE UNCHANGED tables
    <2>1. /\ checkpoint' = checkpoint /\ executions' = executions /\ audit' = audit
        BY <1>1 DEF tables
    <2>2. epochs' = epochs /\ opens' = opens /\ values' = values /\ writersOf' = writersOf
        BY <2>1 DEF epochs, opens, values, writersOf
    <2>. QED  BY <2>2 DEF Fence!vars, epochs, opens, values, writersOf
<1>2. ASSUME NEW o \in Operation, TakesOver(o) PROVE Fence!TakeOver(o)
    <2>1. /\ \A p \in Operation \ {o} :
                 checkpoint'[p] = checkpoint[p] /\ executions'[p] = executions[p]
          /\ Len(executions'[o]) = Len(executions[o]) + 1
          /\ checkpoint'[o].lease # NoLease
          /\ checkpoint'[o].progress = checkpoint[o].progress
        BY <1>2 DEF TakesOver, OthersStay
    <2>2. epochs' = [epochs EXCEPT ![o] = @ + 1]
        BY <2>1 DEF epochs
    <2>3. opens' = [opens EXCEPT ![o] = TRUE]
        BY <2>1 DEF opens
    <2>4. values' = values
        BY <2>1 DEF values
    <2>5. writersOf' = IF epochs[o] = 0 THEN [writersOf EXCEPT ![o] = Append(@, 1)]
                       ELSE writersOf
        <3>1. (epochs[o] = 0) <=> (executions[o] = <<>>)
            BY DEF epochs, StoreInv, StoreTypeOK
        <3>2. CASE executions[o] # <<>>
            <4>1. audit' = audit
                BY <1>2, <3>2 DEF TakesOver
            <4>. QED  BY <3>1, <3>2, <4>1 DEF writersOf
        <3>3. CASE executions[o] = <<>>
            <4>. DEFINE event == [execution_id |-> 1, previous |-> None,
                                  new |-> "PENDING", stage |-> InitialStage[o]]
            <4>1. event \in Event /\ event.execution_id = 1
                BY DEF Event, Status, InitialStage, Stage, Operation
            <4>2. audit' = [audit EXCEPT ![o] = Append(audit[o], event)]
                BY <1>2, <3>3 DEF TakesOver
            <4>. HIDE DEF event
            <4>. QED  BY <3>1, <3>3, <4>1, <4>2, WriterAppended
        <3>. QED  BY <3>2, <3>3
    <2>. QED  BY <2>2, <2>3, <2>4, <2>5 DEF Fence!TakeOver, epochs, opens, values, writersOf
<1>3. ASSUME NEW o \in Operation, NEW progress \in Progress, Writes(o, progress)
      PROVE  Fence!Write(o)
    <2>1. /\ \A p \in Operation \ {o} : checkpoint'[p] = checkpoint[p]
          /\ checkpoint'[o].lease = checkpoint[o].lease
          /\ checkpoint[o].lease # NoLease
          /\ checkpoint'[o].progress = progress
          /\ executions' = executions
        BY <1>3 DEF Writes, OthersStay
    <2>2. epochs' = epochs
        BY <2>1 DEF epochs
    <2>3. opens' = opens /\ opens[o]
        BY <2>1 DEF opens
    <2>4. values' = [values EXCEPT ![o] = values'[o]] /\ values'[o] \in Progress
        BY <2>1 DEF values
    <2>5. writersOf' = [writersOf EXCEPT ![o] = Append(@, epochs[o])]
        <3>. DEFINE event == [execution_id |-> Len(executions[o]),
                              previous |-> checkpoint[o].progress.checkpoint_status,
                              new |-> progress.checkpoint_status,
                              stage |-> progress.current_stage]
        <3>1. checkpoint[o] \in Row /\ executions[o] \in Seq(ExecutionResult)
            BY DEF StoreInv, StoreTypeOK
        <3>2. event \in Event
            BY <3>1 DEF Event, Row, Progress
        <3>3. event.execution_id = epochs[o]
            BY DEF epochs
        <3>4. audit' = [audit EXCEPT ![o] = Append(audit[o], event)]
            BY <1>3 DEF Writes
        <3>. HIDE DEF event
        <3>. QED  BY <3>2, <3>3, <3>4, WriterAppended
    <2>. QED  BY <2>2, <2>3, <2>4, <2>5 DEF Fence!Write, epochs, opens, values, writersOf
<1>4. ASSUME NEW o \in Operation, GivesUp(o) PROVE Fence!GiveUp(o)
    <2>1. /\ \A p \in Operation \ {o} :
                 checkpoint'[p] = checkpoint[p] /\ executions'[p] = executions[p]
          /\ Len(executions'[o]) = Len(executions[o])
          /\ checkpoint[o].lease # NoLease /\ checkpoint'[o].lease = NoLease
          /\ checkpoint'[o].progress = checkpoint[o].progress
          /\ audit' = audit
        BY <1>4 DEF GivesUp, OthersStay
    <2>2. epochs' = epochs
        BY <2>1 DEF epochs
    <2>3. opens' = [opens EXCEPT ![o] = FALSE] /\ opens[o]
        BY <2>1 DEF opens
    <2>4. values' = values
        BY <2>1 DEF values
    <2>5. writersOf' = writersOf
        BY <2>1 DEF writersOf
    <2>. QED  BY <2>2, <2>3, <2>4, <2>5 DEF Fence!GiveUp, epochs, opens, values, writersOf
<1>. QED  BY <1>1, <1>2, <1>3, <1>4, TableSteps DEF Fence!Next

\* The rows of this store are fenced registers: a claim fences earlier
\* executions off, and nobody writes after finishing
\* (durable_checkpoints.py, claim, save and finish as the register's steps).
THEOREM LocalFence == StoreSpec => ImplementsFence
<1>1. StoreInv /\ [StoreNext]_storeVars => [Fence!Next]_Fence!vars
    BY FenceStep
<1>. QED  BY <1>1, FenceInit, StoreInvHolds, PTL DEF StoreSpec, ImplementsFence, Fence!Spec
=============================================================================
