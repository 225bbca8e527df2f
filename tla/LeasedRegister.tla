--------------------------- MODULE LeasedRegister ---------------------------
(***************************************************************************)
(* What a durable checkpoint promises its users, whichever store keeps it: *)
(* a register with one writer at a time.  Taking the register over starts  *)
(* a new epoch; only the holder of the current epoch writes; the holder    *)
(* gives the register back or its time runs out; the value survives every  *)
(* change of hands.  No clock, version, mutation id or audit row appears.  *)
(***************************************************************************)
EXTENDS Naturals, Sequences

CONSTANTS
    Value,          \* the progress an operation can have
    InitialValue    \* the progress of an operation nobody has worked on

VARIABLES
    epoch,      \* how many times the register has been taken
    held,       \* TRUE while the taker of the current epoch may write
    value,      \* the progress recorded
    writers     \* the epochs of the accepted writes, in order

vars == <<epoch, held, value, writers>>

TypeOK ==
    /\ epoch \in Nat
    /\ held \in BOOLEAN
    /\ value \in Value
    /\ writers \in Seq(Nat)

Init ==
    /\ epoch = 0
    /\ held = FALSE
    /\ value = InitialValue
    /\ writers = <<>>

\* A new epoch begins; taking the register for the first time creates it,
\* which counts as a write of the initial value.
Acquire ==
    /\ ~held
    /\ epoch' = epoch + 1
    /\ held' = TRUE
    /\ writers' = IF epoch = 0 THEN Append(writers, 1) ELSE writers
    /\ UNCHANGED value

Write(v) ==
    /\ held
    /\ value' = v
    /\ writers' = Append(writers, epoch)
    /\ UNCHANGED <<epoch, held>>

\* The holder gives the register back, or is taken to have died.
Surrender ==
    /\ held
    /\ held' = FALSE
    /\ UNCHANGED <<epoch, value, writers>>

Next ==
    \/ Acquire
    \/ \E v \in Value : Write(v)
    \/ Surrender

Spec == Init /\ [][Next]_vars
=============================================================================
