--------------------------- MODULE FencedRegister ---------------------------
(***************************************************************************)
(* The part of LeasedRegister that does not depend on anybody's clock, for *)
(* several registers: one that can be taken over at any time.  Taking it   *)
(* over starts a new epoch and fences every earlier one off: a write       *)
(* always is the current epoch's, and none happens once that epoch has     *)
(* given up.                                                               *)
(***************************************************************************)
EXTENDS Naturals, Sequences

CONSTANTS
    Register,       \* the registers
    Value,          \* the progress an operation can have
    InitialValue    \* the progress of an operation nobody has worked on

VARIABLES
    epoch,      \* how many times each register has been taken
    open,       \* TRUE until the taker of its current epoch gives up
    value,      \* the progress recorded
    writers     \* the epochs of the accepted writes, in order

vars == <<epoch, open, value, writers>>

Init ==
    /\ epoch = [r \in Register |-> 0]
    /\ open = [r \in Register |-> FALSE]
    /\ value = InitialValue
    /\ writers = [r \in Register |-> <<>>]

\* Taking a register for the first time creates it, which counts as a write.
TakeOver(r) ==
    /\ epoch' = [epoch EXCEPT ![r] = @ + 1]
    /\ open' = [open EXCEPT ![r] = TRUE]
    /\ writers' = IF epoch[r] = 0 THEN [writers EXCEPT ![r] = Append(@, 1)] ELSE writers
    /\ UNCHANGED value

Write(r) ==
    /\ open[r]
    /\ value'[r] \in Value
    /\ value' = [value EXCEPT ![r] = value'[r]]
    /\ writers' = [writers EXCEPT ![r] = Append(@, epoch[r])]
    /\ UNCHANGED <<epoch, open>>

GiveUp(r) ==
    /\ open[r]
    /\ open' = [open EXCEPT ![r] = FALSE]
    /\ UNCHANGED <<epoch, value, writers>>

Next ==
    \E r \in Register :
        \/ TakeOver(r)
        \/ Write(r)
        \/ GiveUp(r)

Spec == Init /\ [][Next]_vars
=============================================================================
