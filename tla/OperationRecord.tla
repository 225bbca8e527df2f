--------------------------- MODULE OperationRecord ---------------------------
(***************************************************************************)
(* What a business service promises of the record that it keeps of one     *)
(* operation of a journey, whoever calls it and however often.  The        *)
(* provider's request is submitted once and stays pending until it has     *)
(* been polled often enough; a validation decides at once; and what has    *)
(* been decided is final.  No caller, journey or reference appears.        *)
(***************************************************************************)
EXTENDS Naturals

CONSTANTS
    Provided,       \* whether a provider decides on the operation
    PendingPolls,   \* how many polls find a request pending
    None            \* absent

VARIABLE record     \* what the service has recorded, or None

Init == record = None

Submit ==
    /\ Provided /\ record = None
    /\ record' = [status |-> "WAITING", successful |-> TRUE, observations |-> 0]

Poll ==
    /\ Provided /\ record # None /\ record.status = "WAITING"
    /\ \/ /\ record.observations < PendingPolls
          /\ record' = [record EXCEPT !.observations = @ + 1]
       \/ /\ ~(record.observations < PendingPolls)
          /\ \E ok \in BOOLEAN :
                 record' = [status |-> "COMPLETED", successful |-> ok,
                            observations |-> record.observations + 1]

Validate ==
    /\ ~Provided /\ record = None
    /\ \E ok \in BOOLEAN :
           record' = [status |-> "COMPLETED", successful |-> ok, observations |-> 0]

Next == Submit \/ Poll \/ Validate

Spec == Init /\ [][Next]_record
=============================================================================
