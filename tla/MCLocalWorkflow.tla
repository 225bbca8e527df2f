--------------------------- MODULE MCLocalWorkflow ---------------------------
(* Two runs of the local workflow on small instances of a journey.         *)
EXTENDS LocalWorkflow, TLC

CONSTANTS request, reference, c1, c2

\* The journey as create_journey leaves it, with or without an inventory in
\* the context that it is given.
New(inventory) ==
    [status |-> "CREATED", requested_by |-> "owner",
     context |-> [s \in {"inventory", "proposed_plan", "agent_identity", "app_factory"} |->
                     IF s = "inventory" THEN inventory ELSE None],
     history |-> <<[from |-> None, to |-> "CREATED", actor |-> "owner"]>>]

RECURSIVE Along(_, _)
Along(j, states) ==
    IF states = <<>> THEN j
    ELSE Along([j EXCEPT !.status = Head(states),
                         !.history = Append(@, [from |-> j.status, to |-> Head(states),
                                                actor |-> "agent"])], Tail(states))

ToInventory == <<"VALIDATING_APM", "APM_VALIDATED", "DISCOVERING_CLOUD_SERVICES",
                 "COLLECTING_ASSET_INVENTORY", "ASSET_INVENTORY_COMPLETE">>
ToApproval == ToInventory \o <<"GENERATING_PLAN", "WAITING_FOR_APPROVAL", "APPROVED">>

\* An approved journey, a new one that the last validation will find
\* incomplete, and one that users have taken too far for a submission.
StartingJourneys ==
    {Along(New("owner"), ToApproval), New(None), Along(New("owner"), ToInventory)}
\* One run may poll once more than the other.
OnceOrTwice == c1 :> 1 @@ c2 :> 2
OneJourney == {New("owner")}
=============================================================================
