--------------------------- MODULE JourneyLifecycle ---------------------------
(***************************************************************************)
(* One business journey of the local demonstration: the state machine that *)
(* validates every transition (cloud_journey/state_machine.py), the calls  *)
(* of JourneyService that work through it (cloud_journey/tools.py) for     *)
(* several users at a time, and the batch operations of                    *)
(* LocalBusinessGateway (cloud_journey/business_operations.py).            *)
(*                                                                         *)
(* A service call is a series of transactions, each of which locks the     *)
(* journey's row, and other calls run in between; a batch operation is one *)
(* transaction.  A call keeps a list of the steps it still has to do:      *)
(* a state to move to, a section of the context to write, or a read after  *)
(* which it decides how to go on.  Reads that no decision follows, the     *)
(* rows of journey_operations, which nothing reads, and the domain events, *)
(* which repeat what the history says, are left out; the version of the    *)
(* row is the length of its history.                                       *)
(***************************************************************************)
EXTENDS Naturals, Sequences

CONSTANTS
    User,           \* the users of the service
    Approver,       \* those in the approval group
    Method,         \* the service calls that each user makes
    Batch,          \* whether batch jobs work on the journey as well
    PendingPolls,   \* pending_polls of the batch gateway
    MaxPolls,       \* how often wait_for_approval polls before its deadline
    None            \* absent

State == {"CREATED", "VALIDATING_APM", "APM_VALIDATED", "DISCOVERING_CLOUD_SERVICES",
          "COLLECTING_ASSET_INVENTORY", "ASSET_INVENTORY_COMPLETE",
          "PROVISIONING_AGENT_IDENTITY", "AGENT_IDENTITY_READY", "PREPARING_APP_FACTORY",
          "APP_FACTORY_READY", "READY_TO_PROVISION", "APP_FACTORY_VALIDATION_ERROR",
          "GENERATING_PLAN", "WAITING_FOR_APPROVAL", "APPROVED", "REJECTED",
          "SUBMITTING_CLOUD_BUILD", "CLOUD_BUILD_RUNNING", "VALIDATING_DEPLOYMENT",
          "COMPLETED", "FAILED", "RETRYING"}

Section == {"inventory", "proposed_plan", "agent_identity", "app_factory"}
Operation == {"apm-validation", "ad-provisioning", "app-factory-validation"}
AllMethods == {"start", "continue_journey", "record_inventory", "generate_plan", "approve",
               "reject", "record_external_approval", "record_external_rejection",
               "wait_for_approval", "resume_after_approval"}

ASSUME UserAssumption == Approver \subseteq User /\ None \notin User
ASSUME MethodAssumption == Method \in [User -> SUBSET AllMethods] /\ Batch \in BOOLEAN
ASSUME PollAssumption == PendingPolls \in Nat /\ MaxPolls \in Nat

VARIABLES
    journey,    \* the journey's row and its history, or None
    record,     \* journey_operation_status: what each batch operation recorded
    caller      \* the call each user is making

vars == <<journey, record, caller>>

Agent == "agent"    \* any actor that is an agent, the orchestrator included

Event == [from : State \cup {None}, to : State, actor : User \cup {Agent}]
Journey == [status : State, requested_by : User,
            context : [Section -> User \cup {Agent, None}], history : Seq(Event)]
Record == [status : {"WAITING", "COMPLETED"}, successful : BOOLEAN, observations : Nat]

\* Steps besides moving to a state and writing a section: reads, creating the
\* journey, and the approval that approve expects to be refused.
OtherSteps == {"find", "create", "look", "go", "observe", "approve anyway"}
Call == [method : AllMethods \cup {None}, todo : Seq(State \cup Section \cup OtherSteps),
         polls : 0 .. MaxPolls]

Idle == [method |-> None, todo |-> <<>>, polls |-> 0]

ASSUME AbsentAssumption ==
    None \notin AllMethods \cup Journey \cup Record \cup {Agent} /\ Agent \notin User

-----------------------------------------------------------------------------
(* The state machine                                                       *)

Processing == {"VALIDATING_APM", "DISCOVERING_CLOUD_SERVICES", "COLLECTING_ASSET_INVENTORY",
               "PROVISIONING_AGENT_IDENTITY", "PREPARING_APP_FACTORY", "GENERATING_PLAN",
               "SUBMITTING_CLOUD_BUILD", "CLOUD_BUILD_RUNNING", "VALIDATING_DEPLOYMENT"}

\* ALLOWED_TRANSITIONS
Allowed == [s \in State |->
    CASE s = "CREATED" -> {"VALIDATING_APM"}
      [] s = "VALIDATING_APM" -> {"APM_VALIDATED", "FAILED"}
      [] s = "APM_VALIDATED" -> {"DISCOVERING_CLOUD_SERVICES", "PROVISIONING_AGENT_IDENTITY"}
      [] s = "DISCOVERING_CLOUD_SERVICES" -> {"COLLECTING_ASSET_INVENTORY", "FAILED"}
      [] s = "COLLECTING_ASSET_INVENTORY" -> {"ASSET_INVENTORY_COMPLETE", "FAILED"}
      [] s = "ASSET_INVENTORY_COMPLETE" -> {"GENERATING_PLAN"}
      [] s = "PROVISIONING_AGENT_IDENTITY" -> {"AGENT_IDENTITY_READY", "FAILED"}
      [] s = "AGENT_IDENTITY_READY" -> {"PREPARING_APP_FACTORY"}
      [] s = "PREPARING_APP_FACTORY" ->
             {"APP_FACTORY_READY", "READY_TO_PROVISION", "APP_FACTORY_VALIDATION_ERROR", "FAILED"}
      [] s \in {"APP_FACTORY_READY", "READY_TO_PROVISION"} -> {"SUBMITTING_CLOUD_BUILD"}
      [] s = "APP_FACTORY_VALIDATION_ERROR" -> {"PREPARING_APP_FACTORY"}
      [] s = "GENERATING_PLAN" -> {"WAITING_FOR_APPROVAL", "FAILED"}
      [] s = "WAITING_FOR_APPROVAL" -> {"APPROVED", "REJECTED"}
      [] s = "APPROVED" -> {"PROVISIONING_AGENT_IDENTITY"}
      [] s = "SUBMITTING_CLOUD_BUILD" -> {"CLOUD_BUILD_RUNNING", "FAILED"}
      [] s = "CLOUD_BUILD_RUNNING" -> {"VALIDATING_DEPLOYMENT", "FAILED"}
      [] s = "VALIDATING_DEPLOYMENT" -> {"COMPLETED", "FAILED"}
      [] s = "FAILED" -> {"RETRYING"}
      [] s = "RETRYING" -> Processing
      [] s \in {"REJECTED", "COMPLETED"} -> {}]

\* What the history says of the state s.
Reached(j, s) == \E i \in DOMAIN j.history : j.history[i].to = s

\* A transition: the row and the event that records it, in one transaction.
Moved(j, to, actor) ==
    [j EXCEPT !.status = to,
              !.history = Append(@, [from |-> j.status, to |-> to, actor |-> actor])]

\* merge_context: knowledge is written in whatever state the journey is.
Merged(j, section, actor) == [j EXCEPT !.context[section] = actor]

Created(u) == [status |-> "CREATED", requested_by |-> u,
               context |-> [s \in Section |-> None],
               history |-> <<[from |-> None, to |-> "CREATED", actor |-> u]>>]

-----------------------------------------------------------------------------
(* What the calls do                                                       *)

\* Mutant: the pipeline prepares for the batch flow's last state instead.
PipelineToProvision ==
    [s \in {"APPROVED", "PROVISIONING_AGENT_IDENTITY", "AGENT_IDENTITY_READY",
            "PREPARING_APP_FACTORY", "APP_FACTORY_READY", "SUBMITTING_CLOUD_BUILD",
            "CLOUD_BUILD_RUNNING", "VALIDATING_DEPLOYMENT"} |->
    CASE s = "APPROVED" -> "PROVISIONING_AGENT_IDENTITY"
      [] s = "PROVISIONING_AGENT_IDENTITY" -> "AGENT_IDENTITY_READY"
      [] s = "AGENT_IDENTITY_READY" -> "PREPARING_APP_FACTORY"
      [] s = "PREPARING_APP_FACTORY" -> "READY_TO_PROVISION"
      [] s = "APP_FACTORY_READY" -> "SUBMITTING_CLOUD_BUILD"
      [] s = "SUBMITTING_CLOUD_BUILD" -> "CLOUD_BUILD_RUNNING"
      [] s = "CLOUD_BUILD_RUNNING" -> "VALIDATING_DEPLOYMENT"
      [] s = "VALIDATING_DEPLOYMENT" -> "COMPLETED"]

\* EXECUTION_PIPELINE
Pipeline == [s \in {"APPROVED", "PROVISIONING_AGENT_IDENTITY", "AGENT_IDENTITY_READY",
                    "PREPARING_APP_FACTORY", "APP_FACTORY_READY", "SUBMITTING_CLOUD_BUILD",
                    "CLOUD_BUILD_RUNNING", "VALIDATING_DEPLOYMENT"} |->
    CASE s = "APPROVED" -> "PROVISIONING_AGENT_IDENTITY"
      [] s = "PROVISIONING_AGENT_IDENTITY" -> "AGENT_IDENTITY_READY"
      [] s = "AGENT_IDENTITY_READY" -> "PREPARING_APP_FACTORY"
      [] s = "PREPARING_APP_FACTORY" -> "APP_FACTORY_READY"
      [] s = "APP_FACTORY_READY" -> "SUBMITTING_CLOUD_BUILD"
      [] s = "SUBMITTING_CLOUD_BUILD" -> "CLOUD_BUILD_RUNNING"
      [] s = "CLOUD_BUILD_RUNNING" -> "VALIDATING_DEPLOYMENT"
      [] s = "VALIDATING_DEPLOYMENT" -> "COMPLETED"]

\* The pipeline of the shortcut continue_journey.
Discovery == [s \in {"APM_VALIDATED", "DISCOVERING_CLOUD_SERVICES",
                     "COLLECTING_ASSET_INVENTORY", "ASSET_INVENTORY_COMPLETE",
                     "GENERATING_PLAN"} |->
    CASE s = "APM_VALIDATED" -> "DISCOVERING_CLOUD_SERVICES"
      [] s = "DISCOVERING_CLOUD_SERVICES" -> "COLLECTING_ASSET_INVENTORY"
      [] s = "COLLECTING_ASSET_INVENTORY" -> "ASSET_INVENTORY_COMPLETE"
      [] s = "ASSET_INVENTORY_COMPLETE" -> "GENERATING_PLAN"
      [] s = "GENERATING_PLAN" -> "WAITING_FOR_APPROVAL"]

\* The outcome written after a pipeline step, in a transaction of its own.
OutcomeOf(s) == CASE s = "AGENT_IDENTITY_READY" -> <<"agent_identity">>
                  [] s = "APP_FACTORY_READY" -> <<"app_factory">>
                  [] OTHER -> <<>>

Decisions == {"approve", "reject", "record_external_approval", "record_external_rejection"}

\* evaluate_approval_authorization
Authorized(u) == u \in Approver /\ u # journey.requested_by

FirstSteps(m) ==
    CASE m = "start" -> <<"find">>
      [] m \in {"reject", "record_external_rejection"} -> <<"REJECTED">>
      [] m = "record_external_approval" -> <<"APPROVED">>
      [] m = "wait_for_approval" -> <<"observe">>
      [] OTHER -> <<"look">>

\* Mutant: the plan is put up for review before it is written.
PlanAfterwards(s) ==
    CASE s = "ASSET_INVENTORY_COMPLETE" ->
             <<"GENERATING_PLAN", "WAITING_FOR_APPROVAL", "proposed_plan">>
      [] s = "GENERATING_PLAN" -> <<"WAITING_FOR_APPROVAL", "proposed_plan">>
      [] OTHER -> <<"GENERATING_PLAN", "WAITING_FOR_APPROVAL", "proposed_plan">>

PlanSteps(s) ==
    CASE s = "GENERATING_PLAN" -> <<"proposed_plan", "WAITING_FOR_APPROVAL">>
      [] OTHER -> <<"GENERATING_PLAN", "proposed_plan", "WAITING_FOR_APPROVAL">>

\* In a state it has no step for the call asks for a transition that is
\* expected to be refused, and goes on if it is not.
InventorySteps(s) ==
    CASE s = "APM_VALIDATED" ->
             <<"DISCOVERING_CLOUD_SERVICES", "COLLECTING_ASSET_INVENTORY", "inventory",
               "ASSET_INVENTORY_COMPLETE">>
      [] s = "DISCOVERING_CLOUD_SERVICES" ->
             <<"COLLECTING_ASSET_INVENTORY", "inventory", "ASSET_INVENTORY_COMPLETE">>
      [] s = "COLLECTING_ASSET_INVENTORY" -> <<"inventory", "ASSET_INVENTORY_COMPLETE">>
      [] s = "ASSET_INVENTORY_COMPLETE" -> <<"inventory">>
      [] OTHER -> <<"DISCOVERING_CLOUD_SERVICES", "inventory">>

ContinueSteps(s) ==
    IF s = "WAITING_FOR_APPROVAL" THEN <<>>
    ELSE <<IF s \in DOMAIN Discovery THEN Discovery[s] ELSE "DISCOVERING_CLOUD_SERVICES",
           "look">>

\* One round of the loops of approve and resume_after_approval.
PipelineSteps(m, s) ==
    IF s = "COMPLETED" THEN <<>>
    ELSE IF s \in DOMAIN Pipeline
    THEN <<Pipeline[s]>> \o OutcomeOf(Pipeline[s]) \o <<"go">>
    ELSE IF m = "approve" THEN <<"approve anyway", "go">>
    ELSE <<"PROVISIONING_AGENT_IDENTITY", "go">>

StepsAfterLook(m, s) ==
    CASE m = "continue_journey" -> ContinueSteps(s)
      [] m = "record_inventory" -> InventorySteps(s)
      [] m = "generate_plan" -> PlanSteps(s)
      [] m = "approve" ->
             IF s = "WAITING_FOR_APPROVAL" THEN <<"APPROVED", "go">> ELSE <<"go">>
      [] m = "resume_after_approval" -> <<"go">>

-----------------------------------------------------------------------------
(* Service calls                                                           *)

NextStep(u) == Head(caller[u].todo)
Working(u) == caller[u].todo # <<>>

\* The call of u ends, by returning or by raising.
Ends(u) == caller' = [caller EXCEPT ![u] = Idle]

\* It goes on with other steps, or with the rest of its steps.
GoesOn(u, steps) == caller' = [caller EXCEPT ![u].todo = steps]
Advances(u) == GoesOn(u, Tail(caller[u].todo))

Begin(u, m) ==
    /\ caller[u] = Idle
    /\ m # "start" => journey # None
    /\ m \in Decisions => Authorized(u)
    /\ caller' = [caller EXCEPT ![u] = [method |-> m, todo |-> FirstSteps(m),
                                        polls |-> MaxPolls]]
    /\ UNCHANGED <<journey, record>>

\* start finds the journey of its APM id, or creates and validates one.
Find(u) ==
    /\ Working(u) /\ NextStep(u) = "find"
    /\ IF journey # None THEN Ends(u)
       ELSE GoesOn(u, <<"create", "VALIDATING_APM", "APM_VALIDATED">>)
    /\ UNCHANGED <<journey, record>>

\* The APM id is unique: who comes second gets the first one's journey.
Create(u) ==
    /\ Working(u) /\ NextStep(u) = "create"
    /\ IF journey # None THEN Ends(u) /\ UNCHANGED journey
       ELSE Advances(u) /\ journey' = Created(u)
    /\ UNCHANGED record

\* Mutant: resume_after_approval leaves the approval to the transition map.
LookUnguarded(u) ==
    /\ Working(u) /\ NextStep(u) = "look"
    /\ GoesOn(u, StepsAfterLook(caller[u].method, journey.status))
    /\ UNCHANGED <<journey, record>>

\* resume_after_approval goes no further without a recorded approval.
Look(u) ==
    /\ Working(u) /\ NextStep(u) = "look"
    /\ IF caller[u].method = "resume_after_approval" /\ ~Reached(journey, "APPROVED")
       THEN Ends(u)
       ELSE GoesOn(u, StepsAfterLook(caller[u].method, journey.status))
    /\ UNCHANGED <<journey, record>>

Go(u) ==
    /\ Working(u) /\ NextStep(u) = "go"
    /\ GoesOn(u, PipelineSteps(caller[u].method, journey.status))
    /\ UNCHANGED <<journey, record>>

\* Mutant: the events of agents name nobody.
ActorUnknown(u, step) == IF step \in {"APPROVED", "REJECTED"} THEN u ELSE None

\* The state a step moves to, and whom its event names.
Target(step) == IF step = "approve anyway" THEN "APPROVED" ELSE step
ActorOf(u, step) == IF step \in {"APPROVED", "REJECTED"} THEN u ELSE Agent

Moving(u) == Working(u) /\ NextStep(u) \in State \cup {"approve anyway"}

\* Mutant: the transition is not checked against the state it starts from.
MoveUnchecked(u) ==
    /\ Moving(u)
    /\ journey' = Moved(journey, Target(NextStep(u)), ActorOf(u, NextStep(u)))
    /\ Advances(u)
    /\ UNCHANGED record

\* Mutant: a call whose transition is refused looks again.
MoveOrLookAgain(u) ==
    /\ Moving(u)
    /\ IF Target(NextStep(u)) \in Allowed[journey.status]
       THEN /\ journey' = Moved(journey, Target(NextStep(u)), ActorOf(u, NextStep(u)))
            /\ Advances(u)
       ELSE UNCHANGED journey /\ GoesOn(u, FirstSteps(caller[u].method))
    /\ UNCHANGED record

\* A transition is refused unless the map allows it from the state the row
\* is in; the refusal ends the call.
Move(u) ==
    /\ Moving(u)
    /\ IF Target(NextStep(u)) \in Allowed[journey.status]
       THEN /\ journey' = Moved(journey, Target(NextStep(u)), ActorOf(u, NextStep(u)))
            /\ Advances(u)
       ELSE Ends(u) /\ UNCHANGED journey
    /\ UNCHANGED record

\* An inventory names who supplied it, a plan or an outcome the agent.
Merge(u) ==
    /\ Working(u) /\ NextStep(u) \in Section
    /\ journey' = Merged(journey, NextStep(u),
                         IF NextStep(u) = "inventory" THEN u ELSE Agent)
    /\ Advances(u)
    /\ UNCHANGED record

\* wait_for_approval reads until there is a decision or its deadline has
\* passed; a journey that is neither waiting nor decided is an error.
Observe(u) ==
    /\ Working(u) /\ NextStep(u) = "observe"
    /\ \/ Ends(u)
       \/ /\ journey.status = "WAITING_FOR_APPROVAL"
          /\ caller[u].polls > 0
          /\ caller' = [caller EXCEPT ![u].polls = @ - 1]
    /\ UNCHANGED <<journey, record>>

Return(u) ==
    /\ caller[u].method # None /\ ~Working(u)
    /\ Ends(u)
    /\ UNCHANGED <<journey, record>>

\* The process dies, or the database refuses the next transaction.
Fail(u) ==
    /\ Working(u)
    /\ Ends(u)
    /\ UNCHANGED <<journey, record>>

-----------------------------------------------------------------------------
(* Batch operations: each is one transaction that reads its record first   *)
(* and leaves everything alone when it has one, or when it raises.         *)

Recorded(op, status, successful, observations) ==
    record' = [record EXCEPT ![op] = [status |-> status, successful |-> successful,
                                      observations |-> observations]]

\* _transition: nothing to do in the target state.
MovedUnlessThere(j, to) == IF j.status = to THEN j ELSE Moved(j, to, Agent)
CanMove(j, to) == j.status = to \/ to \in Allowed[j.status]

\* Validates a new journey, or reconciles an interactive validation.
ValidateApm ==
    /\ record["apm-validation"] = None
    /\ LET started == IF journey.status = "CREATED"
                      THEN Moved(journey, "VALIDATING_APM", Agent) ELSE journey
           validated == IF started.status = "VALIDATING_APM"
                        THEN Moved(started, "APM_VALIDATED", Agent) ELSE started
       IN  Reached(validated, "APM_VALIDATED") /\ journey' = validated
    /\ Recorded("apm-validation", "COMPLETED", TRUE, 0)

\* Mutant: a submission is recorded without moving the journey.
SubmitAdAlone ==
    /\ record["ad-provisioning"] = None
    /\ Recorded("ad-provisioning", "WAITING", TRUE, 0)
    /\ UNCHANGED journey

\* The provider returns one request id for the journey, so it is left out.
SubmitAd ==
    /\ record["ad-provisioning"] = None
    /\ CanMove(journey, "PROVISIONING_AGENT_IDENTITY")
    /\ journey' = MovedUnlessThere(journey, "PROVISIONING_AGENT_IDENTITY")
    /\ Recorded("ad-provisioning", "WAITING", TRUE, 0)

\* Mutant: a poll completes the request without moving the journey.
PollAdAlone ==
    /\ record["ad-provisioning"] # None
    /\ record["ad-provisioning"].status = "WAITING"
    /\ LET observed == record["ad-provisioning"].observations + 1
       IN  Recorded("ad-provisioning", IF observed <= PendingPolls THEN "WAITING"
                                       ELSE "COMPLETED", TRUE, observed)
    /\ UNCHANGED journey

PollAd ==
    /\ record["ad-provisioning"] # None
    /\ record["ad-provisioning"].status = "WAITING"
    /\ LET observed == record["ad-provisioning"].observations + 1
       IN  IF observed <= PendingPolls
           THEN /\ Recorded("ad-provisioning", "WAITING", TRUE, observed)
                /\ UNCHANGED journey
           ELSE /\ CanMove(journey, "AGENT_IDENTITY_READY")
                /\ journey' = MovedUnlessThere(journey, "AGENT_IDENTITY_READY")
                /\ Recorded("ad-provisioning", "COMPLETED", TRUE, observed)

\* Without an inventory the validation completes with a negative result.
ValidateAppFactory ==
    /\ record["app-factory-validation"] = None
    /\ CanMove(journey, "PREPARING_APP_FACTORY")
    /\ LET complete == journey.context["inventory"] # None
           prepared == MovedUnlessThere(journey, "PREPARING_APP_FACTORY")
       IN  /\ journey' = Moved(prepared, IF complete THEN "READY_TO_PROVISION"
                                         ELSE "APP_FACTORY_VALIDATION_ERROR", Agent)
           /\ Recorded("app-factory-validation", "COMPLETED", complete, 0)

BatchStep ==
    /\ Batch /\ journey # None
    /\ ValidateApm \/ SubmitAd \/ PollAd \/ ValidateAppFactory
    /\ UNCHANGED caller

-----------------------------------------------------------------------------

Init ==
    /\ journey = None
    /\ record = [op \in Operation |-> None]
    /\ caller = [u \in User |-> Idle]

Step(u) == \/ Find(u) \/ Create(u) \/ Look(u) \/ Go(u)
           \/ Move(u) \/ Merge(u) \/ Observe(u) \/ Return(u)

Next ==
    \/ \E u \in User :
           \/ \E m \in Method[u] : Begin(u, m)
           \/ Step(u)
           \/ Fail(u)
    \/ BatchStep

Spec == Init /\ [][Next]_vars

\* A call that runs goes on running, unless it fails.
Fairness == \A u \in User : WF_vars(Step(u))

FairSpec == Spec /\ Fairness

-----------------------------------------------------------------------------
(* Safety                                                                  *)

\* Every variable has the shape of its table or of a call's local state.
TypeOK ==
    /\ journey \in Journey \cup {None}
    /\ record \in [Operation -> Record \cup {None}]
    /\ caller \in [User -> Call]

\* The journey's history, empty before there is a journey.
History == IF journey = None THEN <<>> ELSE journey.history
Entered(s) == \E i \in DOMAIN History : History[i].to = s

\* States behind the approval boundary, which the batch jobs stop short of.
Built == {"APP_FACTORY_READY", "SUBMITTING_CLOUD_BUILD", "CLOUD_BUILD_RUNNING",
          "VALIDATING_DEPLOYMENT", "COMPLETED"}

\* Reviewers who decide at the same time, in any way the service offers, are
\* decided between: there is one decision, never by the requester, and a
\* rejection is the end of the journey.
DecisionStands ==
    \A i \in DOMAIN History : History[i].to \in {"APPROVED", "REJECTED"} =>
        /\ \A j \in DOMAIN History :
               History[j].to \in {"APPROVED", "REJECTED"} => j = i
        /\ History[i].actor # journey.requested_by
        /\ History[i].to = "REJECTED" => i = Len(History)

\* Nothing is built that was not approved before, although batch jobs take a
\* journey into execution without an approval.
NothingBuiltUnapproved ==
    \A i \in DOMAIN History : History[i].to \in Built =>
        \E k \in DOMAIN History : k < i /\ History[k].to = "APPROVED"

\* What is put up for review has an inventory and a plan, however many users
\* gather and plan at the same time and wherever one of them fails.
ReviewHasPlan ==
    Entered("WAITING_FOR_APPROVAL") =>
        /\ journey.context["inventory"] # None
        /\ journey.context["proposed_plan"] # None

\* An approved journey can be resumed wherever a call left it: the pipeline
\* leads from its state to completion.
ApprovedCanBeResumed ==
    Entered("APPROVED") => journey.status \in DOMAIN Pipeline \cup {"COMPLETED"}

\* A batch result and the transition it stands for commit together: what the
\* operations recorded is in the history, and nothing else is.
ResultsMatchHistory ==
    /\ record["apm-validation"] # None => Entered("APM_VALIDATED")
    /\ record["ad-provisioning"] # None =>
           /\ Entered("PROVISIONING_AGENT_IDENTITY")
           /\ record["ad-provisioning"].status = "COMPLETED" => Entered("AGENT_IDENTITY_READY")
    /\ \A ok \in BOOLEAN :
           Entered(IF ok THEN "READY_TO_PROVISION" ELSE "APP_FACTORY_VALIDATION_ERROR") =>
               /\ record["app-factory-validation"] # None
               /\ record["app-factory-validation"].successful = ok
               /\ ok => journey.context["inventory"] # None

\* Until the journey is approved, which lets users resume it, a request that
\* the provider has not decided keeps the journey where the decision finds it,
\* whatever users do meanwhile: no poll is refused.
PendingRequestCanComplete ==
    record["ad-provisioning"] # None /\ ~Entered("APPROVED") =>
        (record["ad-provisioning"].status = "WAITING" <=>
            journey.status = "PROVISIONING_AGENT_IDENTITY")

\* Every call ends: the loops of the pipelines end with the journey or are
\* refused, and nobody waits for a decision for ever.
EveryCallEnds == \A u \in User : caller[u].method # None ~> caller[u].method = None
=============================================================================
