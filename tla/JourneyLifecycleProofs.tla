----------------------- MODULE JourneyLifecycleProofs -----------------------
(***************************************************************************)
(* Proofs about JourneyLifecycle, for any users, approvers and polls: the  *)
(* types, every safety property of the journey, each under what it needs   *)
(* to be known of the calls that users make, and that journeys and calls   *)
(* are finite.                                                             *)
(***************************************************************************)
EXTENDS JourneyLifecycle, TLAPS

-----------------------------------------------------------------------------
(* The inductive invariant                                                 *)

Decided == {"APPROVED", "REJECTED"}

\* What the execution pipeline moves to.
Execution == Built \cup
    {"PROVISIONING_AGENT_IDENTITY", "AGENT_IDENTITY_READY", "PREPARING_APP_FACTORY"}

\* What only a batch validation moves to, and what nothing moves to.
BatchOnly == {"READY_TO_PROVISION", "APP_FACTORY_VALIDATION_ERROR"}
Never == {"FAILED", "RETRYING"}

\* States that a decided journey may be in.
AfterDecision == Decided \cup Execution \cup BatchOnly

\* A journey's row agrees with its history, which holds one decision at most.
Sound(j) ==
    /\ Len(j.history) > 0
    /\ j.status = j.history[Len(j.history)].to
    /\ j.status \notin Never
    /\ ~Batch => j.status \notin BatchOnly
    /\ \A s \in Decided : Reached(j, s) => j.status \in AfterDecision
    /\ \A i \in DOMAIN j.history : j.history[i].to \in Decided =>
           /\ \A k \in DOMAIN j.history : j.history[k].to \in Decided => k = i
           /\ j.history[i].actor # j.requested_by
           /\ j.history[i].to = "REJECTED" => i = Len(j.history)

\* What a list of steps has that is made for the method m: failures and the
\* results of validations are left alone.
AnyStep == State \cup Section \cup OtherSteps
StepsOf(todo) == {todo[i] : i \in DOMAIN todo}
Looking == {"continue_journey", "record_inventory", "generate_plan", "approve",
            "resume_after_approval"}
Fits(todo, m) ==
    /\ todo \in Seq(AnyStep)
    /\ StepsOf(todo) \cap (Never \cup BatchOnly) = {}
    /\ StepsOf(todo) \cap Decided # {} => m \in Decisions
    /\ "look" \in StepsOf(todo) => m \in Looking
    /\ "go" \in StepsOf(todo) => m \in {"approve", "resume_after_approval"}

\* The call c of u works on a journey j that exists, and decides for others.
Proper(u, c, j) ==
    /\ c.method \in Method[u] \cup {None}
    /\ Fits(c.todo, c.method)
    /\ j = None /\ c.todo # <<>> => Head(c.todo) \in {"find", "create"}
    /\ c.method \in Decisions => j # None /\ u # j.requested_by

LifecycleInv ==
    /\ TypeOK
    /\ journey # None => Sound(journey)
    /\ \A u \in User : Proper(u, caller[u], journey)

\* Nobody starts to execute what was not approved.
Backed(c) ==
    \/ Entered("APPROVED")
    \/ /\ StepsOf(c.todo) \cap Execution = {}
       /\ c.method = "resume_after_approval" => "go" \notin StepsOf(c.todo)

\* The exception is approve(), which does not ask what took the journey into
\* execution: it may have been a batch job.
Unguarded(c) == Batch /\ c.method = "approve"
ExecutionIsGuarded ==
    /\ \A u \in User : Unguarded(caller[u]) \/ Backed(caller[u])
    /\ ~Batch /\ journey # None /\ journey.status \in Execution => Entered("APPROVED")
ApprovalComesFirst == ExecutionIsGuarded /\ NothingBuiltUnapproved

\* Nobody moves on before what belongs to the next state is written.
Has(j, section) == j # None /\ j.context[section] # None
Follows(todo, i, section) == \E k \in 1 .. i - 1 : todo[k] = section
Informed(c, j) ==
    \A i \in DOMAIN c.todo :
        /\ c.todo[i] = "ASSET_INVENTORY_COMPLETE" =>
               Has(j, "inventory") \/ Follows(c.todo, i, "inventory")
        /\ c.todo[i] = "WAITING_FOR_APPROVAL" =>
               Has(j, "proposed_plan") \/ Follows(c.todo, i, "proposed_plan")
KnowledgeComesFirst ==
    /\ \A u \in User : Informed(caller[u], journey)
    /\ journey # None /\ journey.status \in {"ASSET_INVENTORY_COMPLETE", "GENERATING_PLAN"} =>
           Has(journey, "inventory")
    /\ ReviewHasPlan

\* What the properties need to know of the calls that users make.
ExecutionIsResumed == Batch => \A u \in User : "approve" \notin Method[u]
StepsAreExplicit == \A u \in User : "continue_journey" \notin Method[u]

-----------------------------------------------------------------------------
(* The transition map                                                      *)

\* The targets that ALLOWED_TRANSITIONS has for a state, as far as needed.
LEMMA TransitionMap ==
    ASSUME NEW s \in State, NEW to \in Allowed[s], to \notin Never, s \notin Never
    PROVE  /\ to \in State
           /\ s \in AfterDecision => s # "REJECTED" /\ to \in AfterDecision \ Decided
           /\ to \in Decided => s = "WAITING_FOR_APPROVAL"
           /\ to = "WAITING_FOR_APPROVAL" => s = "GENERATING_PLAN"
           /\ to = "GENERATING_PLAN" => s = "ASSET_INVENTORY_COMPLETE"
           /\ s = "PROVISIONING_AGENT_IDENTITY" => to = "AGENT_IDENTITY_READY"
  BY SMTT(60) DEF State, Allowed, Never, AfterDecision, Decided, Execution, Built, BatchOnly,
     Processing

\* The pipelines stay on the transition map.
LEMMA PipelineMap ==
    /\ DOMAIN Pipeline \subseteq Execution \cup {"APPROVED"}
    /\ \A s \in DOMAIN Pipeline : Pipeline[s] \in Execution
    /\ \A s \in DOMAIN Discovery : Discovery[s] \in
           {"DISCOVERING_CLOUD_SERVICES", "COLLECTING_ASSET_INVENTORY",
            "ASSET_INVENTORY_COMPLETE", "GENERATING_PLAN", "WAITING_FOR_APPROVAL"}
    /\ Execution \subseteq State /\ Execution \cap (Never \cup BatchOnly \cup Decided) = {}
  BY SMTT(60) DEF Pipeline, Discovery, State, Execution, Built, Never, BatchOnly, Decided

-----------------------------------------------------------------------------
(* Moving a journey                                                        *)

LEMMA MoveFacts ==
    ASSUME NEW j \in Journey, NEW to \in State, NEW actor \in User \cup {Agent}
    PROVE  LET k == Moved(j, to, actor)
           IN  /\ k \in Journey
               /\ k.status = to /\ k.requested_by = j.requested_by /\ k.context = j.context
               /\ Len(j.history) \in Nat
               /\ DOMAIN j.history = 1 .. Len(j.history)
               /\ Len(k.history) = Len(j.history) + 1
               /\ DOMAIN k.history = 1 .. Len(j.history) + 1
               /\ \A i \in DOMAIN j.history : k.history[i] = j.history[i]
               /\ k.history[Len(j.history) + 1].to = to
               /\ k.history[Len(j.history) + 1].actor = actor
               /\ \A s : Reached(k, s) <=> Reached(j, s) \/ s = to
  <1> DEFINE e == [from |-> j.status, to |-> to, actor |-> actor]
             k == Moved(j, to, actor)
  <1>1. j.history \in Seq(Event) /\ j.status \in State /\ e \in Event
    BY DEF Journey, Event
  <1>2. k = [status |-> to, requested_by |-> j.requested_by, context |-> j.context,
             history |-> Append(j.history, e)]
    <2> PICK r, c, h : j = [status |-> j.status, requested_by |-> r, context |-> c, history |-> h]
      BY DEF Journey
    <2> DEFINE l == [j EXCEPT !.status = to]
    <2>1. l = [status |-> to, requested_by |-> r, context |-> c, history |-> h]
      OBVIOUS
    <2>2. k = [l EXCEPT !.history = Append(j.history, e)]
      BY Zenon DEF Moved
    <2> QED
      BY <2>1, <2>2
  <1>3. Append(j.history, e) \in Seq(Event)
    BY <1>1
  <1>4. k \in Journey
    BY <1>2, <1>3 DEF Journey
  <1>5. /\ Len(j.history) \in Nat
        /\ DOMAIN j.history = 1 .. Len(j.history)
        /\ Len(k.history) = Len(j.history) + 1
        /\ DOMAIN k.history = 1 .. Len(j.history) + 1
        /\ \A i \in DOMAIN j.history : k.history[i] = j.history[i]
        /\ k.history[Len(j.history) + 1] = e
    BY <1>1, <1>2
  <1>6. \A s : Reached(k, s) <=> Reached(j, s) \/ s = to
    BY <1>5 DEF Reached
  <1>7. /\ k.status = to /\ k.requested_by = j.requested_by /\ k.context = j.context
        /\ e.to = to /\ e.actor = actor
    BY <1>2
  <1> QED
    BY <1>4, <1>5, <1>6, <1>7, Zenon

LEMMA MoveIsSound ==
    ASSUME NEW j \in Journey, Sound(j), NEW to \in Allowed[j.status],
           NEW actor \in User \cup {Agent},
           to \notin Never, ~Batch => to \notin BatchOnly,
           to \in Decided => actor # j.requested_by
    PROVE  Sound(Moved(j, to, actor))
  <1> DEFINE k == Moved(j, to, actor)
             n == Len(j.history)
  <1>1. j.status \in State /\ j.status \notin Never
    BY DEF Journey, Sound
  <1>2. /\ to \in State
        /\ j.status \in AfterDecision => j.status # "REJECTED" /\ to \in AfterDecision \ Decided
        /\ to \in Decided => j.status = "WAITING_FOR_APPROVAL"
    BY <1>1, TransitionMap
  <1>3. /\ k.status = to /\ k.requested_by = j.requested_by
        /\ n \in Nat /\ DOMAIN j.history = 1 .. n
        /\ Len(k.history) = n + 1 /\ DOMAIN k.history = 1 .. n + 1
        /\ \A i \in DOMAIN j.history : k.history[i] = j.history[i]
        /\ k.history[n + 1].to = to /\ k.history[n + 1].actor = actor
        /\ \A s : Reached(k, s) <=> Reached(j, s) \/ s = to
    BY <1>2, MoveFacts
  <1>4. \A s \in Decided : Reached(j, s) => to \notin Decided
    BY <1>2 DEF Sound
  <1>5. \A s \in Decided : Reached(k, s) => k.status \in AfterDecision
    <2> TAKE s \in Decided
    <2> HAVE Reached(k, s)
    <2>1. CASE Reached(j, s)
      BY <2>1, <1>2, <1>3 DEF Sound
    <2>2. CASE s = to
      BY <2>2, <1>3 DEF AfterDecision
    <2> QED
      BY <2>1, <2>2, <1>3
  <1>6. ASSUME NEW i \in DOMAIN k.history, k.history[i].to \in Decided
        PROVE  /\ \A l \in DOMAIN k.history : k.history[l].to \in Decided => l = i
               /\ k.history[i].actor # k.requested_by
               /\ k.history[i].to = "REJECTED" => i = Len(k.history)
    <2>1. CASE i = n + 1
      <3>1. \A l \in DOMAIN j.history : j.history[l].to \notin Decided
        BY <2>1, <1>3, <1>4, <1>6 DEF Reached
      <3> QED
        BY <2>1, <3>1, <1>3, <1>6
    <2>2. CASE i # n + 1
      <3>1. i \in DOMAIN j.history /\ k.history[i] = j.history[i]
        BY <2>2, <1>3
      <3>2. to \notin Decided
        BY <3>1, <1>4, <1>6 DEF Reached
      <3>3. j.history[i].to # "REJECTED"
        <4> SUFFICES ASSUME j.history[i].to = "REJECTED" PROVE FALSE
          OBVIOUS
        <4>1. i = n /\ j.status = "REJECTED"
          BY <3>1 DEF Sound, Decided
        <4> QED
          BY <4>1, <1>2 DEF AfterDecision, Decided
      <3>4. /\ \A l \in DOMAIN j.history : j.history[l].to \in Decided => l = i
            /\ j.history[i].actor # j.requested_by
        BY <3>1, <1>6 DEF Sound
      <3> QED
        BY <3>1, <3>2, <3>3, <3>4, <1>3
    <2> QED
      BY <2>1, <2>2
  <1>7. Len(k.history) > 0 /\ k.status = k.history[Len(k.history)].to
    BY <1>3
  <1> HIDE DEF k
  <1>8. Sound(k)
    BY <1>3, <1>5, <1>6, <1>7 DEF Sound
  <1> QED
    BY <1>8 DEF k

-----------------------------------------------------------------------------
(* Lists of steps                                                          *)

LEMMA TailOfSteps ==
    ASSUME NEW todo \in Seq(AnyStep), todo # <<>>
    PROVE  /\ Head(todo) = todo[1] /\ 1 \in DOMAIN todo /\ Head(todo) \in AnyStep
           /\ Head(todo) \in StepsOf(todo)
           /\ Tail(todo) \in Seq(AnyStep)
           /\ \A i \in DOMAIN Tail(todo) :
                  i \in Nat \ {0} /\ i + 1 \in DOMAIN todo /\ Tail(todo)[i] = todo[i + 1]
           /\ StepsOf(Tail(todo)) \subseteq StepsOf(todo)
  <1>1. /\ Head(todo) = todo[1] /\ 1 \in DOMAIN todo /\ Head(todo) \in AnyStep
        /\ Tail(todo) \in Seq(AnyStep)
        /\ \A i \in DOMAIN Tail(todo) :
               i \in Nat \ {0} /\ i + 1 \in DOMAIN todo /\ Tail(todo)[i] = todo[i + 1]
    OBVIOUS
  <1> QED
    BY <1>1 DEF StepsOf

LEMMA StepsAmong ==
    ASSUME NEW S, S \subseteq AnyStep, NEW todo \in Seq(S)
    PROVE  todo \in Seq(AnyStep) /\ StepsOf(todo) \subseteq S
  BY DEF StepsOf

LEMMA FirstStepsFit ==
    ASSUME NEW m \in AllMethods
    PROVE  /\ Fits(FirstSteps(m), m)
           /\ FirstSteps(m) # <<>>
           /\ m = "start" => Head(FirstSteps(m)) = "find"
           /\ StepsOf(FirstSteps(m)) \subseteq {"find", "look", "observe"} \cup Decided
  <1>1. PICK a \in {"find", "look", "observe"} \cup Decided :
            /\ FirstSteps(m) = <<a>>
            /\ a \in Decided => m \in Decisions
            /\ a = "look" => m \in Looking
            /\ m = "start" => a = "find"
    BY DEF FirstSteps, AllMethods, Decided, Decisions, Looking
  <1>2. a \in AnyStep /\ a \notin Never \cup BatchOnly \cup {"go"}
    BY DEF AnyStep, State, OtherSteps, Never, BatchOnly, Decided
  <1>3. /\ <<a>> \in Seq({a}) /\ Head(<<a>>) = a /\ <<a>> # <<>>
    OBVIOUS
  <1>4. <<a>> \in Seq(AnyStep) /\ StepsOf(<<a>>) \subseteq {a}
    BY <1>2, <1>3, StepsAmong
  <1>5. Fits(<<a>>, m)
    BY <1>1, <1>2, <1>4 DEF Fits
  <1> QED
    BY <1>1, <1>3, <1>4, <1>5

\* The steps of start.
StartSteps == <<"create", "VALIDATING_APM", "APM_VALIDATED">>
LEMMA StartStepsFit ==
    /\ Fits(StartSteps, "start")
    /\ StartSteps # <<>> /\ Head(StartSteps) = "create"
    /\ StepsOf(StartSteps) \subseteq {"create", "VALIDATING_APM", "APM_VALIDATED"}
  <1> DEFINE S == {"create", "VALIDATING_APM", "APM_VALIDATED"}
  <1>1. S \subseteq AnyStep
    BY DEF AnyStep, State, OtherSteps
  <1>3. StartSteps \in Seq(S)
    BY DEF StartSteps
  <1>4. StartSteps \in Seq(AnyStep) /\ StepsOf(StartSteps) \subseteq S
    BY <1>1, <1>3, StepsAmong
  <1>2. StartSteps # <<>> /\ Head(StartSteps) = "create"
    BY DEF StartSteps
  <1> QED
    BY <1>2, <1>4 DEF Fits, Never, BatchOnly, Decided

\* Every list that a look makes has its sections before its states.
InOrder(todo) ==
    \A i \in DOMAIN todo :
        /\ todo[i] = "ASSET_INVENTORY_COMPLETE" => Follows(todo, i, "inventory")
        /\ todo[i] = "WAITING_FOR_APPROVAL" => Follows(todo, i, "proposed_plan")

\* What a list without a decision, a failure or a result of a validation needs.
LEMMA PlainStepsFit ==
    ASSUME NEW todo \in Seq(AnyStep), NEW m,
           StepsOf(todo) \cap (Never \cup BatchOnly \cup Decided) = {},
           "look" \in StepsOf(todo) => m \in Looking,
           "go" \in StepsOf(todo) => m \in {"approve", "resume_after_approval"}
    PROVE  Fits(todo, m)
  BY DEF Fits

LEMMA LookStepsFit ==
    ASSUME NEW m \in Looking, NEW s \in State
    PROVE  /\ Fits(StepsAfterLook(m, s), m)
           /\ StepsOf(StepsAfterLook(m, s)) \cap Execution = {}
           /\ m # "continue_journey" => InOrder(StepsAfterLook(m, s))
  <1> DEFINE t == StepsAfterLook(m, s)
             D == {"DISCOVERING_CLOUD_SERVICES", "COLLECTING_ASSET_INVENTORY",
                   "ASSET_INVENTORY_COMPLETE", "GENERATING_PLAN", "WAITING_FOR_APPROVAL"}
             P == {"inventory", "proposed_plan", "look"} \cup D
  <1>0. P \cup {"go", "APPROVED"} \subseteq AnyStep
    BY DEF AnyStep, State, Section, OtherSteps
  <1>1. ASSUME NEW l \in Seq(P)
        PROVE  Fits(l, m) /\ StepsOf(l) \cap Execution = {}
    <2>1. l \in Seq(AnyStep) /\ StepsOf(l) \subseteq P
      BY <1>0, StepsAmong
    <2> QED
      BY <2>1, PlainStepsFit DEF Never, BatchOnly, Decided, Execution, Built
  <1>2. CASE m = "continue_journey"
    <2>1. t = <<>> \/ \E d \in D : t = <<d, "look">>
      BY <1>2, PipelineMap DEF StepsAfterLook, ContinueSteps
    <2>2. <<>> \in Seq(P) /\ \A d \in D : <<d, "look">> \in Seq(P)
      OBVIOUS
    <2> HIDE DEF t, P
    <2>3. t \in Seq(P)
      BY <2>1, <2>2
    <2> QED
      BY <2>3, <1>1, <1>2 DEF t
  <1>3. CASE m = "record_inventory"
    <2>1. t \in {<<"DISCOVERING_CLOUD_SERVICES", "COLLECTING_ASSET_INVENTORY", "inventory",
                   "ASSET_INVENTORY_COMPLETE">>,
                 <<"COLLECTING_ASSET_INVENTORY", "inventory", "ASSET_INVENTORY_COMPLETE">>,
                 <<"inventory", "ASSET_INVENTORY_COMPLETE">>,
                 <<"inventory">>, <<"DISCOVERING_CLOUD_SERVICES", "inventory">>}
      BY <1>3 DEF StepsAfterLook, InventorySteps
    <2>2. ASSUME NEW l \in {<<"DISCOVERING_CLOUD_SERVICES", "COLLECTING_ASSET_INVENTORY",
                              "inventory", "ASSET_INVENTORY_COMPLETE">>,
                 <<"COLLECTING_ASSET_INVENTORY", "inventory", "ASSET_INVENTORY_COMPLETE">>,
                 <<"inventory", "ASSET_INVENTORY_COMPLETE">>,
                 <<"inventory">>, <<"DISCOVERING_CLOUD_SERVICES", "inventory">>}
          PROVE  l \in Seq(P) /\ InOrder(l)
      <3>1. CASE l = <<"DISCOVERING_CLOUD_SERVICES", "COLLECTING_ASSET_INVENTORY", "inventory",
                       "ASSET_INVENTORY_COMPLETE">>
        BY <3>1 DEF InOrder, Follows
      <3>2. CASE l = <<"COLLECTING_ASSET_INVENTORY", "inventory", "ASSET_INVENTORY_COMPLETE">>
        BY <3>2 DEF InOrder, Follows
      <3>3. CASE l = <<"inventory", "ASSET_INVENTORY_COMPLETE">>
        BY <3>3 DEF InOrder, Follows
      <3>4. CASE l = <<"inventory">>
        BY <3>4 DEF InOrder
      <3>5. CASE l = <<"DISCOVERING_CLOUD_SERVICES", "inventory">>
        BY <3>5 DEF InOrder
      <3> QED
        BY <2>2, <3>1, <3>2, <3>3, <3>4, <3>5
    <2>3. t \in Seq(P) /\ InOrder(t)
      BY <2>1, <2>2
    <2> QED
      BY <2>3, <1>1, <1>3
  <1>4. CASE m = "generate_plan"
    <2>1. \/ t = <<"proposed_plan", "WAITING_FOR_APPROVAL">>
          \/ t = <<"GENERATING_PLAN", "proposed_plan", "WAITING_FOR_APPROVAL">>
      BY <1>4 DEF StepsAfterLook, PlanSteps
    <2>2. ASSUME NEW l, l = <<"proposed_plan", "WAITING_FOR_APPROVAL">>
          PROVE  l \in Seq(P) /\ InOrder(l)
      BY <2>2 DEF InOrder, Follows
    <2>3. ASSUME NEW l, l = <<"GENERATING_PLAN", "proposed_plan", "WAITING_FOR_APPROVAL">>
          PROVE  l \in Seq(P) /\ InOrder(l)
      BY <2>3 DEF InOrder, Follows
    <2>4. t \in Seq(P) /\ InOrder(t)
      BY <2>1, <2>2, <2>3
    <2> QED
      BY <2>4, <1>1, <1>4
  <1>5. CASE m \in {"approve", "resume_after_approval"}
    <2>1. (m = "approve" /\ t = <<"APPROVED", "go">>) \/ t = <<"go">>
      BY <1>5 DEF StepsAfterLook
    <2> HIDE DEF t
    <2>2. /\ t \in Seq(AnyStep)
          /\ StepsOf(t) \subseteq {"APPROVED", "go"}
          /\ "APPROVED" \in StepsOf(t) => m = "approve"
      <3>1. CASE m = "approve" /\ t = <<"APPROVED", "go">>
        <4>1. t \in Seq({"APPROVED", "go"})
          BY <3>1
        <4> QED
          BY <3>1, <4>1, <1>0, StepsAmong
      <3>2. CASE t = <<"go">>
        <4>1. t \in Seq({"go"})
          BY <3>2
        <4> QED
          BY <4>1, <1>0, StepsAmong
      <3> QED
        BY <2>1, <3>1, <3>2
    <2>3. Fits(t, m) /\ StepsOf(t) \cap Execution = {}
      BY <2>2, <1>5 DEF Fits, Never, BatchOnly, Decided, Decisions, Execution, Built
    <2>4. InOrder(t)
      BY <2>1 DEF InOrder
    <2> QED
      BY <2>3, <2>4 DEF t
  <1> QED
    BY <1>2, <1>3, <1>4, <1>5 DEF Looking

LEMMA GoStepsFit ==
    ASSUME NEW m \in {"approve", "resume_after_approval"}, NEW s \in State
    PROVE  /\ Fits(PipelineSteps(m, s), m)
           /\ m = "approve" /\ StepsOf(PipelineSteps(m, s)) \cap Execution # {} =>
                  s \in DOMAIN Pipeline
           /\ InOrder(PipelineSteps(m, s))
  <1> DEFINE t == PipelineSteps(m, s)
  <1>1. CASE s = "COMPLETED"
    <2>1. t = <<>>
      BY <1>1 DEF PipelineSteps
    <2>2. t \in Seq(AnyStep) /\ StepsOf(t) = {} /\ InOrder(t)
      BY <2>1 DEF StepsOf, InOrder
    <2> QED
      BY <2>2, PlainStepsFit
  <1>2. CASE s # "COMPLETED" /\ (s \in DOMAIN Pipeline \/ m # "approve")
    <2>1. PICK p \in Execution :
              t \in {<<p>> \o OutcomeOf(p) \o <<"go">>, <<p, "go">>}
      BY <1>2, PipelineMap DEF PipelineSteps, Execution
    <2> DEFINE S == {p, "agent_identity", "app_factory", "go"}
    <2> HIDE DEF t
    <2>2. t \in Seq(S)
      <3>1. OutcomeOf(p) \in Seq(S)
        <4>1. OutcomeOf(p) \in {<<"agent_identity">>, <<"app_factory">>, <<>>}
          BY DEF OutcomeOf
        <4>2. /\ <<"agent_identity">> \in Seq(S) /\ <<"app_factory">> \in Seq(S)
              /\ <<>> \in Seq(S)
          OBVIOUS
        <4> QED
          BY <4>1, <4>2
      <3>2. <<p>> \in Seq(S) /\ <<"go">> \in Seq(S) /\ <<p, "go">> \in Seq(S)
        OBVIOUS
      <3> HIDE DEF S
      <3>3. <<p>> \o OutcomeOf(p) \o <<"go">> \in Seq(S)
        BY <3>1, <3>2
      <3> QED
        BY <2>1, <3>2, <3>3
    <2>3. S \subseteq AnyStep
      BY PipelineMap DEF AnyStep, Section, OtherSteps
    <2>4. t \in Seq(AnyStep) /\ StepsOf(t) \subseteq S
      BY <2>2, <2>3, StepsAmong
    <2>5. p \notin {"look", "ASSET_INVENTORY_COMPLETE", "WAITING_FOR_APPROVAL"}
      BY DEF Execution, Built
    <2>6. Fits(t, m)
      BY <2>4, <2>5, PlainStepsFit, PipelineMap DEF Never, BatchOnly, Decided
    <2>7. InOrder(t)
      BY <2>4, <2>5 DEF InOrder, StepsOf
    <2> QED
      BY <1>2, <2>6, <2>7 DEF t
  <1>3. CASE s # "COMPLETED" /\ s \notin DOMAIN Pipeline /\ m = "approve"
    <2>1. t = <<"approve anyway", "go">>
      BY <1>3 DEF PipelineSteps
    <2> HIDE DEF t
    <2>5. t \in Seq({"approve anyway", "go"})
      <3>1. <<"approve anyway", "go">> \in Seq({"approve anyway", "go"})
        OBVIOUS
      <3> QED
        BY <2>1, <3>1
    <2>6. {"approve anyway", "go"} \subseteq AnyStep
      BY DEF AnyStep, OtherSteps
    <2>2. t \in Seq(AnyStep) /\ StepsOf(t) \subseteq {"approve anyway", "go"}
      BY <2>5, <2>6, StepsAmong
    <2>3. Fits(t, m) /\ StepsOf(t) \cap Execution = {}
      BY <1>3, <2>2, PlainStepsFit DEF Never, BatchOnly, Decided, Execution, Built
    <2>4. InOrder(t)
      BY <2>2 DEF InOrder, StepsOf
    <2> QED
      BY <2>3, <2>4 DEF t
  <1> QED
    BY <1>1, <1>2, <1>3

-----------------------------------------------------------------------------
(* Calls                                                                   *)

\* The journey stays the same one.
Continues(j, k) == j # None => k # None /\ k.requested_by = j.requested_by

LEMMA OthersStayProper ==
    ASSUME NEW u, NEW c, NEW j, NEW k, Proper(u, c, j), Continues(j, k)
    PROVE  Proper(u, c, k)
  BY DEF Proper, Continues

LEMMA IdleIsProper ==
    ASSUME NEW u \in User, NEW j
    PROVE  Idle \in Call /\ Proper(u, Idle, j) /\ StepsOf(Idle.todo) = {}
  <1>1. Idle.method = None /\ Idle.todo = <<>> /\ Idle.polls = 0
    BY DEF Idle
  <1>2. Idle \in Call
    BY PollAssumption DEF Idle, Call
  <1>3. None \notin Decisions
    BY AbsentAssumption DEF Decisions, AllMethods
  <1>4. <<>> \in Seq(AnyStep) /\ StepsOf(<<>>) = {}
    BY DEF StepsOf
  <1>5. Fits(<<>>, None)
    BY <1>4, PlainStepsFit
  <1> QED
    BY <1>1, <1>2, <1>3, <1>4, <1>5 DEF Proper

\* A call that goes on with other steps of its method.
LEMMA GoesOnProperly ==
    ASSUME NEW u \in User, NEW c \in Call, NEW todo, NEW j, NEW k,
           Proper(u, c, j), Continues(j, k), Fits(todo, c.method),
           k = None /\ todo # <<>> => Head(todo) \in {"find", "create"}
    PROVE  LET d == [c EXCEPT !.todo = todo]
           IN  d \in Call /\ Proper(u, d, k) /\ d.todo = todo /\ d.method = c.method
  <1>1. PICK m, t, p : /\ c = [method |-> m, todo |-> t, polls |-> p]
                       /\ m \in AllMethods \cup {None} /\ p \in 0 .. MaxPolls
    BY DEF Call
  <1> DEFINE d == [c EXCEPT !.todo = todo]
  <1>2. d = [method |-> m, todo |-> todo, polls |-> p]
    BY <1>1
  <1>3. todo \in Seq(AnyStep)
    BY DEF Fits
  <1>4. d \in Call /\ d.todo = todo /\ d.method = c.method
    BY <1>1, <1>2, <1>3 DEF Call, AnyStep
  <1> HIDE DEF d
  <1>5. Proper(u, d, k)
    BY <1>4 DEF Proper, Continues
  <1> QED
    BY <1>4, <1>5 DEF d

LEMMA AdvanceIsProper ==
    ASSUME NEW u \in User, NEW c \in Call, c.todo # <<>>, NEW j, NEW k,
           Proper(u, c, j), Continues(j, k), k # None
    PROVE  LET d == [c EXCEPT !.todo = Tail(c.todo)]
           IN  /\ d \in Call /\ Proper(u, d, k) /\ d.todo = Tail(c.todo)
               /\ d.method = c.method
  <1>1. c.todo \in Seq(AnyStep)
    BY DEF Proper, Fits
  <1>2. Tail(c.todo) \in Seq(AnyStep) /\ StepsOf(Tail(c.todo)) \subseteq StepsOf(c.todo)
    BY <1>1, TailOfSteps
  <1>3. Fits(Tail(c.todo), c.method)
    BY <1>2 DEF Proper, Fits
  <1> QED
    BY <1>3, GoesOnProperly

LEMMA CallChange ==
    ASSUME caller \in [User -> Call], \A v \in User : Proper(v, caller[v], journey),
           NEW u \in User, NEW c \in Call, caller' = [caller EXCEPT ![u] = c],
           Continues(journey, journey'), Proper(u, c, journey')
    PROVE  /\ caller' \in [User -> Call]
           /\ \A v \in User : Proper(v, caller'[v], journey')
           /\ \A v \in User : caller'[v] = IF v = u THEN c ELSE caller[v]
  <1>1. \A v \in User : caller'[v] = IF v = u THEN c ELSE caller[v]
    OBVIOUS
  <1>2. \A v \in User : Proper(v, caller'[v], journey')
    BY <1>1, OthersStayProper
  <1> QED
    BY <1>1, <1>2

-----------------------------------------------------------------------------
(* The transitions that calls and batch operations make                    *)

\* A call asks for transitions of an existing journey and leaves failures and
\* the results of validations alone; who decides is not the requester.
LEMMA UserMove ==
    ASSUME LifecycleInv, NEW u \in User, Moving(u),
           Target(NextStep(u)) \in Allowed[journey.status]
    PROVE  LET to == Target(NextStep(u))
               actor == ActorOf(u, NextStep(u))
           IN  /\ journey # None /\ journey \in Journey /\ Sound(journey)
               /\ to \in State /\ to \notin Never \cup BatchOnly
               /\ actor \in User \cup {Agent}
               /\ to \in Decided => actor # journey.requested_by
               /\ to = NextStep(u) \/ to = "APPROVED"
               /\ NextStep(u) \in StepsOf(caller[u].todo)
  <1> DEFINE step == NextStep(u)
             to == Target(step)
             actor == ActorOf(u, step)
  <1>1. /\ caller[u] \in Call /\ caller[u].todo # <<>>
        /\ Proper(u, caller[u], journey)
    BY DEF LifecycleInv, TypeOK, Moving, Working
  <1>2. caller[u].todo \in Seq(AnyStep)
    BY <1>1 DEF Proper, Fits
  <1>3. step \in StepsOf(caller[u].todo)
    BY <1>1, <1>2, TailOfSteps DEF NextStep
  <1>4. step \in State \cup {"approve anyway"}
    BY DEF Moving
  <1>5. journey # None
    BY <1>1, <1>4 DEF Proper, NextStep, State
  <1>6. journey \in Journey /\ Sound(journey)
    BY <1>5 DEF LifecycleInv, TypeOK
  <1>7. journey.requested_by \in User /\ journey.status \in State
    BY <1>6 DEF Journey
  <1>8. step \notin Never \cup BatchOnly
    BY <1>1, <1>3 DEF Proper, Fits
  <1>9. step # "approve anyway" => to = step
    BY DEF Target
  <1>13. step = "approve anyway" => to = "APPROVED"
    BY DEF Target
  <1>10. to \in State /\ to \notin Never \cup BatchOnly
    BY <1>4, <1>8, <1>9, <1>13 DEF State, Never, BatchOnly
  <1>11. actor \in User \cup {Agent}
    BY DEF ActorOf
  <1>12. to \in Decided => actor # journey.requested_by
    <2>1. CASE step \in Decided
      <3>1. caller[u].method \in Decisions
        BY <1>1, <1>3, <2>1 DEF Proper, Fits
      <3>2. u # journey.requested_by
        BY <1>1, <3>1 DEF Proper
      <3> QED
        BY <2>1, <3>2 DEF ActorOf, Decided
    <2>2. CASE step \notin Decided
      <3>1. actor = Agent
        BY <2>2 DEF ActorOf, Decided
      <3> QED
        BY <3>1, <1>7, AbsentAssumption
    <2> QED
      BY <2>1, <2>2
  <1> QED
    BY <1>3, <1>5, <1>6, <1>9, <1>13, <1>10, <1>11, <1>12

BatchStates == {"VALIDATING_APM", "APM_VALIDATED", "PROVISIONING_AGENT_IDENTITY",
                "AGENT_IDENTITY_READY", "PREPARING_APP_FACTORY"} \cup BatchOnly

\* A transition of a batch operation.
BatchMove(j, k) ==
    \E to \in Allowed[j.status] \cap BatchStates : k = Moved(j, to, Agent)

LEMMA BatchMoveFacts ==
    ASSUME NEW j \in Journey, Sound(j), Batch, NEW k, BatchMove(j, k)
    PROVE  /\ k \in Journey /\ Sound(k) /\ k # None
           /\ k.requested_by = j.requested_by /\ k.context = j.context
           /\ k.status \in BatchStates \cap Allowed[j.status]
           /\ \A s : Reached(k, s) <=> Reached(j, s) \/ s = k.status
  <1>1. PICK to \in Allowed[j.status] \cap BatchStates : k = Moved(j, to, Agent)
    BY DEF BatchMove
  <1>2. to \notin Never /\ to \notin Decided /\ to \in State
    BY <1>1 DEF BatchStates, BatchOnly, Never, Decided, State
  <1> QED
    BY <1>1, <1>2, MoveFacts, MoveIsSound, AbsentAssumption

\* Every batch operation makes at most two of them.
LEMMA BatchMoves ==
    ASSUME LifecycleInv, BatchStep
    PROVE  /\ Batch /\ journey # None /\ journey \in Journey /\ Sound(journey)
           /\ UNCHANGED caller
           /\ \E k \in Journey :
                  /\ k = journey \/ BatchMove(journey, k)
                  /\ journey' = k \/ BatchMove(k, journey')
           /\ journey' \in Journey /\ Sound(journey') /\ Continues(journey, journey')
           /\ record' \in [Operation -> Record \cup {None}]
  <1>1. Batch /\ journey # None /\ journey \in Journey /\ Sound(journey) /\ UNCHANGED caller
    BY DEF BatchStep, LifecycleInv, TypeOK
  <1>2. record \in [Operation -> Record \cup {None}]
    BY DEF LifecycleInv, TypeOK
  <1>3. ASSUME NEW j \in Journey, NEW to \in BatchStates, CanMove(j, to)
        PROVE  MovedUnlessThere(j, to) = j \/ BatchMove(j, MovedUnlessThere(j, to))
    BY <1>3 DEF CanMove, MovedUnlessThere, BatchMove
  <1>4. ASSUME NEW op \in Operation, NEW status \in {"WAITING", "COMPLETED"},
               NEW ok \in BOOLEAN, NEW n \in Nat, Recorded(op, status, ok, n)
        PROVE  record' \in [Operation -> Record \cup {None}]
    BY <1>2, <1>4 DEF Recorded, Record
  <1>5. {"apm-validation", "ad-provisioning", "app-factory-validation"} \subseteq Operation
    BY DEF Operation
  <1>6. \A op \in Operation : record[op] # None => record[op].observations \in Nat
    BY <1>2 DEF Record
  <1> DEFINE Outcome == /\ \E k \in Journey :
                               /\ k = journey \/ BatchMove(journey, k)
                               /\ journey' = k \/ BatchMove(k, journey')
                        /\ record' \in [Operation -> Record \cup {None}]
  <1>7. ASSUME ValidateApm PROVE Outcome
    <2>1. PICK k : k = IF journey.status = "CREATED"
                       THEN Moved(journey, "VALIDATING_APM", Agent) ELSE journey
      OBVIOUS
    <2>2. k = journey \/ BatchMove(journey, k)
      BY <2>1 DEF BatchMove, BatchStates, Allowed, State
    <2>3. k \in Journey
      BY <1>1, <2>2, BatchMoveFacts
    <2>4. journey' = IF k.status = "VALIDATING_APM"
                     THEN Moved(k, "APM_VALIDATED", Agent) ELSE k
      BY <1>7, <2>1 DEF ValidateApm
    <2>5. journey' = k \/ BatchMove(k, journey')
      BY <2>4 DEF BatchMove, BatchStates, Allowed, State
    <2>6. record' \in [Operation -> Record \cup {None}]
      BY <1>4, <1>5, <1>7 DEF ValidateApm
    <2> QED
      BY <2>2, <2>3, <2>5, <2>6
  <1>8. ASSUME SubmitAd PROVE Outcome
    <2>1. journey' = journey \/ BatchMove(journey, journey')
      BY <1>1, <1>3, <1>8 DEF SubmitAd, BatchStates
    <2>2. record' \in [Operation -> Record \cup {None}]
      BY <1>4, <1>5, <1>8 DEF SubmitAd
    <2> QED
      BY <1>1, <2>1, <2>2
  <1>9. ASSUME PollAd PROVE Outcome
    <2>1. PICK n \in Nat : n = record["ad-provisioning"].observations + 1
      BY <1>5, <1>6, <1>9 DEF PollAd
    <2>2. CASE n <= PendingPolls
      <3>1. Recorded("ad-provisioning", "WAITING", TRUE, n) /\ UNCHANGED journey
        BY <1>9, <2>1, <2>2 DEF PollAd
      <3> QED
        BY <1>1, <1>4, <1>5, <3>1
    <2>3. CASE ~(n <= PendingPolls)
      <3>1. /\ CanMove(journey, "AGENT_IDENTITY_READY")
            /\ journey' = MovedUnlessThere(journey, "AGENT_IDENTITY_READY")
            /\ Recorded("ad-provisioning", "COMPLETED", TRUE, n)
        BY <1>9, <2>1, <2>3 DEF PollAd
      <3>2. journey' = journey \/ BatchMove(journey, journey')
        BY <1>1, <1>3, <3>1 DEF BatchStates
      <3>3. record' \in [Operation -> Record \cup {None}]
        BY <1>4, <1>5, <3>1
      <3> QED
        BY <1>1, <3>2, <3>3
    <2> QED
      BY <2>2, <2>3
  <1>10. ASSUME ValidateAppFactory PROVE Outcome
    <2>1. PICK k : k = MovedUnlessThere(journey, "PREPARING_APP_FACTORY")
      OBVIOUS
    <2>2. k = journey \/ BatchMove(journey, k)
      BY <1>1, <1>3, <1>10, <2>1 DEF ValidateAppFactory, BatchStates
    <2>3. k \in Journey
      BY <1>1, <2>2, BatchMoveFacts
    <2>4. k.status = "PREPARING_APP_FACTORY"
      BY <1>1, <2>1, MoveFacts DEF MovedUnlessThere, State
    <2>5. \E to \in BatchOnly : journey' = Moved(k, to, Agent)
      BY <1>10, <2>1 DEF ValidateAppFactory, BatchOnly
    <2>6. BatchMove(k, journey')
      BY <2>4, <2>5 DEF BatchMove, BatchStates, BatchOnly, Allowed, State
    <2>7. record' \in [Operation -> Record \cup {None}]
      BY <1>4, <1>5, <1>10 DEF ValidateAppFactory
    <2> QED
      BY <2>2, <2>3, <2>6, <2>7
  <1>11. Outcome
    BY <1>7, <1>8, <1>9, <1>10 DEF BatchStep
  <1> HIDE DEF Outcome
  <1>12. PICK k \in Journey : /\ k = journey \/ BatchMove(journey, k)
                              /\ journey' = k \/ BatchMove(k, journey')
    BY <1>11 DEF Outcome
  <1>13. Sound(k) /\ k.requested_by = journey.requested_by
    BY <1>1, <1>12, BatchMoveFacts
  <1>14. journey' \in Journey /\ Sound(journey') /\ journey'.requested_by = k.requested_by
    BY <1>1, <1>12, <1>13, BatchMoveFacts
  <1>15. Continues(journey, journey')
    BY <1>13, <1>14, AbsentAssumption DEF Continues
  <1> QED
    BY <1>1, <1>11, <1>14, <1>15 DEF Outcome

-----------------------------------------------------------------------------
(* The types and the invariant                                             *)

LEMMA CreatedFacts ==
    ASSUME NEW u \in User
    PROVE  /\ Created(u) \in Journey /\ Created(u) # None /\ Sound(Created(u))
           /\ Created(u).status = "CREATED" /\ Created(u).requested_by = u
           /\ \A s : Reached(Created(u), s) <=> s = "CREATED"
           /\ \A i \in DOMAIN Created(u).history : Created(u).history[i].to = "CREATED"
  <1> DEFINE e == [from |-> None, to |-> "CREATED", actor |-> u]
             j == Created(u)
  <1>1. e \in Event /\ e.to = "CREATED"
    BY DEF Event, State
  <1>2. <<e>> \in Seq(Event) /\ Len(<<e>>) = 1 /\ DOMAIN <<e>> = {1} /\ <<e>>[1] = e
    BY <1>1
  <1> HIDE DEF e
  <1>3. /\ j.status = "CREATED" /\ j.requested_by = u /\ j.history = <<e>>
        /\ j \in Journey
    BY <1>2 DEF Created, Journey, State, e
  <1>4. j # None
    BY <1>3, AbsentAssumption
  <1>5. \A s : Reached(j, s) <=> s = "CREATED"
    BY <1>1, <1>2, <1>3 DEF Reached
  <1>6. "CREATED" \notin Never \cup BatchOnly \cup Decided
    BY DEF Never, BatchOnly, Decided
  <1>7. Sound(j)
    BY <1>1, <1>2, <1>3, <1>5, <1>6 DEF Sound
  <1> QED
    BY <1>1, <1>2, <1>3, <1>4, <1>5, <1>7

LEMMA LifecycleInit == Init => LifecycleInv
  <1> SUFFICES ASSUME Init PROVE LifecycleInv
    OBVIOUS
  <1>1. TypeOK
    BY IdleIsProper DEF Init, TypeOK
  <1>2. \A u \in User : Proper(u, caller[u], journey)
    BY IdleIsProper DEF Init
  <1> QED
    BY <1>1, <1>2 DEF LifecycleInv, Init

\* What every step of a user's call does.
UserChange(u) ==
    /\ journey' \in Journey \cup {None}
    /\ journey' # None => Sound(journey')
    /\ Continues(journey, journey')
    /\ record' = record
    /\ \E c \in Call : caller' = [caller EXCEPT ![u] = c] /\ Proper(u, c, journey')

\* Gathered knowledge leaves everything else as it is.
LEMMA MergeFacts ==
    ASSUME NEW j \in Journey, NEW section \in Section, NEW actor \in User \cup {Agent}
    PROVE  LET k == Merged(j, section, actor)
           IN  /\ k \in Journey
               /\ k.status = j.status /\ k.requested_by = j.requested_by
               /\ k.history = j.history
               /\ \A s \in Section : k.context[s] = IF s = section THEN actor ELSE j.context[s]
  BY DEF Merged, Journey

LEMMA UserChanges ==
    ASSUME LifecycleInv, NEW u \in User,
           (\E m \in Method[u] : Begin(u, m)) \/ Step(u) \/ Fail(u)
    PROVE  UserChange(u)
  <1>1. /\ caller \in [User -> Call] /\ caller[u] \in Call /\ journey \in Journey \cup {None}
        /\ Proper(u, caller[u], journey)
        /\ journey # None => Sound(journey)
    BY DEF LifecycleInv, TypeOK
  <1>2. caller[u].todo \in Seq(AnyStep) /\ Fits(caller[u].todo, caller[u].method)
    BY <1>1 DEF Proper, Fits
  <1>3. Working(u) => NextStep(u) \in StepsOf(caller[u].todo)
    BY <1>2, TailOfSteps DEF Working, NextStep
  <1>4. Working(u) /\ NextStep(u) \notin {"find", "create"} => journey # None
    BY <1>1 DEF Proper, Working, NextStep
  <1>5. journey # None => journey.status \in State /\ journey.requested_by \in User
    BY <1>1 DEF Journey
  <1> DEFINE Changes == /\ journey' \in Journey \cup {None}
                        /\ journey' # None => Sound(journey')
                        /\ Continues(journey, journey')
  <1>6. UNCHANGED journey => Changes
    BY <1>1 DEF Continues
  <1>7. Ends(u) => \E c \in Call : caller' = [caller EXCEPT ![u] = c] /\ Proper(u, c, journey')
    BY IdleIsProper DEF Ends
  <1>8. ASSUME NEW todo, GoesOn(u, todo), Fits(todo, caller[u].method),
               Continues(journey, journey'),
               journey' = None /\ todo # <<>> => Head(todo) \in {"find", "create"}
        PROVE  \E c \in Call : caller' = [caller EXCEPT ![u] = c] /\ Proper(u, c, journey')
    <2> DEFINE d == [caller[u] EXCEPT !.todo = todo]
    <2>1. d \in Call /\ Proper(u, d, journey')
      BY <1>1, <1>8, GoesOnProperly
    <2>2. caller' = [caller EXCEPT ![u] = d]
      BY <1>8 DEF GoesOn
    <2> QED
      BY <2>1, <2>2
  <1>9. ASSUME Working(u), Advances(u), Continues(journey, journey'), journey' # None
        PROVE  \E c \in Call : caller' = [caller EXCEPT ![u] = c] /\ Proper(u, c, journey')
    <2> DEFINE d == [caller[u] EXCEPT !.todo = Tail(caller[u].todo)]
    <2>1. d \in Call /\ Proper(u, d, journey')
      BY <1>1, <1>9, AdvanceIsProper DEF Working
    <2>2. caller' = [caller EXCEPT ![u] = d]
      BY <1>9 DEF Advances, GoesOn
    <2> QED
      BY <2>1, <2>2
  <1>10. ASSUME NEW m \in Method[u], Begin(u, m) PROVE UserChange(u)
    <2> DEFINE c == [method |-> m, todo |-> FirstSteps(m), polls |-> MaxPolls]
    <2>1. m \in AllMethods /\ m # None
      BY MethodAssumption, AbsentAssumption
    <2>2. Fits(FirstSteps(m), m) /\ (m = "start" => Head(FirstSteps(m)) = "find")
      BY <2>1, FirstStepsFit
    <2>3. c \in Call
      BY <2>1, <2>2, PollAssumption DEF Call, Fits, AnyStep
    <2>4. UNCHANGED <<journey, record>> /\ caller' = [caller EXCEPT ![u] = c]
      BY <1>10 DEF Begin
    <2>5. m \in Decisions => journey # None /\ u # journey.requested_by
      BY <1>10 DEF Begin, Authorized, Decisions
    <2>6. journey = None => m = "start"
      BY <1>10 DEF Begin
    <2>7. Proper(u, c, journey')
      BY <2>2, <2>4, <2>5, <2>6 DEF Proper
    <2> QED
      BY <1>6, <2>3, <2>4, <2>7 DEF UserChange
  <1>11. ASSUME Find(u) PROVE UserChange(u)
    <2>1. Working(u) /\ NextStep(u) = "find" /\ UNCHANGED <<journey, record>>
      BY <1>11 DEF Find
    <2>2. CASE journey # None
      BY <1>6, <1>7, <1>11, <2>1, <2>2 DEF Find, UserChange
    <2>3. CASE journey = None
      <3>1. GoesOn(u, StartSteps)
        BY <1>11, <2>3 DEF Find, StartSteps
      <3>2. Fits(StartSteps, caller[u].method)
        BY StartStepsFit, PlainStepsFit DEF Fits, Never, BatchOnly, Decided
      <3> QED
        BY <1>6, <1>8, <2>1, <3>1, <3>2, StartStepsFit DEF UserChange
    <2> QED
      BY <2>2, <2>3
  <1>12. ASSUME Create(u) PROVE UserChange(u)
    <2>1. Working(u) /\ UNCHANGED record
      BY <1>12 DEF Create
    <2>2. CASE journey # None
      BY <1>6, <1>7, <1>12, <2>1, <2>2 DEF Create, UserChange
    <2>3. CASE journey = None
      <3>1. Advances(u) /\ journey' = Created(u)
        BY <1>12, <2>3 DEF Create
      <3>2. Changes /\ journey' # None
        BY <2>3, <3>1, CreatedFacts DEF Continues
      <3> QED
        BY <1>9, <2>1, <3>1, <3>2 DEF UserChange
    <2> QED
      BY <2>2, <2>3
  <1>13. ASSUME Look(u) PROVE UserChange(u)
    <2>1. Working(u) /\ NextStep(u) = "look" /\ UNCHANGED <<journey, record>>
      BY <1>13 DEF Look
    <2>2. caller[u].method \in Looking /\ journey # None
      BY <1>2, <1>3, <1>4, <2>1 DEF Fits
    <2>3. Fits(StepsAfterLook(caller[u].method, journey.status), caller[u].method)
      BY <1>5, <2>2, LookStepsFit
    <2>4. Ends(u) \/ GoesOn(u, StepsAfterLook(caller[u].method, journey.status))
      BY <1>13 DEF Look
    <2> QED
      BY <1>6, <1>7, <1>8, <2>1, <2>2, <2>3, <2>4 DEF UserChange
  <1>14. ASSUME Go(u) PROVE UserChange(u)
    <2>1. /\ Working(u) /\ NextStep(u) = "go" /\ UNCHANGED <<journey, record>>
          /\ GoesOn(u, PipelineSteps(caller[u].method, journey.status))
      BY <1>14 DEF Go
    <2>2. caller[u].method \in {"approve", "resume_after_approval"} /\ journey # None
      BY <1>2, <1>3, <1>4, <2>1 DEF Fits
    <2>3. Fits(PipelineSteps(caller[u].method, journey.status), caller[u].method)
      BY <1>5, <2>2, GoStepsFit
    <2> QED
      BY <1>6, <1>8, <2>1, <2>2, <2>3 DEF UserChange
  <1>15. ASSUME Move(u) PROVE UserChange(u)
    <2>1. Working(u) /\ UNCHANGED record
      BY <1>15 DEF Move, Moving
    <2>2. CASE Target(NextStep(u)) \notin Allowed[journey.status]
      BY <1>6, <1>7, <1>15, <2>1, <2>2 DEF Move, UserChange
    <2>3. CASE Target(NextStep(u)) \in Allowed[journey.status]
      <3>1. PICK to, actor : to = Target(NextStep(u)) /\ actor = ActorOf(u, NextStep(u))
        OBVIOUS
      <3>2. Moving(u) /\ journey' = Moved(journey, to, actor) /\ Advances(u)
        BY <1>15, <2>3, <3>1 DEF Move
      <3>3. /\ journey # None /\ journey \in Journey /\ Sound(journey)
            /\ to \in State /\ to \notin Never \cup BatchOnly /\ actor \in User \cup {Agent}
            /\ to \in Decided => actor # journey.requested_by
        BY <2>3, <3>1, <3>2, UserMove
      <3>4. /\ journey' \in Journey /\ Sound(journey')
            /\ journey'.requested_by = journey.requested_by
        BY <2>3, <3>1, <3>2, <3>3, MoveFacts, MoveIsSound
      <3>5. Changes /\ journey' # None
        BY <3>4, AbsentAssumption DEF Continues
      <3> QED
        BY <1>9, <2>1, <3>2, <3>5 DEF UserChange
    <2> QED
      BY <2>2, <2>3
  <1>16. ASSUME Merge(u) PROVE UserChange(u)
    <2>1. PICK actor \in User \cup {Agent} :
              /\ Working(u) /\ NextStep(u) \in Section /\ Advances(u) /\ UNCHANGED record
              /\ journey' = Merged(journey, NextStep(u), actor)
      BY <1>16 DEF Merge
    <2>2. journey # None /\ journey \in Journey /\ Sound(journey)
      BY <1>1, <1>4, <2>1 DEF Section
    <2>3. /\ journey' \in Journey /\ journey'.status = journey.status
          /\ journey'.requested_by = journey.requested_by /\ journey'.history = journey.history
      BY <2>1, <2>2, MergeFacts
    <2>4. Sound(journey')
      BY <2>2, <2>3 DEF Sound, Reached
    <2>5. Changes /\ journey' # None
      BY <2>3, <2>4, AbsentAssumption DEF Continues
    <2> QED
      BY <1>9, <2>1, <2>5 DEF UserChange
  <1>17. ASSUME Observe(u) PROVE UserChange(u)
    <2>1. UNCHANGED <<journey, record>>
      BY <1>17 DEF Observe
    <2>2. CASE Ends(u)
      BY <1>6, <1>7, <2>1, <2>2 DEF UserChange
    <2>3. CASE caller[u].polls > 0 /\ caller' = [caller EXCEPT ![u].polls = @ - 1]
      <3> DEFINE d == [caller[u] EXCEPT !.polls = caller[u].polls - 1]
      <3> caller[u] \in Call
        BY <1>1
      <3>0. caller[u].polls - 1 \in 0 .. MaxPolls
        BY <2>3, PollAssumption DEF Call
      <3>1. d \in Call /\ d.method = caller[u].method /\ d.todo = caller[u].todo
        BY <3>0 DEF Call
      <3>2. caller' = [caller EXCEPT ![u] = d]
        BY <2>3
      <3> HIDE DEF d
      <3>3. Proper(u, d, journey')
        BY <1>1, <2>1, <3>1 DEF Proper
      <3> QED
        BY <1>6, <2>1, <3>1, <3>2, <3>3 DEF UserChange
    <2> QED
      BY <1>17, <2>2, <2>3 DEF Observe
  <1>18. ASSUME Return(u) \/ Fail(u) PROVE UserChange(u)
    BY <1>6, <1>7, <1>18 DEF Return, Fail, UserChange
  <1> QED
    BY <1>10, <1>11, <1>12, <1>13, <1>14, <1>15, <1>16, <1>17, <1>18 DEF Step

LEMMA LifecycleNext == LifecycleInv /\ [Next]_vars => LifecycleInv'
  <1> SUFFICES ASSUME LifecycleInv, [Next]_vars PROVE LifecycleInv'
    OBVIOUS
  <1>1. CASE UNCHANGED vars
    BY <1>1 DEF vars, LifecycleInv, TypeOK
  <1>2. ASSUME NEW u \in User, (\E m \in Method[u] : Begin(u, m)) \/ Step(u) \/ Fail(u)
        PROVE  LifecycleInv'
    <2>1. PICK c \in Call : caller' = [caller EXCEPT ![u] = c] /\ Proper(u, c, journey')
      BY <1>2, UserChanges DEF UserChange
    <2>2. UserChange(u)
      BY <1>2, UserChanges
    <2>3. caller' \in [User -> Call] /\ \A v \in User : Proper(v, caller'[v], journey')
      BY <2>1, <2>2, CallChange DEF LifecycleInv, TypeOK, UserChange
    <2> QED
      BY <2>2, <2>3 DEF LifecycleInv, TypeOK, UserChange
  <1>3. CASE BatchStep
    <2>1. \A v \in User : Proper(v, caller[v], journey')
      BY <1>3, BatchMoves, OthersStayProper DEF LifecycleInv
    <2> QED
      BY <1>3, <2>1, BatchMoves DEF LifecycleInv, TypeOK
  <1> QED
    BY <1>1, <1>2, <1>3 DEF Next

\* Every journey, recorded result and call has the shape that the tables and
\* the service's methods give it.
THEOREM LifecycleTypes == Spec => []TypeOK
  <1>1. LifecycleInv => TypeOK
    BY DEF LifecycleInv
  <1> QED
    BY <1>1, LifecycleInit, LifecycleNext, PTL DEF Spec

\* However reviewers race, there is one decision, the requester does not make
\* it, and a rejection is final.
THEOREM OneDecision == Spec => []DecisionStands
  <1>1. LifecycleInv => DecisionStands
    BY DEF LifecycleInv, Sound, DecisionStands, History, Decided
  <1> QED
    BY <1>1, LifecycleInit, LifecycleNext, PTL DEF Spec

\* What is approved can be resumed wherever a call left it, as long as no batch
\* job takes the journey elsewhere.
THEOREM ApprovedResumes == ASSUME ~Batch PROVE Spec => []ApprovedCanBeResumed
  <1>1. LifecycleInv => ApprovedCanBeResumed
    BY DEF LifecycleInv, Sound, ApprovedCanBeResumed, Entered, History, Reached, Decided,
       AfterDecision, BatchOnly, Execution, Built, Pipeline
  <1> QED
    BY <1>1, LifecycleInit, LifecycleNext, PTL DEF Spec

-----------------------------------------------------------------------------
(* What the journey shows of the steps of a call                           *)

LEMMA EnteredIs == \A s : Entered(s) <=> journey # None /\ Reached(journey, s)
  BY DEF Entered, History, Reached

\* A call leaves the journey alone, creates it, adds knowledge or moves it.
JourneyCreated(u) == journey = None /\ journey' = Created(u) /\ Create(u)
JourneyInformed(u) ==
    /\ Merge(u) /\ journey # None
    /\ journey' \in Journey /\ journey' # None
    /\ journey'.status = journey.status /\ journey'.history = journey.history
    /\ \A s \in Section : Has(journey, s) => Has(journey', s)
    /\ NextStep(u) \in {"inventory", "proposed_plan"} => Has(journey', NextStep(u))
JourneyMoved(u, to, actor) ==
    /\ Move(u) /\ journey # None /\ journey \in Journey /\ Sound(journey)
    /\ to \in State /\ to \notin Never \cup BatchOnly
    /\ to = NextStep(u) \/ to = "APPROVED"
    /\ NextStep(u) \in StepsOf(caller[u].todo)
    /\ journey' = Moved(journey, to, actor) /\ journey' # None

LEMMA MergeInforms ==
    ASSUME LifecycleInv, NEW u \in User, Merge(u)
    PROVE  JourneyInformed(u)
  <1>0. journey \in Journey \cup {None} /\ Proper(u, caller[u], journey)
    BY DEF LifecycleInv, TypeOK
  <1>1. PICK section \in Section, actor \in User \cup {Agent} :
            /\ section = NextStep(u) /\ Working(u)
            /\ journey' = Merged(journey, section, actor)
    BY DEF Merge
  <1>2. journey # None
    BY <1>0, <1>1 DEF Proper, Working, NextStep, Section
  <1>3. /\ journey' \in Journey /\ journey'.status = journey.status
        /\ journey'.history = journey.history
        /\ \A s \in Section :
               journey'.context[s] = IF s = section THEN actor ELSE journey.context[s]
    BY <1>0, <1>1, <1>2, MergeFacts
  <1>4. journey' # None
    BY <1>3, AbsentAssumption
  <1>5. actor # None
    BY UserAssumption, AbsentAssumption
  <1> QED
    BY <1>1, <1>2, <1>3, <1>4, <1>5 DEF JourneyInformed, Has, Section

LEMMA JourneyChanges ==
    ASSUME LifecycleInv, NEW u \in User,
           (\E m \in Method[u] : Begin(u, m)) \/ Step(u) \/ Fail(u)
    PROVE  \/ UNCHANGED journey
           \/ JourneyCreated(u)
           \/ JourneyInformed(u)
           \/ \E to \in Allowed[journey.status], actor \in User \cup {Agent} :
                  JourneyMoved(u, to, actor)
  <1>1. journey \in Journey \cup {None} /\ Proper(u, caller[u], journey)
    BY DEF LifecycleInv, TypeOK
  <1>2. ASSUME Create(u) PROVE UNCHANGED journey \/ JourneyCreated(u)
    BY <1>2 DEF Create, JourneyCreated
  <1>3. ASSUME Merge(u) PROVE JourneyInformed(u)
    BY <1>3, MergeInforms
  <1>4. ASSUME Move(u)
        PROVE  \/ UNCHANGED journey
               \/ \E to \in Allowed[journey.status], actor \in User \cup {Agent} :
                      JourneyMoved(u, to, actor)
    <2>1. CASE Target(NextStep(u)) \notin Allowed[journey.status]
      BY <1>4, <2>1 DEF Move
    <2>2. CASE Target(NextStep(u)) \in Allowed[journey.status]
      <3>1. PICK to, actor : to = Target(NextStep(u)) /\ actor = ActorOf(u, NextStep(u))
        OBVIOUS
      <3>2. Moving(u) /\ journey' = Moved(journey, to, actor)
        BY <1>4, <2>2, <3>1 DEF Move
      <3>3. /\ journey # None /\ journey \in Journey /\ Sound(journey)
            /\ to \in State /\ to \notin Never \cup BatchOnly /\ actor \in User \cup {Agent}
            /\ to = NextStep(u) \/ to = "APPROVED"
            /\ NextStep(u) \in StepsOf(caller[u].todo)
        BY <2>2, <3>1, <3>2, UserMove
      <3>4. journey' # None
        BY <3>2, <3>3, MoveFacts, AbsentAssumption
      <3>5. JourneyMoved(u, to, actor)
        BY <1>4, <3>2, <3>3, <3>4 DEF JourneyMoved
      <3> QED
        BY <2>2, <3>1, <3>3, <3>5
    <2> QED
      BY <2>1, <2>2
  <1>5. CASE ~(Create(u) \/ Merge(u) \/ Move(u))
    BY <1>5 DEF Begin, Step, Find, Look, Go, Observe, Return, Fail
  <1> QED
    BY <1>2, <1>3, <1>4, <1>5

\* Nothing is taken out of the history, or out of the context.
LEMMA NothingIsLost ==
    ASSUME LifecycleInv, [Next]_vars
    PROVE  /\ \A s : Entered(s) => Entered(s)'
           /\ \A s \in Section : Has(journey, s) => Has(journey', s)
  <1> DEFINE Grows == journey # None =>
                          /\ journey' # None
                          /\ \A s : Reached(journey, s) => Reached(journey', s)
                          /\ \A s \in Section : Has(journey, s) => Has(journey', s)
  <1>1. UNCHANGED journey => Grows
    OBVIOUS
  <1>2. ASSUME NEW u \in User, (\E m \in Method[u] : Begin(u, m)) \/ Step(u) \/ Fail(u)
        PROVE  Grows
    <2>1. CASE UNCHANGED journey
      BY <2>1
    <2>2. CASE JourneyCreated(u)
      BY <2>2 DEF JourneyCreated
    <2>3. CASE JourneyInformed(u)
      BY <2>3 DEF JourneyInformed, Reached
    <2>4. ASSUME NEW to \in Allowed[journey.status], NEW actor \in User \cup {Agent},
                 JourneyMoved(u, to, actor)
          PROVE  Grows
      BY <2>4, MoveFacts DEF JourneyMoved, Has
    <2> QED
      BY <1>2, <2>1, <2>2, <2>3, <2>4, JourneyChanges
  <1>3. ASSUME BatchStep PROVE Grows
    <2>1. PICK k \in Journey : /\ k = journey \/ BatchMove(journey, k)
                               /\ journey' = k \/ BatchMove(k, journey')
      BY <1>3, BatchMoves
    <2>2. Batch /\ journey # None /\ journey \in Journey /\ Sound(journey)
      BY <1>3, BatchMoves
    <2>3. /\ k # None /\ Sound(k) /\ k.context = journey.context
          /\ \A s : Reached(journey, s) => Reached(k, s)
      BY <2>1, <2>2, BatchMoveFacts, AbsentAssumption
    <2>4. /\ journey' # None /\ journey'.context = k.context
          /\ \A s : Reached(k, s) => Reached(journey', s)
      BY <2>1, <2>2, <2>3, BatchMoveFacts
    <2> QED
      BY <2>2, <2>3, <2>4 DEF Has
  <1>4. Grows
    BY <1>1, <1>2, <1>3 DEF Next, vars
  <1>5. \A s : Entered(s)' <=> journey' # None /\ Reached(journey', s)
    BY DEF Entered, History, Reached
  <1>6. \A s : Entered(s) => Entered(s)'
    BY <1>4, <1>5, EnteredIs
  <1> QED
    BY <1>4, <1>6 DEF Has

-----------------------------------------------------------------------------
(* Approval comes before execution                                         *)

\* Every step of a call leaves the calls backed, but for approve().
LEMMA UserStaysGuarded ==
    ASSUME LifecycleInv, ExecutionIsGuarded, NEW u \in User,
           (\E m \in Method[u] : Begin(u, m)) \/ Step(u) \/ Fail(u)
    PROVE  \A v \in User : (Unguarded(caller[v]) \/ Backed(caller[v]))'
  <1> DEFINE Plain(c) == /\ StepsOf(c.todo) \cap Execution = {}
                         /\ c.method = "resume_after_approval" => "go" \notin StepsOf(c.todo)
             approved == Entered("APPROVED")
             Good(c) == Unguarded(c) \/ approved \/ Plain(c)
             free == Unguarded(caller[u]) \/ approved
  <1>1. /\ caller \in [User -> Call] /\ caller[u] \in Call /\ journey \in Journey \cup {None}
        /\ Proper(u, caller[u], journey) /\ caller[u].todo \in Seq(AnyStep)
        /\ Fits(caller[u].todo, caller[u].method)
    BY DEF LifecycleInv, TypeOK, Proper, Fits
  <1>2. Working(u) => NextStep(u) \in StepsOf(caller[u].todo)
    BY <1>1, TailOfSteps DEF Working, NextStep
  <1>3. Good(caller[u])
    BY DEF ExecutionIsGuarded, Backed
  <1>4. ASSUME NEW c, caller' = [caller EXCEPT ![u] = c], Good(c)
        PROVE  \A v \in User : Good(caller'[v])
    <2>1. \A v \in User : caller'[v] = IF v = u THEN c ELSE caller[v]
      BY <1>1, <1>4
    <2> QED
      BY <1>4, <2>1 DEF ExecutionIsGuarded, Backed
  <1>5. Ends(u) => \A v \in User : Good(caller'[v])
    <2>1. Good(Idle)
      BY IdleIsProper
    <2> QED
      BY <1>4, <2>1 DEF Ends
  <1>6. ASSUME NEW todo, GoesOn(u, todo), free \/ StepsOf(todo) \cap Execution = {},
               free \/ (caller[u].method = "resume_after_approval" => "go" \notin StepsOf(todo))
        PROVE  \A v \in User : Good(caller'[v])
    <2> DEFINE d == [caller[u] EXCEPT !.todo = todo]
    <2>1. d.todo = todo /\ d.method = caller[u].method
      BY <1>1 DEF Call
    <2>2. caller' = [caller EXCEPT ![u] = d]
      BY <1>6 DEF GoesOn
    <2> HIDE DEF d
    <2>3. Good(d)
      BY <1>6, <2>1 DEF Unguarded
    <2> QED
      BY <1>4, <2>2, <2>3
  <1>7. ASSUME Working(u), Advances(u)
        PROVE  \A v \in User : Good(caller'[v])
    <2>1. StepsOf(Tail(caller[u].todo)) \subseteq StepsOf(caller[u].todo)
      BY <1>1, <1>7, TailOfSteps DEF Working
    <2> QED
      BY <1>3, <1>6, <1>7, <2>1 DEF Advances
  <1>8. ASSUME NEW m \in Method[u], Begin(u, m) PROVE \A v \in User : Good(caller'[v])
    <2> DEFINE c == [method |-> m, todo |-> FirstSteps(m), polls |-> MaxPolls]
    <2>1. m \in AllMethods
      BY MethodAssumption
    <2>2. StepsOf(FirstSteps(m)) \subseteq {"find", "look", "observe"} \cup Decided
      BY <2>1, FirstStepsFit
    <2>3. Plain(c)
      BY <2>2 DEF Execution, Built, Decided
    <2>4. caller' = [caller EXCEPT ![u] = c]
      BY <1>8 DEF Begin
    <2> QED
      BY <1>4, <2>3, <2>4
  <1>9. ASSUME Find(u) PROVE \A v \in User : Good(caller'[v])
    <2>1. Ends(u) \/ GoesOn(u, StartSteps)
      BY <1>9 DEF Find, StartSteps
    <2>2. StepsOf(StartSteps) \cap (Execution \cup {"go"}) = {}
      BY StartStepsFit DEF Execution, Built
    <2> QED
      BY <1>5, <1>6, <2>1, <2>2
  <1>10. ASSUME Look(u) PROVE \A v \in User : Good(caller'[v])
    <2>1. Working(u) /\ NextStep(u) = "look"
      BY <1>10 DEF Look
    <2>2. caller[u].method \in Looking
      BY <1>1, <1>2, <2>1 DEF Fits
    <2>3. journey # None /\ journey.status \in State
      BY <1>1, <2>1 DEF Proper, Working, NextStep, Journey
    <2>4. StepsOf(StepsAfterLook(caller[u].method, journey.status)) \cap Execution = {}
      BY <2>2, <2>3, LookStepsFit
    <2>5. CASE Ends(u)
      BY <1>5, <2>5
    <2>6. CASE /\ ~(caller[u].method = "resume_after_approval" /\ ~Reached(journey, "APPROVED"))
               /\ GoesOn(u, StepsAfterLook(caller[u].method, journey.status))
      <3>1. caller[u].method = "resume_after_approval" => approved
        BY <2>3, <2>6, EnteredIs
      <3> QED
        BY <1>6, <2>4, <2>6, <3>1
    <2> QED
      BY <1>10, <2>5, <2>6 DEF Look
  <1>11. ASSUME Go(u) PROVE \A v \in User : Good(caller'[v])
    <2>1. /\ Working(u) /\ NextStep(u) = "go"
          /\ GoesOn(u, PipelineSteps(caller[u].method, journey.status))
      BY <1>11 DEF Go
    <2>2. "go" \in StepsOf(caller[u].todo)
      BY <1>2, <2>1
    <2>3. caller[u].method \in {"approve", "resume_after_approval"}
      BY <1>1, <2>2 DEF Fits
    <2>4. journey # None /\ journey \in Journey /\ journey.status \in State
      BY <1>1, <2>1 DEF Proper, Working, NextStep, Journey
    <2>5. CASE caller[u].method = "resume_after_approval"
      BY <1>3, <1>6, <2>1, <2>2, <2>5
    <2>6. CASE caller[u].method = "approve"
      <3>2. StepsOf(PipelineSteps("approve", journey.status)) \cap Execution # {} =>
                journey.status \in Execution \cup {"APPROVED"}
        BY <2>4, GoStepsFit, PipelineMap
      <3>3. journey.status = "APPROVED" => approved
        BY <2>4, EnteredIs DEF LifecycleInv, Sound, Reached, Journey
      <3>4. journey.status \in Execution => free
        BY <2>4, <2>6 DEF ExecutionIsGuarded, Unguarded
      <3>5. free \/ StepsOf(PipelineSteps("approve", journey.status)) \cap Execution = {}
        BY <3>2, <3>3, <3>4
      <3> QED
        BY <1>6, <2>1, <2>6, <3>5
    <2> QED
      BY <2>3, <2>5, <2>6
  <1>12. ASSUME Create(u) \/ Move(u) \/ Merge(u) PROVE \A v \in User : Good(caller'[v])
    <2>1. Ends(u) \/ (Working(u) /\ Advances(u))
      BY <1>12 DEF Create, Move, Moving, Merge
    <2> QED
      BY <1>5, <1>7, <2>1
  <1>13. ASSUME Observe(u) PROVE \A v \in User : Good(caller'[v])
    <2>1. CASE Ends(u)
      BY <1>5, <2>1
    <2>2. CASE caller' = [caller EXCEPT ![u].polls = @ - 1]
      <3> DEFINE d == [caller[u] EXCEPT !.polls = caller[u].polls - 1]
      <3>1. d.todo = caller[u].todo /\ d.method = caller[u].method
        BY <1>1 DEF Call
      <3>2. caller' = [caller EXCEPT ![u] = d]
        BY <2>2
      <3> HIDE DEF d
      <3>3. Good(d)
        BY <1>3, <3>1 DEF Unguarded
      <3> QED
        BY <1>4, <3>2, <3>3
    <2> QED
      BY <1>13, <2>1, <2>2 DEF Observe
  <1>14. ASSUME Return(u) \/ Fail(u) PROVE \A v \in User : Good(caller'[v])
    BY <1>5, <1>14 DEF Return, Fail
  <1>15. \A v \in User : Good(caller'[v])
    BY <1>8, <1>9, <1>10, <1>11, <1>12, <1>13, <1>14 DEF Step
  <1>16. Next
    BY DEF Next
  <1>17. approved => Entered("APPROVED")'
    BY <1>16, NothingIsLost
  <1> QED
    BY <1>15, <1>17 DEF Backed, Unguarded

LEMMA ExecutionStaysGuarded ==
    LifecycleInv /\ ExecutionIsGuarded /\ [Next]_vars => ExecutionIsGuarded'
  <1> SUFFICES ASSUME LifecycleInv, ExecutionIsGuarded, [Next]_vars PROVE ExecutionIsGuarded'
    OBVIOUS
  <1>1. Entered("APPROVED") => Entered("APPROVED")'
    BY NothingIsLost
  <1> DEFINE Ordered == ~Batch /\ journey' # None /\ journey'.status \in Execution =>
                            Entered("APPROVED")'
             AllGuarded == \A v \in User : (Unguarded(caller[v]) \/ Backed(caller[v]))'
  <1>2. ASSUME journey # None /\ journey' # None => journey'.status = journey.status,
               journey = None /\ journey' # None => journey'.status \notin Execution
        PROVE  Ordered
    BY <1>1, <1>2 DEF ExecutionIsGuarded
  <1>3. ASSUME NEW u \in User, (\E m \in Method[u] : Begin(u, m)) \/ Step(u) \/ Fail(u)
        PROVE  Ordered /\ AllGuarded
    <2>1. CASE JourneyCreated(u)
      <3>1. journey'.status \notin Execution
        BY <2>1, CreatedFacts DEF JourneyCreated, Execution, Built
      <3> QED
        BY <1>2, <1>3, <2>1, <3>1, UserStaysGuarded DEF JourneyCreated
    <2>2. CASE JourneyInformed(u)
      BY <1>2, <1>3, <2>2, UserStaysGuarded DEF JourneyInformed
    <2>3. ASSUME NEW to \in Allowed[journey.status], NEW actor \in User \cup {Agent},
                 JourneyMoved(u, to, actor)
          PROVE  Ordered
      <3>1. /\ journey # None /\ journey \in Journey /\ to \in State
            /\ to = NextStep(u) \/ to = "APPROVED"
            /\ NextStep(u) \in StepsOf(caller[u].todo)
            /\ journey' = Moved(journey, to, actor)
        BY <2>3 DEF JourneyMoved
      <3>2. to \in Execution => to \in StepsOf(caller[u].todo)
        BY <3>1 DEF Execution, Built
      <3>3. ~Batch /\ to \in Execution => Entered("APPROVED")
        BY <3>2 DEF ExecutionIsGuarded, Unguarded, Backed
      <3>4. journey'.status = to
        BY <3>1, MoveFacts
      <3> QED
        BY <1>1, <3>3, <3>4
    <2>4. CASE UNCHANGED journey
      BY <1>2, <1>3, <2>4, UserStaysGuarded
    <2> QED
      BY <1>3, <2>1, <2>2, <2>3, <2>4, JourneyChanges, UserStaysGuarded
  <1>4. ASSUME UNCHANGED caller PROVE AllGuarded
    BY <1>1, <1>4 DEF ExecutionIsGuarded, Unguarded, Backed
  <1>5. ASSUME BatchStep PROVE Ordered /\ AllGuarded
    <2>1. Batch /\ UNCHANGED caller
      BY <1>5, BatchMoves
    <2> QED
      BY <1>4, <2>1
  <1>6. CASE UNCHANGED vars
    BY <1>2, <1>4, <1>6 DEF vars, ExecutionIsGuarded
  <1> QED
    BY <1>3, <1>5, <1>6 DEF Next, ExecutionIsGuarded

LEMMA GuardedInit == Init => ExecutionIsGuarded
  <1> SUFFICES ASSUME Init PROVE ExecutionIsGuarded
    OBVIOUS
  <1>1. \A u \in User : Backed(caller[u])
    BY IdleIsProper DEF Init, Backed, Idle
  <1> QED
    BY <1>1 DEF Init, ExecutionIsGuarded

LEMMA ResumedIsBacked ==
    ASSUME ExecutionIsResumed, LifecycleInv, ExecutionIsGuarded, NEW u \in User
    PROVE  Backed(caller[u])
  <1>1. caller[u].method \in Method[u] \cup {None}
    BY DEF LifecycleInv, Proper
  <1>2. ~Unguarded(caller[u])
    BY <1>1, AbsentAssumption DEF ExecutionIsResumed, Unguarded, AllMethods
  <1> QED
    BY <1>2 DEF ExecutionIsGuarded

\* A transition into what is built, made after the approval, keeps the order.
BuiltLater(j) ==
    \A i \in DOMAIN j.history : j.history[i].to \in Built =>
        \E k \in DOMAIN j.history : k < i /\ j.history[k].to = "APPROVED"

LEMMA MoveKeepsOrder ==
    ASSUME NEW j \in Journey, NEW to \in State, NEW actor \in User \cup {Agent},
           BuiltLater(j), to \in Built => Reached(j, "APPROVED")
    PROVE  BuiltLater(Moved(j, to, actor))
  <1> DEFINE k == Moved(j, to, actor)
             n == Len(j.history)
  <1>1. /\ n \in Nat /\ DOMAIN j.history = 1 .. n /\ DOMAIN k.history = 1 .. n + 1
        /\ \A i \in DOMAIN j.history : k.history[i] = j.history[i]
        /\ k.history[n + 1].to = to
    BY MoveFacts
  <1> HIDE DEF k, n
  <1>2. ASSUME NEW i \in DOMAIN k.history, k.history[i].to \in Built
        PROVE  \E l \in DOMAIN k.history : l < i /\ k.history[l].to = "APPROVED"
    <2>1. CASE i = n + 1
      <3>1. PICK l \in DOMAIN j.history : j.history[l].to = "APPROVED"
        BY <1>1, <1>2, <2>1 DEF Reached
      <3> QED
        BY <1>1, <2>1, <3>1
    <2>2. CASE i # n + 1
      <3>1. i \in DOMAIN j.history /\ j.history[i].to \in Built
        BY <1>1, <1>2, <2>2
      <3>2. PICK l \in DOMAIN j.history : l < i /\ j.history[l].to = "APPROVED"
        BY <3>1 DEF BuiltLater
      <3> QED
        BY <1>1, <3>2
    <2> QED
      BY <2>1, <2>2
  <1>3. BuiltLater(k)
    BY <1>2 DEF BuiltLater
  <1> QED
    BY <1>3 DEF k

LEMMA BuiltIs == NothingBuiltUnapproved <=> (journey # None => BuiltLater(journey))
  BY DEF NothingBuiltUnapproved, BuiltLater, History

LEMMA ApprovalFirst ==
    ASSUME ExecutionIsResumed
    PROVE  LifecycleInv /\ ApprovalComesFirst /\ [Next]_vars => ApprovalComesFirst'
  <1> SUFFICES ASSUME LifecycleInv, ApprovalComesFirst, [Next]_vars
               PROVE  journey' # None => BuiltLater(journey')
    BY ExecutionStaysGuarded DEF ApprovalComesFirst, NothingBuiltUnapproved, BuiltLater, History
  <1> DEFINE Ordered == journey' # None => BuiltLater(journey')
  <1>1. journey # None => BuiltLater(journey)
    BY BuiltIs DEF ApprovalComesFirst
  <1>2. UNCHANGED journey => Ordered
    BY <1>1
  <1>3. ASSUME NEW u \in User, (\E m \in Method[u] : Begin(u, m)) \/ Step(u) \/ Fail(u)
        PROVE  Ordered
    <2>1. CASE JourneyCreated(u)
      BY <2>1, CreatedFacts DEF JourneyCreated, BuiltLater, Built
    <2>2. CASE JourneyInformed(u)
      BY <1>1, <2>2 DEF JourneyInformed, BuiltLater
    <2>3. ASSUME NEW to \in Allowed[journey.status], NEW actor \in User \cup {Agent},
                 JourneyMoved(u, to, actor)
          PROVE  Ordered
      <3>1. /\ journey # None /\ journey \in Journey /\ to \in State
            /\ to = NextStep(u) \/ to = "APPROVED"
            /\ NextStep(u) \in StepsOf(caller[u].todo)
            /\ journey' = Moved(journey, to, actor)
        BY <2>3 DEF JourneyMoved
      <3>2. to \in Execution => to \in StepsOf(caller[u].todo)
        BY <3>1 DEF Execution, Built
      <3>3. to \in Execution => Entered("APPROVED")
        BY <3>2, ResumedIsBacked DEF ApprovalComesFirst, Backed
      <3>4. to \in Built => Reached(journey, "APPROVED")
        BY <3>3, EnteredIs DEF Execution
      <3> QED
        BY <1>1, <3>1, <3>4, MoveKeepsOrder
    <2> QED
      BY <1>2, <1>3, <2>1, <2>2, <2>3, JourneyChanges
  <1>4. ASSUME BatchStep PROVE Ordered
    <2>1. journey # None /\ journey \in Journey
      BY <1>4, BatchMoves
    <2>2. ASSUME NEW j \in Journey, BuiltLater(j), NEW k, BatchMove(j, k)
          PROVE  BuiltLater(k)
      <3>1. PICK to \in BatchStates : k = Moved(j, to, Agent)
        BY <2>2 DEF BatchMove
      <3>2. to \in State /\ to \notin Built
        BY <3>1 DEF BatchStates, BatchOnly, State, Built
      <3> QED
        BY <2>2, <3>1, <3>2, MoveKeepsOrder
    <2>3. PICK k \in Journey : /\ k = journey \/ BatchMove(journey, k)
                               /\ journey' = k \/ BatchMove(k, journey')
      BY <1>4, BatchMoves
    <2>4. BuiltLater(k)
      BY <1>1, <2>1, <2>2, <2>3
    <2> QED
      BY <2>2, <2>3, <2>4
  <1> QED
    BY <1>2, <1>3, <1>4 DEF Next, vars

LEMMA ApprovalInit == Init => ApprovalComesFirst
  BY GuardedInit DEF Init, ApprovalComesFirst, NothingBuiltUnapproved, History

\* Nothing is built unapproved, in a journey that users and batch jobs work on
\* as they like, as long as nobody calls approve() where batch jobs run: the
\* guard of resume_after_approval and the pipelines' order see to it.
THEOREM BuiltIsApproved ==
    ASSUME ExecutionIsResumed
    PROVE  Spec => []NothingBuiltUnapproved
  <1>1. ApprovalComesFirst => NothingBuiltUnapproved
    BY DEF ApprovalComesFirst
  <1> QED
    BY <1>1, ApprovalInit, LifecycleInit, LifecycleNext, ApprovalFirst, PTL DEF Spec

-----------------------------------------------------------------------------
(* Knowledge comes before the state that needs it                          *)

LEMMA InOrderIsInformed ==
    ASSUME NEW c, NEW j, InOrder(c.todo)
    PROVE  Informed(c, j)
  BY DEF InOrder, Informed

LEMMA OthersStayInformed ==
    ASSUME NEW c, NEW j, NEW k, Informed(c, j),
           \A s \in Section : Has(j, s) => Has(k, s)
    PROVE  Informed(c, k)
  BY DEF Informed, Section

\* The rest of a list is in order when its first step is done, which writes
\* the section if it is one.
LEMMA RestIsInformed ==
    ASSUME NEW c, NEW d, c.todo \in Seq(AnyStep), c.todo # <<>>, d.todo = Tail(c.todo),
           NEW j, NEW k, Informed(c, j), \A s \in Section : Has(j, s) => Has(k, s),
           Head(c.todo) \in {"inventory", "proposed_plan"} => Has(k, Head(c.todo))
    PROVE  Informed(d, k)
  <1>1. /\ Head(c.todo) = c.todo[1]
        /\ \A i \in DOMAIN d.todo : /\ i \in Nat \ {0} /\ i + 1 \in DOMAIN c.todo
                                    /\ d.todo[i] = c.todo[i + 1]
        /\ \A i \in DOMAIN c.todo : i \in Nat
        /\ \A l \in Nat : l + 1 \in DOMAIN c.todo /\ l > 0 => l \in DOMAIN d.todo
    <2>1. Len(c.todo) \in Nat /\ DOMAIN c.todo = 1 .. Len(c.todo)
      OBVIOUS
    <2>2. DOMAIN d.todo = 1 .. Len(c.todo) - 1
      OBVIOUS
    <2>3. /\ Head(c.todo) = c.todo[1]
          /\ \A i \in DOMAIN d.todo : /\ i \in Nat \ {0} /\ i + 1 \in DOMAIN c.todo
                                      /\ d.todo[i] = c.todo[i + 1]
      BY TailOfSteps
    <2> QED
      BY <2>1, <2>2, <2>3
  <1>2. ASSUME NEW i \in DOMAIN d.todo, NEW section \in {"inventory", "proposed_plan"},
               Has(j, section) \/ Follows(c.todo, i + 1, section)
        PROVE  Has(k, section) \/ Follows(d.todo, i, section)
    <2>1. CASE Has(j, section)
      BY <2>1 DEF Section
    <2>2. CASE Follows(c.todo, i + 1, section)
      <3>1. PICK l \in 1 .. i : c.todo[l] = section
        BY <1>1, <2>2 DEF Follows
      <3>2. CASE l = 1
        BY <1>1, <3>1, <3>2
      <3>3. CASE l # 1
        <4>1. l - 1 \in Nat /\ l - 1 > 0 /\ l - 1 + 1 = l /\ l - 1 \in 1 .. i - 1
          BY <1>1, <3>1, <3>3
        <4>2. i + 1 \in 1 .. Len(c.todo) /\ Len(c.todo) \in Nat
          BY <1>1
        <4>3. l \in DOMAIN c.todo
          BY <1>1, <3>1, <4>2
        <4>4. d.todo[l - 1] = section
          BY <1>1, <3>1, <4>1, <4>3
        <4> QED
          BY <4>1, <4>4 DEF Follows
      <3> QED
        BY <3>2, <3>3
    <2> QED
      BY <1>2, <2>1, <2>2
  <1> QED
    BY <1>1, <1>2 DEF Informed

LEMMA UserStaysInformed ==
    ASSUME LifecycleInv, KnowledgeComesFirst, StepsAreExplicit, NEW u \in User,
           (\E m \in Method[u] : Begin(u, m)) \/ Step(u) \/ Fail(u)
    PROVE  \A v \in User : Informed(caller'[v], journey')
  <1>1. /\ caller \in [User -> Call] /\ caller[u] \in Call /\ journey \in Journey \cup {None}
        /\ Proper(u, caller[u], journey) /\ caller[u].todo \in Seq(AnyStep)
        /\ Fits(caller[u].todo, caller[u].method)
    BY DEF LifecycleInv, TypeOK, Proper, Fits
  <1>2. Working(u) => NextStep(u) \in StepsOf(caller[u].todo)
    BY <1>1, TailOfSteps DEF Working, NextStep
  <1>3. \A s \in Section : Has(journey, s) => Has(journey', s)
    <2>1. Next
      BY DEF Next
    <2> QED
      BY <2>1, NothingIsLost
  <1> DEFINE Good == \A v \in User : Informed(caller'[v], journey')
  <1>4. ASSUME NEW c, caller' = [caller EXCEPT ![u] = c], Informed(c, journey')
        PROVE  Good
    <2>1. \A v \in User : caller'[v] = IF v = u THEN c ELSE caller[v]
      BY <1>1, <1>4
    <2>2. ASSUME NEW v \in User PROVE Informed(caller'[v], journey')
      <3>1. Informed(caller[v], journey')
        BY <1>3, OthersStayInformed DEF KnowledgeComesFirst
      <3> QED
        BY <1>4, <2>1, <3>1
    <2> QED
      BY <2>2
  <1>5. ASSUME Ends(u) PROVE Good
    <2>1. InOrder(Idle.todo)
      BY DEF Idle, InOrder
    <2> QED
      BY <1>4, <1>5, <2>1, InOrderIsInformed DEF Ends
  <1>6. ASSUME NEW todo, GoesOn(u, todo), InOrder(todo) PROVE Good
    <2> DEFINE d == [caller[u] EXCEPT !.todo = todo]
    <2>1. d.todo = todo
      BY <1>1 DEF Call
    <2>2. caller' = [caller EXCEPT ![u] = d]
      BY <1>6 DEF GoesOn
    <2> HIDE DEF d
    <2>3. Informed(d, journey')
      BY <1>6, <2>1, InOrderIsInformed
    <2> QED
      BY <1>4, <2>2, <2>3
  <1>7. ASSUME Working(u), Advances(u),
               NextStep(u) \in {"inventory", "proposed_plan"} => Has(journey', NextStep(u))
        PROVE  Good
    <2> DEFINE d == [caller[u] EXCEPT !.todo = Tail(caller[u].todo)]
    <2>1. d.todo = Tail(caller[u].todo)
      BY <1>1 DEF Call
    <2>2. caller' = [caller EXCEPT ![u] = d]
      BY <1>7 DEF Advances, GoesOn
    <2> HIDE DEF d
    <2>3. Informed(d, journey')
      BY <1>1, <1>3, <1>7, <2>1, RestIsInformed DEF Working, NextStep, KnowledgeComesFirst
    <2> QED
      BY <1>4, <2>2, <2>3
  <1>8. ASSUME NEW todo,
               StepsOf(todo) \cap {"ASSET_INVENTORY_COMPLETE", "WAITING_FOR_APPROVAL"} = {}
        PROVE  InOrder(todo)
    BY <1>8 DEF InOrder, StepsOf
  <1>9. ASSUME NEW m \in Method[u], Begin(u, m) PROVE Good
    <2> DEFINE c == [method |-> m, todo |-> FirstSteps(m), polls |-> MaxPolls]
    <2>1. m \in AllMethods
      BY MethodAssumption
    <2>2. StepsOf(FirstSteps(m)) \subseteq {"find", "look", "observe"} \cup Decided
      BY <2>1, FirstStepsFit
    <2>3. InOrder(c.todo)
      BY <1>8, <2>2 DEF Decided
    <2>4. caller' = [caller EXCEPT ![u] = c]
      BY <1>9 DEF Begin
    <2> HIDE DEF c
    <2> QED
      BY <1>4, <2>3, <2>4, InOrderIsInformed
  <1>10. ASSUME Find(u) PROVE Good
    <2>1. Ends(u) \/ GoesOn(u, StartSteps)
      BY <1>10 DEF Find, StartSteps
    <2>2. InOrder(StartSteps)
      BY <1>8, StartStepsFit
    <2> QED
      BY <1>5, <1>6, <2>1, <2>2
  <1>11. ASSUME Look(u) PROVE Good
    <2>1. /\ Working(u) /\ NextStep(u) = "look"
          /\ Ends(u) \/ GoesOn(u, StepsAfterLook(caller[u].method, journey.status))
      BY <1>11 DEF Look
    <2>2. caller[u].method \in Looking \ {"continue_journey"}
      BY <1>1, <1>2, <2>1, AbsentAssumption DEF Fits, Proper, StepsAreExplicit, AllMethods
    <2>3. journey.status \in State
      BY <1>1, <2>1 DEF Proper, Working, NextStep, Journey
    <2>4. InOrder(StepsAfterLook(caller[u].method, journey.status))
      BY <2>2, <2>3, LookStepsFit
    <2> QED
      BY <1>5, <1>6, <2>1, <2>4
  <1>12. ASSUME Go(u) PROVE Good
    <2>1. /\ Working(u) /\ NextStep(u) = "go"
          /\ GoesOn(u, PipelineSteps(caller[u].method, journey.status))
      BY <1>12 DEF Go
    <2>2. caller[u].method \in {"approve", "resume_after_approval"}
      BY <1>1, <1>2, <2>1 DEF Fits
    <2>3. journey.status \in State
      BY <1>1, <2>1 DEF Proper, Working, NextStep, Journey
    <2> QED
      BY <1>6, <2>1, <2>2, <2>3, GoStepsFit
  <1>13. ASSUME Create(u) \/ Move(u) PROVE Good
    <2>1. Ends(u) \/ (/\ Working(u) /\ Advances(u)
                      /\ NextStep(u) \notin {"inventory", "proposed_plan"})
      BY <1>13 DEF Create, Move, Moving, State
    <2> QED
      BY <1>5, <1>7, <2>1
  <1>14. ASSUME Merge(u) PROVE Good
    <2>1. Working(u) /\ Advances(u) /\ NextStep(u) \in Section
      BY <1>14 DEF Merge
    <2>2. JourneyInformed(u)
      BY <1>14, MergeInforms
    <2> QED
      BY <1>7, <2>1, <2>2 DEF JourneyInformed
  <1>15. ASSUME Observe(u) PROVE Good
    <2>1. CASE Ends(u)
      BY <1>5, <2>1
    <2>2. CASE caller' = [caller EXCEPT ![u].polls = @ - 1]
      <3> DEFINE d == [caller[u] EXCEPT !.polls = caller[u].polls - 1]
      <3>1. d.todo = caller[u].todo
        BY <1>1 DEF Call
      <3>2. caller' = [caller EXCEPT ![u] = d]
        BY <2>2
      <3> HIDE DEF d
      <3>3. Informed(caller[u], journey')
        BY <1>3, OthersStayInformed DEF KnowledgeComesFirst
      <3>4. Informed(d, journey')
        BY <3>1, <3>3 DEF Informed
      <3> QED
        BY <1>4, <3>2, <3>4
    <2> QED
      BY <1>15, <2>1, <2>2 DEF Observe
  <1>16. ASSUME Return(u) \/ Fail(u) PROVE Good
    BY <1>5, <1>16 DEF Return, Fail
  <1> QED
    BY <1>9, <1>10, <1>11, <1>12, <1>13, <1>14, <1>15, <1>16 DEF Step

LEMMA KnowledgeFirst ==
    ASSUME StepsAreExplicit
    PROVE  LifecycleInv /\ KnowledgeComesFirst /\ [Next]_vars => KnowledgeComesFirst'
  <1> SUFFICES ASSUME LifecycleInv, KnowledgeComesFirst, [Next]_vars
               PROVE  KnowledgeComesFirst'
    OBVIOUS
  <1>1. \A s \in Section : Has(journey, s) => Has(journey', s)
    BY NothingIsLost
  <1>2. Has(journey, "inventory") => Has(journey', "inventory")
    BY <1>1 DEF Section
  <1>3. Has(journey, "proposed_plan") => Has(journey', "proposed_plan")
    BY <1>1 DEF Section
  <1>4. Entered("WAITING_FOR_APPROVAL") =>
            Has(journey, "inventory") /\ Has(journey, "proposed_plan")
    BY EnteredIs DEF KnowledgeComesFirst, ReviewHasPlan, Has
  <1> DEFINE gathered == /\ journey' # None
                         /\ journey'.status \in {"ASSET_INVENTORY_COMPLETE", "GENERATING_PLAN"}
                             => Has(journey', "inventory")
             planned == Entered("WAITING_FOR_APPROVAL")' =>
                            Has(journey', "inventory") /\ Has(journey', "proposed_plan")
             Known == (journey' # None => gathered) /\ planned
  <1>5. Entered("WAITING_FOR_APPROVAL")' <=>
            journey' # None /\ Reached(journey', "WAITING_FOR_APPROVAL")
    BY DEF Entered, History, Reached
  <1>6. UNCHANGED journey => Known
    BY <1>2, <1>3, <1>4, <1>5, EnteredIs DEF KnowledgeComesFirst
  <1>7. ASSUME NEW u \in User, (\E m \in Method[u] : Begin(u, m)) \/ Step(u) \/ Fail(u)
        PROVE  Known
    <2>1. CASE JourneyCreated(u)
      BY <1>5, <2>1, CreatedFacts DEF JourneyCreated
    <2>2. CASE JourneyInformed(u)
      BY <1>2, <1>3, <1>4, <1>5, <2>2, EnteredIs DEF JourneyInformed, KnowledgeComesFirst, Reached
    <2>3. ASSUME NEW to \in Allowed[journey.status], NEW actor \in User \cup {Agent},
                 JourneyMoved(u, to, actor)
          PROVE  Known
      <3>1. /\ journey # None /\ journey \in Journey /\ Sound(journey) /\ Moving(u)
            /\ to \in State /\ to \notin Never
            /\ to = NextStep(u) \/ to = "APPROVED"
            /\ journey' = Moved(journey, to, actor) /\ journey' # None
        BY <2>3 DEF JourneyMoved, Move
      <3>2. /\ journey'.status = to
            /\ \A s : Reached(journey', s) <=> Reached(journey, s) \/ s = to
        BY <3>1, MoveFacts
      <3>3. journey.status \in State /\ journey.status \notin Never
        BY <3>1 DEF Journey, Sound
      <3>4. /\ to = "WAITING_FOR_APPROVAL" => journey.status = "GENERATING_PLAN"
            /\ to = "GENERATING_PLAN" => journey.status = "ASSET_INVENTORY_COMPLETE"
        BY <3>1, <3>3, TransitionMap
      <3>5. /\ NextStep(u) = "ASSET_INVENTORY_COMPLETE" => Has(journey, "inventory")
            /\ NextStep(u) = "WAITING_FOR_APPROVAL" => Has(journey, "proposed_plan")
        <4>1. caller[u].todo \in Seq(AnyStep) /\ caller[u].todo # <<>>
          BY <3>1 DEF Moving, Working, LifecycleInv, Proper, Fits
        <4>2. 1 \in DOMAIN caller[u].todo /\ NextStep(u) = caller[u].todo[1]
          BY <4>1, TailOfSteps DEF NextStep
        <4>3. \A section : ~Follows(caller[u].todo, 1, section)
          BY DEF Follows
        <4> QED
          BY <4>2, <4>3 DEF KnowledgeComesFirst, Informed
      <3>6. to \in {"ASSET_INVENTORY_COMPLETE", "GENERATING_PLAN", "WAITING_FOR_APPROVAL"} =>
                Has(journey, "inventory")
        BY <3>1, <3>4, <3>5 DEF KnowledgeComesFirst
      <3>7. to = "WAITING_FOR_APPROVAL" => Has(journey, "proposed_plan")
        BY <3>1, <3>5
      <3> QED
        BY <1>2, <1>3, <1>4, <1>5, <3>1, <3>2, <3>6, <3>7, EnteredIs
    <2> QED
      BY <1>6, <1>7, <2>1, <2>2, <2>3, JourneyChanges
  <1>8. ASSUME BatchStep PROVE Known
    <2>1. PICK k \in Journey : /\ k = journey \/ BatchMove(journey, k)
                               /\ journey' = k \/ BatchMove(k, journey')
      BY <1>8, BatchMoves
    <2>2. Batch /\ journey # None /\ journey \in Journey /\ Sound(journey)
      BY <1>8, BatchMoves
    <2> DEFINE Same(j) == /\ j.status \in {"ASSET_INVENTORY_COMPLETE", "GENERATING_PLAN"} =>
                                 j.status = journey.status
                          /\ Reached(j, "WAITING_FOR_APPROVAL") =>
                                 Reached(journey, "WAITING_FOR_APPROVAL")
    <2>3. ASSUME NEW j \in Journey, Sound(j), Same(j), NEW l, BatchMove(j, l)
          PROVE  Same(l)
      BY <2>2, <2>3, BatchMoveFacts DEF BatchStates, BatchOnly
    <2>4. Same(k) /\ Sound(k)
      BY <2>1, <2>2, <2>3, BatchMoveFacts
    <2>5. Same(journey')
      BY <2>1, <2>3, <2>4
    <2> HIDE DEF Same
    <2>6. /\ journey'.status \in {"ASSET_INVENTORY_COMPLETE", "GENERATING_PLAN"} =>
                 journey'.status = journey.status
          /\ Reached(journey', "WAITING_FOR_APPROVAL") =>
                 Reached(journey, "WAITING_FOR_APPROVAL")
      BY <2>5 DEF Same
    <2> QED
      BY <1>2, <1>3, <1>4, <1>5, <2>2, <2>6, EnteredIs DEF KnowledgeComesFirst
  <1>9. Known
    BY <1>6, <1>7, <1>8 DEF Next, vars
  <1>10. \A v \in User : Informed(caller[v], journey)'
    <2>1. ASSUME NEW u \in User, (\E m \in Method[u] : Begin(u, m)) \/ Step(u) \/ Fail(u)
          PROVE  \A v \in User : Informed(caller'[v], journey')
      BY <2>1, UserStaysInformed
    <2>2. ASSUME UNCHANGED caller
          PROVE  \A v \in User : Informed(caller'[v], journey')
      BY <1>1, <2>2, OthersStayInformed DEF KnowledgeComesFirst
    <2>3. BatchStep => UNCHANGED caller
      BY DEF BatchStep
    <2> QED
      BY <2>1, <2>2, <2>3 DEF Next, vars
  <1>11. ReviewHasPlan'
    BY <1>9 DEF ReviewHasPlan, Has
  <1> QED
    BY <1>9, <1>10, <1>11 DEF KnowledgeComesFirst

\* What is put up for review has an inventory and a plan, if its plan is made
\* in explicit steps and not by the shortcut continue_journey.
THEOREM ReviewedHasPlan ==
    ASSUME StepsAreExplicit
    PROVE  Spec => []ReviewHasPlan
  <1>1. Init => KnowledgeComesFirst
    <2> SUFFICES ASSUME Init PROVE KnowledgeComesFirst
      OBVIOUS
    <2>1. \A u \in User : Informed(caller[u], journey)
      BY DEF Init, Informed, Idle
    <2> QED
      BY <2>1 DEF Init, KnowledgeComesFirst, ReviewHasPlan, Entered, History
  <1>2. KnowledgeComesFirst => ReviewHasPlan
    BY DEF KnowledgeComesFirst
  <1> QED
    BY <1>1, <1>2, LifecycleInit, LifecycleNext, KnowledgeFirst, PTL DEF Spec

-----------------------------------------------------------------------------
(* Batch results                                                           *)

LEMMA EnteredNext == \A s : Entered(s)' <=> journey' # None /\ Reached(journey', s)
  BY DEF Entered, History, Reached

\* Users enter no state that stands for the result of a validation.
LEMMA UsersValidateNothing ==
    ASSUME LifecycleInv, NEW u \in User,
           (\E m \in Method[u] : Begin(u, m)) \/ Step(u) \/ Fail(u)
    PROVE  /\ UNCHANGED record
           /\ \A s \in BatchOnly : Entered(s)' => Entered(s)
  <1>1. CASE UNCHANGED journey
    BY <1>1, EnteredIs, EnteredNext, UserChanges DEF UserChange
  <1>2. CASE JourneyCreated(u)
    BY <1>2, CreatedFacts, EnteredNext, UserChanges DEF UserChange, JourneyCreated, BatchOnly
  <1>3. CASE JourneyInformed(u)
    BY <1>3, EnteredIs, EnteredNext, UserChanges DEF UserChange, JourneyInformed, Reached
  <1>4. ASSUME NEW to \in Allowed[journey.status], NEW actor \in User \cup {Agent},
               JourneyMoved(u, to, actor)
        PROVE  \A s \in BatchOnly : Entered(s)' => Entered(s)
    BY <1>4, MoveFacts, EnteredIs, EnteredNext DEF JourneyMoved
  <1> QED
    BY <1>1, <1>2, <1>3, <1>4, JourneyChanges, UserChanges DEF UserChange

\* What a batch operation leaves, if it is there already or moves there.
LEMMA MovedUnlessThereFacts ==
    ASSUME NEW j \in Journey, Sound(j), Batch, NEW to \in BatchStates, CanMove(j, to)
    PROVE  LET k == MovedUnlessThere(j, to)
           IN  /\ k \in Journey /\ Sound(k) /\ k # None
               /\ k.status = to /\ k.context = j.context
               /\ \A s : Reached(k, s) <=> Reached(j, s) \/ s = to
  <1>1. CASE j.status = to
    <2>1. Reached(j, to)
      <3>1. j.history \in Seq(Event)
        BY DEF Journey
      <3>2. Len(j.history) \in DOMAIN j.history
        BY <3>1 DEF Sound
      <3> QED
        BY <1>1, <3>2 DEF Sound, Reached
    <2> QED
      BY <1>1, <2>1, AbsentAssumption DEF MovedUnlessThere
  <1>2. CASE j.status # to
    <2>1. BatchMove(j, MovedUnlessThere(j, to)) /\ to \in State
      BY <1>2 DEF MovedUnlessThere, CanMove, BatchMove, BatchStates, BatchOnly, State
    <2>2. MovedUnlessThere(j, to).status = to
      BY <1>2, <2>1, MoveFacts DEF MovedUnlessThere
    <2> QED
      BY <2>1, <2>2, BatchMoveFacts
  <1> QED
    BY <1>1, <1>2

\* What each batch operation records, and where it leaves the journey.
Leaves(op, status, successful) ==
    \E n \in Nat : record' = [record EXCEPT ![op] = [status |-> status,
                                  successful |-> successful, observations |-> n]]

LEMMA ResultsOfOperations ==
    ASSUME LifecycleInv, BatchStep
    PROVE  /\ Batch /\ journey # None /\ journey \in Journey /\ journey' # None
           /\ journey'.context = journey.context
           /\ \/ /\ Leaves("apm-validation", "COMPLETED", TRUE)
                 /\ Reached(journey', "APM_VALIDATED")
                 /\ \A s \in BatchOnly : Reached(journey', s) => Reached(journey, s)
                 /\ \/ journey'.status = journey.status
                    \/ journey.status # "PROVISIONING_AGENT_IDENTITY"
                       /\ journey'.status # "PROVISIONING_AGENT_IDENTITY"
              \/ /\ Leaves("ad-provisioning", "WAITING", TRUE)
                 /\ journey'.status = "PROVISIONING_AGENT_IDENTITY"
                 /\ Reached(journey', "PROVISIONING_AGENT_IDENTITY")
                 /\ \A s \in BatchOnly : Reached(journey', s) => Reached(journey, s)
                 /\ record["ad-provisioning"] = None
              \/ /\ Leaves("ad-provisioning", "WAITING", TRUE)
                 /\ record["ad-provisioning"] # None
                 /\ record["ad-provisioning"].status = "WAITING"
                 /\ UNCHANGED journey
              \/ /\ Leaves("ad-provisioning", "COMPLETED", TRUE)
                 /\ record["ad-provisioning"] # None
                 /\ journey'.status = "AGENT_IDENTITY_READY"
                 /\ Reached(journey', "AGENT_IDENTITY_READY")
                 /\ \A s \in BatchOnly : Reached(journey', s) => Reached(journey, s)
              \/ \E ok \in BOOLEAN :
                    /\ Leaves("app-factory-validation", "COMPLETED", ok)
                    /\ record["app-factory-validation"] = None
                    /\ ok => journey.context["inventory"] # None
                    /\ journey'.status \in BatchOnly
                    /\ journey.status # "PROVISIONING_AGENT_IDENTITY"
                    /\ \A s \in BatchOnly : Reached(journey', s) =>
                           \/ Reached(journey, s)
                           \/ s = IF ok THEN "READY_TO_PROVISION"
                                        ELSE "APP_FACTORY_VALIDATION_ERROR"
  <1>1. /\ Batch /\ journey # None /\ journey \in Journey /\ Sound(journey)
        /\ journey' \in Journey
    BY BatchMoves
  <1>2. record \in [Operation -> Record \cup {None}]
    BY DEF LifecycleInv, TypeOK
  <1>3. journey' # None
    BY <1>1, AbsentAssumption
  <1>4. ASSUME NEW op, NEW status, NEW ok, NEW n \in Nat, Recorded(op, status, ok, n)
        PROVE  Leaves(op, status, ok)
    BY <1>4 DEF Leaves, Recorded
  <1>5. ASSUME ValidateApm
        PROVE  /\ Leaves("apm-validation", "COMPLETED", TRUE)
               /\ Reached(journey', "APM_VALIDATED") /\ journey'.context = journey.context
               /\ \A s \in BatchOnly : Reached(journey', s) => Reached(journey, s)
               /\ \/ journey'.status = journey.status
                  \/ journey.status # "PROVISIONING_AGENT_IDENTITY"
                     /\ journey'.status # "PROVISIONING_AGENT_IDENTITY"
    <2>1. PICK k : k = IF journey.status = "CREATED"
                       THEN Moved(journey, "VALIDATING_APM", Agent) ELSE journey
      OBVIOUS
    <2>2. /\ k \in Journey /\ k.context = journey.context
          /\ \A s \in BatchOnly : Reached(k, s) => Reached(journey, s)
          /\ \/ k = journey
             \/ journey.status = "CREATED" /\ k.status = "VALIDATING_APM"
      BY <1>1, <2>1, MoveFacts DEF State, BatchOnly
    <2>3. /\ Reached(journey', "APM_VALIDATED")
          /\ journey' = IF k.status = "VALIDATING_APM"
                        THEN Moved(k, "APM_VALIDATED", Agent) ELSE k
      BY <1>5, <2>1 DEF ValidateApm
    <2>4. /\ journey'.context = k.context
          /\ \A s \in BatchOnly : Reached(journey', s) => Reached(k, s)
          /\ \/ journey' = k
             \/ k.status = "VALIDATING_APM" /\ journey'.status = "APM_VALIDATED"
      BY <2>2, <2>3, MoveFacts DEF State, BatchOnly
    <2>5. Leaves("apm-validation", "COMPLETED", TRUE)
      BY <1>4, <1>5 DEF ValidateApm
    <2> QED
      BY <2>2, <2>3, <2>4, <2>5
  <1>6. ASSUME SubmitAd
        PROVE  /\ Leaves("ad-provisioning", "WAITING", TRUE)
               /\ journey'.status = "PROVISIONING_AGENT_IDENTITY"
               /\ Reached(journey', "PROVISIONING_AGENT_IDENTITY")
               /\ journey'.context = journey.context
               /\ \A s \in BatchOnly : Reached(journey', s) => Reached(journey, s)
               /\ record["ad-provisioning"] = None
    <2>1. /\ CanMove(journey, "PROVISIONING_AGENT_IDENTITY")
          /\ journey' = MovedUnlessThere(journey, "PROVISIONING_AGENT_IDENTITY")
          /\ Leaves("ad-provisioning", "WAITING", TRUE) /\ record["ad-provisioning"] = None
      BY <1>4, <1>6 DEF SubmitAd
    <2> QED
      BY <1>1, <2>1, MovedUnlessThereFacts DEF BatchStates, BatchOnly
  <1>7. ASSUME PollAd
        PROVE  /\ journey'.context = journey.context
               /\ record["ad-provisioning"] # None
               /\ \/ /\ Leaves("ad-provisioning", "WAITING", TRUE)
                     /\ record["ad-provisioning"].status = "WAITING"
                     /\ UNCHANGED journey
                  \/ /\ Leaves("ad-provisioning", "COMPLETED", TRUE)
                     /\ journey'.status = "AGENT_IDENTITY_READY"
                     /\ Reached(journey', "AGENT_IDENTITY_READY")
                     /\ \A s \in BatchOnly : Reached(journey', s) => Reached(journey, s)
    <2>1. /\ record["ad-provisioning"] # None /\ record["ad-provisioning"].status = "WAITING"
          /\ record["ad-provisioning"].observations \in Nat
      BY <1>2, <1>7 DEF PollAd, Record, Operation
    <2>2. PICK n \in Nat : n = record["ad-provisioning"].observations + 1
      BY <2>1
    <2>3. CASE n <= PendingPolls
      <3>1. Recorded("ad-provisioning", "WAITING", TRUE, n) /\ UNCHANGED journey
        BY <1>7, <2>2, <2>3 DEF PollAd
      <3> QED
        BY <1>4, <2>1, <3>1
    <2>4. CASE ~(n <= PendingPolls)
      <3>1. /\ CanMove(journey, "AGENT_IDENTITY_READY")
            /\ journey' = MovedUnlessThere(journey, "AGENT_IDENTITY_READY")
            /\ Recorded("ad-provisioning", "COMPLETED", TRUE, n)
        BY <1>7, <2>2, <2>4 DEF PollAd
      <3>2. Leaves("ad-provisioning", "COMPLETED", TRUE)
        BY <1>4, <3>1
      <3>3. "AGENT_IDENTITY_READY" \in BatchStates \ BatchOnly
        BY DEF BatchStates, BatchOnly
      <3>4. /\ journey'.status = "AGENT_IDENTITY_READY" /\ journey'.context = journey.context
            /\ \A s : Reached(journey', s) <=>
                          Reached(journey, s) \/ s = "AGENT_IDENTITY_READY"
        BY <1>1, <3>1, <3>3, MovedUnlessThereFacts
      <3> QED
        BY <2>1, <3>2, <3>3, <3>4
    <2> QED
      BY <2>3, <2>4
  <1>8. ASSUME ValidateAppFactory
        PROVE  /\ journey'.context = journey.context
               /\ \E ok \in BOOLEAN :
                    /\ Leaves("app-factory-validation", "COMPLETED", ok)
                    /\ record["app-factory-validation"] = None
                    /\ ok => journey.context["inventory"] # None
                    /\ journey'.status \in BatchOnly
                    /\ journey.status # "PROVISIONING_AGENT_IDENTITY"
                    /\ \A s \in BatchOnly : Reached(journey', s) =>
                           \/ Reached(journey, s)
                           \/ s = IF ok THEN "READY_TO_PROVISION"
                                        ELSE "APP_FACTORY_VALIDATION_ERROR"
    <2>1. PICK ok \in BOOLEAN : ok = (journey.context["inventory"] # None)
      OBVIOUS
    <2>2. PICK k : k = MovedUnlessThere(journey, "PREPARING_APP_FACTORY")
      OBVIOUS
    <2>3. PICK to : to = IF ok THEN "READY_TO_PROVISION" ELSE "APP_FACTORY_VALIDATION_ERROR"
      OBVIOUS
    <2>4. /\ record["app-factory-validation"] = None
          /\ CanMove(journey, "PREPARING_APP_FACTORY")
          /\ journey' = Moved(k, to, Agent)
          /\ Recorded("app-factory-validation", "COMPLETED", ok, 0)
      BY <1>8, <2>1, <2>2, <2>3 DEF ValidateAppFactory
    <2>5. /\ k \in Journey /\ k.context = journey.context
          /\ \A s \in BatchOnly : Reached(k, s) => Reached(journey, s)
      BY <1>1, <2>2, <2>4, MovedUnlessThereFacts DEF BatchStates, BatchOnly
    <2>6. to \in State /\ to \in BatchOnly
      BY <2>3 DEF State, BatchOnly
    <2>7. /\ journey'.status = to /\ journey'.context = k.context
          /\ \A s : Reached(journey', s) <=> Reached(k, s) \/ s = to
      BY <2>4, <2>5, <2>6, MoveFacts
    <2>8. journey.status # "PROVISIONING_AGENT_IDENTITY"
      BY <2>4 DEF CanMove, Allowed, State
    <2>9. Leaves("app-factory-validation", "COMPLETED", ok)
      BY <1>4, <2>4
    <2> QED
      BY <2>1, <2>3, <2>4, <2>5, <2>6, <2>7, <2>8, <2>9
  <1> QED
    BY <1>1, <1>3, <1>5, <1>6, <1>7, <1>8 DEF BatchStep

LEMMA ResultsNext == LifecycleInv /\ ResultsMatchHistory /\ [Next]_vars => ResultsMatchHistory'
  <1> SUFFICES ASSUME LifecycleInv, ResultsMatchHistory, [Next]_vars
               PROVE  ResultsMatchHistory'
    OBVIOUS
  <1>1. \A s : Entered(s) => Entered(s)'
    BY NothingIsLost
  <1>2. journey # None /\ journey.context["inventory"] # None =>
            journey'.context["inventory"] # None
    BY NothingIsLost DEF Has, Section
  <1>3. \A ok \in BOOLEAN : Entered(IF ok THEN "READY_TO_PROVISION"
                                          ELSE "APP_FACTORY_VALIDATION_ERROR") => journey # None
    BY EnteredIs
  <1>4. ASSUME UNCHANGED record, \A s \in BatchOnly : Entered(s)' => Entered(s)
        PROVE  ResultsMatchHistory'
    <2>1. \A ok \in BOOLEAN :
              (IF ok THEN "READY_TO_PROVISION" ELSE "APP_FACTORY_VALIDATION_ERROR") \in BatchOnly
      BY DEF BatchOnly
    <2> QED
      BY <1>1, <1>2, <1>3, <1>4, <2>1 DEF ResultsMatchHistory
  <1>5. ASSUME NEW u \in User, (\E m \in Method[u] : Begin(u, m)) \/ Step(u) \/ Fail(u)
        PROVE  ResultsMatchHistory'
    BY <1>4, <1>5, UsersValidateNothing
  <1>6. ASSUME UNCHANGED vars PROVE ResultsMatchHistory'
    BY <1>4, <1>6, EnteredIs, EnteredNext DEF vars
  <1>7. ASSUME BatchStep PROVE ResultsMatchHistory'
    <2>1. journey # None /\ journey' # None /\ journey'.context = journey.context
      BY <1>7, ResultsOfOperations
    <2>2. record \in [Operation -> Record \cup {None}]
      BY DEF LifecycleInv, TypeOK
    <2>3. ASSUME NEW op \in Operation, NEW status \in {"WAITING", "COMPLETED"},
                 NEW ok \in BOOLEAN, Leaves(op, status, ok)
          PROVE  /\ \A p \in Operation \ {op} : record'[p] = record[p]
                 /\ record'[op] # None
                 /\ record'[op].status = status /\ record'[op].successful = ok
      <3>1. PICK n \in Nat : record' = [record EXCEPT ![op] =
                [status |-> status, successful |-> ok, observations |-> n]]
        BY <2>3 DEF Leaves
      <3>2. [status |-> status, successful |-> ok, observations |-> n] \in Record
        BY DEF Record
      <3> QED
        BY <2>2, <3>1, <3>2, AbsentAssumption
    <2>4. /\ "apm-validation" \in Operation /\ "ad-provisioning" \in Operation
          /\ "app-factory-validation" \in Operation
      BY DEF Operation
    <2>5. /\ \A s : Entered(s)' <=> Reached(journey', s)
          /\ \A s : Entered(s) <=> Reached(journey, s)
      BY <2>1, EnteredIs, EnteredNext
    <2>6. ASSUME \A s \in BatchOnly : Reached(journey', s) => Reached(journey, s),
                 record'["app-factory-validation"] = record["app-factory-validation"]
          PROVE  \A ok \in BOOLEAN :
                     (Entered(IF ok THEN "READY_TO_PROVISION"
                                    ELSE "APP_FACTORY_VALIDATION_ERROR"))' =>
                         /\ record'["app-factory-validation"] # None
                         /\ record'["app-factory-validation"].successful = ok
                         /\ ok => journey'.context["inventory"] # None
      <3> TAKE ok \in BOOLEAN
      <3>1. PICK s \in BatchOnly : s = IF ok THEN "READY_TO_PROVISION"
                                             ELSE "APP_FACTORY_VALIDATION_ERROR"
        BY DEF BatchOnly
      <3>2. Entered(s)' => Entered(s)
        BY <2>6, <2>1, EnteredIs, EnteredNext
      <3> QED
        BY <2>1, <2>6, <3>1, <3>2 DEF ResultsMatchHistory
    <2>7. CASE /\ Leaves("apm-validation", "COMPLETED", TRUE)
               /\ Reached(journey', "APM_VALIDATED")
               /\ \A s \in BatchOnly : Reached(journey', s) => Reached(journey, s)
      <3>0. \A p \in Operation \ {"apm-validation"} : record'[p] = record[p]
        BY <2>3, <2>4, <2>7
      <3>1. /\ record'["app-factory-validation"] = record["app-factory-validation"]
            /\ record'["ad-provisioning"] = record["ad-provisioning"]
        BY <2>4, <3>0
      <3> QED
        BY <1>1, <2>5, <2>6, <2>7, <3>1 DEF ResultsMatchHistory
    <2>8. CASE /\ \/ Leaves("ad-provisioning", "WAITING", TRUE)
                  \/ /\ Leaves("ad-provisioning", "COMPLETED", TRUE)
                     /\ Entered("AGENT_IDENTITY_READY")'
               /\ Entered("PROVISIONING_AGENT_IDENTITY")'
               /\ \A s \in BatchOnly : Reached(journey', s) => Reached(journey, s)
      <3>1. /\ record'["app-factory-validation"] = record["app-factory-validation"]
            /\ record'["apm-validation"] = record["apm-validation"]
            /\ record'["ad-provisioning"].status = "COMPLETED" =>
                   Entered("AGENT_IDENTITY_READY")'
        BY <2>3, <2>4, <2>8
      <3> QED
        BY <1>1, <2>6, <2>8, <3>1 DEF ResultsMatchHistory
    <2>9. ASSUME NEW ok \in BOOLEAN,
                 Leaves("app-factory-validation", "COMPLETED", ok),
                 record["app-factory-validation"] = None,
                 ok => journey.context["inventory"] # None,
                 \A s \in BatchOnly : Reached(journey', s) =>
                     \/ Reached(journey, s)
                     \/ s = IF ok THEN "READY_TO_PROVISION" ELSE "APP_FACTORY_VALIDATION_ERROR"
          PROVE  ResultsMatchHistory'
      <3>1. /\ record'["ad-provisioning"] = record["ad-provisioning"]
            /\ record'["apm-validation"] = record["apm-validation"]
            /\ record'["app-factory-validation"] # None
            /\ record'["app-factory-validation"].successful = ok
        BY <2>3, <2>4, <2>9
      <3>2. \A s \in BatchOnly : ~Entered(s)
        BY <2>9 DEF ResultsMatchHistory, BatchOnly
      <3>3. \A s \in BatchOnly : Entered(s)' =>
                s = IF ok THEN "READY_TO_PROVISION" ELSE "APP_FACTORY_VALIDATION_ERROR"
        BY <2>5, <2>9, <3>2
      <3>4. ASSUME NEW oth \in BOOLEAN,
                   (Entered(IF oth THEN "READY_TO_PROVISION"
                                   ELSE "APP_FACTORY_VALIDATION_ERROR"))'
            PROVE  oth = ok
        BY <3>3, <3>4 DEF BatchOnly
      <3> QED
        BY <1>1, <2>1, <2>9, <3>1, <3>4 DEF ResultsMatchHistory
    <2>10. UNCHANGED journey => \A s : Entered(s) => Entered(s)'
      BY <1>1
    <2>11. record["ad-provisioning"] # None => Entered("PROVISIONING_AGENT_IDENTITY")'
      BY <1>1 DEF ResultsMatchHistory
    <2> QED
      BY <1>7, <2>5, <2>7, <2>8, <2>9, <2>11, ResultsOfOperations
  <1> QED
    BY <1>5, <1>6, <1>7 DEF Next

\* A batch result and the transition that it stands for commit together: what
\* is recorded is in the history, and no user enters a validation's outcome.
THEOREM ResultsAreInHistory == Spec => []ResultsMatchHistory
  <1>1. Init => ResultsMatchHistory
    BY DEF Init, ResultsMatchHistory, Entered, History, Operation
  <1> QED
    BY <1>1, LifecycleInit, LifecycleNext, ResultsNext, PTL DEF Spec

LEMMA PendingNext ==
    ASSUME ExecutionIsResumed
    PROVE  LifecycleInv /\ ExecutionIsGuarded /\ ResultsMatchHistory
               /\ PendingRequestCanComplete /\ [Next]_vars => PendingRequestCanComplete'
  <1> SUFFICES ASSUME LifecycleInv, ExecutionIsGuarded, ResultsMatchHistory,
                      PendingRequestCanComplete, [Next]_vars
               PROVE  PendingRequestCanComplete'
    OBVIOUS
  <1>1. Entered("APPROVED") => Entered("APPROVED")'
    BY NothingIsLost
  <1>2. record["ad-provisioning"] # None => journey # None
    BY EnteredIs DEF ResultsMatchHistory
  <1> DEFINE waits == record["ad-provisioning"].status = "WAITING"
             there(j) == j.status = "PROVISIONING_AGENT_IDENTITY"
  <1>3. ASSUME UNCHANGED record,
               record["ad-provisioning"] # None /\ ~Entered("APPROVED")' =>
                   (there(journey') <=> there(journey))
        PROVE  PendingRequestCanComplete'
    BY <1>1, <1>3 DEF PendingRequestCanComplete
  <1>4. ASSUME NEW u \in User, (\E m \in Method[u] : Begin(u, m)) \/ Step(u) \/ Fail(u)
        PROVE  PendingRequestCanComplete'
    <2>1. UNCHANGED record
      BY <1>4, UserChanges DEF UserChange
    <2>2. CASE UNCHANGED journey
      BY <1>3, <2>1, <2>2
    <2>3. CASE JourneyCreated(u)
      BY <1>2, <1>3, <2>1, <2>3 DEF JourneyCreated
    <2>4. CASE JourneyInformed(u)
      BY <1>3, <2>1, <2>4 DEF JourneyInformed
    <2>5. ASSUME NEW to \in Allowed[journey.status], NEW actor \in User \cup {Agent},
                 JourneyMoved(u, to, actor)
          PROVE  ~Entered("APPROVED")' => (there(journey') <=> there(journey))
      <3> SUFFICES ASSUME ~Entered("APPROVED")' PROVE there(journey') <=> there(journey)
        OBVIOUS
      <3>1. /\ journey # None /\ journey \in Journey /\ Sound(journey)
            /\ to \in State /\ to \notin Never
            /\ to = NextStep(u) \/ to = "APPROVED"
            /\ NextStep(u) \in StepsOf(caller[u].todo)
            /\ journey' = Moved(journey, to, actor) /\ journey' # None
        BY <2>5 DEF JourneyMoved
      <3>2. /\ journey'.status = to
            /\ \A s : Reached(journey', s) <=> Reached(journey, s) \/ s = to
        BY <3>1, MoveFacts
      <3>3. to # "APPROVED"
        BY <3>1, <3>2, EnteredNext
      <3>4. to \notin Execution
        BY <1>1, <3>1, <3>3, ResumedIsBacked DEF Backed
      <3>5. journey.status \in State /\ journey.status \notin Never
        BY <3>1 DEF Journey, Sound
      <3>6. there(journey) => to = "AGENT_IDENTITY_READY"
        BY <3>1, <3>5, TransitionMap
      <3> QED
        BY <3>2, <3>4, <3>6 DEF Execution
    <2> QED
      BY <1>3, <1>4, <2>1, <2>2, <2>3, <2>4, <2>5, JourneyChanges
  <1>5. ASSUME UNCHANGED vars PROVE PendingRequestCanComplete'
    BY <1>3, <1>5 DEF vars
  <1>6. ASSUME BatchStep PROVE PendingRequestCanComplete'
    <2>1. record \in [Operation -> Record \cup {None}]
      BY DEF LifecycleInv, TypeOK
    <2>2. ASSUME NEW op \in Operation, NEW status \in {"WAITING", "COMPLETED"},
                 NEW ok \in BOOLEAN, Leaves(op, status, ok)
          PROVE  /\ op # "ad-provisioning" =>
                        record'["ad-provisioning"] = record["ad-provisioning"]
                 /\ op = "ad-provisioning" => record'["ad-provisioning"].status = status
      BY <2>1, <2>2 DEF Leaves, Operation
    <2>3. /\ "apm-validation" \in Operation /\ "ad-provisioning" \in Operation
          /\ "app-factory-validation" \in Operation
      BY DEF Operation
    <2>4. CASE /\ Leaves("apm-validation", "COMPLETED", TRUE)
               /\ \/ journey'.status = journey.status
                  \/ journey.status # "PROVISIONING_AGENT_IDENTITY"
                     /\ journey'.status # "PROVISIONING_AGENT_IDENTITY"
      <3>1. record'["ad-provisioning"] = record["ad-provisioning"]
        BY <2>2, <2>3, <2>4
      <3>2. there(journey') <=> there(journey)
        BY <2>4
      <3> QED
        BY <1>1, <3>1, <3>2 DEF PendingRequestCanComplete
    <2>5. CASE Leaves("ad-provisioning", "WAITING", TRUE) /\ there(journey')
      BY <2>2, <2>3, <2>5 DEF PendingRequestCanComplete
    <2>6. CASE /\ Leaves("ad-provisioning", "WAITING", TRUE)
               /\ record["ad-provisioning"] # None /\ waits /\ UNCHANGED journey
      BY <1>1, <2>2, <2>3, <2>6 DEF PendingRequestCanComplete
    <2>7. CASE /\ Leaves("ad-provisioning", "COMPLETED", TRUE)
               /\ journey'.status = "AGENT_IDENTITY_READY"
      BY <2>2, <2>3, <2>7 DEF PendingRequestCanComplete
    <2>8. ASSUME NEW ok \in BOOLEAN, Leaves("app-factory-validation", "COMPLETED", ok),
                 journey'.status \in BatchOnly, ~there(journey)
          PROVE  PendingRequestCanComplete'
      BY <1>1, <2>2, <2>3, <2>8 DEF PendingRequestCanComplete, BatchOnly
    <2> QED
      BY <1>6, <2>4, <2>5, <2>6, <2>7, <2>8, ResultsOfOperations
  <1> QED
    BY <1>4, <1>5, <1>6 DEF Next

\* The request was submitted, and nobody has observed a decision.
RequestWaits ==
    /\ record["ad-provisioning"] # None
    /\ record["ad-provisioning"].status = "WAITING"
RequestIsInStep == journey.status = "PROVISIONING_AGENT_IDENTITY"

\* Whoever takes the journey out of step with a request that goes on waiting
\* executes an approved journey, or calls approve().
OnlyExecutionGetsAhead ==
    RequestWaits /\ RequestIsInStep /\ RequestWaits' /\ ~RequestIsInStep' =>
        \E u \in User : Move(u) /\ (Entered("APPROVED") \/ caller[u].method = "approve")
RequestsAreLeftAlone == [][OnlyExecutionGetsAhead]_vars

LEMMA RequestLeftAlone ==
    LifecycleInv /\ ExecutionIsGuarded /\ ResultsMatchHistory /\ [Next]_vars =>
        [OnlyExecutionGetsAhead]_vars
  <1> SUFFICES ASSUME LifecycleInv, ExecutionIsGuarded, ResultsMatchHistory, Next,
                      RequestWaits, RequestIsInStep, RequestWaits', ~RequestIsInStep'
               PROVE  \E u \in User :
                          Move(u) /\ (Entered("APPROVED") \/ caller[u].method = "approve")
    BY DEF OnlyExecutionGetsAhead
  <1>1. ASSUME NEW u \in User, (\E m \in Method[u] : Begin(u, m)) \/ Step(u) \/ Fail(u)
        PROVE  Move(u) /\ (Entered("APPROVED") \/ caller[u].method = "approve")
    <2>1. journey.status = "PROVISIONING_AGENT_IDENTITY"
          /\ journey'.status # "PROVISIONING_AGENT_IDENTITY"
      BY DEF RequestIsInStep
    <2>2. journey # None
      BY EnteredIs DEF RequestWaits, ResultsMatchHistory
    <2>3. PICK to \in Allowed[journey.status], actor \in User \cup {Agent} :
              JourneyMoved(u, to, actor)
      BY <1>1, <2>1, <2>2, JourneyChanges DEF JourneyCreated, JourneyInformed
    <2>4. /\ journey \in Journey /\ Sound(journey) /\ to \in State /\ to \notin Never
          /\ to = NextStep(u) \/ to = "APPROVED"
          /\ NextStep(u) \in StepsOf(caller[u].todo)
      BY <2>3 DEF JourneyMoved
    <2>5. to = "AGENT_IDENTITY_READY"
      BY <2>1, <2>4, TransitionMap DEF Journey, Sound
    <2>6. Unguarded(caller[u]) \/ Entered("APPROVED")
      BY <2>4, <2>5 DEF ExecutionIsGuarded, Backed, Execution
    <2> QED
      BY <2>3, <2>6 DEF JourneyMoved, Unguarded
  <1>2. ASSUME BatchStep PROVE FALSE
    <2>1. record \in [Operation -> Record \cup {None}]
      BY DEF LifecycleInv, TypeOK
    <2>2. ASSUME Leaves("ad-provisioning", "COMPLETED", TRUE) PROVE FALSE
      BY <2>1, <2>2 DEF Leaves, Operation, RequestWaits
    <2> QED
      BY <1>2, <2>2, ResultsOfOperations DEF RequestIsInStep
  <1> QED
    BY <1>1, <1>2 DEF Next

\* What becomes of a request that the provider has not decided
\* (business_operations.py:130).  No step gets ahead of it but one of an
\* approved journey's execution or of approve(), whatever else users and batch
\* jobs do.  So where approve() is not called beside batch jobs, every poll can
\* record its result until the journey is approved; from then on it cannot,
\* if resume_after_approval takes the journey further than the request.
THEOREM PendingCompletes ==
    Spec => RequestsAreLeftAlone /\ (ExecutionIsResumed => []PendingRequestCanComplete)
  <1>1. Spec => []LifecycleInv /\ []ExecutionIsGuarded /\ []ResultsMatchHistory
    BY LifecycleInit, LifecycleNext, GuardedInit, ExecutionStaysGuarded, ResultsAreInHistory,
       PTL DEF Spec
  <1>2. Spec => RequestsAreLeftAlone
    BY <1>1, RequestLeftAlone, PTL DEF Spec, RequestsAreLeftAlone
  <1>3. ASSUME ExecutionIsResumed PROVE Spec => []PendingRequestCanComplete
    <2>1. Init => PendingRequestCanComplete
      BY DEF Init, PendingRequestCanComplete, Operation
    <2>2. LifecycleInv /\ ExecutionIsGuarded /\ ResultsMatchHistory
              /\ PendingRequestCanComplete /\ [Next]_vars => PendingRequestCanComplete'
      BY <1>3, PendingNext
    <2> QED
      BY <1>1, <2>1, <2>2, PTL DEF Spec
  <1> QED
    BY <1>2, <1>3

-----------------------------------------------------------------------------
(* Journeys and calls are finite                                           *)

\* How far a state is on the longest way that ALLOWED_TRANSITIONS leaves.
Rank == [CREATED |-> 0, VALIDATING_APM |-> 1, APM_VALIDATED |-> 2,
         DISCOVERING_CLOUD_SERVICES |-> 3, COLLECTING_ASSET_INVENTORY |-> 4,
         ASSET_INVENTORY_COMPLETE |-> 5, GENERATING_PLAN |-> 6, WAITING_FOR_APPROVAL |-> 7,
         APPROVED |-> 8, REJECTED |-> 8, PROVISIONING_AGENT_IDENTITY |-> 9,
         AGENT_IDENTITY_READY |-> 10, PREPARING_APP_FACTORY |-> 11,
         APP_FACTORY_VALIDATION_ERROR |-> 12, APP_FACTORY_READY |-> 14,
         READY_TO_PROVISION |-> 14, SUBMITTING_CLOUD_BUILD |-> 15, CLOUD_BUILD_RUNNING |-> 16,
         VALIDATING_DEPLOYMENT |-> 17, COMPLETED |-> 18, FAILED |-> 18, RETRYING |-> 18]

\* The map has one circle: a validation that failed is prepared again.  It is
\* gone round once, because a batch validation records its result.
Refused(j) == Reached(j, "APP_FACTORY_VALIDATION_ERROR")
Height(j) ==
    Rank[j.status] + (IF j.status = "PREPARING_APP_FACTORY" /\ Refused(j) THEN 2 ELSE 0)
Short(j) == Len(j.history) <= Height(j) + 1

HistoryIsShort == journey # None => Short(journey)

JourneysEnd == Len(History) <= 19

LEMMA RanksCount == \A s \in State : Rank[s] \in 0 .. 18
  BY DEF State, Rank

LEMMA HeightsCount ==
    ASSUME NEW j, j.status \in State
    PROVE  Height(j) \in 0 .. 18
  <1> PICK rank, refused : rank = Rank[j.status] /\ refused = Refused(j)
    OBVIOUS
  <1>1. rank \in 0 .. 18 /\ (j.status = "PREPARING_APP_FACTORY" => rank = 11)
    BY RanksCount DEF Rank
  <1>2. CASE j.status = "PREPARING_APP_FACTORY" /\ refused
    <2>1. Height(j) = rank + 2
      BY <1>2 DEF Height
    <2> QED
      BY <1>1, <1>2, <2>1
  <1>3. CASE ~(j.status = "PREPARING_APP_FACTORY" /\ refused)
    <2>1. Height(j) = rank + 0
      BY <1>3 DEF Height
    <2> QED
      BY <1>1, <2>1
  <1> QED
    BY <1>2, <1>3

\* Every transition goes up, unless it repeats a failed validation.
LEMMA TransitionsGoUp ==
    ASSUME NEW s \in State, NEW to \in Allowed[s], to \notin Never, s \notin Never
    PROVE  /\ to \in State
           /\ s # "APP_FACTORY_VALIDATION_ERROR" => Rank[to] > Rank[s]
           /\ s = "APP_FACTORY_VALIDATION_ERROR" => to = "PREPARING_APP_FACTORY"
           /\ s = "PREPARING_APP_FACTORY" /\ to # "APP_FACTORY_VALIDATION_ERROR" => Rank[to] = 14
  <1>1. to \in State
    BY TransitionMap
  <1>2. s # "APP_FACTORY_VALIDATION_ERROR" => Rank[to] > Rank[s]
    BY SMTT(60) DEF State, Allowed, Never, Rank
  <1>3. s = "APP_FACTORY_VALIDATION_ERROR" => to = "PREPARING_APP_FACTORY"
    BY SMTT(60) DEF State, Allowed
  <1>4. s = "PREPARING_APP_FACTORY" /\ to # "APP_FACTORY_VALIDATION_ERROR" => Rank[to] = 14
    BY SMTT(60) DEF State, Allowed, Never, Rank
  <1> QED
    BY <1>1, <1>2, <1>3, <1>4

LEMMA MoveStaysShort ==
    ASSUME NEW j \in Journey, Sound(j), Short(j), NEW to \in Allowed[j.status],
           to \notin Never, NEW actor \in User \cup {Agent},
           to = "APP_FACTORY_VALIDATION_ERROR" => ~Refused(j)
    PROVE  Short(Moved(j, to, actor))
  <1> PICK k : k = Moved(j, to, actor)
    OBVIOUS
  <1>1. j.status \in State /\ j.status \notin Never
    BY DEF Journey, Sound
  <1>2. to \in State
    BY <1>1, TransitionsGoUp
  <1>3. /\ k.status = to /\ Len(j.history) \in Nat /\ Len(k.history) = Len(j.history) + 1
        /\ Refused(k) <=> Refused(j) \/ to = "APP_FACTORY_VALIDATION_ERROR"
    BY <1>2, MoveFacts DEF Refused
  <1>4. Rank[j.status] \in 0 .. 18 /\ Rank[to] \in 0 .. 18
    BY <1>1, <1>2, RanksCount
  <1>5. Rank["PREPARING_APP_FACTORY"] = 11 /\ Rank["APP_FACTORY_VALIDATION_ERROR"] = 12
    BY DEF Rank
  <1>6. Height(k) >= Height(j) + 1
    <2>1. CASE j.status = "APP_FACTORY_VALIDATION_ERROR"
      <3>1. j.history \in Seq(Event)
        BY DEF Journey
      <3>2. Refused(j)
        <4>1. Len(j.history) \in DOMAIN j.history
          BY <3>1 DEF Sound
        <4> QED
          BY <2>1, <4>1 DEF Sound, Refused, Reached
      <3>3. to = "PREPARING_APP_FACTORY"
        BY <1>1, <2>1, TransitionsGoUp
      <3> QED
        BY <1>3, <1>5, <2>1, <3>2, <3>3 DEF Height
    <2>2. CASE j.status = "PREPARING_APP_FACTORY"
      <3>1. to # "APP_FACTORY_VALIDATION_ERROR" => Rank[to] = 14
        BY <1>1, <2>2, TransitionsGoUp
      <3> QED
        BY <1>3, <1>5, <2>2, <3>1 DEF Height
    <2>3. CASE j.status \notin {"APP_FACTORY_VALIDATION_ERROR", "PREPARING_APP_FACTORY"}
      <3>1. Rank[to] > Rank[j.status]
        BY <1>1, <2>3, TransitionsGoUp
      <3>2. Height(j) = Rank[j.status] + 0
        BY <2>3 DEF Height
      <3>3. Height(k) = Rank[to] + 0 \/ Height(k) = Rank[to] + 2
        BY <1>3 DEF Height
      <3> QED
        BY <1>4, <3>1, <3>2, <3>3
    <2> QED
      BY <2>1, <2>2, <2>3
  <1>7. Height(j) \in 0 .. 18 /\ Height(k) \in 0 .. 18
    BY <1>1, <1>2, <1>3, HeightsCount
  <1>8. Short(k)
    <2> PICK n, m, h, l : /\ n = Len(j.history) /\ m = Len(k.history)
                          /\ h = Height(j) /\ l = Height(k)
      OBVIOUS
    <2>1. n \in Nat /\ m = n + 1 /\ h \in 0 .. 18 /\ l \in 0 .. 18 /\ l >= h + 1
      BY <1>3, <1>6, <1>7
    <2>2. n <= h + 1
      BY DEF Short
    <2>3. m <= l + 1
      BY <2>1, <2>2
    <2> QED
      BY <2>3 DEF Short
  <1> QED
    BY <1>8

\* A batch operation that has nothing to do leaves the history alone.
LEMMA MovedUnlessThereStaysShort ==
    ASSUME NEW j \in Journey, Sound(j), Short(j), NEW to \in BatchStates, CanMove(j, to),
           to # "APP_FACTORY_VALIDATION_ERROR"
    PROVE  Short(MovedUnlessThere(j, to))
  <1>1. to \notin Never /\ Agent \in User \cup {Agent}
    BY DEF BatchStates, BatchOnly, Never
  <1> QED
    BY <1>1, MoveStaysShort DEF CanMove, MovedUnlessThere

LEMMA BatchStaysShort ==
    ASSUME LifecycleInv, ResultsMatchHistory, HistoryIsShort, BatchStep
    PROVE  HistoryIsShort'
  <1>1. Batch /\ journey # None /\ journey \in Journey /\ Sound(journey) /\ Short(journey)
    BY BatchMoves DEF HistoryIsShort
  <1>2. Agent \in User \cup {Agent}
    OBVIOUS
  <1>3. /\ "VALIDATING_APM" \in BatchStates /\ "APM_VALIDATED" \in BatchStates
        /\ "PROVISIONING_AGENT_IDENTITY" \in BatchStates /\ "AGENT_IDENTITY_READY" \in BatchStates
        /\ "PREPARING_APP_FACTORY" \in BatchStates
    BY DEF BatchStates
  <1>4. CASE ValidateApm
    <2> PICK started : started = IF journey.status = "CREATED"
                                 THEN Moved(journey, "VALIDATING_APM", Agent) ELSE journey
      OBVIOUS
    <2>1. "VALIDATING_APM" \in Allowed["CREATED"] /\ "APM_VALIDATED" \in Allowed["VALIDATING_APM"]
      BY DEF Allowed, State
    <2>2. {"VALIDATING_APM", "APM_VALIDATED"} \cap (Never \cup BatchOnly) = {}
      BY DEF Never, BatchOnly
    <2>3. started \in Journey /\ Sound(started) /\ Short(started)
      <3>1. CASE journey.status = "CREATED"
        <4>1. BatchMove(journey, started)
          BY <1>3, <2>1, <3>1 DEF BatchMove
        <4>2. Short(started)
          BY <1>1, <1>2, <2>1, <2>2, <3>1, MoveStaysShort DEF BatchOnly
        <4> QED
          BY <1>1, <4>1, <4>2, BatchMoveFacts
      <3> QED
        BY <1>1, <3>1
    <2>4. journey' = IF started.status = "VALIDATING_APM"
                     THEN Moved(started, "APM_VALIDATED", Agent) ELSE started
      BY <1>4 DEF ValidateApm
    <2>5. started.status = "VALIDATING_APM" => Short(Moved(started, "APM_VALIDATED", Agent))
      BY <1>2, <2>1, <2>2, <2>3, MoveStaysShort DEF BatchOnly
    <2> QED
      BY <2>3, <2>4, <2>5 DEF HistoryIsShort
  <1>5. CASE SubmitAd
    BY <1>1, <1>3, <1>5, MovedUnlessThereStaysShort DEF SubmitAd, HistoryIsShort
  <1>6. CASE PollAd
    <2>1. \/ UNCHANGED journey
          \/ /\ CanMove(journey, "AGENT_IDENTITY_READY")
             /\ journey' = MovedUnlessThere(journey, "AGENT_IDENTITY_READY")
      BY <1>6 DEF PollAd
    <2> QED
      BY <1>1, <1>3, <2>1, MovedUnlessThereStaysShort DEF HistoryIsShort
  <1>7. CASE ValidateAppFactory
    <2> PICK prepared : prepared = MovedUnlessThere(journey, "PREPARING_APP_FACTORY")
      OBVIOUS
    <2>1. CanMove(journey, "PREPARING_APP_FACTORY") /\ record["app-factory-validation"] = None
      BY <1>7 DEF ValidateAppFactory
    <2>2. PICK to \in BatchOnly : journey' = Moved(prepared, to, Agent)
      BY <1>7 DEF ValidateAppFactory, BatchOnly
    <2>3. ~Refused(journey)
      <3>1. (IF FALSE THEN "READY_TO_PROVISION" ELSE "APP_FACTORY_VALIDATION_ERROR")
                = "APP_FACTORY_VALIDATION_ERROR" /\ FALSE \in BOOLEAN
        OBVIOUS
      <3>2. ~Entered("APP_FACTORY_VALIDATION_ERROR")
        BY <2>1, <3>1 DEF ResultsMatchHistory
      <3> QED
        BY <1>1, <3>2, EnteredIs DEF Refused
    <2>4. /\ prepared \in Journey /\ Sound(prepared)
          /\ prepared.status = "PREPARING_APP_FACTORY" /\ ~Refused(prepared)
      BY <1>1, <1>3, <2>1, <2>3, MovedUnlessThereFacts DEF Refused
    <2>5. Short(prepared)
      BY <1>1, <1>3, <2>1, MovedUnlessThereStaysShort
    <2>6. to \in Allowed[prepared.status] /\ to \notin Never
      BY <2>4 DEF Allowed, State, BatchOnly, Never
    <2>7. Short(Moved(prepared, to, Agent))
      BY <1>2, <2>4, <2>5, <2>6, MoveStaysShort
    <2> QED
      BY <2>2, <2>7 DEF HistoryIsShort
  <1> QED
    BY <1>4, <1>5, <1>6, <1>7 DEF BatchStep

LEMMA UsersStayShort ==
    ASSUME LifecycleInv, HistoryIsShort, NEW u \in User,
           (\E m \in Method[u] : Begin(u, m)) \/ Step(u) \/ Fail(u)
    PROVE  HistoryIsShort'
  <1>1. CASE UNCHANGED journey
    BY <1>1 DEF HistoryIsShort
  <1>2. CASE JourneyCreated(u)
    <2>1. Created(u).status = "CREATED" /\ Len(Created(u).history) = 1
      BY DEF Created
    <2>2. Rank["CREATED"] = 0
      BY DEF Rank
    <2> QED
      BY <1>2, <2>1, <2>2 DEF JourneyCreated, HistoryIsShort, Short, Height
  <1>3. CASE JourneyInformed(u)
    BY <1>3 DEF JourneyInformed, HistoryIsShort, Short, Height, Refused, Reached
  <1>4. ASSUME NEW to \in Allowed[journey.status], NEW actor \in User \cup {Agent},
               JourneyMoved(u, to, actor)
        PROVE  HistoryIsShort'
    BY <1>4, MoveStaysShort DEF JourneyMoved, HistoryIsShort, BatchOnly
  <1> QED
    BY <1>1, <1>2, <1>3, <1>4, JourneyChanges

LEMMA ShortNext ==
    LifecycleInv /\ ResultsMatchHistory /\ HistoryIsShort /\ [Next]_vars => HistoryIsShort'
  <1>1. UNCHANGED vars => (HistoryIsShort => HistoryIsShort')
    BY DEF vars, HistoryIsShort
  <1> QED
    BY <1>1, BatchStaysShort, UsersStayShort DEF Next

LEMMA ShortIsBounded ==
    ASSUME NEW j \in Journey, Short(j)
    PROVE  Len(j.history) \in 0 .. 19
  <1>1. j.history \in Seq(Event) /\ j.status \in State
    BY DEF Journey
  <1>2. Height(j) \in 0 .. 18
    BY <1>1, HeightsCount
  <1>3. Len(j.history) \in Nat
    BY <1>1
  <1>4. Len(j.history) <= Height(j) + 1
    BY DEF Short
  <1>5. \A n \in Nat, h \in 0 .. 18 : n <= h + 1 => n \in 0 .. 19
    OBVIOUS
  <1> QED
    BY <1>2, <1>3, <1>4, <1>5

LEMMA ShortJourneysEnd == LifecycleInv /\ HistoryIsShort => Len(History) \in 0 .. 19
  <1> SUFFICES ASSUME LifecycleInv, HistoryIsShort PROVE Len(History) \in 0 .. 19
    OBVIOUS
  <1>1. CASE journey = None
    <2>1. History = <<>>
      BY <1>1 DEF History
    <2> QED
      BY <2>1
  <1>2. CASE journey # None
    <2>1. Len(journey.history) \in 0 .. 19
      BY <1>2, ShortIsBounded DEF LifecycleInv, TypeOK, HistoryIsShort
    <2>2. History = journey.history
      BY <1>2 DEF History
    <2> QED
      BY <2>1, <2>2
  <1> QED
    BY <1>1, <1>2

LEMMA HistoryGrows ==
    ASSUME LifecycleInv, ResultsMatchHistory, HistoryIsShort, [Next]_vars
    PROVE  /\ Len(History) \in 0 .. 19 /\ Len(History') \in 0 .. 19
           /\ Len(History') >= Len(History)
  <1>1. Len(History) \in 0 .. 19
    BY ShortJourneysEnd
  <1>2. journey' \in Journey \cup {None} /\ (journey' # None => Short(journey'))
    BY LifecycleNext, ShortNext DEF LifecycleInv, TypeOK, HistoryIsShort
  <1>3. Len(History') \in 0 .. 19
    <2>1. CASE journey' = None
      <3>1. History' = <<>>
        BY <2>1 DEF History
      <3> QED
        BY <3>1
    <2>2. CASE journey' # None
      <3>1. Len(journey'.history) \in 0 .. 19
        BY <1>2, <2>2, ShortIsBounded
      <3>2. History' = journey'.history
        BY <2>2 DEF History
      <3> QED
        BY <3>1, <3>2
    <2> QED
      BY <2>1, <2>2
  <1> DEFINE Grows == journey # None => journey' # None
                                        /\ Len(journey'.history) >= Len(journey.history)
  <1>4. ASSUME journey # None PROVE Len(journey.history) \in Nat
    BY <1>4 DEF LifecycleInv, TypeOK, Journey
  <1>5. UNCHANGED journey => Grows
    BY <1>4
  <1>6. ASSUME NEW u \in User, (\E m \in Method[u] : Begin(u, m)) \/ Step(u) \/ Fail(u)
        PROVE  Grows
    <2>1. CASE JourneyCreated(u)
      BY <2>1 DEF JourneyCreated
    <2>2. CASE JourneyInformed(u)
      BY <1>4, <2>2 DEF JourneyInformed
    <2>3. ASSUME NEW to \in Allowed[journey.status], NEW actor \in User \cup {Agent},
                 JourneyMoved(u, to, actor)
          PROVE  Grows
      BY <2>3, MoveFacts DEF JourneyMoved
    <2> QED
      BY <1>5, <1>6, <2>1, <2>2, <2>3, JourneyChanges
  <1>7. ASSUME BatchStep PROVE Grows
    <2>1. ASSUME NEW j \in Journey, NEW k, BatchMove(j, k)
          PROVE  Len(j.history) \in Nat /\ Len(k.history) = Len(j.history) + 1
      <3>1. PICK to \in BatchStates : k = Moved(j, to, Agent)
        BY <2>1 DEF BatchMove
      <3>2. to \in State /\ Agent \in User \cup {Agent}
        BY DEF BatchStates, BatchOnly, State
      <3> QED
        BY <3>1, <3>2, MoveFacts
    <2>2. PICK k \in Journey : /\ k = journey \/ BatchMove(journey, k)
                               /\ journey' = k \/ BatchMove(k, journey')
      BY <1>7, BatchMoves
    <2>3. journey \in Journey /\ journey # None /\ journey' \in Journey
      BY <1>7, BatchMoves
    <2>4. Len(journey.history) \in Nat /\ Len(k.history) >= Len(journey.history)
          /\ Len(k.history) \in Nat
      BY <1>4, <2>1, <2>2, <2>3
    <2>5. Len(journey'.history) >= Len(k.history) /\ Len(journey'.history) \in Nat
      BY <2>1, <2>2, <2>3, <2>4
    <2> QED
      BY <2>3, <2>4, <2>5, AbsentAssumption
  <1>8. Grows
    BY <1>5, <1>6, <1>7 DEF Next, vars
  <1>9. Len(History') >= Len(History)
    <2>1. CASE journey = None
      <3>1. History = <<>>
        BY <2>1 DEF History
      <3> QED
        BY <1>3, <3>1
    <2>2. CASE journey # None
      BY <1>8, <2>2 DEF History
    <2> QED
      BY <2>1, <2>2
  <1> QED
    BY <1>1, <1>3, <1>9

\* How far a call is from its end, if it is the only one: the steps on its list,
\* what the first of them may put there instead, and its polls.  A transition
\* counts for more, as what follows it may be a look that makes a new list.
Weight(step) == CASE step = "look" -> 5
                  [] step \in Section \cup {"find", "go"} -> 3
                  [] OTHER -> 0
Burden(todo) == IF todo = <<>> THEN 0 ELSE Len(todo) + Weight(Head(todo))
StepsLeft(c, n) ==
    IF c.method = None THEN 0 ELSE 1 + 5 * (19 - n) + c.polls + Burden(c.todo)
Left(u) == StepsLeft(caller[u], Len(History))

\* No call takes more steps than these.
CallsAreShort == \A u \in User : Left(u) <= MaxPolls + 102

\* Nobody who has begun is kept waiting, or set back by others.
CallsGoForward ==
    [][\A u \in User :
           /\ Step(u) \/ Fail(u) => Left(u)' < Left(u)
           /\ \/ caller[u] = Idle
              \/ Left(u)' < Left(u)
              \/ caller'[u] = caller[u] /\ Left(u)' <= Left(u)]_vars

\* A call under way has a next step that the journey lets it take, be it that
\* it is refused.
CanStep(u) ==
    \/ ~Working(u)
    \/ NextStep(u) \in {"find", "create"}
    \/ /\ journey # None
       /\ NextStep(u) \in State \cup Section \cup {"approve anyway", "go", "observe", "look"}
       /\ NextStep(u) = "look" => caller[u].method \in Looking
       /\ NextStep(u) = "go" => caller[u].method \in {"approve", "resume_after_approval"}
NobodyIsStuck == \A u \in User : caller[u].method # None => CanStep(u)

\* A list with knowledge to write does not go on to look again.
Apart(todo) == "look" \in StepsOf(todo) => StepsOf(todo) \cap Section = {}
Tidy(c) == (c.method = None => c = Idle) /\ Apart(c.todo)
CallsAreTidy == \A u \in User : Tidy(caller[u])

LEMMA WeightsCount ==
    /\ \A step : Weight(step) \in {0, 3, 5} /\ (Weight(step) = 5 => step = "look")
    /\ \A step \in State \cup {"create", "approve anyway", "observe"} : Weight(step) = 0
    /\ \A step \in Section \cup {"find", "go"} : Weight(step) = 3
    /\ Weight("look") = 5
  <1>1. "look" \notin Section \cup {"find", "go"}
    BY DEF Section
  <1>2. (State \cup {"create", "approve anyway", "observe"})
            \cap (Section \cup {"find", "go", "look"}) = {}
    BY DEF State, Section
  <1>3. \A step : Weight(step) \in {0, 3, 5} /\ (Weight(step) = 5 => step = "look")
    BY DEF Weight
  <1>4. \A step \in State \cup {"create", "approve anyway", "observe"} : Weight(step) = 0
    BY <1>2 DEF Weight
  <1>5. \A step \in Section \cup {"find", "go"} : Weight(step) = 3
    BY <1>1 DEF Weight
  <1>6. Weight("look") = 5
    BY <1>1 DEF Weight
  <1> QED
    BY <1>3, <1>4, <1>5, <1>6

LEMMA BurdensCount ==
    ASSUME NEW todo \in Seq(AnyStep)
    PROVE  /\ Burden(todo) \in Nat
           /\ todo # <<>> => /\ Len(todo) \in Nat \ {0}
                             /\ Burden(todo) = Len(todo) + Weight(Head(todo))
  <1>1. Len(todo) \in Nat /\ (todo # <<>> => Len(todo) \in Nat \ {0})
    OBVIOUS
  <1>2. Weight(Head(todo)) \in {0, 3, 5}
    BY WeightsCount
  <1>3. CASE todo = <<>>
    <2>1. Burden(todo) = 0
      BY <1>3 DEF Burden
    <2> QED
      BY <1>3, <2>1
  <1>4. CASE todo # <<>>
    <2>1. Burden(todo) = Len(todo) + Weight(Head(todo))
      BY <1>4 DEF Burden
    <2>2. Burden(todo) \in Nat
      BY <1>1, <1>2, <2>1
    <2> QED
      BY <1>1, <2>1, <2>2
  <1> QED
    BY <1>3, <1>4

LEMMA BurdenOfTail ==
    ASSUME NEW todo \in Seq(AnyStep), todo # <<>>
    PROVE  /\ Burden(Tail(todo)) <= Len(todo) + 4
           /\ "look" \notin StepsOf(todo) => Burden(Tail(todo)) <= Len(todo) + 2
           /\ Apart(todo) => Apart(Tail(todo))
  <1> PICK rest \in Seq(AnyStep) :
          /\ rest = Tail(todo) /\ Len(todo) \in Nat \ {0} /\ Len(rest) = Len(todo) - 1
          /\ StepsOf(rest) \subseteq StepsOf(todo)
    <2>1. Tail(todo) \in Seq(AnyStep) /\ StepsOf(Tail(todo)) \subseteq StepsOf(todo)
      BY TailOfSteps
    <2>2. Len(todo) \in Nat \ {0} /\ Len(Tail(todo)) = Len(todo) - 1
      OBVIOUS
    <2> QED
      BY <2>1, <2>2
  <1>1. Apart(todo) => Apart(rest)
    BY DEF Apart
  <1>2. CASE rest = <<>>
    <2>1. Burden(rest) = 0
      BY <1>2 DEF Burden
    <2> QED
      BY <1>1, <2>1
  <1>3. CASE rest # <<>>
    <2>1. Burden(rest) = Len(rest) + Weight(Head(rest))
      BY <1>3, BurdensCount
    <2>2. Weight(Head(rest)) \in {0, 3, 5} /\ (Weight(Head(rest)) = 5 => Head(rest) = "look")
      BY WeightsCount
    <2>3. Head(rest) \in StepsOf(rest)
      BY <1>3, TailOfSteps
    <2>4. \A n \in Nat \ {0}, w \in {0, 3, 5} :
              n - 1 + w <= n + 4 /\ (w # 5 => n - 1 + w <= n + 2)
      OBVIOUS
    <2>5. /\ Burden(rest) <= Len(todo) + 4
          /\ Weight(Head(rest)) # 5 => Burden(rest) <= Len(todo) + 2
      BY <2>1, <2>2, <2>4
    <2>6. "look" \notin StepsOf(todo) => Weight(Head(rest)) # 5
      BY <2>2, <2>3
    <2> QED
      BY <1>1, <2>5, <2>6
  <1> QED
    BY <1>2, <1>3

LEMMA StartBurden == Burden(StartSteps) = 3 /\ Apart(StartSteps)
  <1>1. Weight("create") = 0
    BY WeightsCount
  <1>2. Burden(StartSteps) = 3
    BY <1>1 DEF Burden, StartSteps
  <1> QED
    BY <1>2, StartStepsFit DEF Apart, State

\* A look makes a list that weighs less than the look.
LEMMA LookWeighsMore ==
    ASSUME NEW m \in Looking, NEW s \in State
    PROVE  Burden(StepsAfterLook(m, s)) <= 5 /\ Apart(StepsAfterLook(m, s))
  <1> PICK t : t = StepsAfterLook(m, s)
    OBVIOUS
  <1> DEFINE P == State \cup {"inventory", "proposed_plan", "go"}
  <1>0. P \subseteq AnyStep /\ "look" \notin P
    BY DEF AnyStep, State, Section, OtherSteps
  <1>1. ASSUME NEW l \in Seq(P) PROVE Apart(l)
    BY <1>0, StepsAmong DEF Apart
  <1>2. /\ \A x \in State : Weight(x) = 0
        /\ Weight("inventory") = 3 /\ Weight("proposed_plan") = 3 /\ Weight("go") = 3
    BY WeightsCount DEF Section
  <1>3. CASE m = "continue_journey"
    <2>1. t = <<>> \/ \E d \in State : t = <<d, "look">>
      <3>1. \A x \in DOMAIN Discovery : Discovery[x] \in State
        BY DEF Discovery, State
      <3> QED
        BY <1>3, <3>1 DEF StepsAfterLook, ContinueSteps, State
    <2>2. CASE t = <<>>
      <3>1. Burden(t) = 0 /\ StepsOf(t) = {}
        BY <2>2 DEF Burden, StepsOf
      <3> QED
        BY <3>1 DEF Apart
    <2>3. ASSUME NEW d \in State, t = <<d, "look">> PROVE Burden(t) <= 5 /\ Apart(t)
      <3>1. Burden(t) = 2
        <4>1. t # <<>> /\ Len(t) = 2 /\ Head(t) = d
          BY <2>3
        <4> QED
          BY <1>2, <4>1 DEF Burden
      <3>2. t \in Seq(State \cup {"look"})
        BY <2>3
      <3>3. State \cup {"look"} \subseteq AnyStep /\ (State \cup {"look"}) \cap Section = {}
        BY DEF AnyStep, OtherSteps, State, Section
      <3>4. StepsOf(t) \subseteq State \cup {"look"}
        BY <3>2, <3>3, StepsAmong
      <3> QED
        BY <3>1, <3>3, <3>4 DEF Apart
    <2> QED
      BY <2>1, <2>2, <2>3
  <1>4. ASSUME NEW l \in Seq(P), l # <<>>,
               \/ Head(l) \in State /\ Len(l) <= 5
               \/ Head(l) \in P /\ Len(l) <= 2
        PROVE  Burden(l) <= 5 /\ Apart(l)
    <2>1. Burden(l) = Len(l) + Weight(Head(l)) /\ Len(l) \in Nat
      BY <1>4 DEF Burden
    <2>2. Weight(Head(l)) \in {0, 3} /\ (Head(l) \in State => Weight(Head(l)) = 0)
      BY <1>2, <1>4
    <2>3. \A n \in Nat, w \in {0, 3} : n <= 2 \/ (n <= 5 /\ w = 0) => n + w <= 5
      OBVIOUS
    <2> QED
      BY <1>1, <1>4, <2>1, <2>2, <2>3
  <1>5. CASE m = "record_inventory"
    <2> DEFINE D == "DISCOVERING_CLOUD_SERVICES"
               C == "COLLECTING_ASSET_INVENTORY"
               A == "ASSET_INVENTORY_COMPLETE"
    <2>1. t \in {<<D, C, "inventory", A>>, <<C, "inventory", A>>, <<"inventory", A>>,
                 <<"inventory">>, <<D, "inventory">>}
      BY <1>5 DEF StepsAfterLook, InventorySteps
    <2>2. {D, C, A} \subseteq State
      BY DEF State
    <2> HIDE DEF D, C, A
    <2> SUFFICES t \in Seq(P) /\ t # <<>> /\ (\/ Head(t) \in State /\ Len(t) <= 5
                                              \/ Head(t) \in P /\ Len(t) <= 2)
      BY <1>4
    <2>3. CASE t = <<D, C, "inventory", A>>
      BY <2>2, <2>3
    <2>4. CASE t = <<C, "inventory", A>>
      BY <2>2, <2>4
    <2>5. CASE t = <<"inventory", A>>
      BY <2>2, <2>5
    <2>6. CASE t = <<"inventory">>
      BY <2>6
    <2>7. CASE t = <<D, "inventory">>
      BY <2>2, <2>7
    <2> QED
      BY <2>1, <2>3, <2>4, <2>5, <2>6, <2>7
  <1>6. CASE m \in {"generate_plan", "approve", "resume_after_approval"}
    <2> DEFINE G == "GENERATING_PLAN"
               W == "WAITING_FOR_APPROVAL"
               D == "APPROVED"
    <2>1. t \in {<<"proposed_plan", W>>, <<G, "proposed_plan", W>>, <<D, "go">>, <<"go">>}
      BY <1>6 DEF StepsAfterLook, PlanSteps
    <2>2. {G, W, D} \subseteq State
      BY DEF State
    <2> HIDE DEF G, W, D
    <2> SUFFICES t \in Seq(P) /\ t # <<>> /\ (\/ Head(t) \in State /\ Len(t) <= 5
                                              \/ Head(t) \in P /\ Len(t) <= 2)
      BY <1>4
    <2>3. CASE t = <<"proposed_plan", W>>
      BY <2>2, <2>3
    <2>4. CASE t = <<G, "proposed_plan", W>>
      BY <2>2, <2>4
    <2>5. CASE t = <<D, "go">>
      BY <2>2, <2>5
    <2>6. CASE t = <<"go">>
      BY <2>6
    <2> QED
      BY <2>1, <2>3, <2>4, <2>5, <2>6
  <1> QED
    BY <1>3, <1>5, <1>6 DEF Looking

Round(first, outcome, last) == <<first>> \o outcome \o <<last>>

\* So does a round of the loops of approve and resume_after_approval.
LEMMA GoWeighsMore ==
    ASSUME NEW m \in {"approve", "resume_after_approval"}, NEW s \in State
    PROVE  Burden(PipelineSteps(m, s)) <= 3 /\ Apart(PipelineSteps(m, s))
  <1> PICK t, go : t = PipelineSteps(m, s) /\ go = "go"
    OBVIOUS
  <1>0. PICK anyway : anyway = "approve anyway"
    BY Zenon
  <1> DEFINE Moves == State \cup {anyway}
             S == Moves \cup Section \cup {go}
  <1>1. S \subseteq AnyStep /\ "look" \notin S
    <2>1. State \cup Section \cup {"go"} \subseteq AnyStep
          /\ "look" \notin State \cup Section \cup {"go"}
      BY DEF AnyStep, OtherSteps, State, Section
    <2>2. anyway \in AnyStep /\ anyway # "look"
      BY <1>0, Zenon DEF AnyStep, OtherSteps
    <2> QED
      BY <2>1, <2>2, Zenon
  <1>2. \A first \in Moves : Weight(first) = 0
    BY <1>0, WeightsCount, Zenon
  <1>3. {"agent_identity", "app_factory"} \subseteq S /\ go \in S /\ Moves \subseteq S
    BY DEF Section
  <1>4. \/ t = <<>>
        \/ \E first \in Moves, outcome \in {<<"agent_identity">>, <<"app_factory">>, <<>>} :
               t = Round(first, outcome, go) \/ t = <<first, go>>
    <2>1. \A x \in DOMAIN Pipeline : Pipeline[x] \in State
      BY PipelineMap
    <2>2. \A x : OutcomeOf(x) \in {<<"agent_identity">>, <<"app_factory">>, <<>>}
      BY DEF OutcomeOf
    <2>3. "PROVISIONING_AGENT_IDENTITY" \in State
      BY DEF State
    <2>4. CASE s \in DOMAIN Pipeline /\ s # "COMPLETED"
      <3>1. t = Round(Pipeline[s], OutcomeOf(Pipeline[s]), go)
        BY <2>4, Zenon DEF PipelineSteps, Round
      <3> QED
        BY <2>1, <2>2, <2>4, <3>1, Zenon
    <2>5. CASE s \notin DOMAIN Pipeline /\ s # "COMPLETED"
      <3>1. t = <<anyway, go>> \/ t = <<"PROVISIONING_AGENT_IDENTITY", go>>
        BY <1>0, <2>5, Zenon DEF PipelineSteps
      <3> QED
        BY <2>3, <3>1, Zenon
    <2> QED
      BY <2>4, <2>5, Zenon DEF PipelineSteps
  <1>5. ASSUME NEW outcome, outcome \in {<<"agent_identity">>, <<"app_factory">>, <<>>}
        PROVE  outcome \in Seq(S) /\ Len(outcome) <= 1
    <2> HIDE DEF S
    <2>1. CASE outcome = <<"agent_identity">>
      BY <1>3, <2>1
    <2>2. CASE outcome = <<"app_factory">>
      BY <1>3, <2>2
    <2>3. CASE outcome = <<>>
      BY <2>3
    <2> QED
      BY <1>5, <2>1, <2>2, <2>3
  <1> HIDE DEF S, Moves
  <1>6. CASE t = <<>>
    <2>1. Burden(t) = 0 /\ StepsOf(t) = {}
      BY <1>6 DEF Burden, StepsOf
    <2> QED
      BY <2>1 DEF Apart
  <1>7. ASSUME NEW first \in Moves, t \in Seq(S), t # <<>>, Len(t) \in {2, 3}, Head(t) = first
        PROVE  Burden(t) <= 3 /\ Apart(t)
    <2>1. Burden(t) = Len(t) + 0
      <3>1. Burden(t) = Len(t) + Weight(Head(t))
        BY <1>7, Zenon DEF Burden
      <3>2. Weight(Head(t)) = 0
        BY <1>2, <1>7, Zenon
      <3> QED
        BY <3>1, <3>2, Zenon
    <2>2. Burden(t) <= 3
      BY <1>7, <2>1
    <2>3. "look" \notin StepsOf(t)
      BY <1>1, <1>7, StepsAmong, Zenon
    <2> QED
      BY <2>2, <2>3 DEF Apart
  <1>8. ASSUME NEW first \in Moves, NEW outcome, t = Round(first, outcome, go),
               outcome \in Seq(S), Len(outcome) <= 1
        PROVE  Burden(t) <= 3 /\ Apart(t)
    <2>0. \A q \in Seq(S) : Len(q) \in {2, 3} => q # <<>> /\ Head(q) = q[1]
      OBVIOUS
    <2>1. <<first>> \in Seq(S) /\ Len(<<first>>) = 1 /\ <<first>>[1] = first
      BY <1>3
    <2>2. <<go>> \in Seq(S) /\ Len(<<go>>) = 1
      BY <1>3
    <2> PICK x, z : x = <<first>> /\ z = <<go>>
      OBVIOUS
    <2> PICK k : k = x \o outcome
      OBVIOUS
    <2>3. k \in Seq(S) /\ Len(k) = Len(outcome) + 1 /\ k[1] = first
      BY <1>8, <2>1
    <2> PICK l : l = k \o z
      OBVIOUS
    <2>4. l \in Seq(S) /\ Len(l) = Len(outcome) + 2 /\ l[1] = first
      BY <1>8, <2>2, <2>3
    <2>5. Len(outcome) \in {0, 1}
      BY <1>8
    <2>6. l # <<>> /\ Head(l) = first /\ Len(l) \in {2, 3}
      <3>1. Len(l) \in {2, 3}
        BY <2>4, <2>5
      <3> QED
        BY <2>0, <2>4, <3>1, Zenon
    <2>7. t = l
      BY <1>8, Zenon DEF Round
    <2>8. t \in Seq(S) /\ t # <<>> /\ Len(t) \in {2, 3} /\ Head(t) = first
      BY <2>4, <2>6, <2>7, Zenon
    <2> QED
      BY <1>7, <2>8
  <1>9. ASSUME NEW first \in Moves, t = <<first, go>>
        PROVE  Burden(t) <= 3 /\ Apart(t)
    <2>1. t \in Seq(S) /\ t # <<>> /\ Len(t) \in {2, 3} /\ Head(t) = first
      BY <1>3, <1>9
    <2> QED
      BY <1>7, <2>1
  <1> QED
    BY <1>4, <1>5, <1>6, <1>8, <1>9, Zenon

LEMMA StepsLeftCount ==
    ASSUME NEW c \in Call, NEW n \in 0 .. 19
    PROVE  /\ StepsLeft(c, n) \in Nat
           /\ c.method # None => StepsLeft(c, n) > 0
           /\ c.method # None => StepsLeft(c, n) = 1 + 5 * (19 - n) + c.polls + Burden(c.todo)
           /\ c.method = None => StepsLeft(c, n) = 0
           /\ \A m \in n .. 19 : StepsLeft(c, m) <= StepsLeft(c, n)
  <1>1. c.polls \in Nat /\ c.todo \in Seq(AnyStep)
    BY PollAssumption DEF Call, AnyStep
  <1>2. Burden(c.todo) \in Nat
    BY <1>1, BurdensCount
  <1>3. CASE c.method = None
    <2>1. \A m : StepsLeft(c, m) = 0
      BY <1>3 DEF StepsLeft
    <2> QED
      BY <1>3, <2>1
  <1>4. CASE c.method # None
    <2>1. \A m : StepsLeft(c, m) = 1 + 5 * (19 - m) + c.polls + Burden(c.todo)
      BY <1>4 DEF StepsLeft
    <2> PICK p \in Nat, b \in Nat : p = c.polls /\ b = Burden(c.todo)
      BY <1>1, <1>2
    <2>2. /\ 1 + 5 * (19 - n) + p + b \in Nat
          /\ 1 + 5 * (19 - n) + p + b > 0
      OBVIOUS
    <2>3. \A m \in n .. 19 : 1 + 5 * (19 - m) + p + b <= 1 + 5 * (19 - n) + p + b
      OBVIOUS
    <2>4. StepsLeft(c, n) = 1 + 5 * (19 - n) + p + b
      BY <2>1
    <2>5. \A m \in n .. 19 : StepsLeft(c, m) <= StepsLeft(c, n)
      BY <2>1, <2>3
    <2> QED
      BY <1>4, <2>2, <2>4, <2>5
  <1> QED
    BY <1>3, <1>4

LEMMA LessIsLess ==
    \A p, a, b \in Nat : \A n, m \in 0 .. 19 :
        a + 5 * n < b + 5 * m => 1 + 5 * (19 - m) + p + a < 1 + 5 * (19 - n) + p + b
  OBVIOUS

LEMMA FewerStepsLeft ==
    ASSUME NEW c \in Call, c.method # None, NEW todo \in Seq(AnyStep),
           NEW n \in 0 .. 19, NEW m \in 0 .. 19,
           Burden(todo) + 5 * n < Burden(c.todo) + 5 * m, Apart(todo)
    PROVE  LET d == [c EXCEPT !.todo = todo]
           IN  d \in Call /\ Tidy(d) /\ StepsLeft(d, m) < StepsLeft(c, n)
  <1> PICK d : d = [c EXCEPT !.todo = todo]
    OBVIOUS
  <1>1. d \in Call /\ d.todo = todo /\ d.method = c.method /\ d.polls = c.polls
    <2>1. PICK k, t, p : /\ c = [method |-> k, todo |-> t, polls |-> p]
                         /\ k \in AllMethods \cup {None} /\ p \in 0 .. MaxPolls
      BY DEF Call
    <2>2. d = [method |-> k, todo |-> todo, polls |-> p]
      BY <2>1
    <2> QED
      BY <2>1, <2>2 DEF Call, AnyStep
  <1>2. c.polls \in Nat /\ c.todo \in Seq(AnyStep)
    BY PollAssumption DEF Call, AnyStep
  <1>3. Burden(c.todo) \in Nat /\ Burden(todo) \in Nat
    BY <1>2, BurdensCount
  <1>4. /\ StepsLeft(c, n) = 1 + 5 * (19 - n) + c.polls + Burden(c.todo)
        /\ StepsLeft(d, m) = 1 + 5 * (19 - m) + c.polls + Burden(todo)
    BY <1>1 DEF StepsLeft
  <1>5. StepsLeft(d, m) < StepsLeft(c, n)
    BY <1>2, <1>3, <1>4, LessIsLess
  <1> QED
    BY <1>1, <1>5 DEF Tidy

\* What a step of u does to its call.
GetsOn(u) ==
    \E d \in Call :
        /\ caller' = [caller EXCEPT ![u] = d] /\ Tidy(d)
        /\ StepsLeft(d, Len(History')) < StepsLeft(caller[u], Len(History))

LEMMA EndingGetsOn ==
    ASSUME LifecycleInv, ResultsMatchHistory, HistoryIsShort, [Next]_vars,
           NEW u \in User, caller[u].method # None, Ends(u)
    PROVE  GetsOn(u)
  <1>1. Len(History) \in 0 .. 19 /\ Len(History') \in 0 .. 19
    BY HistoryGrows
  <1>2. Idle \in Call /\ StepsOf(Idle.todo) = {} /\ Idle.method = None
    BY IdleIsProper DEF Idle
  <1>3. Tidy(Idle)
    BY <1>2 DEF Tidy, Apart
  <1>4. StepsLeft(Idle, Len(History')) = 0
    BY <1>1, <1>2, StepsLeftCount
  <1>5. caller[u] \in Call
    BY DEF LifecycleInv, TypeOK
  <1>6. StepsLeft(caller[u], Len(History)) > 0
    BY <1>1, <1>5, StepsLeftCount
  <1>7. caller' = [caller EXCEPT ![u] = Idle]
    BY DEF Ends
  <1> QED
    BY <1>2, <1>3, <1>4, <1>6, <1>7 DEF GetsOn

LEMMA GoingOnGetsOn ==
    ASSUME LifecycleInv, ResultsMatchHistory, HistoryIsShort, [Next]_vars,
           NEW u \in User, caller[u].method # None,
           NEW todo \in Seq(AnyStep), GoesOn(u, todo), Apart(todo),
           Burden(todo) + 5 * Len(History) < Burden(caller[u].todo) + 5 * Len(History')
    PROVE  GetsOn(u)
  <1>1. Len(History) \in 0 .. 19 /\ Len(History') \in 0 .. 19
    BY HistoryGrows
  <1>2. caller[u] \in Call
    BY DEF LifecycleInv, TypeOK
  <1> PICK d : d = [caller[u] EXCEPT !.todo = todo]
    OBVIOUS
  <1>3. d \in Call /\ Tidy(d) /\ StepsLeft(d, Len(History')) < StepsLeft(caller[u], Len(History))
    BY <1>1, <1>2, FewerStepsLeft
  <1>4. caller' = [caller EXCEPT ![u] = d]
    BY DEF GoesOn
  <1> QED
    BY <1>3, <1>4 DEF GetsOn

\* What a list may weigh after a transition, after a write, and after a read
\* that makes a new list.
LEMMA MovedWeighs ==
    \A n \in Nat \ {0} : \A a, b, g, h \in Nat :
        b = n + 0 /\ a <= n + 4 /\ h = g + 1 => a + 5 * g < b + 5 * h
  OBVIOUS

LEMMA WrittenWeighs ==
    \A n \in Nat \ {0} : \A a, b, g, h \in Nat :
        b = n + 3 /\ a <= n + 2 /\ h = g => a + 5 * g < b + 5 * h
  OBVIOUS

LEMMA ReadWeighs ==
    \A n \in Nat \ {0} : \A a, b, w \in Nat : b = n + w /\ a <= w => a < b
  OBVIOUS

LEMMA StepGetsOn ==
    ASSUME LifecycleInv, ResultsMatchHistory, HistoryIsShort, CallsAreTidy, [Next]_vars,
           NEW u \in User, Step(u) \/ Fail(u)
    PROVE  GetsOn(u)
  <1> PICK c : c = caller[u]
    OBVIOUS
  <1>1. /\ c \in Call /\ Proper(u, c, journey) /\ c.todo \in Seq(AnyStep)
        /\ Fits(c.todo, c.method) /\ Tidy(c)
    BY DEF LifecycleInv, TypeOK, Proper, Fits, CallsAreTidy
  <1>2. Working(u) => c.method # None /\ c.todo # <<>> /\ NextStep(u) = Head(c.todo)
    BY <1>1 DEF Working, NextStep, Tidy, Idle
  <1>3. Len(History) \in 0 .. 19 /\ Len(History') \in 0 .. 19
    BY HistoryGrows
  <1>4. ASSUME c.method # None, Ends(u) PROVE GetsOn(u)
    BY <1>4, EndingGetsOn
  <1>5. ASSUME UNCHANGED journey PROVE Len(History') = Len(History)
    BY <1>5 DEF History
  <1>6. ASSUME Working(u)
        PROVE  /\ Burden(c.todo) = Len(c.todo) + Weight(NextStep(u))
               /\ Len(c.todo) \in Nat \ {0} /\ Tail(c.todo) \in Seq(AnyStep)
               /\ Burden(Tail(c.todo)) \in Nat /\ Burden(c.todo) \in Nat
               /\ Burden(Tail(c.todo)) <= Len(c.todo) + 4
               /\ "look" \notin StepsOf(c.todo) => Burden(Tail(c.todo)) <= Len(c.todo) + 2
               /\ Apart(Tail(c.todo)) /\ NextStep(u) \in StepsOf(c.todo)
    <2>1. Tail(c.todo) \in Seq(AnyStep) /\ NextStep(u) \in StepsOf(c.todo)
      BY <1>1, <1>2, <1>6, TailOfSteps
    <2> QED
      BY <1>1, <1>2, <1>6, <2>1, BurdensCount, BurdenOfTail DEF Tidy
  <1>7. ASSUME Working(u), NEW todo \in Seq(AnyStep), GoesOn(u, todo), Apart(todo),
               Burden(todo) < Burden(c.todo), UNCHANGED journey
        PROVE  GetsOn(u)
    <2>1. Len(History') = Len(History)
      BY <1>5, <1>7
    <2>2. Burden(todo) \in Nat /\ Burden(c.todo) \in Nat
      BY <1>6, <1>7, BurdensCount
    <2>3. Burden(todo) + 5 * Len(History) < Burden(c.todo) + 5 * Len(History')
      BY <1>3, <1>7, <2>1, <2>2
    <2> QED
      BY <1>2, <1>7, <2>3, GoingOnGetsOn
  <1>8. ASSUME Working(u), Advances(u), Weight(NextStep(u)) = 0,
               Len(History') = Len(History) + 1
        PROVE  GetsOn(u)
    <2>1. /\ Len(c.todo) \in Nat \ {0} /\ Burden(c.todo) \in Nat
          /\ Burden(Tail(c.todo)) \in Nat /\ Len(History) \in Nat /\ Len(History') \in Nat
      BY <1>3, <1>6, <1>8
    <2>2. Burden(Tail(c.todo)) + 5 * Len(History) < Burden(c.todo) + 5 * Len(History')
      <3>1. Burden(c.todo) = Len(c.todo) + 0 /\ Burden(Tail(c.todo)) <= Len(c.todo) + 4
        BY <1>6, <1>8, Zenon
      <3> QED
        BY <1>8, <2>1, <3>1, MovedWeighs, Zenon
    <2>3. Tail(c.todo) \in Seq(AnyStep) /\ Apart(Tail(c.todo)) /\ GoesOn(u, Tail(c.todo))
      BY <1>6, <1>8 DEF Advances
    <2> QED
      BY <1>2, <1>8, <2>2, <2>3, GoingOnGetsOn
  <1>9. CASE Find(u)
    <2>1. Working(u) /\ NextStep(u) = "find" /\ UNCHANGED journey
      BY <1>9 DEF Find
    <2>2. Ends(u) \/ GoesOn(u, StartSteps)
      BY <1>9 DEF Find, StartSteps
    <2>3. StartSteps \in Seq(AnyStep) /\ Apart(StartSteps) /\ Burden(StartSteps) = 3
      BY StartBurden, StartStepsFit DEF Fits
    <2>4. 3 < Burden(c.todo)
      <3>1. Weight("find") = 3
        BY WeightsCount, Zenon
      <3>2. Burden(c.todo) = Len(c.todo) + 3
        BY <1>6, <2>1, <3>1, Zenon
      <3>3. 3 \in Nat /\ 3 <= 3
        OBVIOUS
      <3> QED
        BY <1>6, <2>1, <3>2, <3>3, ReadWeighs, Zenon
    <2>5. CASE Ends(u)
      BY <1>2, <1>4, <2>1, <2>5, Zenon
    <2>6. CASE GoesOn(u, StartSteps)
      <3>1. Burden(StartSteps) < Burden(c.todo)
        BY <2>3, <2>4, Zenon
      <3> QED
        BY <1>7, <2>1, <2>3, <2>6, <3>1, Zenon
    <2> QED
      BY <2>2, <2>5, <2>6
  <1>10. CASE Create(u)
    <2>1. Working(u) /\ NextStep(u) = "create"
      BY <1>10 DEF Create
    <2>2. CASE journey # None
      BY <1>2, <1>4, <1>10, <2>1, <2>2 DEF Create
    <2>3. CASE journey = None
      <3>1. Advances(u) /\ journey' = Created(u)
        BY <1>10, <2>3 DEF Create
      <3>2. Len(History') = Len(History) + 1
        <4>1. journey' # None /\ Len(Created(u).history) = 1
          BY <3>1, CreatedFacts DEF Created
        <4> QED
          BY <2>3, <3>1, <4>1 DEF History
      <3> QED
        BY <1>8, <2>1, <3>1, <3>2, WeightsCount
    <2> QED
      BY <2>2, <2>3
  <1>11. CASE Look(u)
    <2>1. Working(u) /\ NextStep(u) = "look" /\ UNCHANGED journey
      BY <1>11 DEF Look
    <2>2. c.method \in Looking
      BY <1>1, <1>6, <2>1 DEF Fits
    <2>3. journey # None /\ journey \in Journey
      BY <1>1, <1>2, <2>1 DEF Proper, LifecycleInv, TypeOK
    <2>4. journey.status \in State
      BY <2>3 DEF Journey
    <2> PICK todo : todo = StepsAfterLook(c.method, journey.status)
      OBVIOUS
    <2>5. Ends(u) \/ GoesOn(u, todo)
      BY <1>11 DEF Look
    <2>6. todo \in Seq(AnyStep) /\ Apart(todo) /\ Burden(todo) <= 5
      BY <2>2, <2>4, LookWeighsMore, LookStepsFit DEF Fits
    <2>7. Burden(c.todo) = Len(c.todo) + 5 /\ 5 \in Nat
      <3>1. 5 \in Nat
        OBVIOUS
      <3> QED
        BY <1>6, <2>1, <3>1, WeightsCount, Zenon
    <2>8. Burden(todo) < Burden(c.todo)
      <3>1. Burden(todo) \in Nat
        BY <2>6, BurdensCount, Zenon
      <3> QED
        BY <1>6, <2>1, <2>6, <2>7, <3>1, ReadWeighs, Zenon
    <2> QED
      BY <1>2, <1>4, <1>7, <2>1, <2>5, <2>6, <2>8
  <1>12. CASE Go(u)
    <2>1. Working(u) /\ NextStep(u) = "go" /\ UNCHANGED journey
      BY <1>12 DEF Go
    <2>2. c.method \in {"approve", "resume_after_approval"}
      BY <1>1, <1>6, <2>1 DEF Fits
    <2>3. journey # None /\ journey \in Journey
      BY <1>1, <1>2, <2>1 DEF Proper, LifecycleInv, TypeOK
    <2>4. journey.status \in State
      BY <2>3 DEF Journey
    <2> PICK todo : todo = PipelineSteps(c.method, journey.status)
      OBVIOUS
    <2>5. GoesOn(u, todo)
      BY <1>12 DEF Go
    <2>6. todo \in Seq(AnyStep) /\ Apart(todo) /\ Burden(todo) <= 3
      BY <2>2, <2>4, GoWeighsMore, GoStepsFit DEF Fits
    <2>7. Burden(c.todo) = Len(c.todo) + 3 /\ 3 \in Nat
      <3>1. Weight("go") = 3
        BY WeightsCount, Zenon
      <3>2. 3 \in Nat
        OBVIOUS
      <3> QED
        BY <1>6, <2>1, <3>1, <3>2, Zenon
    <2>8. Burden(todo) < Burden(c.todo)
      <3>1. Burden(todo) \in Nat
        BY <2>6, BurdensCount, Zenon
      <3> QED
        BY <1>6, <2>1, <2>6, <2>7, <3>1, ReadWeighs, Zenon
    <2> QED
      BY <1>7, <2>1, <2>5, <2>6, <2>8
  <1>13. CASE Move(u)
    <2>1. Moving(u) /\ Working(u)
      BY <1>13 DEF Move, Moving
    <2>2. CASE Target(NextStep(u)) \notin Allowed[journey.status]
      BY <1>2, <1>4, <1>13, <2>1, <2>2 DEF Move
    <2>3. CASE Target(NextStep(u)) \in Allowed[journey.status]
      <3>1. PICK to, actor : to = Target(NextStep(u)) /\ actor = ActorOf(u, NextStep(u))
        OBVIOUS
      <3>2. journey' = Moved(journey, to, actor) /\ Advances(u)
        BY <1>13, <2>3, <3>1 DEF Move
      <3>3. /\ journey # None /\ journey \in Journey
            /\ to \in State /\ actor \in User \cup {Agent}
        BY <2>1, <2>3, <3>1, UserMove
      <3>4. /\ journey' \in Journey /\ Len(journey.history) \in Nat
            /\ Len(journey'.history) = Len(journey.history) + 1
        BY <3>2, <3>3, MoveFacts
      <3>5. journey' # None
        BY <3>4, AbsentAssumption
      <3>6. Len(History') = Len(History) + 1
        BY <3>3, <3>4, <3>5 DEF History
      <3>7. Weight(NextStep(u)) = 0
        BY <2>1, WeightsCount, Zenon DEF Moving
      <3> QED
        BY <1>8, <2>1, <3>2, <3>6, <3>7
    <2> QED
      BY <2>2, <2>3
  <1>14. CASE Merge(u)
    <2>1. Working(u) /\ NextStep(u) \in Section /\ Advances(u)
      BY <1>14 DEF Merge
    <2>2. JourneyInformed(u)
      BY <1>14, MergeInforms
    <2>3. Len(History') = Len(History)
      BY <2>2 DEF JourneyInformed, History
    <2>4. "look" \notin StepsOf(c.todo)
      BY <1>1, <1>6, <2>1 DEF Tidy, Apart
    <2>5. Weight(NextStep(u)) = 3
      BY <2>1, WeightsCount
    <2>6. /\ Len(c.todo) \in Nat \ {0} /\ Burden(c.todo) \in Nat
          /\ Burden(Tail(c.todo)) \in Nat /\ Len(History) \in Nat /\ Len(History') \in Nat
      BY <1>3, <1>6, <2>1
    <2>7. Burden(Tail(c.todo)) + 5 * Len(History) < Burden(c.todo) + 5 * Len(History')
      <3>1. Burden(c.todo) = Len(c.todo) + 3 /\ Burden(Tail(c.todo)) <= Len(c.todo) + 2
        BY <1>6, <2>1, <2>4, <2>5, Zenon
      <3> QED
        BY <2>3, <2>6, <3>1, WrittenWeighs, Zenon
    <2>8. Tail(c.todo) \in Seq(AnyStep) /\ Apart(Tail(c.todo)) /\ GoesOn(u, Tail(c.todo))
      BY <1>6, <2>1 DEF Advances
    <2> QED
      BY <1>2, <2>1, <2>7, <2>8, GoingOnGetsOn
  <1>15. CASE Observe(u)
    <2>1. Working(u) /\ UNCHANGED journey
      BY <1>15 DEF Observe
    <2>2. CASE Ends(u)
      BY <1>2, <1>4, <2>1, <2>2
    <2>3. CASE caller[u].polls > 0 /\ caller' = [caller EXCEPT ![u].polls = @ - 1]
      <3> PICK d : d = [c EXCEPT !.polls = c.polls - 1]
        OBVIOUS
      <3>1. c.polls \in Nat /\ c.polls - 1 \in 0 .. MaxPolls /\ c.polls - 1 < c.polls
        BY <1>1, <2>3, PollAssumption DEF Call
      <3>2. d \in Call /\ d.method = c.method /\ d.todo = c.todo /\ d.polls = c.polls - 1
        <4>1. PICK k, t, p : /\ c = [method |-> k, todo |-> t, polls |-> p]
                             /\ k \in AllMethods \cup {None} /\ t \in Seq(AnyStep)
          BY <1>1 DEF Call, AnyStep
        <4>2. d = [method |-> k, todo |-> t, polls |-> p - 1]
          BY <4>1
        <4> QED
          BY <3>1, <4>1, <4>2 DEF Call, AnyStep
      <3>3. caller' = [caller EXCEPT ![u] = d]
        BY <2>3
      <3>4. Tidy(d)
        BY <1>1, <1>2, <2>1, <3>2 DEF Tidy
      <3>5. Len(History') = Len(History) /\ c.method # None
        BY <1>2, <1>5, <2>1
      <3>6. /\ StepsLeft(c, Len(History))
                   = 1 + 5 * (19 - Len(History)) + c.polls + Burden(c.todo)
            /\ StepsLeft(d, Len(History'))
                   = 1 + 5 * (19 - Len(History)) + (c.polls - 1) + Burden(c.todo)
        BY <3>2, <3>5, Zenon DEF StepsLeft
      <3>7. Burden(c.todo) \in Nat
        BY <1>6, <2>1
      <3>8. \A x, p, b \in Nat : 1 + x + (p - 1) + b < 1 + x + p + b
        OBVIOUS
      <3>9. 5 * (19 - Len(History)) \in Nat
        <4>1. \A l \in 0 .. 19 : 5 * (19 - l) \in Nat
          OBVIOUS
        <4> QED
          BY <1>3, <4>1, Zenon
      <3>10. StepsLeft(d, Len(History')) < StepsLeft(c, Len(History))
        BY <3>1, <3>6, <3>7, <3>8, <3>9
      <3> QED
        BY <3>2, <3>3, <3>4, <3>10 DEF GetsOn
    <2> QED
      BY <1>15, <2>2, <2>3 DEF Observe
  <1>16. CASE Return(u) \/ Fail(u)
    BY <1>2, <1>4, <1>16 DEF Return, Fail
  <1> QED
    BY <1>9, <1>10, <1>11, <1>12, <1>13, <1>14, <1>15, <1>16 DEF Step

\* A call that begins has a list of one step, which weighs at most a look.
LEMMA BeginIsTidy ==
    ASSUME LifecycleInv, NEW u \in User, NEW m \in Method[u], Begin(u, m)
    PROVE  \E d \in Call : /\ caller' = [caller EXCEPT ![u] = d] /\ Tidy(d)
                           /\ d.method # None /\ d.polls = MaxPolls /\ Burden(d.todo) <= 6
                           /\ Fits(d.todo, m)
  <1>1. m \in AllMethods /\ m # None
    BY MethodAssumption, AbsentAssumption
  <1> PICK d : d = [method |-> m, todo |-> FirstSteps(m), polls |-> MaxPolls]
    OBVIOUS
  <1>2. Fits(FirstSteps(m), m) /\ StepsOf(FirstSteps(m)) \cap Section = {}
    <2>1. ({"find", "look", "observe"} \cup Decided) \cap Section = {}
      BY DEF Decided, Section
    <2> QED
      BY <1>1, <2>1, FirstStepsFit
  <1>3. d \in Call
    BY <1>1, <1>2, PollAssumption DEF Fits, Call, AnyStep
  <1>4. \E step : FirstSteps(m) = <<step>>
    BY <1>1 DEF FirstSteps, AllMethods
  <1>5. Burden(FirstSteps(m)) <= 6
    <2> PICK step : FirstSteps(m) = <<step>>
      BY <1>4
    <2>1. Burden(<<step>>) = 1 + Weight(step)
      BY DEF Burden
    <2>2. Weight(step) \in {0, 3, 5}
      BY WeightsCount
    <2>3. \A w \in {0, 3, 5} : 1 + w <= 6
      OBVIOUS
    <2>4. Burden(<<step>>) <= 6
      BY <2>1, <2>2, <2>3, Zenon
    <2> QED
      BY <2>4, Zenon
  <1>6. caller' = [caller EXCEPT ![u] = d]
    BY DEF Begin
  <1> QED
    BY <1>1, <1>2, <1>3, <1>5, <1>6 DEF Tidy, Apart

\* What one step of the system does to the call of u.
LEMMA CallGoesForward ==
    ASSUME LifecycleInv, ResultsMatchHistory, HistoryIsShort, CallsAreTidy, [Next]_vars,
           NEW u \in User
    PROVE  /\ Step(u) \/ Fail(u) => Left(u)' < Left(u)
           /\ \/ /\ caller[u] = Idle /\ caller'[u].polls = MaxPolls
                 /\ Burden(caller'[u].todo) <= 6
              \/ Left(u)' < Left(u)
              \/ caller'[u] = caller[u] /\ Left(u)' <= Left(u)
           /\ Tidy(caller'[u])
  <1>0. \A n, m \in 0 .. 19 : m >= n => m \in n .. 19
    OBVIOUS
  <1>1. Len(History) \in 0 .. 19 /\ Len(History') \in Len(History) .. 19
    BY <1>0, HistoryGrows, Zenon
  <1>2. caller \in [User -> Call] /\ Tidy(caller[u])
    BY DEF LifecycleInv, TypeOK, CallsAreTidy
  <1>3. /\ Left(u) = StepsLeft(caller[u], Len(History))
        /\ Left(u)' = StepsLeft(caller'[u], Len(History'))
    BY DEF Left
  <1>4. ASSUME Step(u) \/ Fail(u) PROVE Left(u)' < Left(u) /\ Tidy(caller'[u])
    BY <1>2, <1>3, <1>4, StepGetsOn DEF GetsOn
  <1>5. ASSUME caller'[u] = caller[u] PROVE Left(u)' <= Left(u) /\ Tidy(caller'[u])
    BY <1>1, <1>2, <1>3, <1>5, StepsLeftCount
  <1>6. ASSUME NEW v \in User, Step(v) \/ Fail(v), v # u PROVE caller'[u] = caller[u]
    BY <1>2, <1>6, StepGetsOn DEF GetsOn
  <1>7. ASSUME NEW v \in User, NEW m \in Method[v], Begin(v, m), v # u
        PROVE  caller'[u] = caller[u]
    BY <1>2, <1>7 DEF Begin
  <1>8. ASSUME NEW m \in Method[u], Begin(u, m)
        PROVE  /\ caller[u] = Idle /\ caller'[u].polls = MaxPolls
               /\ Burden(caller'[u].todo) <= 6 /\ Tidy(caller'[u])
    <2> PICK d \in Call : /\ caller' = [caller EXCEPT ![u] = d] /\ Tidy(d)
                          /\ d.polls = MaxPolls /\ Burden(d.todo) <= 6
      BY <1>8, BeginIsTidy
    <2>1. caller'[u] = d
      BY <1>2
    <2> QED
      BY <1>8, <2>1 DEF Begin
  <1>9. BatchStep \/ UNCHANGED vars => caller'[u] = caller[u]
    BY DEF BatchStep, vars
  <1> QED
    BY <1>4, <1>5, <1>6, <1>7, <1>8, <1>9 DEF Next

LEMMA TidyNext ==
    /\ LifecycleInv /\ ResultsMatchHistory /\ HistoryIsShort /\ CallsAreTidy /\ [Next]_vars
           => CallsAreTidy'
    /\ Init => HistoryIsShort /\ CallsAreTidy
  <1>1. ASSUME LifecycleInv, ResultsMatchHistory, HistoryIsShort, CallsAreTidy, [Next]_vars
        PROVE  CallsAreTidy'
    BY <1>1, CallGoesForward DEF CallsAreTidy
  <1>2. ASSUME Init PROVE HistoryIsShort /\ CallsAreTidy
    <2>1. Tidy(Idle)
      BY IdleIsProper DEF Tidy, Apart, Idle, StepsOf
    <2> QED
      BY <1>2, <2>1 DEF Init, HistoryIsShort, CallsAreTidy
  <1> QED
    BY <1>1, <1>2

LEMMA ShortCallsNext ==
    ASSUME LifecycleInv, ResultsMatchHistory, HistoryIsShort, CallsAreTidy, [Next]_vars,
           CallsAreShort
    PROVE  CallsAreShort'
  <1> SUFFICES ASSUME NEW u \in User PROVE Left(u)' <= MaxPolls + 102
    BY DEF CallsAreShort
  <1>1. Len(History) \in 0 .. 19 /\ Len(History') \in 0 .. 19 /\ MaxPolls \in Nat
    BY HistoryGrows, PollAssumption
  <1>2. caller[u] \in Call /\ caller'[u] \in Call
    BY LifecycleNext DEF LifecycleInv, TypeOK
  <1>3. /\ Left(u) = StepsLeft(caller[u], Len(History))
        /\ Left(u)' = StepsLeft(caller'[u], Len(History'))
    BY DEF Left
  <1>4. Left(u) \in Nat /\ Left(u)' \in Nat
    BY <1>1, <1>2, <1>3, StepsLeftCount
  <1>5. Left(u) <= MaxPolls + 102
    BY DEF CallsAreShort
  <1>6. CASE caller'[u].polls = MaxPolls /\ Burden(caller'[u].todo) <= 6
    <2>1. \A b \in Nat, n \in 0 .. 19 :
              b <= 6 => 1 + 5 * (19 - n) + MaxPolls + b <= MaxPolls + 102
      BY <1>1
    <2>2. Burden(caller'[u].todo) \in Nat
      BY <1>2, BurdensCount DEF Call, AnyStep
    <2>3. \/ Left(u)' = 0
          \/ Left(u)' = 1 + 5 * (19 - Len(History')) + MaxPolls + Burden(caller'[u].todo)
      BY <1>1, <1>2, <1>3, <1>6, StepsLeftCount
    <2>4. 0 <= MaxPolls + 102
      BY <1>1
    <2> QED
      BY <1>1, <1>6, <2>1, <2>2, <2>3, <2>4, Zenon
  <1>7. CASE Left(u)' <= Left(u)
    BY <1>1, <1>4, <1>5, <1>7
  <1>8. CASE Left(u)' < Left(u)
    BY <1>1, <1>4, <1>5, <1>8
  <1> QED
    BY <1>6, <1>7, <1>8, CallGoesForward

\* A call that can do nothing would wait for ever: none does.
LEMMA CallCanStep ==
    ASSUME LifecycleInv, NEW u \in User
    PROVE  CanStep(u)
  <1> SUFFICES ASSUME Working(u) PROVE CanStep(u)
    BY DEF CanStep
  <1>1. Proper(u, caller[u], journey) /\ caller[u].todo \in Seq(AnyStep)
    BY DEF LifecycleInv, Proper, Fits
  <1>2. NextStep(u) \in StepsOf(caller[u].todo) /\ NextStep(u) \in AnyStep
    BY <1>1, TailOfSteps DEF Working, NextStep
  <1>3. NextStep(u) \notin {"find", "create"} => journey # None
    BY <1>1 DEF Proper, Working, NextStep
  <1>4. NextStep(u) = "look" => caller[u].method \in Looking
    BY <1>1, <1>2 DEF Proper, Fits
  <1>5. NextStep(u) = "go" => caller[u].method \in {"approve", "resume_after_approval"}
    BY <1>1, <1>2 DEF Proper, Fits
  <1> QED
    BY <1>2, <1>3, <1>4, <1>5, Zenon DEF CanStep, AnyStep, OtherSteps

\* A journey makes at most eighteen transitions, whoever works on it: the map
\* of ALLOWED_TRANSITIONS (state_machine.py) has a circle between preparing an
\* application and its failed validation, and a batch validation, which alone
\* enters it, is recorded and not made again (business_operations.py).
THEOREM JourneysAreShort == Spec => []JourneysEnd
  <1>1. Init => ResultsMatchHistory
    BY DEF Init, ResultsMatchHistory, Entered, History, Operation
  <1>2. LifecycleInv /\ HistoryIsShort => JourneysEnd
    <2>1. \A n \in 0 .. 19 : n <= 19
      OBVIOUS
    <2> QED
      BY <2>1, ShortJourneysEnd, Zenon DEF JourneysEnd
  <1> QED
    BY <1>1, <1>2, LifecycleInit, TidyNext, LifecycleNext, ResultsNext, ShortNext, PTL DEF Spec

\* The loops of the service calls (tools.py) are finite: whatever other users
\* and batch jobs do to the journey meanwhile, each step of a call leaves it
\* fewer to take, nobody else's step leaves it more, and it begins with no
\* more than a fixed number and one for each poll before its deadline.
THEOREM CallsAreFinite == Spec => CallsGoForward /\ []CallsAreShort
  <1>1. Init => ResultsMatchHistory
    BY DEF Init, ResultsMatchHistory, Entered, History, Operation
  <1>2. Init => CallsAreShort
    <2> SUFFICES ASSUME Init, NEW u \in User PROVE Left(u) <= MaxPolls + 102
      BY DEF CallsAreShort
    <2>1. Left(u) = 0
      BY DEF Init, Left, StepsLeft, Idle
    <2> QED
      BY <2>1, PollAssumption
  <1> DEFINE Inv == /\ LifecycleInv /\ ResultsMatchHistory /\ HistoryIsShort
                    /\ CallsAreTidy /\ CallsAreShort
             Forward == \A u \in User :
                 /\ Step(u) \/ Fail(u) => Left(u)' < Left(u)
                 /\ \/ caller[u] = Idle
                    \/ Left(u)' < Left(u)
                    \/ caller'[u] = caller[u] /\ Left(u)' <= Left(u)
  <1>3. Inv /\ [Next]_vars => Inv'
    BY LifecycleNext, ResultsNext, ShortNext, TidyNext, ShortCallsNext
  <1>4. Inv /\ [Next]_vars => Forward
    BY CallGoesForward
  <1>5. Init => Inv
    BY <1>1, <1>2, LifecycleInit, TidyNext
  <1>6. Inv => CallsAreShort
    OBVIOUS
  <1>7. CallsGoForward <=> [][Forward]_vars
    BY DEF CallsGoForward
  <1> HIDE DEF Inv, Forward
  <1> QED
    BY <1>3, <1>4, <1>5, <1>6, <1>7, PTL DEF Spec

\* No call waits for something that never comes: what it does next finds a
\* journey to do it on, in whatever state others left it (tools.py), be it
\* that the state machine refuses it and the call ends.
THEOREM NoCallIsStuck == Spec => []NobodyIsStuck
  <1>1. LifecycleInv => NobodyIsStuck
    BY CallCanStep DEF NobodyIsStuck
  <1> QED
    BY <1>1, LifecycleInit, LifecycleNext, PTL DEF Spec

-----------------------------------------------------------------------------
(* What the gateway promises                                               *)

RecordOf(op) == INSTANCE OperationRecord WITH Provided <- op = "ad-provisioning",
                                              record <- record[op]

\* A pending request is no failure yet.
PendingIsGood(op) ==
    record[op] # None /\ record[op].status = "WAITING" => record[op].successful

LEMMA RecordingKeepsOthers ==
    ASSUME LifecycleInv, NEW op \in Operation, NEW o \in Operation,
           NEW row, record' = [record EXCEPT ![o] = row]
    PROVE  record'[op] = IF op = o THEN row ELSE record[op]
  BY DEF LifecycleInv, TypeOK

LEMMA GatewayStep ==
    ASSUME LifecycleInv, [Next]_vars, NEW op \in Operation, PendingIsGood(op)
    PROVE  PendingIsGood(op)' /\ [RecordOf(op)!Next]_(record[op])
  <1>1. record[op] \in Record \cup {None}
    BY DEF LifecycleInv, TypeOK
  <1>2. ASSUME record'[op] = record[op]
        PROVE  PendingIsGood(op)' /\ [RecordOf(op)!Next]_(record[op])
    BY <1>2 DEF PendingIsGood
  <1>3. {"apm-validation", "ad-provisioning", "app-factory-validation"} \subseteq Operation
    BY DEF Operation
  <1>4. ASSUME NEW o \in Operation \ {"ad-provisioning"}, NEW ok \in BOOLEAN,
               record[o] = None, Recorded(o, "COMPLETED", ok, 0)
        PROVE  PendingIsGood(op)' /\ [RecordOf(op)!Next]_(record[op])
    <2>1. CASE op = o
      <3>1. record'[op] = [status |-> "COMPLETED", successful |-> ok, observations |-> 0]
        BY <1>4, <2>1, RecordingKeepsOthers DEF Recorded
      <3> QED
        BY <1>4, <2>1, <3>1 DEF PendingIsGood, RecordOf!Next, RecordOf!Validate
    <2>2. CASE op # o
      BY <1>2, <1>4, <2>2, RecordingKeepsOthers DEF Recorded
    <2> QED
      BY <2>1, <2>2
  <1>5. CASE ValidateApm
    BY <1>3, <1>4, <1>5 DEF ValidateApm
  <1>6. CASE ValidateAppFactory
    <2>1. (journey.context["inventory"] # None) \in BOOLEAN
      OBVIOUS
    <2> QED
      BY <1>3, <1>4, <1>6, <2>1 DEF ValidateAppFactory
  <1>7. CASE SubmitAd
    <2>1. CASE op = "ad-provisioning"
      <3>1. record'[op] = [status |-> "WAITING", successful |-> TRUE, observations |-> 0]
        <4>1. Recorded("ad-provisioning", "WAITING", TRUE, 0)
          BY <1>7 DEF SubmitAd
        <4> QED
          BY <2>1, <4>1, RecordingKeepsOthers DEF Recorded
      <3> QED
        BY <1>7, <2>1, <3>1 DEF SubmitAd, PendingIsGood, RecordOf!Next, RecordOf!Submit
    <2>2. CASE op # "ad-provisioning"
      BY <1>2, <1>3, <1>7, <2>2, RecordingKeepsOthers DEF Recorded, SubmitAd
    <2> QED
      BY <2>1, <2>2
  <1>8. CASE PollAd
    <2> PICK observed : observed = record["ad-provisioning"].observations + 1
      OBVIOUS
    <2>0. IF observed <= PendingPolls
          THEN Recorded("ad-provisioning", "WAITING", TRUE, observed)
          ELSE Recorded("ad-provisioning", "COMPLETED", TRUE, observed)
      BY <1>8 DEF PollAd
    <2>1. CASE op = "ad-provisioning"
      <3>1. /\ record[op] # None /\ record[op].status = "WAITING" /\ record[op].successful = TRUE
            /\ record[op].observations \in Nat
        BY <1>1, <1>8, <2>1 DEF PollAd, PendingIsGood, Record
      <3>2. CASE observed <= PendingPolls
        <4>1. record'[op] = [status |-> "WAITING", successful |-> TRUE,
                             observations |-> observed]
          BY <2>0, <2>1, <3>2, RecordingKeepsOthers DEF Recorded
        <4>2. record'[op] = [record[op] EXCEPT !.observations = @ + 1]
          <5>1. PICK s, k, n : /\ record[op] = [status |-> s, successful |-> k,
                                               observations |-> n]
            BY <1>1, <3>1 DEF Record
          <5>2. s = "WAITING" /\ k = TRUE /\ observed = n + 1
            BY <2>1, <3>1, <5>1
          <5>3. [record[op] EXCEPT !.observations = @ + 1] =
                    [status |-> s, successful |-> k, observations |-> n + 1]
            BY <5>1
          <5> QED
            BY <4>1, <5>2, <5>3
        <4>3. record[op].observations < PendingPolls
          BY <2>1, <3>1, <3>2, PollAssumption
        <4> QED
          BY <2>1, <3>1, <4>1, <4>2, <4>3 DEF PendingIsGood, RecordOf!Next, RecordOf!Poll
      <3>3. CASE ~(observed <= PendingPolls)
        <4>1. record'[op] = [status |-> "COMPLETED", successful |-> TRUE,
                             observations |-> observed]
          BY <2>0, <2>1, <3>3, RecordingKeepsOthers DEF Recorded
        <4>2. ~(record[op].observations < PendingPolls)
          BY <2>1, <3>1, <3>3, PollAssumption
        <4>3. observed = record[op].observations + 1
          BY <2>1
        <4>4. RecordOf(op)!Poll
          BY <2>1, <3>1, <4>1, <4>2, <4>3 DEF RecordOf!Poll
        <4> QED
          BY <4>1, <4>4 DEF PendingIsGood, RecordOf!Next
      <3> QED
        BY <3>2, <3>3
    <2>2. CASE op # "ad-provisioning"
      <3>1. \E status, ok, n : Recorded("ad-provisioning", status, ok, n)
        BY <1>8 DEF PollAd
      <3> QED
        BY <1>2, <1>3, <2>2, <3>1, RecordingKeepsOthers DEF Recorded
    <2> QED
      BY <2>1, <2>2
  <1>9. ASSUME NEW u \in User, (\E m \in Method[u] : Begin(u, m)) \/ Step(u) \/ Fail(u)
        PROVE  UNCHANGED record
    BY <1>9 DEF Begin, Step, Find, Create, Look, Go, Move, Merge, Observe, Return, Fail
  <1>10. UNCHANGED vars => UNCHANGED record
    BY DEF vars
  <1> QED
    BY <1>2, <1>5, <1>6, <1>7, <1>8, <1>9, <1>10 DEF Next, BatchStep

\* The gateway of the demonstration keeps the promise that batch jobs are
\* proved correct next to (OperationRecord, BatchRuntimeProofs): it records a
\* request once, counts the polls, and decides once, although users move the
\* journey meanwhile and make it refuse (business_operations.py:67-160).
THEOREM GatewayKeepsPromise == Spec => \A op \in Operation : RecordOf(op)!Spec
  <1> SUFFICES ASSUME NEW op \in Operation
               PROVE  Spec => RecordOf(op)!Spec
    OBVIOUS
  <1>1. Init => PendingIsGood(op) /\ RecordOf(op)!Init
    BY DEF Init, PendingIsGood, RecordOf!Init
  <1>2. LifecycleInv /\ PendingIsGood(op) /\ [Next]_vars =>
            PendingIsGood(op)' /\ [RecordOf(op)!Next]_(record[op])
    BY GatewayStep
  <1> QED
    BY <1>1, <1>2, LifecycleInit, LifecycleNext, PTL DEF Spec, RecordOf!Spec

=============================================================================
