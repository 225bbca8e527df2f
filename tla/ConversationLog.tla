--------------------------- MODULE ConversationLog ---------------------------
(***************************************************************************)
(* What the session service promises about each conversation: it is opened *)
(* once, from then on a log that only grows, by events that are new to it, *)
(* and once it is retired it is gone and stays gone.                       *)
(***************************************************************************)
EXTENDS Sequences

CONSTANTS
    Scope,  \* conversations
    Event   \* what can be logged

VARIABLES
    phase,  \* of each conversation: "new", "open" or "retired"
    log     \* the events of each conversation, empty unless it is open

vars == <<phase, log>>

Init ==
    /\ phase = [s \in Scope |-> "new"]
    /\ log = [s \in Scope |-> <<>>]

Open(s) ==
    /\ phase[s] = "new"
    /\ phase' = [phase EXCEPT ![s] = "open"]
    /\ UNCHANGED log

Append_(s, e) ==
    /\ phase[s] = "open"
    /\ \A i \in DOMAIN log[s] : log[s][i] # e
    /\ log' = [log EXCEPT ![s] = Append(@, e)]
    /\ UNCHANGED phase

\* A conversation can be retired that was never opened.
Retire(s) ==
    /\ phase' = [phase EXCEPT ![s] = "retired"]
    /\ log' = [log EXCEPT ![s] = <<>>]

Next == \E s \in Scope : \/ Open(s)
                         \/ \E e \in Event : Append_(s, e)
                         \/ Retire(s)

Spec == Init /\ [][Next]_vars
=============================================================================
