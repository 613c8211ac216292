---------------------------- MODULE RemoteCalls ----------------------------
(***************************************************************************)
(* What the panel may rely on when it sends a command to a node: calls     *)
(* that end once, and commands that reach the agent at most once, only     *)
(* while their call is under way, and are executed in their own time, also *)
(* after the call was given up.  Nothing is said of sessions, timers or    *)
(* connections: NodeGateway implements this with them.                     *)
(***************************************************************************)
CONSTANTS Requests

VARIABLES
    outcome,    \* of each call: "new", "open", "answered", "failed"
    todo,       \* commands the agent has and has not executed
    done        \* commands the agent has executed

vars == <<outcome, todo, done>>

Init ==
    /\ outcome = [r \in Requests |-> "new"]
    /\ todo = {} /\ done = {}

Begin(r) ==
    /\ outcome[r] = "new"
    /\ outcome' = [outcome EXCEPT ![r] = "open"]
    /\ UNCHANGED <<todo, done>>

\* There is nobody to send the command to.
Refuse(r) ==
    /\ outcome[r] = "new"
    /\ outcome' = [outcome EXCEPT ![r] = "failed"]
    /\ UNCHANGED <<todo, done>>

Deliver(r) ==
    /\ outcome[r] = "open" /\ r \notin todo \cup done
    /\ todo' = todo \cup {r}
    /\ UNCHANGED <<outcome, done>>

Perform(r) ==
    /\ r \in todo
    /\ todo' = todo \ {r} /\ done' = done \cup {r}
    /\ UNCHANGED outcome

Answer(r) ==
    /\ outcome[r] = "open" /\ r \in done
    /\ outcome' = [outcome EXCEPT ![r] = "answered"]
    /\ UNCHANGED <<todo, done>>

\* The command may be executed all the same, before or after this.
GiveUp(r) ==
    /\ outcome[r] = "open"
    /\ outcome' = [outcome EXCEPT ![r] = "failed"]
    /\ UNCHANGED <<todo, done>>

Step(r) == Begin(r) \/ Refuse(r) \/ Deliver(r) \/ Perform(r) \/ Answer(r) \/ GiveUp(r)

Next == \E r \in Requests : Step(r)

Spec == Init /\ [][Next]_vars
=============================================================================
