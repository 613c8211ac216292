---------------------------- MODULE ForwardLife ----------------------------
(***************************************************************************)
(* What the administrator of a panel may rely on about forwards, whoever   *)
(* else works on them at the same time and whatever is lost on the way to  *)
(* the node: a forward lives once, pauses and deletions happen only on     *)
(* request, and a creation either is confirmed or leaves nothing.  Nothing *)
(* is said of nodes, ports, commands or statements: ForwardControl         *)
(* implements this with them.                                              *)
(***************************************************************************)
CONSTANTS Forwards, Requests

VARIABLES
    life,       \* of each forward: "none" yet, "on", "paused", "over" its quota, "gone"
    wish,       \* what each request of an administrator asks for, and for which forward
    confirmed   \* forwards whose creation was confirmed

vars == <<life, wish, confirmed>>

NoWish   == [op |-> "none", f |-> "none"]
Alive(f) == life[f] \in {"on", "paused", "over"}
Asked(i, o, f) == wish[i] = [op |-> o, f |-> f]
Ended(i)       == wish' = [wish EXCEPT ![i] = NoWish]
Becomes(f, l)  == life' = [life EXCEPT ![f] = l]

Init ==
    /\ life = [f \in Forwards |-> "none"]
    /\ wish = [i \in Requests |-> NoWish]
    /\ confirmed = {}

AskCreate(i) ==
    /\ wish[i] = NoWish
    /\ wish' = [wish EXCEPT ![i] = [op |-> "create", f |-> "none"]]
    /\ UNCHANGED <<life, confirmed>>

Ask(i, o, f) ==
    /\ wish[i] = NoWish /\ Alive(f)
    /\ wish' = [wish EXCEPT ![i] = [op |-> o, f |-> f]]
    /\ UNCHANGED <<life, confirmed>>

\* The forward exists before its creation is confirmed, and others can already change it.
Insert(i, f) ==
    /\ Asked(i, "create", "none") /\ life[f] = "none"
    /\ Becomes(f, "on")
    /\ wish' = [wish EXCEPT ![i] = [op |-> "create", f |-> f]]
    /\ UNCHANGED confirmed

\* Somebody may have deleted it in the meantime.
Confirm(i, f) ==
    /\ Asked(i, "create", f)
    /\ confirmed' = confirmed \cup {f} /\ Ended(i)
    /\ UNCHANGED life

\* A deletion, or the end of a creation that has failed.
Remove(i, f) ==
    /\ \E o \in {"create", "delete"} : Asked(i, o, f)
    /\ Becomes(f, "gone") /\ Ended(i)
    /\ UNCHANGED confirmed

Pause(i, f) ==
    /\ Asked(i, "pause", f) /\ Alive(f)
    /\ Becomes(f, "paused") /\ Ended(i)
    /\ UNCHANGED confirmed

Resume(i, f) ==
    /\ Asked(i, "resume", f) /\ Alive(f)
    /\ Becomes(f, "on") /\ Ended(i)
    /\ UNCHANGED confirmed

\* A request ends without effect, except a creation that has made its forward.
Fail(i) ==
    /\ wish[i].op = "create" => wish[i].f = "none"
    /\ Ended(i)
    /\ UNCHANGED <<life, confirmed>>

\* The only changes nobody asks for.
Quota(f) ==
    /\ life[f] \in {"on", "over"}
    /\ \E l \in {"on", "over"} : Becomes(f, l)
    /\ UNCHANGED <<wish, confirmed>>

Next ==
    \/ \E i \in Requests : AskCreate(i) \/ Fail(i)
    \/ \E f \in Forwards : Quota(f)
    \/ \E i \in Requests, f \in Forwards :
           \/ \E o \in {"delete", "pause", "resume"} : Ask(i, o, f)
           \/ Insert(i, f) \/ Confirm(i, f) \/ Remove(i, f) \/ Pause(i, f) \/ Resume(i, f)

Spec == Init /\ [][Next]_vars
=============================================================================
