--------------------------- MODULE AdminSessions ---------------------------
(***************************************************************************)
(* Administrators' browsers at the panel's gateway (NodeGateway.cs): a     *)
(* ticket is issued to a logged-in administrator, opens one WebSocket      *)
(* within a minute, and the session then receives the broadcasts that the  *)
(* read loops of the nodes make.  A broadcast is part of the read loop of  *)
(* its node, and goes to one browser after the other under that browser's  *)
(* semaphore, so a browser that stops reading holds the nodes up.          *)
(***************************************************************************)
EXTENDS Integers, FiniteSets

CONSTANTS
    Tickets,  \* tickets, each drawn at random once
    Browsers, \* connections of browsers
    Nodes,    \* read loops of nodes
    None

VARIABLES
    ticket,   \* tickets: "none", "valid", "expired", "gone" (removed from _tickets)
    browser,  \* connections: state of the socket and of their AcceptAsync, ticket presented
    admins,   \* _admins
    lock,     \* _sendLock of every browser: the node that holds it
    node      \* read loops: where they stand, browsers the broadcast still goes to

vars == <<ticket, browser, admins, lock, node>>

Fresh   == [at |-> "none", ticket |-> None]
Reading == [at |-> "read", to |-> None, left |-> {}]

TypeOK ==
    /\ ticket \in [Tickets -> {"none", "valid", "expired", "gone"}]
    /\ browser \in [Browsers -> [at : {"none", "accepting", "open", "silent", "closed", "refused"}, ticket : Tickets \cup {None}]]
    /\ admins \subseteq Browsers
    /\ lock \in [Browsers -> Nodes \cup {None}]
    /\ node \in [Nodes -> [at : {"read", "cast", "wait", "send"}, to : Browsers \cup {None}, left : SUBSET Browsers]]

Init ==
    /\ ticket = [t \in Tickets |-> "none"]
    /\ browser = [b \in Browsers |-> Fresh]
    /\ admins = {}
    /\ lock = [b \in Browsers |-> None]
    /\ node = [n \in Nodes |-> Reading]

\* The endpoint ws-ticket for an administrator; tickets past their time are removed.
IssueAdminTicket(t) ==
    /\ ticket[t] = "none"
    /\ ticket' = [s \in Tickets |-> IF s = t THEN "valid" ELSE IF ticket[s] = "expired" THEN "gone" ELSE ticket[s]]
    /\ UNCHANGED <<browser, admins, lock, node>>

Minute(t) ==
    /\ ticket[t] = "valid"
    /\ ticket' = [ticket EXCEPT ![t] = "expired"]
    /\ UNCHANGED <<browser, admins, lock, node>>

\* AcceptAsync of type 2: the ticket is removed first, then its time is looked at.
TryConsumeAdminTicket(b, t) ==
    /\ browser[b].at = "none"
    /\ browser' = [browser EXCEPT ![b] = [at |-> IF ticket[t] = "valid" THEN "accepting" ELSE "refused", ticket |-> t]]
    /\ ticket' = [ticket EXCEPT ![t] = IF @ = "none" THEN @ ELSE "gone"]
    /\ UNCHANGED <<admins, lock, node>>

Accept(b) ==
    /\ browser[b].at = "accepting"
    /\ browser' = [browser EXCEPT ![b].at = "open"]
    /\ admins' = admins \cup {b}
    /\ UNCHANGED <<ticket, lock, node>>

\* The browser stops reading, by a lost network or a suspended machine.
FallsSilent(b) ==
    /\ browser[b].at = "open"
    /\ browser' = [browser EXCEPT ![b].at = "silent"]
    /\ UNCHANGED <<ticket, admins, lock, node>>

\* A close frame, or the transport gives the connection up; the read loop ends.
End(b) ==
    /\ browser[b].at \in {"open", "silent"}
    /\ browser' = [browser EXCEPT ![b].at = "closed"]
    /\ admins' = admins \ {b}
    /\ UNCHANGED <<ticket, lock, node>>

(***************************************************************************)
(* BroadcastAsync in the read loop of a node.                              *)
(***************************************************************************)
Broadcast(n) ==
    /\ node[n].at = "read"
    /\ node' = [node EXCEPT ![n] = [at |-> "cast", to |-> None, left |-> admins]]
    /\ UNCHANGED <<ticket, browser, admins, lock>>

\* The next browser of the snapshot; one that is not open any more is skipped.
NextAdmin(n) ==
    /\ node[n].at = "cast"
    /\ IF node[n].left = {}
         THEN node' = [node EXCEPT ![n] = Reading]
         ELSE \E b \in node[n].left :
                node' = [node EXCEPT ![n] =
                   [at |-> IF browser[b].at = "closed" THEN "cast" ELSE "wait", to |-> b, left |-> node[n].left \ {b}]]
    /\ UNCHANGED <<ticket, browser, admins, lock>>

WaitSendLock(n) ==
    /\ node[n].at = "wait" /\ lock[node[n].to] = None
    /\ lock' = [lock EXCEPT ![node[n].to] = n]
    /\ node' = [node EXCEPT ![n].at = "send"]
    /\ UNCHANGED <<ticket, browser, admins>>

\* Mutant: a send that fails keeps the semaphore.
SentKeepsLock(n) ==
    /\ node[n].at = "send" /\ browser[node[n].to].at # "silent"
    /\ lock' = IF browser[node[n].to].at = "open" THEN [lock EXCEPT ![node[n].to] = None] ELSE lock
    /\ node' = [node EXCEPT ![n].at = "cast", ![n].to = None]
    /\ UNCHANGED <<ticket, browser, admins>>

\* The frame is taken or the send fails, which is ignored; a silent browser
\* takes nothing until its connection is given up.
Sent(n) ==
    /\ node[n].at = "send" /\ browser[node[n].to].at # "silent"
    /\ lock' = [lock EXCEPT ![node[n].to] = None]
    /\ node' = [node EXCEPT ![n].at = "cast", ![n].to = None]
    /\ UNCHANGED <<ticket, browser, admins>>

Next ==
    \/ \E t \in Tickets : IssueAdminTicket(t) \/ Minute(t) \/ \E b \in Browsers : TryConsumeAdminTicket(b, t)
    \/ \E b \in Browsers : Accept(b) \/ FallsSilent(b) \/ End(b)
    \/ \E n \in Nodes : Broadcast(n) \/ NextAdmin(n) \/ WaitSendLock(n) \/ Sent(n)

\* The read loops run; the transport gives a silent connection up in the end
\* (TCP retransmission and the keep-alive frames).
Fairness ==
    /\ \A n \in Nodes : WF_vars(NextAdmin(n)) /\ SF_vars(WaitSendLock(n)) /\ WF_vars(Sent(n))
    /\ \A b \in Browsers : WF_vars(browser[b].at = "silent" /\ End(b))

Spec == Init /\ [][Next]_vars /\ Fairness

\* A browser that stops reading delays the nodes whose read loops have something
\* for it, but does not stop them: each gets back to reading (NodeGateway.cs:254-262).
NodesReadOn == \A n \in Nodes : node[n].at = "cast" ~> node[n].at = "read"
=============================================================================
