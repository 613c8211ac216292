----------------------------- MODULE TunnelPool -----------------------------
(***************************************************************************)
(* The pool of reverse tunnels of a node (x/handler/tunnel/tunnel.go) for  *)
(* one tunnel, the binds that fill it (bind.go) and the service discovery  *)
(* they register with.  Every connector has a goroutine that waits for the *)
(* end of its session, every tunnel one that renews and cleans, the pool   *)
(* one that drops idle tunnels.                                            *)
(***************************************************************************)
EXTENDS FiniteSets

CONSTANTS
    Connectors,  \* binds of the tunnel, in the pool's lifetime
    Tunnels,     \* tunnel objects, used again once they have stopped
    None

VARIABLES
    current,     \* p.tunnels[tid]
    closed,      \* the pool was closed and closeIdles has ended
    conns,       \* connectors of each tunnel object
    running,     \* tunnel objects whose clean goroutine runs
    renewing,    \* what the clean of a tunnel has still to renew, under its lock
    con,         \* connectors: the bind's progress, the session, its waiting goroutine
    sd           \* connectors registered with the service discovery

vars == <<current, closed, conns, running, renewing, con, sd>>

Open(c) == con[c].session = "open"

TypeOK ==
    /\ current \in Tunnels \cup {None} /\ closed \in BOOLEAN
    /\ conns \in [Tunnels -> SUBSET Connectors] /\ renewing \in [Tunnels -> SUBSET Connectors]
    /\ running \subseteq Tunnels /\ sd \subseteq Connectors
    /\ con \in [Connectors -> [bind : {"none", "made", "added", "bound"}, session : {"none", "open", "closed"},
                               wait : {"none", "accept", "deregister", "ended"}]]

Init ==
    /\ current = None /\ closed = FALSE
    /\ conns = [t \in Tunnels |-> {}] /\ renewing = [t \in Tunnels |-> {}]
    /\ running = {} /\ sd = {}
    /\ con = [c \in Connectors |-> [bind |-> "none", session |-> "none", wait |-> "none"]]

\* handleBind has made a session of the client's connection.
NewConnector(c) ==
    /\ con[c].bind = "none"
    /\ con' = [con EXCEPT ![c] = [bind |-> "made", session |-> "open", wait |-> "accept"]]
    /\ UNCHANGED <<current, closed, conns, running, renewing, sd>>

\* A tunnel that is not there is made, also after the pool was closed.
Add(c) ==
    /\ con[c].bind = "made"
    /\ \E t \in Tunnels :
         /\ IF current = None THEN t \notin running ELSE t = current /\ renewing[t] = {}
         /\ current' = t /\ running' = running \cup {t}
         /\ conns' = [conns EXCEPT ![t] = (IF current = None THEN {} ELSE @) \cup {c}]
    /\ con' = [con EXCEPT ![c].bind = "added"]
    /\ UNCHANGED <<closed, renewing, sd>>

\* An error of the registration is only logged.
Register(c) ==
    /\ con[c].bind = "added"
    /\ con' = [con EXCEPT ![c].bind = "bound"]
    /\ sd' = sd \cup {c} \/ UNCHANGED sd
    /\ UNCHANGED <<current, closed, conns, running, renewing>>

\* The client's connection ends.
SessionEnds(c) ==
    /\ Open(c)
    /\ con' = [con EXCEPT ![c].session = "closed"]
    /\ UNCHANGED <<current, closed, conns, running, renewing, sd>>

\* waitClose: Accept fails, the session is closed, then the registration is taken back.
AcceptFails(c) ==
    /\ con[c].wait = "accept" /\ ~Open(c)
    /\ con' = [con EXCEPT ![c].wait = "deregister"]
    /\ UNCHANGED <<current, closed, conns, running, renewing, sd>>

Deregister(c) ==
    /\ con[c].wait = "deregister"
    /\ con' = [con EXCEPT ![c].wait = "ended"]
    /\ sd' = sd \ {c}
    /\ UNCHANGED <<current, closed, conns, running, renewing>>

\* Mutant: what has ended stays in the tunnel.
CleanKeeps(t) ==
    /\ t \in running /\ renewing[t] = {}
    /\ renewing' = [renewing EXCEPT ![t] = conns[t]]
    /\ UNCHANGED <<current, closed, conns, running, con, sd>>

\* The ticker of a tunnel: what has ended is dropped, the others are renewed.
Clean(t) ==
    /\ t \in running /\ renewing[t] = {}
    /\ conns' = [conns EXCEPT ![t] = {c \in @ : Open(c)}]
    /\ renewing' = [renewing EXCEPT ![t] = {c \in conns[t] : Open(c)}]
    /\ UNCHANGED <<current, closed, running, con, sd>>

\* By then its session may have ended: whether that brings a registration back is
\* the service's to say.
Renew(t, c) ==
    /\ c \in renewing[t]
    /\ renewing' = [renewing EXCEPT ![t] = @ \ {c}]
    /\ sd' = sd \cup {c} \/ UNCHANGED sd
    /\ UNCHANGED <<current, closed, conns, running, con>>

\* Mutant: a tunnel is dropped although it has connectors.
IdleAlways(t) == renewing[t] = {}

Idle(t) == renewing[t] = {} /\ conns[t] = {}

\* closeIdles: an idle tunnel is closed and dropped, under the lock of the pool.
CloseIdles ==
    /\ ~closed /\ current # None /\ Idle(current)
    /\ running' = running \ {current}
    /\ current' = None
    /\ UNCHANGED <<closed, conns, renewing, con, sd>>

\* The handler is closed; binds under way go on.
Close ==
    /\ ~closed /\ closed' = TRUE
    /\ current # None => renewing[current] = {}
    /\ con' = [c \in Connectors |->
                 IF current # None /\ c \in conns[current] THEN [con[c] EXCEPT !.session = "closed"] ELSE con[c]]
    /\ running' = running \ {current}
    /\ current' = None
    /\ UNCHANGED <<conns, renewing, sd>>

Next ==
    \/ \E c \in Connectors :
         NewConnector(c) \/ Add(c) \/ Register(c) \/ SessionEnds(c) \/ AcceptFails(c) \/ Deregister(c)
    \/ \E t \in Tunnels : Clean(t) \/ \E c \in Connectors : Renew(t, c)
    \/ CloseIdles \/ Close

\* The goroutines run on, the tickers tick, and a lock that is free again and again
\* is obtained.
Fairness ==
    /\ \A c \in Connectors : SF_vars(Add(c)) /\ WF_vars(Register(c)) /\ WF_vars(AcceptFails(c)) /\ WF_vars(Deregister(c))
    /\ \A t \in Tunnels : WF_vars(Clean(t)) /\ \A c \in Connectors : WF_vars(Renew(t, c))
    /\ WF_vars(CloseIdles)

Spec == Init /\ [][Next]_vars /\ Fairness

\* A connector that is open can be found: its tunnel is the pool's, and a tunnel's
\* goroutine runs exactly while the pool has the tunnel (tunnel.go:313, :349, :366).
Reachable ==
    /\ running = {current} \ {None}
    /\ \A c \in Connectors : Open(c) /\ con[c].bind \in {"added", "bound"} => current # None /\ c \in conns[current]

\* When the clients are gone nothing of the tunnel is left: its connectors are
\* dropped, then the tunnel, unless the pool was closed before (tunnel.go:262, :366).
Gone    == \A c \in Connectors : ~Open(c) /\ con[c].bind # "made"
Settles == <>[]Gone => <>[](current = None \/ closed)
=============================================================================
