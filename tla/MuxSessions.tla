---------------------------- MODULE MuxSessions ----------------------------
(***************************************************************************)
(* Dialers that share one multiplexed connection per address (x/dialer     *)
(* mtcp, mtls, mws) and the route that calls them (x/chain/route.go).  A   *)
(* route calls Dial and then Handshake, each under the dialer's lock but   *)
(* not together: between the two another route may replace the session.    *)
(* One address is modelled.                                                *)
(***************************************************************************)
EXTENDS Integers

CONSTANTS
    Routes,   \* routes that connect at the same time
    Conns,    \* connections, used again once they are closed and forgotten
    None

VARIABLES
    session,  \* d.sessions[addr]: its connection and whether it is multiplexed, or None
    open,     \* connections that are open
    dead,     \* connections whose session has ended; its end closes the connection
    lock,     \* holder of sessionMutex
    route     \* routes: where they stand, the connection Dial returned

vars == <<session, open, dead, lock, route>>

Idle      == [at |-> "idle", c |-> None]
Entry(c, m) == [conn |-> c, muxed |-> m]
Referred  == {route[r].c : r \in Routes} \cup (IF session = None THEN {} ELSE {session.conn})
Free      == Conns \ (open \cup Referred)

TypeOK ==
    /\ session \in [conn : Conns, muxed : BOOLEAN] \cup {None}
    /\ open \subseteq Conns /\ dead \subseteq Conns
    /\ lock \in Routes \cup {None}
    /\ route \in [Routes -> [at : {"idle", "dialing", "dialed", "stream"}, c : Conns \cup {None}]]

Init ==
    /\ session = None /\ open = {} /\ dead = {} /\ lock = None
    /\ route = [r \in Routes |-> Idle]

\* A session that is not multiplexed yet counts as closed too.
IsClosed == ~session.muxed \/ session.conn \in dead

\* Dial, with a session that is alive.
DialReuse(r) ==
    /\ route[r].at = "idle" /\ lock = None
    /\ session # None /\ ~IsClosed
    /\ route' = [route EXCEPT ![r] = [at |-> "dialed", c |-> session.conn]]
    /\ UNCHANGED <<session, open, dead, lock>>

\* Mutant: a session that is alive is replaced.
DialBeginAlways(r) ==
    /\ route[r].at = "idle" /\ lock = None
    /\ lock' = r /\ session' = None
    /\ route' = [route EXCEPT ![r].at = "dialing"]
    /\ UNCHANGED <<open, dead>>

\* Dial, with none: the connection is made while the lock is held.
DialBegin(r) ==
    /\ route[r].at = "idle" /\ lock = None
    /\ session # None => IsClosed
    /\ lock' = r /\ session' = None
    /\ route' = [route EXCEPT ![r].at = "dialing"]
    /\ UNCHANGED <<open, dead>>

DialEnd(r) ==
    /\ route[r].at = "dialing"
    /\ lock' = None
    /\ \/ \E c \in Free :
            /\ open' = open \cup {c} /\ dead' = dead \ {c}
            /\ session' = Entry(c, FALSE)
            /\ route' = [route EXCEPT ![r] = [at |-> "dialed", c |-> c]]
       \/ route' = [route EXCEPT ![r] = Idle] /\ UNCHANGED <<session, open, dead>>

\* The route fails and closes the connection, which others may share.
GivesUp(r, c) == open' = open \ {c} /\ dead' = dead \cup {c} /\ route' = [route EXCEPT ![r] = Idle]

\* Handshake, when another route has replaced the session.
Unrecognized(r) ==
    /\ route[r].at = "dialed" /\ lock = None
    /\ session # None /\ session.conn # route[r].c
    /\ GivesUp(r, route[r].c)
    /\ UNCHANGED <<session, lock>>

\* Handshake: the session is multiplexed unless it is already, and a stream opened.
\* A failure forgets the session.
Handshake(r) ==
    LET c == route[r].c
    IN  /\ route[r].at = "dialed" /\ lock = None
        /\ session # None => session.conn = c
        /\ \/ /\ c \notin dead
              /\ session' = Entry(c, TRUE)
              /\ route' = [route EXCEPT ![r].at = "stream"]
              /\ UNCHANGED <<open, dead>>
           \/ session' = None /\ GivesUp(r, c)
        /\ UNCHANGED lock

\* The peer, the network or the keepalive ends a session; the dialer notices later.
SessionEnds(c) ==
    /\ c \in open /\ session = Entry(c, TRUE)
    /\ open' = open \ {c} /\ dead' = dead \cup {c}
    /\ UNCHANGED <<session, lock, route>>

StreamEnds(r) ==
    /\ route[r].at = "stream"
    /\ route' = [route EXCEPT ![r] = Idle]
    /\ UNCHANGED <<session, open, dead, lock>>

Next ==
    \/ \E r \in Routes : DialReuse(r) \/ DialBegin(r) \/ DialEnd(r) \/ Unrecognized(r) \/ Handshake(r) \/ StreamEnds(r)
    \/ \E c \in Conns : SessionEnds(c)

Spec == Init /\ [][Next]_vars

\* No connection is forgotten while it is open: it is the session's or belongs to
\* a route that will make it the session's or close it (mtcp/dialer.go:60, :97, :103-117;
\* route.go:240).
NoOrphan == \A c \in open : (session # None /\ session.conn = c) \/ \E r \in Routes : route[r] = [at |-> "dialed", c |-> c]
=============================================================================
