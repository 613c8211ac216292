------------------------------ MODULE Runtime ------------------------------
(***************************************************************************)
(* Shared state that overlapping requests meet: the login limiter of the   *)
(* panel and, in the proxy, the sessions of multiplexing dialers, the      *)
(* tunnels carried by HTTP requests and the pool of reverse tunnels.  They *)
(* share nothing with each other: Init picks the one that moves.           *)
(***************************************************************************)
EXTENDS Integers, FiniteSets

CONSTANTS
    Requests, Objects, MaxFailures, Window, Lockout, Lag, MaxTime,  \* LoginRateLimiter
    Routes, Conns,        \* MuxSessions
    MaxChunks,            \* PhtTunnel
    Connectors, Tunnels,  \* TunnelPool
    None

VARIABLES which,
    lNow, lEntry, lObj, lNextCleanup, lReq, lCleared,
    mSession, mOpen, mDead, mLock, mRoute,
    hClosed, hPush, hPushed, hAcked, hPull, hLines, hSome, hRxc, hToken, hPipe, hWritten, hUpGot, hDownGot,
    tCurrent, tClosed, tConns, tRunning, tRenewing, tCon, tSd

lVars == <<lNow, lEntry, lObj, lNextCleanup, lReq, lCleared>>
mVars == <<mSession, mOpen, mDead, mLock, mRoute>>
hVars == <<hClosed, hPush, hPushed, hAcked, hPull, hLines, hSome, hRxc, hToken, hPipe, hWritten, hUpGot, hDownGot>>
tVars == <<tCurrent, tClosed, tConns, tRunning, tRenewing, tCon, tSd>>
vars  == <<which, lVars, mVars, hVars, tVars>>

L == INSTANCE LoginRateLimiter WITH
       now <- lNow, entry <- lEntry, obj <- lObj, nextCleanup <- lNextCleanup, req <- lReq, cleared <- lCleared
X == INSTANCE MuxSessions WITH
       session <- mSession, open <- mOpen, dead <- mDead, lock <- mLock, route <- mRoute
H == INSTANCE PhtTunnel WITH
       closed <- hClosed, push <- hPush, pushed <- hPushed, acked <- hAcked, pull <- hPull, lines <- hLines, some <- hSome,
       rxc <- hRxc, token <- hToken, pipe <- hPipe, written <- hWritten, upGot <- hUpGot, downGot <- hDownGot
T == INSTANCE TunnelPool WITH
       current <- tCurrent, closed <- tClosed, conns <- tConns, running <- tRunning, renewing <- tRenewing, con <- tCon, sd <- tSd

\* None is none of the names it is used beside.
ASSUME NoneAssumption ==
    /\ None \notin Objects \cup Routes \cup Conns \cup Tunnels
    /\ \A c \in Conns, m \in BOOLEAN : X!Entry(c, m) # None

\* The limits of RateLimiting.cs:7-9 (5 failures, 1 and 15 minutes), and that a method
\* is done long before the difference of the last two has passed.
ASSUME LimitsAssumption ==
    /\ MaxFailures \in Nat \ {0} /\ Window \in Nat \ {0} /\ Lockout \in Nat /\ Lag \in Nat
    /\ Window + Lag < Lockout
    /\ MaxTime \in Nat

\* The number of requests is finite, and there is always memory for one more entry.
ASSUME ObjectsAssumption ==
    /\ IsFiniteSet(Requests) /\ IsFiniteSet(Objects)
    /\ Cardinality(Requests) < Cardinality(Objects)

Init ==
    /\ which \in {"login", "mux", "pht", "pool"}
    /\ L!Init /\ X!Init /\ H!Init /\ T!Init

Login(Act) == which = "login" /\ Act /\ UNCHANGED <<which, mVars, hVars, tVars>>
Mux(Act)   == which = "mux"   /\ Act /\ UNCHANGED <<which, lVars, hVars, tVars>>
Pht(Act)   == which = "pht"   /\ Act /\ UNCHANGED <<which, lVars, mVars, tVars>>
Pool(Act)  == which = "pool"  /\ Act /\ UNCHANGED <<which, lVars, mVars, hVars>>

Next == Login(L!Next) \/ Mux(X!Next) \/ Pht(H!Next) \/ Pool(T!Next)

\* The fairness of the pool; the other components make no promise of progress here.
Fairness ==
    /\ \A c \in Connectors : SF_vars(Pool(T!Add(c))) /\ WF_vars(Pool(T!Register(c)))
                           /\ WF_vars(Pool(T!AcceptFails(c))) /\ WF_vars(Pool(T!Deregister(c)))
    /\ \A t \in Tunnels : WF_vars(Pool(T!Clean(t))) /\ \A c \in Connectors : WF_vars(Pool(T!Renew(t, c)))
    /\ WF_vars(Pool(T!CloseIdles))

Spec == Init /\ [][Next]_vars /\ Fairness

\* Only the guesses in flight exceed the limit of failed logins, and the failure that
\* completes it locks the key unless it was overtaken (RateLimiting.cs:22, :41-55).
LoginLimited == L!OverrunBounded /\ L!LockoutSeen

\* A key that is locked out stays locked out (RateLimiting.cs:57-74).
LockKept == L!LockKept

\* A multiplexing dialer forgets no connection that is open (mtcp/dialer.go:60, :97, :103-117).
NoOrphan == X!NoOrphan

\* Both ends of a tunnel over HTTP read what the other wrote, in order and without gap
\* or repetition (pht/conn.go:54, :95, pht/server.go:333, :378).
InOrder == H!InOrder

\* A connector of a reverse tunnel that is open can be found in the pool (tunnel.go:313, :349, :366).
Reachable == T!Reachable

\* When the clients of a tunnel are gone nothing of it is left in the pool (tunnel.go:262, :366).
Settles == T!Settles
=============================================================================
