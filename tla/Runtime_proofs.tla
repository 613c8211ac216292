--------------------------- MODULE Runtime_proofs ---------------------------
(***************************************************************************)
(* Proofs of the safety properties of the components of Runtime, for any   *)
(* number of requests, routes, connectors and chunks.  Every component has *)
(* an inductive invariant of its own; a step of Runtime is a step of one   *)
(* component or leaves it alone (Steps).                                   *)
(***************************************************************************)
EXTENDS Runtime, Sequences, FiniteSetTheorems, TLAPS

\* A step of Runtime is, for each component, one of its steps or none.
LEMMA Steps ==
    ASSUME [Next]_vars
    PROVE  [L!Next]_lVars /\ [X!Next]_mVars /\ [H!Next]_hVars /\ [T!Next]_tVars
<1>1. CASE Login(L!Next)
  BY <1>1 DEF Login
<1>2. CASE Mux(X!Next)
  BY <1>2 DEF Mux
<1>3. CASE Pht(H!Next)
  BY <1>3 DEF Pht
<1>4. CASE Pool(T!Next)
  BY <1>4 DEF Pool
<1>5. CASE UNCHANGED vars
  BY <1>5 DEF vars
<1> QED
  BY <1>1, <1>2, <1>3, <1>4, <1>5 DEF Next

(***************************************************************************)
(* The sessions of multiplexing dialers.                                   *)
(***************************************************************************)

\* While a route dials it holds the lock and there is no session to overwrite.
MuxDialing == \A r \in Routes : mRoute[r].at = "dialing" => mLock = r /\ mSession = None

\* A session that is not multiplexed yet is still in the hands of a route, so Dial
\* may replace it.
MuxHeld(c) == \E r \in Routes : mRoute[r] = [at |-> "dialed", c |-> c]
MuxYoung   == mSession # None /\ ~mSession.muxed /\ mSession.conn \in mOpen => MuxHeld(mSession.conn)

MuxDeadClosed == mDead \cap mOpen = {}

\* A route that is done with Dial has a connection.
MuxDialed == \A r \in Routes : mRoute[r].at = "dialed" => mRoute[r].c \in Conns

MuxIInv == X!TypeOK /\ MuxDialing /\ MuxDialed /\ MuxYoung /\ MuxDeadClosed /\ X!NoOrphan

\* Nothing is open at first.
LEMMA MuxInitIInv == X!Init => MuxIInv
BY DEF X!Init, MuxIInv, X!TypeOK, MuxDialing, MuxDialed, MuxYoung, MuxDeadClosed, X!NoOrphan, X!Idle

\* A route that is given another record leaves what the others hold.
LEMMA MuxHeldKept ==
    ASSUME X!TypeOK, NEW r \in Routes, NEW x, mRoute' = [mRoute EXCEPT ![r] = x],
           NEW c, MuxHeld(c), mRoute[r].at # "dialed" \/ mRoute[r].c # c
    PROVE  MuxHeld(c)'
<1>1. PICK q \in Routes : mRoute[q] = [at |-> "dialed", c |-> c]
  BY DEF MuxHeld
<1>2. q # r
  BY <1>1
<1>3. mRoute'[q] = mRoute[q]
  BY <1>2 DEF X!TypeOK
<1> QED
  BY <1>1, <1>3 DEF MuxHeld

\* While the lock is free no route dials, and none does after a step that leaves
\* the lock free and makes no route dial.
LEMMA MuxDialingKept ==
    ASSUME MuxIInv, mLock = None, NEW r \in Routes, NEW x,
           mRoute' = [mRoute EXCEPT ![r] = x], x.at # "dialing"
    PROVE  MuxDialing'
<1>1. \A q \in Routes : mRoute[q].at # "dialing"
  BY NoneAssumption DEF MuxIInv, MuxDialing
<1> QED
  BY <1>1 DEF MuxIInv, X!TypeOK, MuxDialing

\* A route that rests does not dial.
LEMMA MuxIdleRests == X!Idle.at # "dialing"
BY DEF X!Idle

\* What is open is the session's or in a route's hands.
LEMMA MuxOwned ==
    ASSUME MuxIInv, NEW c \in mOpen, mSession = None \/ mSession.conn # c
    PROVE  MuxHeld(c)
BY DEF MuxIInv, X!NoOrphan, MuxHeld

\* Dial with a session that is alive: one more route holds its connection.
LEMMA MuxDialReuseKeeps ==
    ASSUME MuxIInv, NEW r \in Routes, X!DialReuse(r)
    PROVE  MuxIInv'
<1> DEFINE x == [at |-> "dialed", c |-> mSession.conn]
<1>1. mRoute' = [mRoute EXCEPT ![r] = x] /\ mRoute[r].at = "idle" /\ mSession # None /\ mSession.muxed
  BY DEF X!DialReuse, X!IsClosed
<1>2. mSession' = mSession /\ mOpen' = mOpen /\ mDead' = mDead /\ mLock' = mLock /\ mLock = None
  BY DEF X!DialReuse
<1>3. X!TypeOK' /\ MuxDialed'
  BY <1>1, <1>2 DEF MuxIInv, X!TypeOK, MuxDialed
<1>4. MuxDialing'
  <2>1. x.at # "dialing"
    OBVIOUS
  <2> HIDE DEF x
  <2> QED
    BY <1>1, <1>2, <2>1, MuxDialingKept
<1>5. MuxYoung' /\ MuxDeadClosed'
  BY <1>1, <1>2 DEF MuxIInv, MuxYoung, MuxDeadClosed
<1>6. X!NoOrphan'
  <2> SUFFICES ASSUME NEW c \in mOpen, mSession.conn # c
               PROVE  MuxHeld(c)'
    BY <1>1, <1>2 DEF X!NoOrphan, MuxHeld
  <2> QED
    BY <1>1, MuxOwned, MuxHeldKept DEF MuxIInv
<1> QED
  BY <1>3, <1>4, <1>5, <1>6 DEF MuxIInv

\* Dial with none: the session that is dropped has ended, and is closed, or is not
\* multiplexed yet, and in a route's hands.
LEMMA MuxDialBeginKeeps ==
    ASSUME MuxIInv, NEW r \in Routes, X!DialBegin(r)
    PROVE  MuxIInv'
<1> DEFINE x == [mRoute[r] EXCEPT !.at = "dialing"]
<1>1. mRoute' = [mRoute EXCEPT ![r] = x] /\ mRoute[r].at = "idle" /\ mLock = None
  BY DEF X!DialBegin
<1>2. mSession' = None /\ mLock' = r /\ mOpen' = mOpen /\ mDead' = mDead
  BY DEF X!DialBegin
<1>3. X!TypeOK' /\ MuxDialed'
  BY <1>1, <1>2 DEF MuxIInv, X!TypeOK, MuxDialed
<1>4. MuxDialing'
  BY <1>1, <1>2, NoneAssumption DEF MuxIInv, X!TypeOK, MuxDialing
<1>5. MuxYoung' /\ MuxDeadClosed'
  BY <1>2 DEF MuxIInv, MuxYoung, MuxDeadClosed
<1>6. X!NoOrphan'
  <2> SUFFICES ASSUME NEW c \in mOpen
               PROVE  MuxHeld(c)'
    BY <1>2 DEF X!NoOrphan, MuxHeld
  <2>1. MuxHeld(c)
    <3>1. CASE mSession = None \/ mSession.conn # c
      BY <3>1, MuxOwned
    <3>2. CASE mSession # None /\ mSession.conn = c
      <4>1. ~mSession.muxed \/ c \in mDead
        BY <3>2 DEF X!DialBegin, X!IsClosed
      <4> QED
        BY <3>2, <4>1 DEF MuxIInv, MuxYoung, MuxDeadClosed
    <3> QED
      BY <3>1, <3>2
  <2> QED
    BY <1>1, <2>1, MuxHeldKept DEF MuxIInv
<1> QED
  BY <1>3, <1>4, <1>5, <1>6 DEF MuxIInv

\* The connection that Dial has made becomes the session, which no other route has
\* made one in the meantime.
LEMMA MuxDialEndKeeps ==
    ASSUME MuxIInv, NEW r \in Routes, X!DialEnd(r)
    PROVE  MuxIInv'
<1>1. mRoute[r].at = "dialing" /\ mLock' = None /\ mLock = r /\ mSession = None
  BY DEF X!DialEnd, MuxIInv, MuxDialing
<1>2. \A q \in Routes : q # r => mRoute[q].at # "dialing"
  BY <1>1 DEF MuxIInv, MuxDialing
<1>3. ASSUME NEW c \in X!Free,
             mOpen' = mOpen \cup {c}, mDead' = mDead \ {c}, mSession' = X!Entry(c, FALSE),
             mRoute' = [mRoute EXCEPT ![r] = [at |-> "dialed", c |-> c]]
      PROVE  MuxIInv'
  <2>1. c \in Conns
    BY DEF X!Free
  <2>2. X!TypeOK' /\ MuxDialed'
    BY <1>1, <1>3, <2>1 DEF MuxIInv, X!TypeOK, MuxDialed, X!Entry
  <2>3. MuxDialing'
    BY <1>2, <1>3 DEF MuxIInv, X!TypeOK, MuxDialing
  <2>4. mSession'.conn = c /\ mSession' # None
    BY <1>3, <2>1, NoneAssumption DEF X!Entry
  <2>5. MuxHeld(c)'
    BY <1>3 DEF MuxIInv, X!TypeOK, MuxHeld
  <2>6. MuxYoung' /\ MuxDeadClosed'
    BY <1>3, <2>4, <2>5 DEF MuxIInv, MuxYoung, MuxDeadClosed
  <2>7. X!NoOrphan'
    <3> SUFFICES ASSUME NEW d \in mOpen, d # c
                 PROVE  MuxHeld(d)'
      BY <1>3, <2>4 DEF X!NoOrphan, MuxHeld
    <3> QED
      BY <1>1, <1>3, MuxOwned, MuxHeldKept DEF MuxIInv
  <2> QED
    BY <2>2, <2>3, <2>6, <2>7 DEF MuxIInv
<1>4. ASSUME mRoute' = [mRoute EXCEPT ![r] = X!Idle], mSession' = mSession, mOpen' = mOpen, mDead' = mDead
      PROVE  MuxIInv'
  <2>1. X!TypeOK' /\ MuxDialed'
    BY <1>1, <1>4 DEF MuxIInv, X!TypeOK, MuxDialed, X!Idle
  <2>2. MuxDialing'
    BY <1>2, <1>4 DEF MuxIInv, X!TypeOK, MuxDialing, X!Idle
  <2>3. MuxYoung' /\ MuxDeadClosed'
    BY <1>1, <1>4 DEF MuxIInv, MuxYoung, MuxDeadClosed
  <2>4. X!NoOrphan'
    <3> SUFFICES ASSUME NEW d \in mOpen
                 PROVE  MuxHeld(d)'
      BY <1>4 DEF X!NoOrphan, MuxHeld
    <3> QED
      BY <1>1, <1>4, MuxOwned, MuxHeldKept DEF MuxIInv
  <2> QED
    BY <2>1, <2>2, <2>3, <2>4 DEF MuxIInv
<1> QED
  BY <1>3, <1>4 DEF X!DialEnd

\* A route that fails closes the connection it drops.
LEMMA MuxUnrecognizedKeeps ==
    ASSUME MuxIInv, NEW r \in Routes, X!Unrecognized(r)
    PROVE  MuxIInv'
<1>1. /\ mRoute[r].at = "dialed" /\ mLock = None /\ mSession # None /\ mSession.conn # mRoute[r].c
      /\ mOpen' = mOpen \ {mRoute[r].c} /\ mDead' = mDead \cup {mRoute[r].c}
      /\ mRoute' = [mRoute EXCEPT ![r] = X!Idle] /\ mSession' = mSession /\ mLock' = mLock
  BY DEF X!Unrecognized, X!GivesUp
<1>2. mRoute[r].c \in Conns
  BY <1>1 DEF MuxIInv, MuxDialed
<1>3. X!TypeOK' /\ MuxDialed'
  BY <1>1, <1>2 DEF MuxIInv, X!TypeOK, MuxDialed, X!Idle
<1>4. MuxDialing'
  BY <1>1, MuxDialingKept, MuxIdleRests
<1>5. MuxYoung' /\ MuxDeadClosed'
  <2>1. ASSUME ~mSession.muxed, mSession.conn \in mOpen
        PROVE  MuxHeld(mSession.conn)'
    BY <1>1, <2>1, MuxHeldKept DEF MuxIInv, MuxYoung
  <2> QED
    BY <1>1, <2>1 DEF MuxIInv, MuxYoung, MuxDeadClosed, MuxHeld
<1>6. X!NoOrphan'
  <2> SUFFICES ASSUME NEW d \in mOpen, d # mRoute[r].c, mSession.conn # d
               PROVE  MuxHeld(d)'
    BY <1>1 DEF X!NoOrphan, MuxHeld
  <2> QED
    BY <1>1, MuxOwned, MuxHeldKept DEF MuxIInv
<1> QED
  BY <1>3, <1>4, <1>5, <1>6 DEF MuxIInv

\* Handshake that succeeds: the connection of the route is the session's from then on.
LEMMA MuxHandshakeKeeps ==
    ASSUME MuxIInv, NEW r \in Routes, X!Handshake(r)
    PROVE  MuxIInv'
<1> DEFINE c == mRoute[r].c
<1>1. /\ mRoute[r].at = "dialed" /\ mLock = None /\ mLock' = mLock
      /\ mSession # None => mSession.conn = c
  BY DEF X!Handshake
<1>2. c \in Conns
  BY <1>1 DEF MuxIInv, MuxDialed
<1>3. ASSUME mSession' = X!Entry(c, TRUE), mRoute' = [mRoute EXCEPT ![r].at = "stream"],
             mOpen' = mOpen, mDead' = mDead
      PROVE  MuxIInv'
  <2> DEFINE x == [mRoute[r] EXCEPT !.at = "stream"]
  <2>1. mRoute' = [mRoute EXCEPT ![r] = x] /\ x.at = "stream"
    BY <1>3 DEF MuxIInv, X!TypeOK
  <2>2. mSession' # None /\ mSession'.conn = c /\ mSession'.muxed
    BY <1>2, <1>3, NoneAssumption DEF X!Entry
  <2>3. X!TypeOK' /\ MuxDialed'
    BY <1>1, <1>2, <1>3 DEF MuxIInv, X!TypeOK, MuxDialed, X!Entry
  <2>4. MuxDialing'
    BY <1>1, <2>1, MuxDialingKept
  <2>5. MuxYoung' /\ MuxDeadClosed'
    BY <1>3, <2>2 DEF MuxIInv, MuxYoung, MuxDeadClosed
  <2>6. X!NoOrphan'
    <3> SUFFICES ASSUME NEW d \in mOpen, d # c
                 PROVE  MuxHeld(d)'
      BY <1>3, <2>2 DEF X!NoOrphan, MuxHeld
    <3> QED
      BY <1>1, <2>1, MuxOwned, MuxHeldKept DEF MuxIInv
  <2> QED
    BY <2>3, <2>4, <2>5, <2>6 DEF MuxIInv
<1>4. ASSUME mSession' = None, X!GivesUp(r, c)
      PROVE  MuxIInv'
  <2>1. mRoute' = [mRoute EXCEPT ![r] = X!Idle] /\ mOpen' = mOpen \ {c} /\ mDead' = mDead \cup {c}
    BY <1>4 DEF X!GivesUp
  <2>2. X!TypeOK' /\ MuxDialed'
    BY <1>1, <1>2, <1>4, <2>1 DEF MuxIInv, X!TypeOK, MuxDialed, X!Idle
  <2>3. MuxDialing'
    BY <1>1, <2>1, MuxDialingKept, MuxIdleRests
  <2>4. MuxYoung' /\ MuxDeadClosed'
    BY <1>4, <2>1 DEF MuxIInv, MuxYoung, MuxDeadClosed
  <2>5. X!NoOrphan'
    <3> SUFFICES ASSUME NEW d \in mOpen, d # c
                 PROVE  MuxHeld(d)'
      BY <2>1 DEF X!NoOrphan, MuxHeld
    <3> QED
      BY <1>1, <2>1, MuxOwned, MuxHeldKept DEF MuxIInv
  <2> QED
    BY <2>2, <2>3, <2>4, <2>5 DEF MuxIInv
<1> QED
  BY <1>3, <1>4 DEF X!Handshake

\* A stream that ends leaves every connection where it is.
LEMMA MuxStreamEndsKeeps ==
    ASSUME MuxIInv, NEW r \in Routes, X!StreamEnds(r)
    PROVE  MuxIInv'
<1>1. /\ mRoute[r].at = "stream" /\ mRoute' = [mRoute EXCEPT ![r] = X!Idle]
      /\ mSession' = mSession /\ mOpen' = mOpen /\ mDead' = mDead /\ mLock' = mLock
  BY DEF X!StreamEnds
<1>2. X!TypeOK' /\ MuxDialed' /\ MuxDialing'
  BY <1>1 DEF MuxIInv, X!TypeOK, MuxDialed, MuxDialing, X!Idle
<1>3. \A d : MuxHeld(d) => MuxHeld(d)'
  BY <1>1, MuxHeldKept DEF MuxIInv
<1>4. MuxYoung' /\ MuxDeadClosed'
  BY <1>1, <1>3 DEF MuxIInv, MuxYoung, MuxDeadClosed
<1>5. X!NoOrphan'
  BY <1>1, <1>3, MuxOwned DEF X!NoOrphan, MuxHeld
<1> QED
  BY <1>2, <1>4, <1>5 DEF MuxIInv

\* A session that ends takes its connection with it.
LEMMA MuxSessionEndsKeeps ==
    ASSUME MuxIInv, NEW c \in Conns, X!SessionEnds(c)
    PROVE  MuxIInv'
<1>1. /\ mSession = X!Entry(c, TRUE) /\ mOpen' = mOpen \ {c} /\ mDead' = mDead \cup {c}
      /\ mSession' = mSession /\ mLock' = mLock /\ mRoute' = mRoute
  BY DEF X!SessionEnds
<1>2. X!TypeOK' /\ MuxDialed' /\ MuxDialing'
  BY <1>1 DEF MuxIInv, X!TypeOK, MuxDialed, MuxDialing
<1>3. mSession.muxed
  BY <1>1 DEF X!Entry
<1>4. MuxYoung' /\ MuxDeadClosed'
  BY <1>1, <1>3 DEF MuxIInv, MuxYoung, MuxDeadClosed
<1>5. X!NoOrphan'
  BY <1>1 DEF MuxIInv, X!NoOrphan
<1> QED
  BY <1>2, <1>4, <1>5 DEF MuxIInv

\* However the routes interleave, no multiplexed connection is forgotten while it is
\* open (NoOrphan), for any number of routes and connections.
THEOREM NoOrphanAlways == Spec => []NoOrphan
<1>1. MuxIInv /\ [X!Next]_mVars => MuxIInv'
  <2> SUFFICES ASSUME MuxIInv, [X!Next]_mVars
               PROVE  MuxIInv'
    OBVIOUS
  <2>1. ASSUME NEW r \in Routes, X!DialReuse(r)
        PROVE  MuxIInv'
    BY <2>1, MuxDialReuseKeeps
  <2>2. ASSUME NEW r \in Routes, X!DialBegin(r)
        PROVE  MuxIInv'
    BY <2>2, MuxDialBeginKeeps
  <2>3. ASSUME NEW r \in Routes, X!DialEnd(r)
        PROVE  MuxIInv'
    BY <2>3, MuxDialEndKeeps
  <2>4. ASSUME NEW r \in Routes, X!Unrecognized(r)
        PROVE  MuxIInv'
    BY <2>4, MuxUnrecognizedKeeps
  <2>5. ASSUME NEW r \in Routes, X!Handshake(r)
        PROVE  MuxIInv'
    BY <2>5, MuxHandshakeKeeps
  <2>6. ASSUME NEW r \in Routes, X!StreamEnds(r)
        PROVE  MuxIInv'
    BY <2>6, MuxStreamEndsKeeps
  <2>7. ASSUME NEW c \in Conns, X!SessionEnds(c)
        PROVE  MuxIInv'
    BY <2>7, MuxSessionEndsKeeps
  <2>8. CASE UNCHANGED mVars
    BY <2>8 DEF mVars, MuxIInv, X!TypeOK, MuxDialing, MuxDialed, MuxYoung, MuxDeadClosed, X!NoOrphan, MuxHeld
  <2> QED
    BY <2>1, <2>2, <2>3, <2>4, <2>5, <2>6, <2>7, <2>8 DEF X!Next
<1>2. MuxIInv => NoOrphan
  BY DEF MuxIInv, NoOrphan
<1>3. Init => MuxIInv
  BY MuxInitIInv DEF Init
<1>4. MuxIInv /\ [Next]_vars => MuxIInv'
  BY <1>1, Steps
<1> QED
  BY <1>2, <1>3, <1>4, PTL DEF Spec

(***************************************************************************)
(* The pool of reverse tunnels.                                            *)
(***************************************************************************)

\* Reachable is inductive once the types are known.
PoolIInv == T!TypeOK /\ T!Reachable

\* The pool is empty at first.
LEMMA PoolInitIInv == ASSUME T!Init PROVE PoolIInv
BY NoneAssumption DEF T!Init, PoolIInv, T!TypeOK, T!Reachable, T!Open

\* Add: the connector goes to the pool's tunnel, or to one that is made.
LEMMA PoolAddKeeps ==
    ASSUME PoolIInv, NEW c \in Connectors, T!Add(c)
    PROVE  PoolIInv'
<1>1. PICK t \in Tunnels :
         /\ IF tCurrent = None THEN t \notin tRunning ELSE t = tCurrent /\ tRenewing[t] = {}
         /\ tCurrent' = t /\ tRunning' = tRunning \cup {t}
         /\ tConns' = [tConns EXCEPT ![t] = (IF tCurrent = None THEN {} ELSE @) \cup {c}]
  BY DEF T!Add
<1>2. tCon' = [tCon EXCEPT ![c].bind = "added"] /\ UNCHANGED <<tClosed, tRenewing, tSd>>
  BY DEF T!Add
<1>3. T!TypeOK'
  BY <1>1, <1>2 DEF PoolIInv, T!TypeOK
<1>4. tRunning' = {tCurrent'} \ {None}
  BY <1>1, NoneAssumption DEF PoolIInv, T!Reachable
<1>5. c \in tConns'[tCurrent'] /\ tCurrent' # None
  BY <1>1, NoneAssumption DEF PoolIInv, T!TypeOK
<1>6. ASSUME NEW d \in Connectors, d # c, T!Open(d)', tCon'[d].bind \in {"added", "bound"}
      PROVE  d \in tConns'[tCurrent']
  <2>1. tCon'[d] = tCon[d]
    BY <1>2, <1>6 DEF PoolIInv, T!TypeOK
  <2>2. tCurrent # None /\ d \in tConns[tCurrent]
    BY <1>6, <2>1 DEF PoolIInv, T!Reachable, T!Open
  <2> QED
    BY <1>1, <2>2 DEF PoolIInv, T!TypeOK
<1> QED
  BY <1>3, <1>4, <1>5, <1>6 DEF PoolIInv, T!Reachable

\* A step of one connector that neither opens it nor adds it.
LEMMA PoolConnectorKeeps ==
    ASSUME PoolIInv, NEW c \in Connectors,
           T!NewConnector(c) \/ T!Register(c) \/ T!SessionEnds(c) \/ T!AcceptFails(c) \/ T!Deregister(c)
    PROVE  PoolIInv'
<1>1. UNCHANGED <<tCurrent, tClosed, tConns, tRunning, tRenewing>>
  BY DEF T!NewConnector, T!Register, T!SessionEnds, T!AcceptFails, T!Deregister
<1>2. T!TypeOK'
  BY <1>1 DEF PoolIInv, T!TypeOK, T!NewConnector, T!Register, T!SessionEnds, T!AcceptFails, T!Deregister
<1>3. \A d \in Connectors : d # c => tCon'[d] = tCon[d]
  BY DEF PoolIInv, T!TypeOK, T!NewConnector, T!Register, T!SessionEnds, T!AcceptFails, T!Deregister
<1>4. tCon'[c].session = "open" /\ tCon'[c].bind \in {"added", "bound"}
        => tCon[c].session = "open" /\ tCon[c].bind \in {"added", "bound"}
  BY DEF PoolIInv, T!TypeOK, T!NewConnector, T!Register, T!SessionEnds, T!AcceptFails, T!Deregister
<1> QED
  BY <1>1, <1>2, <1>3, <1>4 DEF PoolIInv, T!Reachable, T!Open

\* Clean drops what has ended, and nothing that is open.
LEMMA PoolCleanKeeping ==
    ASSUME PoolIInv, NEW t \in Tunnels, T!Clean(t)
    PROVE  PoolIInv'
<1>1. UNCHANGED <<tCurrent, tClosed, tRunning, tCon, tSd>>
  BY DEF T!Clean
<1>2. T!TypeOK'
  BY <1>1 DEF PoolIInv, T!TypeOK, T!Clean
<1>3. \A u \in Tunnels : \A d \in tConns[u] : T!Open(d) => d \in tConns'[u]
  BY DEF PoolIInv, T!TypeOK, T!Clean
<1>4. tCurrent # None => tCurrent \in Tunnels
  BY DEF PoolIInv, T!TypeOK
<1> QED
  BY <1>1, <1>2, <1>3, <1>4 DEF PoolIInv, T!Reachable, T!Open

\* Renewing leaves the pool alone.
LEMMA PoolRenewKeeps ==
    ASSUME PoolIInv, NEW t \in Tunnels, NEW c \in Connectors, T!Renew(t, c)
    PROVE  PoolIInv'
<1>1. UNCHANGED <<tCurrent, tClosed, tConns, tRunning, tCon>>
  BY DEF T!Renew
<1>2. T!TypeOK'
  BY <1>1 DEF PoolIInv, T!TypeOK, T!Renew
<1> QED
  BY <1>1, <1>2 DEF PoolIInv, T!Reachable, T!Open

\* A tunnel that is dropped as idle has no connector that is open.
LEMMA PoolCloseIdlesKeeps ==
    ASSUME PoolIInv, T!CloseIdles
    PROVE  PoolIInv'
<1>1. /\ tCurrent # None /\ tConns[tCurrent] = {}
      /\ tRunning' = tRunning \ {tCurrent} /\ tCurrent' = None
      /\ UNCHANGED <<tClosed, tConns, tRenewing, tCon, tSd>>
  BY DEF T!CloseIdles, T!Idle
<1>2. T!TypeOK'
  BY <1>1 DEF PoolIInv, T!TypeOK
<1> QED
  BY <1>1, <1>2 DEF PoolIInv, T!Reachable, T!Open

\* Closing the pool ends the sessions of the tunnel it drops.
LEMMA PoolCloseKeeps ==
    ASSUME PoolIInv, T!Close
    PROVE  PoolIInv'
<1>1. /\ tRunning' = tRunning \ {tCurrent} /\ tCurrent' = None /\ tClosed' = TRUE
      /\ UNCHANGED <<tConns, tRenewing, tSd>>
      /\ tCon' = [c \in Connectors |->
                   IF tCurrent # None /\ c \in tConns[tCurrent] THEN [tCon[c] EXCEPT !.session = "closed"] ELSE tCon[c]]
  BY DEF T!Close
<1>2. T!TypeOK'
  BY <1>1 DEF PoolIInv, T!TypeOK
<1>3. tRunning' = {tCurrent'} \ {None}
  BY <1>1 DEF PoolIInv, T!Reachable
<1>4. ASSUME NEW c \in Connectors, T!Open(c)', tCon'[c].bind \in {"added", "bound"}
      PROVE  FALSE
  <2>1. CASE tCurrent # None /\ c \in tConns[tCurrent]
    <3>1. tCon'[c] = [tCon[c] EXCEPT !.session = "closed"]
      BY <1>1, <2>1
    <3> QED
      BY <1>4, <3>1 DEF PoolIInv, T!TypeOK, T!Open
  <2>2. CASE ~(tCurrent # None /\ c \in tConns[tCurrent])
    <3>1. tCon'[c] = tCon[c]
      BY <1>1, <2>2
    <3> QED
      BY <1>4, <2>2, <3>1 DEF PoolIInv, T!Reachable, T!Open
  <2> QED
    BY <2>1, <2>2
<1> QED
  BY <1>2, <1>3, <1>4 DEF PoolIInv, T!Reachable

\* However binds, tickers and the closing of the pool interleave, an open connector
\* that was added is in the pool's tunnel and no goroutine outlives its tunnel
\* (Reachable), for any number of connectors.
THEOREM ReachableAlways == Spec => []Reachable
<1>1. PoolIInv /\ [T!Next]_tVars => PoolIInv'
  <2> SUFFICES ASSUME PoolIInv, [T!Next]_tVars
               PROVE  PoolIInv'
    OBVIOUS
  <2>1. ASSUME NEW c \in Connectors, T!Add(c)
        PROVE  PoolIInv'
    BY <2>1, PoolAddKeeps
  <2>2. ASSUME NEW c \in Connectors,
               T!NewConnector(c) \/ T!Register(c) \/ T!SessionEnds(c) \/ T!AcceptFails(c) \/ T!Deregister(c)
        PROVE  PoolIInv'
    BY <2>2, PoolConnectorKeeps
  <2>3. ASSUME NEW t \in Tunnels, T!Clean(t)
        PROVE  PoolIInv'
    BY <2>3, PoolCleanKeeping
  <2>4. ASSUME NEW t \in Tunnels, NEW c \in Connectors, T!Renew(t, c)
        PROVE  PoolIInv'
    BY <2>4, PoolRenewKeeps
  <2>5. CASE T!CloseIdles
    BY <2>5, PoolCloseIdlesKeeps
  <2>6. CASE T!Close
    BY <2>6, PoolCloseKeeps
  <2>7. CASE UNCHANGED tVars
    BY <2>7 DEF tVars, PoolIInv, T!TypeOK, T!Reachable, T!Open
  <2> QED
    BY <2>1, <2>2, <2>3, <2>4, <2>5, <2>6, <2>7 DEF T!Next
<1>2. PoolIInv => Reachable
  BY DEF PoolIInv, Reachable
<1>3. Init => PoolIInv
  BY PoolInitIInv DEF Init
<1>4. PoolIInv /\ [Next]_vars => PoolIInv'
  BY <1>1, Steps
<1> QED
  BY <1>2, <1>3, <1>4, PTL DEF Spec

(***************************************************************************)
(* The limit on failed logins.                                             *)
(***************************************************************************)

LoginEntries == [started : Int, failures : Int, until : Int]
LoginShaped ==
    /\ lNow \in Int /\ lNextCleanup \in Int
    /\ lEntry \in Objects \cup {None}
    /\ lObj \in [Objects -> LoginEntries]
    /\ lReq \in [Requests -> [at : L!Places, t : Int, e : Objects \cup {None}]]

\* A request that has taken an entry has one.
LoginTaken == \A r \in Requests : lReq[r].at \in {"acquire", "fail"} => lReq[r].e \in Objects

\* The clock a method has read is not ahead of the clock, and at most Lag behind.
LoginClocks == \A r \in Requests : lReq[r].at \notin {"idle", "verify"} => lReq[r].t <= lNow /\ lNow <= lReq[r].t + Lag

\* No window starts in the future, and a lockout outlasts the window of its failures.
LoginWindows ==
    \A o \in Objects :
      /\ lObj[o].started <= lNow
      /\ lObj[o].failures >= MaxFailures => lObj[o].started + Window < lObj[o].until

\* The requests that may still add a failure to entry o without asking it for admission:
\* they have it, or it is in the dictionary and they were, or will be, let through
\* by an entry of an earlier time.
LoginInFlight(o) ==
    {r \in Requests :
       \/ lReq[r].at = "fail" /\ lReq[r].e = o
       \/ lEntry = o /\ (lReq[r].at \in {"verify", "failClean", "failGet"} \/ (lReq[r].at = "acquire" /\ lReq[r].e # o))}

\* Beyond the limit each failure has used up one of the requests in flight.
LoginBounded ==
    \A o \in Objects : lObj[o].failures >= MaxFailures =>
        lObj[o].failures - MaxFailures + 1 + Cardinality(LoginInFlight(o)) <= Cardinality(Requests)

\* Once a request has done its cleanup, the next one is of a later clock; so an entry
\* that it took and that a cleanup removed was removed by a later clock.
LoginOvertaken ==
    \A r \in Requests :
      /\ lReq[r].at \in {"failGet", "fail"} => lReq[r].t < lNextCleanup
      /\ lReq[r].at = "fail" => lReq[r].e = lEntry \/ lReq[r].e \in lCleared \/ lReq[r].t < lNextCleanup - Window

LoginTyped == LoginShaped /\ LoginTaken /\ LoginClocks
LoginInv   == LoginTyped /\ LoginWindows /\ LoginBounded /\ LoginOvertaken

\* Nobody has read the clock at first.
LEMMA LoginInitInv == ASSUME L!Init PROVE LoginInv
<1>1. \A r \in Requests : lReq[r] = L!Idle /\ lReq[r].at = "idle"
  BY DEF L!Init, L!Idle
<1>2. \A o \in Objects : lObj[o].started = 0 /\ lObj[o].failures = 0
  BY DEF L!Init, L!Blank
<1>3. LoginShaped
  BY DEF L!Init, LoginShaped, L!Idle, L!Places, L!Blank, LoginEntries
<1>4. LoginTaken /\ LoginClocks /\ LoginOvertaken
  BY <1>1 DEF LoginTaken, LoginClocks, LoginOvertaken
<1>5. LoginWindows /\ LoginBounded
  BY <1>2, LimitsAssumption DEF L!Init, LoginWindows, LoginBounded
<1> QED
  BY <1>3, <1>4, <1>5 DEF LoginInv, LoginTyped

\* An entry whose window starts again keeps its shape.
LEMMA LoginRestartedShape ==
    ASSUME LoginShaped, NEW o \in Objects, NEW t \in Int
    PROVE  /\ L!Restarted(o, t) \in LoginEntries
           /\ \/ t - lObj[o].started > Window /\ L!Restarted(o, t).started = t /\ L!Restarted(o, t).failures = 0
              \/ ~(t - lObj[o].started > Window) /\ L!Restarted(o, t) = lObj[o]
<1>1. lObj[o] \in LoginEntries
  BY DEF LoginShaped
<1> QED
  BY <1>1, LimitsAssumption DEF L!Restarted, LoginEntries

\* What GetOrAdd does to the entry in the dictionary.
LEMMA LoginGets ==
    ASSUME LoginTyped, NEW r \in Requests, L!GetOrAdd(r)
    PROVE  \E o \in Objects :
             /\ lEntry' = o
             /\ lReq[r].at \in {"get", "failGet"}
             /\ lReq' \in [Requests -> [at : L!Places, t : Int, e : Objects \cup {None}]]
             /\ lReq'[r].at = (IF lReq[r].at = "get" THEN "acquire" ELSE "fail") /\ lReq'[r].t = lReq[r].t /\ lReq'[r].e = o
             /\ \A q \in Requests \ {r} : lReq'[q] = lReq[q]
             /\ lNow' = lNow /\ lNextCleanup' = lNextCleanup
             /\ \/ lEntry = o /\ lObj' = lObj /\ lCleared' = lCleared
                \/ /\ lEntry = None /\ o = L!FreeObject /\ lCleared' = lCleared \ {o}
                   /\ lObj' = [lObj EXCEPT ![o] = L!Blank(lNow)]
<1>1. PICK o \in Objects :
         /\ IF lEntry # None THEN o = lEntry /\ UNCHANGED lObj
                             ELSE o = L!FreeObject /\ lObj' = [lObj EXCEPT ![o] = L!Blank(lNow)]
         /\ lEntry' = o
         /\ lCleared' = IF lEntry = None THEN lCleared \ {o} ELSE lCleared
         /\ lReq' = [lReq EXCEPT ![r].e = o, ![r].at = IF @ = "get" THEN "acquire" ELSE "fail"]
  BY DEF L!GetOrAdd
<1>2. lReq[r].at \in {"get", "failGet"} /\ lNow' = lNow /\ lNextCleanup' = lNextCleanup
  BY DEF L!GetOrAdd
<1>3. /\ lReq' \in [Requests -> [at : L!Places, t : Int, e : Objects \cup {None}]]
      /\ lReq'[r].at = (IF lReq[r].at = "get" THEN "acquire" ELSE "fail") /\ lReq'[r].t = lReq[r].t /\ lReq'[r].e = o
      /\ \A q \in Requests \ {r} : lReq'[q] = lReq[q]
  BY <1>1 DEF LoginTyped, LoginShaped, L!Places
<1> QED
  BY <1>1, <1>2, <1>3

\* Every step keeps the types, and the clocks of the methods behind the clock.
LEMMA LoginTypedNext ==
    ASSUME LoginTyped, [L!Next]_lVars
    PROVE  LoginTyped'
<1>0. CASE L!Tick
  BY <1>0, LimitsAssumption DEF L!Tick, LoginTyped, LoginShaped, LoginClocks, LoginTaken
<1>1. ASSUME NEW r \in Requests, L!Login(r)
      PROVE  LoginTyped'
  BY <1>1, LimitsAssumption DEF L!Login, LoginTyped, LoginShaped, LoginClocks, LoginTaken, L!Places
<1>2. ASSUME NEW r \in Requests, L!Clean(r)
      PROVE  LoginTyped'
  <2>1. lEntry' \in Objects \cup {None} /\ lNextCleanup' \in Int
    BY <1>2, LimitsAssumption DEF L!Clean, L!CleanupExpired, LoginTyped, LoginShaped
  <2> QED
    BY <1>2, <2>1 DEF L!Clean, LoginTyped, LoginShaped, LoginClocks, LoginTaken, L!Places
<1>3. CASE L!CleanElsewhere
  <2>1. lEntry' \in Objects \cup {None} /\ lNextCleanup' \in Int
    BY <1>3, LimitsAssumption DEF L!CleanElsewhere, L!CleanupExpired, LoginTyped, LoginShaped
  <2> QED
    BY <1>3, <2>1 DEF L!CleanElsewhere, LoginTyped, LoginShaped, LoginClocks, LoginTaken
<1>4. ASSUME NEW r \in Requests, L!GetOrAdd(r)
      PROVE  LoginTyped'
  <2>1. PICK o \in Objects :
           /\ lEntry' = o
           /\ lReq[r].at \in {"get", "failGet"}
           /\ lReq' \in [Requests -> [at : L!Places, t : Int, e : Objects \cup {None}]]
           /\ lReq'[r].at = (IF lReq[r].at = "get" THEN "acquire" ELSE "fail") /\ lReq'[r].t = lReq[r].t /\ lReq'[r].e = o
           /\ \A q \in Requests \ {r} : lReq'[q] = lReq[q]
           /\ lNow' = lNow /\ lNextCleanup' = lNextCleanup
           /\ lObj' = lObj \/ lObj' = [lObj EXCEPT ![o] = L!Blank(lNow)]
    BY <1>4, LoginGets
  <2>2. lObj' \in [Objects -> LoginEntries]
    BY <2>1 DEF LoginTyped, LoginShaped, L!Blank, LoginEntries
  <2> QED
    BY <2>1, <2>2 DEF LoginTyped, LoginShaped, LoginClocks, LoginTaken, L!Places
<1>5. ASSUME NEW r \in Requests, L!TryAcquire(r)
      PROVE  LoginTyped'
  <2>1. lReq[r].e \in Objects /\ lReq[r].t \in Int
    BY <1>5 DEF L!TryAcquire, LoginTyped, LoginShaped, LoginTaken
  <2>2. lObj' \in [Objects -> LoginEntries]
    BY <1>5, <2>1, LoginRestartedShape DEF L!TryAcquire, LoginTyped, LoginShaped
  <2> QED
    BY <1>5, <2>2 DEF L!TryAcquire, L!Idle, LoginTyped, LoginShaped, LoginClocks, LoginTaken, L!Places
<1>6. ASSUME NEW r \in Requests, L!Rejected(r) \/ L!GivesUp(r)
      PROVE  LoginTyped'
  BY <1>6, LimitsAssumption DEF L!Rejected, L!GivesUp, L!Idle, LoginTyped, LoginShaped, LoginClocks, LoginTaken, L!Places
<1>7. ASSUME NEW r \in Requests, L!RegisterSuccess(r)
      PROVE  LoginTyped'
  BY <1>7 DEF L!RegisterSuccess, L!Idle, LoginTyped, LoginShaped, LoginClocks, LoginTaken, L!Places
<1>8. ASSUME NEW r \in Requests, L!RegisterFailure(r)
      PROVE  LoginTyped'
  <2> DEFINE o == lReq[r].e
             t == lReq[r].t
             e == L!Restarted(o, t)
             n == e.failures + 1
             u == IF n >= MaxFailures THEN t + Lockout ELSE e.until
  <2>1. o \in Objects /\ t \in Int
    BY <1>8 DEF L!RegisterFailure, LoginTyped, LoginShaped, LoginTaken
  <2>2. e \in LoginEntries
    BY <2>1, LoginRestartedShape DEF LoginTyped
  <2>3. e.started \in Int /\ n \in Int /\ u \in Int
    BY <2>1, <2>2, LimitsAssumption DEF LoginEntries
  <2>4. lObj' = [lObj EXCEPT ![o] = [started |-> e.started, failures |-> n, until |-> u]]
    BY <1>8 DEF L!RegisterFailure
  <2> HIDE DEF e, n, u
  <2>5. lObj' \in [Objects -> LoginEntries]
    BY <2>3, <2>4 DEF LoginTyped, LoginShaped, LoginEntries
  <2> QED
    BY <1>8, <2>5 DEF L!RegisterFailure, L!Idle, LoginTyped, LoginShaped, LoginClocks, LoginTaken, L!Places
<1>9. CASE UNCHANGED lVars
  BY <1>9 DEF lVars, LoginTyped, LoginShaped, LoginClocks, LoginTaken
<1> QED
  BY <1>0, <1>1, <1>2, <1>3, <1>4, <1>5, <1>6, <1>7, <1>8, <1>9 DEF L!Next

\* There is an object nobody refers to for a new entry.
LEMMA LoginFreeObject ==
    ASSUME LoginTyped, lEntry = None
    PROVE  \A r \in Requests : lReq[r].e # L!FreeObject
<1> DEFINE Unused(o) == o # lEntry /\ \A r \in Requests : lReq[r].e # o
<1>1. \E o \in Objects : Unused(o)
  <2> SUFFICES ASSUME \A o \in Objects : ~Unused(o) PROVE FALSE
    OBVIOUS
  <2>1. \A o \in Objects : \E r \in Requests : lReq[r].e = o
    BY NoneAssumption
  <2> DEFINE f == [o \in Objects |-> CHOOSE r \in Requests : lReq[r].e = o]
  <2>2. f \in [Objects -> Requests] /\ \A o \in Objects : lReq[f[o]].e = o
    BY <2>1
  <2> HIDE DEF f
  <2>3. PICK x, y \in Objects : x # y /\ f[x] = f[y]
    BY <2>2, ObjectsAssumption, FS_PigeonHole
  <2> QED
    BY <2>2, <2>3
<1>2. L!FreeObject = CHOOSE o \in Objects : Unused(o)
  BY DEF L!FreeObject
<1> HIDE DEF Unused
<1>3. Unused(L!FreeObject)
  BY <1>1, <1>2
<1> QED
  BY <1>3 DEF Unused

\* The requests in flight are finitely many.
LEMMA LoginInFlightFinite ==
    ASSUME NEW o
    PROVE  /\ IsFiniteSet(LoginInFlight(o)) /\ Cardinality(LoginInFlight(o)) \in Nat
           /\ Cardinality(Requests) \in Nat
<1>1. LoginInFlight(o) \in SUBSET Requests
  BY DEF LoginInFlight
<1> QED
  BY <1>1, ObjectsAssumption, FS_Subset, FS_CardinalityType

\* An entry that is not failed on, and that no request is let through to, keeps its bound.
LEMMA LoginBoundKept ==
    ASSUME LoginTyped, LoginBounded, NEW o \in Objects, lObj'[o].failures = lObj[o].failures,
           LoginInFlight(o)' \subseteq LoginInFlight(o), lObj'[o].failures >= MaxFailures
    PROVE  lObj'[o].failures - MaxFailures + 1 + Cardinality(LoginInFlight(o)') <= Cardinality(Requests)
<1> DEFINE S == LoginInFlight(o)
           V == LoginInFlight(o)'
<1>1. IsFiniteSet(S) /\ Cardinality(S) \in Nat /\ Cardinality(Requests) \in Nat
  BY LoginInFlightFinite
<1>2. lObj[o].failures - MaxFailures + 1 + Cardinality(S) <= Cardinality(Requests)
  BY DEF LoginBounded
<1>3. V \in SUBSET S
  OBVIOUS
<1> HIDE DEF S, V
<1>4. Cardinality(V) <= Cardinality(S) /\ Cardinality(V) \in Nat
  BY <1>1, <1>3, FS_Subset, FS_CardinalityType
<1>5. lObj[o].failures \in Int
  BY DEF LoginTyped, LoginShaped, LoginEntries
<1> QED
  BY <1>1, <1>2, <1>4, <1>5, LimitsAssumption DEF S, V

\* The same for all entries at once.
LEMMA LoginBoundedKept ==
    ASSUME LoginTyped, LoginBounded, lObj' = lObj, \A o \in Objects : LoginInFlight(o)' \subseteq LoginInFlight(o)
    PROVE  LoginBounded'
BY LoginBoundKept DEF LoginBounded

\* A request that goes from one place to another, while the dictionary keeps its entry or
\* loses it, is in flight only if it was.
LEMMA LoginFewer ==
    ASSUME LoginTyped, NEW r \in Requests, lEntry' = lEntry \/ lEntry' = None,
           \A q \in Requests \ {r} : lReq'[q] = lReq[q],
           \/ lReq'[r].at \in {"idle", "clean", "get"}
           \/ lReq[r].at \in {"verify", "failClean", "failGet"} /\ lReq'[r].at \in {"verify", "failClean", "failGet"}
    PROVE  \A o \in Objects : LoginInFlight(o)' \subseteq LoginInFlight(o)
<1> SUFFICES ASSUME NEW o \in Objects, NEW q \in Requests, q \in LoginInFlight(o)'
             PROVE  q \in LoginInFlight(o)
  BY DEF LoginInFlight
<1>1. lEntry' = o => lEntry = o
  BY NoneAssumption
<1>2. CASE q # r
  <2>1. lReq'[q] = lReq[q]
    BY <1>2
  <2> QED
    BY <1>1, <2>1 DEF LoginInFlight
<1>3. CASE q = r
  BY <1>1, <1>3 DEF LoginInFlight
<1> QED
  BY <1>2, <1>3

\* What a cleanup does: nothing, or it is of a clock that is not before the next cleanup
\* was due, which puts the next one off.
LEMMA LoginCleans ==
    ASSUME LoginTyped, NEW t \in Int, L!CleanupExpired(t)
    PROVE  /\ lEntry' = lEntry \/ lEntry' = None
           /\ t < lNextCleanup' /\ lNextCleanup <= lNextCleanup'
           /\ lEntry' # lEntry => lNextCleanup <= t /\ lNextCleanup' = t + Window
BY LimitsAssumption DEF L!CleanupExpired, LoginTyped, LoginShaped

\* What a cleanup leaves of LoginOvertaken, for a request whose record it leaves.
LEMMA LoginOvertakenKept ==
    ASSUME LoginTyped, LoginOvertaken, NEW t \in Int, L!CleanupExpired(t), lCleared' = lCleared,
           NEW q \in Requests, lReq'[q] = lReq[q]
    PROVE  /\ lReq'[q].at \in {"failGet", "fail"} => lReq'[q].t < lNextCleanup'
           /\ lReq'[q].at = "fail" =>
                lReq'[q].e = lEntry' \/ lReq'[q].e \in lCleared' \/ lReq'[q].t < lNextCleanup' - Window
<1>1. lReq[q].t \in Int /\ lNextCleanup \in Int /\ lNextCleanup' \in Int
  BY LimitsAssumption DEF LoginTyped, LoginShaped, L!CleanupExpired
<1>2. /\ lNextCleanup <= lNextCleanup'
      /\ lEntry' # lEntry => lNextCleanup <= t /\ lNextCleanup' = t + Window
  BY LoginCleans
<1>3. /\ lReq[q].at \in {"failGet", "fail"} => lReq[q].t < lNextCleanup
      /\ lReq[q].at = "fail" => lReq[q].e = lEntry \/ lReq[q].e \in lCleared \/ lReq[q].t < lNextCleanup - Window
  BY DEF LoginOvertaken
<1> QED
  BY <1>1, <1>2, <1>3, LimitsAssumption

LoginRest == LoginWindows /\ LoginBounded /\ LoginOvertaken

\* A request that takes the entry, or makes one.
LEMMA LoginGetKeeps ==
    ASSUME LoginInv, NEW r \in Requests, L!GetOrAdd(r)
    PROVE  LoginRest'
<1>t. LoginTyped /\ LoginTyped'
  BY LoginTypedNext DEF LoginInv, L!Next
<1>1. PICK o \in Objects :
         /\ lEntry' = o
         /\ lReq[r].at \in {"get", "failGet"}
         /\ lReq'[r].at = (IF lReq[r].at = "get" THEN "acquire" ELSE "fail") /\ lReq'[r].t = lReq[r].t /\ lReq'[r].e = o
         /\ \A q \in Requests \ {r} : lReq'[q] = lReq[q]
         /\ lNow' = lNow /\ lNextCleanup' = lNextCleanup
         /\ \/ lEntry = o /\ lObj' = lObj /\ lCleared' = lCleared
            \/ /\ lEntry = None /\ o = L!FreeObject /\ lCleared' = lCleared \ {o}
               /\ lObj' = [lObj EXCEPT ![o] = L!Blank(lNow)]
  BY <1>t, LoginGets
<1>2. \A p \in Objects \ {o} : lObj'[p] = lObj[p] /\ LoginInFlight(p)' \subseteq LoginInFlight(p)
  <2> SUFFICES ASSUME NEW p \in Objects \ {o}, NEW q \in Requests, q \in LoginInFlight(p)'
               PROVE  q \in LoginInFlight(p)
    BY <1>1, <1>t DEF LoginInFlight, LoginTyped, LoginShaped
  <2>1. lReq'[q].at = "fail" /\ lReq'[q].e = p
    BY <1>1 DEF LoginInFlight
  <2>2. q # r
    BY <1>1, <2>1
  <2> QED
    BY <1>1, <2>1, <2>2 DEF LoginInFlight
<1>3. \/ lObj' = lObj /\ LoginInFlight(o)' \subseteq LoginInFlight(o)
      \/ lObj'[o] = L!Blank(lNow)
  <2>1. CASE lEntry = None
    BY <1>1, <1>t, <2>1, NoneAssumption DEF LoginTyped, LoginShaped
  <2>2. CASE lEntry = o
    <3>1. lObj' = lObj
      BY <1>1, <2>2, NoneAssumption
    <3>2. ASSUME NEW q \in Requests, q \in LoginInFlight(o)'
          PROVE  q \in LoginInFlight(o)
      <4>1. CASE q = r
        BY <1>1, <2>2, <3>2, <4>1 DEF LoginInFlight
      <4>2. CASE q # r
        BY <1>1, <2>2, <3>2, <4>2 DEF LoginInFlight
      <4> QED
        BY <4>1, <4>2
    <3> QED
      BY <3>1, <3>2 DEF LoginInFlight
  <2> QED
    BY <1>1, <2>1, <2>2
<1>4. LoginWindows'
  <2>1. \A p \in Objects : lObj'[p] = lObj[p] \/ lObj'[p] = L!Blank(lNow)
    BY <1>2, <1>3
  <2> QED
    BY <1>1, <1>t, <2>1, LimitsAssumption DEF LoginInv, LoginTyped, LoginShaped, LoginWindows, L!Blank
<1>5. LoginBounded'
  <2> SUFFICES ASSUME NEW p \in Objects, lObj'[p].failures >= MaxFailures
               PROVE  lObj'[p].failures - MaxFailures + 1 + Cardinality(LoginInFlight(p)') <= Cardinality(Requests)
    BY DEF LoginBounded
  <2>1. lObj'[p] # L!Blank(lNow)
    BY LimitsAssumption DEF L!Blank
  <2>2. lObj'[p] = lObj[p] /\ LoginInFlight(p)' \subseteq LoginInFlight(p)
    BY <1>2, <1>3, <2>1
  <2> QED
    BY <1>t, <2>2, LoginBoundKept DEF LoginInv
<1>6. LoginOvertaken'
  <2> SUFFICES ASSUME NEW q \in Requests
               PROVE  /\ lReq'[q].at \in {"failGet", "fail"} => lReq'[q].t < lNextCleanup'
                      /\ lReq'[q].at = "fail" =>
                           lReq'[q].e = lEntry' \/ lReq'[q].e \in lCleared' \/ lReq'[q].t < lNextCleanup' - Window
    BY DEF LoginOvertaken
  <2>1. /\ lReq[q].at \in {"failGet", "fail"} => lReq[q].t < lNextCleanup
        /\ lReq[q].at = "fail" => lReq[q].e = lEntry \/ lReq[q].e \in lCleared \/ lReq[q].t < lNextCleanup - Window
    BY DEF LoginInv, LoginOvertaken
  <2>2. CASE q = r
    BY <1>1, <2>1, <2>2
  <2>3. CASE q # r
    <3>1. lReq'[q] = lReq[q]
      BY <1>1, <2>3
    <3>2. CASE lEntry = o
      BY <1>1, <2>1, <3>1, <3>2, NoneAssumption
    <3>3. CASE lEntry = None /\ o = L!FreeObject
      <4>1. lReq[q].e # o /\ (lReq[q].at = "fail" => lReq[q].e # None)
        BY <1>t, <3>3, LoginFreeObject, NoneAssumption DEF LoginTyped, LoginTaken
      <4> QED
        BY <1>1, <2>1, <3>1, <3>3, <4>1
    <3> QED
      BY <1>1, <3>2, <3>3
  <2> QED
    BY <2>2, <2>3
<1> QED
  BY <1>4, <1>5, <1>6 DEF LoginRest

\* A request that asks for admission: an entry that has reached the limit refuses it, or the
\* window of its failures is over.
LEMMA LoginAcquireKeeps ==
    ASSUME LoginInv, NEW r \in Requests, L!TryAcquire(r)
    PROVE  LoginRest'
<1> DEFINE p == lReq[r].e
           t == lReq[r].t
<1>t. LoginTyped /\ LoginTyped'
  BY LoginTypedNext DEF LoginInv, L!Next
<1>1. /\ lReq[r].at = "acquire" /\ p \in Objects /\ t \in Int /\ t <= lNow
      /\ lNow' = lNow /\ lEntry' = lEntry /\ lNextCleanup' = lNextCleanup /\ lCleared' = lCleared
      /\ \A q \in Requests \ {r} : lReq'[q] = lReq[q]
  BY <1>t DEF L!TryAcquire, LoginTyped, LoginShaped, LoginTaken, LoginClocks
<1>2. LoginOvertaken'
  <2>1. lReq'[r].at \in {"idle", "verify"}
    BY <1>t DEF L!TryAcquire, L!Idle, LoginTyped, LoginShaped
  <2> QED
    BY <1>1, <2>1 DEF LoginInv, LoginOvertaken
<1>3. CASE lObj[p].until > t
  <2>1. lReq'[r].at = "idle" /\ lObj' = lObj
    BY <1>3, <1>t DEF L!TryAcquire, L!Idle, LoginTyped, LoginShaped
  <2>2. LoginBounded'
    BY <1>1, <1>t, <2>1, LoginFewer, LoginBoundedKept DEF LoginInv
  <2>3. LoginWindows'
    BY <1>1, <2>1 DEF LoginInv, LoginWindows
  <2> QED
    BY <1>2, <2>2, <2>3 DEF LoginRest
<1>4. CASE ~(lObj[p].until > t)
  <2>1. /\ lReq'[r].at = "verify" /\ lObj'[p] = L!Restarted(p, t)
        /\ \A o \in Objects \ {p} : lObj'[o] = lObj[o]
    BY <1>1, <1>4, <1>t DEF L!TryAcquire, LoginTyped, LoginShaped
  <2>2. /\ lObj[p].until \in Int /\ lObj[p].started \in Int /\ lObj[p].failures \in Int /\ lNow \in Int
        /\ lObj[p].failures >= MaxFailures => lObj[p].started + Window < lObj[p].until
        /\ lObj[p].started <= lNow
    BY <1>1, <1>t DEF LoginInv, LoginWindows, LoginTyped, LoginShaped, LoginEntries
  <2>3. lObj'[p].failures < MaxFailures /\ lObj'[p].started <= lNow /\ lObj'[p].failures \in Int
    <3>1. \/ t - lObj[p].started > Window /\ lObj'[p].started = t /\ lObj'[p].failures = 0
          \/ ~(t - lObj[p].started > Window) /\ lObj'[p] = lObj[p]
      BY <1>1, <1>t, <2>1, LoginRestartedShape DEF LoginTyped
    <3> QED
      BY <1>1, <1>4, <2>2, <3>1, LimitsAssumption
  <2>4. LoginWindows'
    BY <1>1, <2>1, <2>3, LimitsAssumption DEF LoginInv, LoginWindows
  <2>5. LoginBounded'
    <3> SUFFICES ASSUME NEW o \in Objects, lObj'[o].failures >= MaxFailures
                 PROVE  lObj'[o].failures - MaxFailures + 1 + Cardinality(LoginInFlight(o)') <= Cardinality(Requests)
      BY DEF LoginBounded
    <3>1. o # p
      BY <2>3, LimitsAssumption
    <3>2. ASSUME NEW q \in Requests, q \in LoginInFlight(o)'
          PROVE  q \in LoginInFlight(o)
      <4>1. CASE q = r
        BY <1>1, <2>1, <3>1, <3>2, <4>1 DEF LoginInFlight
      <4>2. CASE q # r
        BY <1>1, <3>2, <4>2 DEF LoginInFlight
      <4> QED
        BY <4>1, <4>2
    <3>3. LoginInFlight(o)' \subseteq LoginInFlight(o)
      BY <3>2 DEF LoginInFlight
    <3> QED
      BY <1>t, <2>1, <3>1, <3>3, LoginBoundKept DEF LoginInv
  <2> QED
    BY <1>2, <2>4, <2>5 DEF LoginRest
<1> QED
  BY <1>3, <1>4

\* A failure uses up the request that registers it.
LEMMA LoginFailureKeeps ==
    ASSUME LoginInv, NEW r \in Requests, L!RegisterFailure(r)
    PROVE  LoginRest'
<1> DEFINE p == lReq[r].e
           t == lReq[r].t
           e == L!Restarted(p, t)
           n == e.failures + 1
           u == IF n >= MaxFailures THEN t + Lockout ELSE e.until
<1>t. LoginTyped /\ LoginTyped'
  BY LoginTypedNext DEF LoginInv, L!Next
<1>1. /\ lReq[r].at = "fail" /\ p \in Objects /\ t \in Int /\ lNow \in Int /\ t <= lNow /\ lNow <= t + Lag
      /\ lNow' = lNow /\ lEntry' = lEntry /\ lNextCleanup' = lNextCleanup /\ lCleared' = lCleared
      /\ \A q \in Requests \ {r} : lReq'[q] = lReq[q]
  BY <1>t DEF L!RegisterFailure, LoginTyped, LoginShaped, LoginTaken, LoginClocks
<1>2. lReq'[r].at = "idle"
  BY <1>t DEF L!RegisterFailure, L!Idle, LoginTyped, LoginShaped
<1>3. LoginOvertaken'
  BY <1>1, <1>2 DEF LoginInv, LoginOvertaken
<1>4. \A o \in Objects : LoginInFlight(o)' \subseteq LoginInFlight(o)
  BY <1>1, <1>2, <1>t, LoginFewer
<1>5. lObj' = [lObj EXCEPT ![p] = [started |-> e.started, failures |-> n, until |-> u]]
  BY DEF L!RegisterFailure
<1>6. /\ e \in LoginEntries
      /\ \/ e.started = t /\ e.failures = 0
         \/ e = lObj[p]
  BY <1>1, <1>t, LoginRestartedShape DEF LoginTyped
<1>7. e.started \in Int /\ e.failures \in Int /\ e.started <= lNow
  BY <1>1, <1>6, <1>t DEF LoginInv, LoginWindows, LoginEntries
<1> HIDE DEF e, u
<1>8. /\ lObj'[p].started = e.started /\ lObj'[p].failures = n /\ lObj'[p].until = u
      /\ \A o \in Objects \ {p} : lObj'[o] = lObj[o]
  BY <1>1, <1>5, <1>t DEF LoginTyped, LoginShaped
<1>9. LoginWindows'
  <2>1. n >= MaxFailures => e.started + Window < u
    BY <1>1, <1>7, LimitsAssumption DEF u
  <2> QED
    BY <1>1, <1>7, <1>8, <2>1 DEF LoginInv, LoginWindows
<1>10. LoginBounded'
  <2> SUFFICES ASSUME NEW o \in Objects, lObj'[o].failures >= MaxFailures
               PROVE  lObj'[o].failures - MaxFailures + 1 + Cardinality(LoginInFlight(o)') <= Cardinality(Requests)
    BY DEF LoginBounded
  <2>1. CASE o # p
    BY <1>4, <1>8, <1>t, <2>1, LoginBoundKept DEF LoginInv
  <2>2. CASE o = p
    <3> DEFINE S == LoginInFlight(o)
               V == LoginInFlight(o)'
    <3>1. IsFiniteSet(S) /\ Cardinality(S) \in Nat /\ Cardinality(Requests) \in Nat /\ S \in SUBSET Requests
      BY LoginInFlightFinite DEF LoginInFlight
    <3>2. r \in S /\ r \notin V /\ V \subseteq S
      BY <1>1, <1>2, <1>4, <2>2 DEF LoginInFlight
    <3>3. lObj[p].failures \in Int
            /\ (lObj[p].failures >= MaxFailures => lObj[p].failures - MaxFailures + 1 + Cardinality(S) <= Cardinality(Requests))
      BY <1>1, <1>t, <2>2 DEF LoginInv, LoginBounded, LoginTyped, LoginShaped, LoginEntries
    <3> HIDE DEF S, V
    <3>4. V \in SUBSET (S \ {r})
      BY <3>2
    <3>5. IsFiniteSet(S \ {r}) /\ Cardinality(S \ {r}) = Cardinality(S) - 1
      BY <3>1, <3>2, FS_RemoveElement
    <3>6. Cardinality(V) <= Cardinality(S) - 1 /\ Cardinality(V) \in Nat
      BY <3>4, <3>5, FS_Subset, FS_CardinalityType
    <3>7. Cardinality(S) <= Cardinality(Requests)
      BY <3>1, ObjectsAssumption, FS_Subset
    <3>8. e.failures = 0 \/ e.failures = lObj[p].failures
      BY <1>6
    <3>9. n >= MaxFailures => n - MaxFailures + 1 + Cardinality(V) <= Cardinality(Requests)
      BY <1>7, <3>1, <3>3, <3>6, <3>7, <3>8, LimitsAssumption
    <3> QED
      BY <1>8, <2>2, <3>9 DEF V
  <2> QED
    BY <2>1, <2>2
<1> QED
  BY <1>3, <1>9, <1>10 DEF LoginRest

\* The other steps of a request let none through and register nothing.
LEMMA LoginOtherKeeps ==
    ASSUME LoginInv, NEW r \in Requests, L!Login(r) \/ L!Rejected(r) \/ L!GivesUp(r) \/ L!RegisterSuccess(r)
    PROVE  LoginRest'
<1>t. LoginTyped
  BY DEF LoginInv
<1>1. /\ lNow' = lNow /\ lObj' = lObj /\ lNextCleanup' = lNextCleanup
      /\ \A q \in Requests \ {r} : lReq'[q] = lReq[q]
      /\ \/ lReq[r].at = "idle" /\ lReq'[r].at = "clean"
         \/ lReq[r].at = "verify" /\ lReq'[r].at \in {"idle", "failClean"}
  BY <1>t DEF L!Login, L!Rejected, L!GivesUp, L!RegisterSuccess, L!Idle, LoginTyped, LoginShaped
<1>2. \/ lEntry' = lEntry /\ lCleared' = lCleared
      \/ lEntry' = None /\ lCleared' = lCleared \cup ({lEntry} \ {None})
  BY DEF L!Login, L!Rejected, L!GivesUp, L!RegisterSuccess
<1>3. LoginBounded'
  BY <1>1, <1>2, <1>t, LoginFewer, LoginBoundedKept DEF LoginInv
<1>4. LoginWindows'
  BY <1>1 DEF LoginInv, LoginWindows
<1>5. LoginOvertaken'
  <2>1. \A q \in Requests : lReq[q].at = "fail" => lReq[q].e # None
    BY <1>t, NoneAssumption DEF LoginTyped, LoginTaken
  <2> QED
    BY <1>1, <1>2, <2>1 DEF LoginInv, LoginOvertaken
<1> QED
  BY <1>3, <1>4, <1>5 DEF LoginRest

\* A cleanup overtakes only requests of an earlier clock.
LEMMA LoginCleanKeeps ==
    ASSUME LoginInv, L!CleanElsewhere \/ \E r \in Requests : L!Clean(r)
    PROVE  LoginRest'
<1>t. LoginTyped
  BY DEF LoginInv
<1>1. ASSUME L!CleanElsewhere PROVE LoginRest'
  <2>1. /\ lNow \in Int /\ L!CleanupExpired(lNow) /\ lNow' = lNow /\ lObj' = lObj /\ lCleared' = lCleared /\ lReq' = lReq
    BY <1>1, <1>t DEF L!CleanElsewhere, LoginTyped, LoginShaped
  <2>2. lEntry' = lEntry \/ lEntry' = None
    BY <1>t, <2>1, LoginCleans
  <2>3. \A o \in Objects : LoginInFlight(o)' \subseteq LoginInFlight(o)
    BY <2>1, <2>2, NoneAssumption DEF LoginInFlight
  <2>4. LoginBounded'
    BY <1>t, <2>1, <2>3, LoginBoundedKept DEF LoginInv
  <2>5. LoginWindows'
    BY <2>1 DEF LoginInv, LoginWindows
  <2>6. LoginOvertaken'
    BY <1>t, <2>1, LoginOvertakenKept DEF LoginInv, LoginOvertaken
  <2> QED
    BY <2>4, <2>5, <2>6 DEF LoginRest
<1>2. ASSUME NEW r \in Requests, L!Clean(r) PROVE LoginRest'
  <2>1. /\ lReq[r].t \in Int /\ L!CleanupExpired(lReq[r].t) /\ lNow' = lNow /\ lObj' = lObj /\ lCleared' = lCleared
        /\ \A q \in Requests \ {r} : lReq'[q] = lReq[q]
        /\ lReq[r].at \in {"clean", "failClean"} /\ lReq'[r].t = lReq[r].t
        /\ lReq'[r].at = (IF lReq[r].at = "clean" THEN "get" ELSE "failGet")
    BY <1>2, <1>t DEF L!Clean, LoginTyped, LoginShaped
  <2>2. (lEntry' = lEntry \/ lEntry' = None) /\ lReq[r].t < lNextCleanup'
    BY <1>t, <2>1, LoginCleans
  <2>3. \A o \in Objects : LoginInFlight(o)' \subseteq LoginInFlight(o)
    BY <1>t, <2>1, <2>2, LoginFewer
  <2>4. LoginBounded'
    BY <1>t, <2>1, <2>3, LoginBoundedKept DEF LoginInv
  <2>5. LoginWindows'
    BY <2>1 DEF LoginInv, LoginWindows
  <2>6. LoginOvertaken'
    <3> SUFFICES ASSUME NEW q \in Requests
                 PROVE  /\ lReq'[q].at \in {"failGet", "fail"} => lReq'[q].t < lNextCleanup'
                        /\ lReq'[q].at = "fail" =>
                             lReq'[q].e = lEntry' \/ lReq'[q].e \in lCleared' \/ lReq'[q].t < lNextCleanup' - Window
      BY DEF LoginOvertaken
    <3>1. CASE q = r
      BY <2>1, <2>2, <3>1
    <3>2. CASE q # r
      BY <1>t, <2>1, <3>2, LoginOvertakenKept DEF LoginInv
    <3> QED
      BY <3>1, <3>2
  <2> QED
    BY <2>4, <2>5, <2>6 DEF LoginRest
<1> QED
  BY <1>1, <1>2

\* The invariant of the login limiter is inductive.
LEMMA LoginNext ==
    ASSUME LoginInv, [L!Next]_lVars
    PROVE  LoginInv'
<1>t. LoginTyped'
  BY LoginTypedNext DEF LoginInv
<1>1. ASSUME L!Tick PROVE LoginRest'
  <2>1. lNow' = lNow + 1 /\ lNow \in Int /\ lEntry' = lEntry /\ lObj' = lObj /\ lReq' = lReq /\ lNextCleanup' = lNextCleanup
          /\ lCleared' = lCleared
    BY <1>1 DEF L!Tick, LoginInv, LoginTyped, LoginShaped
  <2>2. \A o \in Objects : lObj[o].started \in Int
    BY DEF LoginInv, LoginTyped, LoginShaped, LoginEntries
  <2>3. LoginWindows'
    BY <2>1, <2>2 DEF LoginInv, LoginWindows
  <2>4. LoginBounded' /\ LoginOvertaken'
    BY <2>1 DEF LoginInv, LoginBounded, LoginInFlight, LoginOvertaken
  <2> QED
    BY <2>3, <2>4 DEF LoginRest
<1>2. ASSUME UNCHANGED lVars PROVE LoginRest'
  BY <1>2 DEF lVars, LoginInv, LoginRest, LoginWindows, LoginBounded, LoginInFlight, LoginOvertaken
<1>3. LoginRest'
  BY <1>1, <1>2, LoginGetKeeps, LoginAcquireKeeps, LoginFailureKeeps, LoginOtherKeeps, LoginCleanKeeps DEF L!Next
<1> QED
  BY <1>t, <1>3 DEF LoginInv, LoginRest

\* Only the guesses in flight exceed the limit of failed logins, and the failure that completes
\* it locks the key unless it was overtaken (LoginLimited), for any number of concurrent
\* requests and any limits with a lockout that is longer than a window and a method's delay.
THEOREM LoginLimitedAlways == Spec => []LoginLimited
<1>1. Init => LoginInv
  BY LoginInitInv DEF Init
<1>2. LoginInv /\ [Next]_vars => LoginInv'
  BY LoginNext, Steps
<1>3. LoginInv => LoginLimited
  <2> SUFFICES ASSUME LoginInv PROVE L!OverrunBounded /\ L!LockoutSeen
    BY DEF LoginLimited
  <2>1. ASSUME NEW o \in Objects PROVE lObj[o].failures < MaxFailures + Cardinality(Requests)
    <3>1. lObj[o].failures \in Int /\ Cardinality(Requests) \in Nat /\ Cardinality(LoginInFlight(o)) \in Nat
      BY LoginInFlightFinite DEF LoginInv, LoginTyped, LoginShaped, LoginEntries
    <3>2. lObj[o].failures >= MaxFailures =>
            lObj[o].failures - MaxFailures + 1 + Cardinality(LoginInFlight(o)) <= Cardinality(Requests)
      BY DEF LoginInv, LoginBounded
    <3> QED
      BY <3>1, <3>2, LimitsAssumption
  <2>2. L!LockoutSeen
    BY DEF LoginInv, LoginOvertaken, L!LockoutSeen
  <2> QED
    BY <2>1, <2>2 DEF L!OverrunBounded, L!Cardinality, Cardinality
<1> QED
  BY <1>1, <1>2, <1>3, PTL DEF Spec

\* A cleanup with a clock that is not ahead leaves a key that is locked out.
LEMMA LoginCleanupLeaves ==
    ASSUME LoginShaped, NEW t \in Int, t <= lNow, L!CleanupExpired(t), lEntry # None, L!Locked(lEntry)
    PROVE  lEntry' = lEntry
<1>1. lObj[lEntry].until \in Int /\ lObj[lEntry].until > lNow /\ lNow \in Int
  BY DEF LoginShaped, LoginEntries, L!Locked
<1>2. ~L!Stale(lEntry, t)
  BY <1>1, LimitsAssumption DEF L!Stale
<1> QED
  BY <1>2 DEF L!CleanupExpired

\* A key that is locked out stays locked out (LockKept): no cleanup removes its entry,
\* however long before its request has read the clock; only a success that was let
\* through before does.
THEOREM LockKeptAlways == Spec => LockKept
<1> DEFINE Kept == lEntry # None /\ L!Locked(lEntry) /\ lEntry' # lEntry =>
                     \E r \in Requests : lReq[r].at = "verify" /\ lReq'[r].at = "idle"
<1>1. Init => LoginTyped
  BY LoginInitInv DEF Init, LoginInv
<1>2. LoginTyped /\ [Next]_vars => LoginTyped'
  BY LoginTypedNext, Steps
<1>3. LoginTyped /\ [L!Next]_lVars => [Kept]_lVars
  <2> SUFFICES ASSUME LoginTyped, L!Next, lEntry # None, L!Locked(lEntry), lEntry' # lEntry
               PROVE  \E r \in Requests : lReq[r].at = "verify" /\ lReq'[r].at = "idle"
    OBVIOUS
  <2>1. ASSUME NEW r \in Requests, L!Clean(r)
        PROVE  FALSE
    <3>1. L!CleanupExpired(lReq[r].t) /\ lReq[r].t \in Int /\ lReq[r].t <= lNow
      BY <2>1 DEF L!Clean, LoginTyped, LoginShaped, LoginClocks
    <3> QED
      BY <3>1, LoginCleanupLeaves DEF LoginTyped
  <2>2. ASSUME L!CleanElsewhere
        PROVE  FALSE
    <3>1. L!CleanupExpired(lNow) /\ lNow \in Int /\ lNow <= lNow
      BY <2>2 DEF L!CleanElsewhere, LoginTyped, LoginShaped
    <3> QED
      BY <3>1, LoginCleanupLeaves DEF LoginTyped
  <2>3. ASSUME NEW r \in Requests, L!GetOrAdd(r)
        PROVE  FALSE
    BY <2>3 DEF L!GetOrAdd
  <2>4. ASSUME NEW r \in Requests, L!RegisterSuccess(r)
        PROVE  lReq[r].at = "verify" /\ lReq'[r].at = "idle"
    BY <2>4 DEF L!RegisterSuccess, L!Idle, LoginTyped, LoginShaped
  <2>5. ASSUME NEW r \in Requests, L!Login(r) \/ L!TryAcquire(r) \/ L!Rejected(r) \/ L!GivesUp(r) \/ L!RegisterFailure(r)
        PROVE  FALSE
    BY <2>5 DEF L!Login, L!TryAcquire, L!Rejected, L!GivesUp, L!RegisterFailure
  <2>6. ~L!Tick
    BY DEF L!Tick
  <2> QED
    BY <2>1, <2>2, <2>3, <2>4, <2>5, <2>6 DEF L!Next
<1>4. LoginTyped /\ [Next]_vars => [Kept]_lVars
  BY <1>3, Steps
<1> QED
  BY <1>1, <1>2, <1>4, PTL DEF Spec, LockKept, L!LockKept, L!vars, lVars

(***************************************************************************)
(* The tunnel over HTTP.                                                   *)
(***************************************************************************)

PhtTyped ==
    /\ hUpGot \in Seq(Int) /\ hDownGot \in Seq(Int) /\ hRxc \in Seq(Int) /\ hLines \in Seq(Int)
    /\ hPushed \in Int /\ hAcked \in Int /\ hWritten \in Int
    /\ hPush \in {"none", "sent", "taken", "refused", "failed"}
    /\ hPull \in {"ready", "sent", "serving", "ended", "refused", "broken", "over"}

\* The application has read every chunk that was pushed before, and the one under way if
\* it was taken; a client that cannot know pushes no more.
PhtUp ==
    /\ \A i \in 1..Len(hUpGot) : hUpGot[i] = i
    /\ hPush \in {"sent", "refused"} => Len(hUpGot) = hPushed - 1 /\ hAcked <= Len(hUpGot)
    /\ hPush = "taken" => Len(hUpGot) = hPushed /\ hAcked < Len(hUpGot)
    /\ hPush = "none" => Len(hUpGot) = hPushed /\ hAcked <= Len(hUpGot)
    /\ hPush = "failed" => Len(hUpGot) \in {hPushed - 1, hPushed} /\ hAcked <= Len(hUpGot)

\* What was read, what waits to be read and what is in the answer follow each other, the
\* end marker being the last; and nothing is missing unless the loop will not pull again.
PhtReceived == Len(hDownGot) + Len(hRxc)
PhtMarked   == hLines # <<>> /\ hLines[Len(hLines)] = 0
PhtDown ==
    /\ \A i \in 1..Len(hDownGot) : hDownGot[i] = i
    /\ \A i \in 1..Len(hRxc) : hRxc[i] = Len(hDownGot) + i
    /\ \A i \in 1..Len(hLines) : \/ hLines[i] = PhtReceived + i
                                 \/ hLines[i] = 0 /\ i = Len(hLines) /\ hPull = "ended"
    /\ hLines # <<>> => hPull \in {"serving", "ended"}
    /\ hPull \in {"broken", "refused", "over"} => PhtReceived <= hWritten
    /\ hPull \in {"ready", "sent", "serving", "ended"} =>
         PhtReceived + Len(hLines) = (IF PhtMarked THEN hWritten + 1 ELSE hWritten)

PhtInv == PhtTyped /\ PhtUp /\ PhtDown

\* Nothing is written at first.
LEMMA PhtInit == ASSUME H!Init PROVE PhtInv
<1>1. PhtTyped
  BY DEF H!Init, PhtTyped
<1>2. Len(hUpGot) = 0 /\ Len(hDownGot) = 0 /\ Len(hRxc) = 0 /\ Len(hLines) = 0
  BY DEF H!Init
<1>3. PhtUp
  BY <1>2 DEF H!Init, PhtUp
<1>4. PhtDown
  BY <1>2 DEF H!Init, PhtDown, PhtReceived, PhtMarked
<1> QED
  BY <1>1, <1>3, <1>4 DEF PhtInv

\* The steps of a push.
LEMMA PhtUpNext ==
    ASSUME PhtInv, H!Next
    PROVE  PhtUp' /\ hUpGot' \in Seq(Int) /\ hPushed' \in Int /\ hAcked' \in Int /\ hPush' \in {"none", "sent", "taken", "refused", "failed"}
<1>t. hUpGot \in Seq(Int) /\ hPushed \in Int /\ hAcked \in Int /\ hPush \in {"none", "sent", "taken", "refused", "failed"} /\ Len(hUpGot) \in Nat
  BY DEF PhtInv, PhtTyped
<1>u. PhtUp
  BY DEF PhtInv
<1>1. CASE H!Write
  BY <1>1, <1>t, <1>u DEF H!Write, H!data, PhtUp
<1>2. CASE H!HandlePush
  <2>1. hPush = "sent" /\ hPush' \in {"taken", "refused"} /\ hPushed' = hPushed /\ hAcked' = hAcked /\ hClosed' = hClosed
    BY <1>2 DEF H!HandlePush, H!client
  <2>2. CASE hPush' = "refused" /\ hUpGot' = hUpGot
    BY <1>t, <1>u, <2>1, <2>2 DEF PhtUp
  <2>3. CASE hPush' = "taken" /\ hUpGot' = Append(hUpGot, hPushed)
    <3>1. /\ hUpGot' \in Seq(Int) /\ Len(hUpGot') = Len(hUpGot) + 1
          /\ \A i \in 1..Len(hUpGot') : hUpGot'[i] = IF i <= Len(hUpGot) THEN hUpGot[i] ELSE hPushed
      BY <1>t, <2>3
    <3> QED
      BY <1>t, <1>u, <2>1, <2>3, <3>1 DEF PhtUp
  <2> QED
    BY <1>2, <2>2, <2>3 DEF H!HandlePush
<1>3. CASE H!PushEnds
  BY <1>3, <1>t, <1>u DEF H!PushEnds, H!data, PhtUp
<1>4. CASE H!CloseClient
  BY <1>4, <1>t, <1>u DEF H!CloseClient, H!data, PhtUp
<1>5. CASE H!Pulled
  BY <1>5, <1>t, <1>u DEF H!Pulled, H!data, PhtUp
<1>6. CASE H!Pull \/ H!HandlePull \/ H!PullData \/ H!PullEnds \/ H!Scan \/ H!PullBreaks \/ H!Read \/ H!CloseServer
  <2>1. UNCHANGED <<hUpGot, hPushed, hAcked, hPush, hClosed>>
    BY <1>6 DEF H!Pull, H!HandlePull, H!PullData, H!PullEnds, H!Scan, H!PullBreaks, H!Read, H!CloseServer, H!client, H!data
  <2> QED
    BY <1>t, <1>u, <2>1 DEF PhtUp
<1> QED
  BY <1>1, <1>2, <1>3, <1>4, <1>5, <1>6 DEF H!Next

\* A sequence and the elements of its extension.
LEMMA Appended ==
    ASSUME NEW s \in Seq(Int), NEW x \in Int
    PROVE  /\ Append(s, x) \in Seq(Int) /\ Append(s, x) # <<>> /\ Len(Append(s, x)) = Len(s) + 1 /\ Len(s) \in Nat
           /\ \A i \in 1..Len(s) : Append(s, x)[i] = s[i]
           /\ Append(s, x)[Len(s) + 1] = x
OBVIOUS

\* A sequence that counts from k + 1, counted on.
LEMMA CountedOn ==
    ASSUME NEW s \in Seq(Int), NEW k \in Int, NEW x \in Int, \A i \in 1..Len(s) : s[i] = k + i, x = k + Len(s) + 1,
           NEW a, a = Append(s, x)
    PROVE  \A i \in 1..Len(a) : a[i] = k + i
<1>1. /\ Len(a) = Len(s) + 1 /\ Len(s) \in Nat
      /\ \A i \in 1..Len(s) : a[i] = s[i]
      /\ a[Len(s) + 1] = x
  BY Appended
<1> SUFFICES ASSUME NEW i \in 1..Len(a) PROVE a[i] = k + i
  OBVIOUS
<1>2. CASE i \in 1..Len(s)
  BY <1>1, <1>2
<1>3. CASE i = Len(s) + 1
  <2>1. a[i] = x
    BY <1>1, <1>3
  <2> QED
    BY <1>1, <1>3, <2>1
<1> QED
  BY <1>1, <1>2, <1>3

\* The steps of a pull.
LEMMA PhtDownNext ==
    ASSUME PhtInv, H!Next
    PROVE  /\ PhtDown' /\ hDownGot' \in Seq(Int) /\ hRxc' \in Seq(Int) /\ hLines' \in Seq(Int) /\ hWritten' \in Int
           /\ hPull' \in {"ready", "sent", "serving", "ended", "refused", "broken", "over"}
<1>t. /\ hDownGot \in Seq(Int) /\ hRxc \in Seq(Int) /\ hLines \in Seq(Int) /\ hWritten \in Int
      /\ hPull \in {"ready", "sent", "serving", "ended", "refused", "broken", "over"}
      /\ Len(hDownGot) \in Nat /\ Len(hRxc) \in Nat /\ Len(hLines) \in Nat
  BY DEF PhtInv, PhtTyped
<1>d. PhtDown /\ PhtReceived \in Nat
  BY <1>t DEF PhtInv, PhtReceived
<1>e. /\ \A i \in 1..Len(hDownGot) : hDownGot[i] = i
      /\ \A i \in 1..Len(hRxc) : hRxc[i] = Len(hDownGot) + i
      /\ \A i \in 1..Len(hLines) : \/ hLines[i] = PhtReceived + i
                                   \/ hLines[i] = 0 /\ i = Len(hLines) /\ hPull = "ended"
  BY <1>d DEF PhtDown
<1>f. hPull = "serving" => ~PhtMarked
  <2> SUFFICES ASSUME hPull = "serving", hLines # <<>>, hLines[Len(hLines)] = 0
               PROVE  FALSE
    BY DEF PhtMarked
  <2>1. Len(hLines) \in 1..Len(hLines)
    BY <1>t
  <2>2. hLines[Len(hLines)] = PhtReceived + Len(hLines)
    BY <1>e, <2>1
  <2> QED
    BY <1>t, <1>d, <2>1, <2>2
<1>0. ASSUME UNCHANGED <<hDownGot, hRxc, hLines, hWritten, hPull>>
      PROVE  PhtDown'
  BY <1>0, <1>d DEF PhtDown, PhtReceived, PhtMarked
<1>1. CASE H!Write \/ H!HandlePush \/ H!PushEnds \/ H!CloseClient \/ H!CloseServer
  BY <1>0, <1>1, <1>t DEF H!Write, H!HandlePush, H!PushEnds, H!CloseClient, H!CloseServer, H!client, H!data
<1>2. CASE H!Pull \/ H!HandlePull
  <2>1. /\ UNCHANGED <<hDownGot, hRxc, hLines, hWritten>> /\ hPull \in {"ready", "sent"}
        /\ hPull' \in {"over", "sent", "serving", "refused"}
    BY <1>2 DEF H!Pull, H!HandlePull, H!data
  <2>2. hLines = <<>> /\ Len(hLines) = 0
    BY <1>d, <2>1 DEF PhtDown
  <2> QED
    BY <1>t, <1>d, <2>1, <2>2 DEF PhtDown, PhtReceived, PhtMarked
<1>3. CASE H!Pulled
  <2>1. /\ UNCHANGED <<hDownGot, hRxc, hLines, hWritten>> /\ hLines = <<>>
        /\ hPull \in {"ended", "refused", "broken"} /\ hPull' \in {"ready", "over"}
        /\ hPull # "ended" => hPull' = "over"
    BY <1>3 DEF H!Pulled, H!data
  <2>2. Len(hLines) = 0
    BY <2>1
  <2> QED
    BY <1>t, <1>d, <2>1, <2>2 DEF PhtDown, PhtReceived, PhtMarked
<1>4. CASE H!PullBreaks
  <2>1. UNCHANGED <<hDownGot, hRxc, hWritten>> /\ hLines' = <<>> /\ hPull' = "broken" /\ hPull \in {"sent", "serving", "ended"}
    BY <1>4 DEF H!PullBreaks, H!data
  <2>2. PhtReceived <= hWritten
    <3>1. CASE hLines = <<>>
      BY <1>t, <1>d, <2>1, <3>1 DEF PhtDown, PhtReceived, PhtMarked
    <3>2. CASE hLines # <<>>
      <4>1. Len(hLines) >= 1
        BY <1>t, <3>2
      <4> QED
        BY <1>t, <1>d, <2>1, <4>1 DEF PhtDown, PhtReceived
    <3> QED
      BY <3>1, <3>2
  <2>3. Len(hLines') = 0 /\ hLines' \in Seq(Int)
    BY <2>1
  <2> QED
    BY <1>t, <1>d, <2>1, <2>2, <2>3 DEF PhtDown, PhtReceived
<1>5. CASE H!PullData
  <2>1. /\ UNCHANGED <<hDownGot, hRxc, hPull>> /\ hWritten' = hWritten + 1 /\ hLines' = Append(hLines, hWritten + 1)
        /\ hPull = "serving"
    BY <1>5 DEF H!PullData
  <2>2. /\ hLines' \in Seq(Int) /\ Len(hLines') = Len(hLines) + 1 /\ hLines' # <<>>
        /\ hLines'[Len(hLines) + 1] = hWritten + 1
    <3>1. hWritten + 1 \in Int
      BY <1>t
    <3> QED
      BY <1>t, <2>1, <3>1, Appended
  <2>3. ~PhtMarked
    BY <1>f, <2>1
  <2>4. PhtReceived + Len(hLines) = hWritten /\ PhtReceived' = PhtReceived
    BY <1>t, <1>d, <2>1, <2>3 DEF PhtDown, PhtReceived
  <2>5. ~PhtMarked'
    <3>1. hLines'[Len(hLines')] = hWritten + 1
      BY <2>2
    <3>2. hWritten + 1 # 0
      BY <1>t, <1>d, <2>4
    <3> QED
      BY <3>1, <3>2 DEF PhtMarked
  <2>6. \A i \in 1..Len(hLines') : hLines'[i] = PhtReceived + i
    <3>1. /\ \A i \in 1..Len(hLines) : hLines[i] = PhtReceived + i
          /\ hWritten + 1 \in Int /\ hWritten + 1 = PhtReceived + Len(hLines) + 1 /\ PhtReceived \in Int
      BY <1>t, <1>d, <1>e, <2>1, <2>4
    <3> QED
      BY <1>t, <2>1, <3>1, CountedOn
  <2>7. PhtReceived' + Len(hLines') = hWritten'
    BY <1>t, <1>d, <2>1, <2>2, <2>4
  <2> QED
    BY <1>t, <1>d, <1>e, <2>1, <2>2, <2>4, <2>5, <2>6, <2>7 DEF PhtDown
<1>6. CASE H!PullEnds
  <2>1. UNCHANGED <<hDownGot, hRxc, hWritten>> /\ hPull = "serving" /\ hPull' = "ended"
    BY <1>6 DEF H!PullEnds, H!data
  <2>2. ~PhtMarked
    BY <1>f, <2>1
  <2>3. PhtReceived + Len(hLines) = hWritten /\ PhtReceived \in Nat /\ PhtReceived' = PhtReceived
    BY <1>t, <1>d, <2>1, <2>2 DEF PhtDown, PhtReceived
  <2>4. CASE hLines' = hLines
    <3>1. ~PhtMarked'
      BY <2>2, <2>4 DEF PhtMarked
    <3> QED
      BY <1>t, <1>d, <2>1, <2>3, <2>4, <3>1 DEF PhtDown
  <2>5. CASE hLines' = Append(hLines, 0)
    <3>1. /\ hLines' \in Seq(Int) /\ Len(hLines') = Len(hLines) + 1 /\ hLines' # <<>>
          /\ \A i \in 1..Len(hLines) : hLines'[i] = hLines[i]
          /\ hLines'[Len(hLines) + 1] = 0
      BY <1>t, <2>5, Appended
    <3>2. PhtMarked'
      BY <3>1 DEF PhtMarked
    <3>3. ASSUME NEW i \in 1..Len(hLines')
          PROVE  hLines'[i] = PhtReceived + i \/ (hLines'[i] = 0 /\ i = Len(hLines'))
      <4>1. CASE i \in 1..Len(hLines)
        BY <1>e, <2>1, <3>1, <4>1
      <4>2. CASE i = Len(hLines) + 1
        BY <3>1, <4>2
      <4> QED
        BY <1>t, <3>1, <4>1, <4>2
    <3>4. PhtReceived' + Len(hLines') = hWritten' + 1
      BY <1>t, <1>d, <2>1, <2>3, <3>1
    <3> QED
      BY <1>t, <1>d, <1>e, <2>1, <2>3, <3>1, <3>2, <3>3, <3>4 DEF PhtDown
  <2> QED
    BY <1>6, <2>4, <2>5 DEF H!PullEnds
<1>7. CASE H!Scan
  <2>1. /\ UNCHANGED <<hDownGot, hWritten, hPull>> /\ hLines # <<>> /\ hPull \in {"serving", "ended"}
        /\ hLines' = Tail(hLines)
        /\ hRxc' = IF Head(hLines) = 0 THEN hRxc ELSE Append(hRxc, Head(hLines))
    BY <1>7 DEF H!Scan, H!data
  <2>2. /\ Len(hLines) >= 1 /\ Head(hLines) = hLines[1] /\ Head(hLines) \in Int
        /\ hLines' \in Seq(Int) /\ Len(hLines') = Len(hLines) - 1
        /\ \A i \in 1..Len(hLines') : hLines'[i] = hLines[i + 1]
    BY <1>t, <2>1
  <2>3. hLines' = <<>> <=> Len(hLines) = 1
    <3>1. hLines' = <<>> <=> Len(hLines') = 0
      BY <2>2
    <3> QED
      BY <1>t, <2>2, <3>1
  <2>4. PhtReceived \in Nat
    BY <1>t DEF PhtReceived
  <2>5. CASE Head(hLines) = 0
    <3>1. Len(hLines) = 1 /\ hRxc' = hRxc /\ PhtReceived' = PhtReceived
      <4>1. 1 \in 1..Len(hLines)
        BY <1>t, <2>2
      <4>2. hLines[1] = PhtReceived + 1 \/ 1 = Len(hLines)
        BY <1>e, <4>1
      <4> QED
        BY <2>1, <2>2, <2>4, <2>5, <4>2 DEF PhtReceived
    <3>2. PhtMarked /\ ~PhtMarked'
      BY <2>1, <2>2, <2>3, <2>5, <3>1 DEF PhtMarked
    <3> QED
      BY <1>t, <1>d, <2>1, <2>2, <2>3, <2>4, <3>1, <3>2 DEF PhtDown
  <2>6. CASE Head(hLines) # 0
    <3>1. Head(hLines) = PhtReceived + 1
      BY <1>t, <1>e, <2>2, <2>6
    <3>2. /\ hRxc' \in Seq(Int) /\ Len(hRxc') = Len(hRxc) + 1
      BY <1>t, <2>1, <2>2, <2>6, Appended
    <3>3. PhtReceived' = PhtReceived + 1
      BY <1>t, <2>1, <3>2 DEF PhtReceived
    <3>4. \A i \in 1..Len(hRxc') : hRxc'[i] = Len(hDownGot) + i
      <4>1. hRxc' = Append(hRxc, Head(hLines)) /\ Head(hLines) = Len(hDownGot) + Len(hRxc) + 1 /\ Head(hLines) \in Int
        BY <2>1, <2>2, <2>6, <3>1 DEF PhtReceived
      <4>2. /\ Len(hRxc') = Len(hRxc) + 1 /\ Len(hRxc) \in Nat /\ Len(hDownGot) \in Nat
            /\ \A i \in 1..Len(hRxc) : hRxc'[i] = hRxc[i]
            /\ hRxc'[Len(hRxc) + 1] = Head(hLines)
        BY <1>t, <4>1, Appended
      <4>3. \A i \in 1..Len(hRxc) : hRxc[i] = Len(hDownGot) + i
        BY <1>e
      <4> SUFFICES ASSUME NEW i \in 1..Len(hRxc') PROVE hRxc'[i] = Len(hDownGot) + i
        OBVIOUS
      <4>4. CASE i \in 1..Len(hRxc)
        BY <4>2, <4>3, <4>4
      <4>5. CASE i = Len(hRxc) + 1
        BY <4>1, <4>2, <4>5
      <4> QED
        BY <4>2, <4>4, <4>5
    <3>5. PhtMarked' <=> PhtMarked
      <4>1. CASE Len(hLines) = 1
        BY <2>2, <2>3, <2>6, <4>1 DEF PhtMarked
      <4>2. CASE Len(hLines) # 1
        <5>1. hLines'[Len(hLines')] = hLines[Len(hLines)]
          BY <1>t, <2>2, <4>2
        <5> QED
          BY <2>1, <2>3, <4>2, <5>1 DEF PhtMarked
      <4> QED
        BY <4>1, <4>2
    <3>6. ASSUME NEW i \in 1..Len(hLines')
          PROVE  hLines'[i] = PhtReceived' + i \/ (hLines'[i] = 0 /\ i = Len(hLines') /\ hPull' = "ended")
      <4>1. i + 1 \in 1..Len(hLines) /\ hLines'[i] = hLines[i + 1]
        <5>1. hLines'[i] = hLines[i + 1]
          BY <2>2
        <5>2. Len(hLines) \in Int /\ Len(hLines') = Len(hLines) - 1
          BY <1>t, <2>2
        <5>3. i + 1 \in 1..Len(hLines)
          BY <5>2
        <5> QED
          BY <5>1, <5>3
      <4>2. hLines[i + 1] = PhtReceived + (i + 1) \/ (hLines[i + 1] = 0 /\ i + 1 = Len(hLines) /\ hPull = "ended")
        BY <1>d, <4>1 DEF PhtDown
      <4>3. PhtReceived + (i + 1) = PhtReceived' + i /\ (i + 1 = Len(hLines) => i = Len(hLines')) /\ hPull' = hPull
        <5>1. i \in Int /\ Len(hLines') = Len(hLines) - 1 /\ Len(hLines) \in Int
          BY <1>t, <2>2
        <5>2. PhtReceived + (i + 1) = PhtReceived' + i
          BY <2>4, <3>3, <5>1
        <5>3. i + 1 = Len(hLines) => i = Len(hLines')
          BY <5>1
        <5> QED
          BY <2>1, <5>2, <5>3
      <4> QED
        BY <4>1, <4>2, <4>3
    <3>7. PhtReceived' + Len(hLines') = PhtReceived + Len(hLines)
      BY <1>t, <2>2, <2>4, <3>3
    <3>8. hLines' # <<>> => hPull' \in {"serving", "ended"}
      BY <2>1
    <3>9. PhtReceived' + Len(hLines') = IF PhtMarked' THEN hWritten' + 1 ELSE hWritten'
      BY <1>d, <2>1, <3>5, <3>7 DEF PhtDown
    <3> QED
      BY <1>t, <1>e, <2>1, <2>2, <3>2, <3>4, <3>6, <3>8, <3>9 DEF PhtDown
  <2> QED
    BY <2>5, <2>6
<1>8. CASE H!Read
  <2>1. /\ UNCHANGED <<hLines, hWritten, hPull>> /\ hRxc # <<>>
        /\ hRxc' = Tail(hRxc) /\ hDownGot' = Append(hDownGot, Head(hRxc))
    BY <1>8 DEF H!Read
  <2>2. /\ Len(hRxc) >= 1 /\ Head(hRxc) = hRxc[1] /\ Head(hRxc) \in Int
        /\ hRxc' \in Seq(Int) /\ Len(hRxc') = Len(hRxc) - 1
        /\ \A i \in 1..Len(hRxc') : hRxc'[i] = hRxc[i + 1]
    BY <1>t, <2>1
  <2>3. Head(hRxc) = Len(hDownGot) + 1
    BY <1>t, <1>e, <2>2
  <2>4. /\ hDownGot' \in Seq(Int) /\ Len(hDownGot') = Len(hDownGot) + 1
    BY <1>t, <2>1, <2>2, Appended
  <2>5. PhtReceived' = PhtReceived /\ (PhtMarked' <=> PhtMarked)
    BY <1>t, <2>1, <2>2, <2>4 DEF PhtReceived, PhtMarked
  <2>6. \A i \in 1..Len(hDownGot') : hDownGot'[i] = i
    <3>1. (\A i \in 1..Len(hDownGot) : hDownGot[i] = 0 + i) /\ Head(hRxc) = 0 + Len(hDownGot) + 1
      BY <1>t, <1>e, <2>3
    <3>2. \A i \in 1..Len(hDownGot') : hDownGot'[i] = 0 + i
      BY <1>t, <2>1, <2>2, <3>1, CountedOn
    <3> QED
      BY <2>4, <3>2
  <2>7. ASSUME NEW i \in 1..Len(hRxc') PROVE hRxc'[i] = Len(hDownGot') + i
    <3>1. i + 1 \in 1..Len(hRxc) /\ hRxc'[i] = hRxc[i + 1]
      BY <1>t, <2>2
    <3>2. hRxc[i + 1] = Len(hDownGot) + (i + 1)
      BY <1>d, <3>1 DEF PhtDown
    <3> QED
      BY <1>t, <2>4, <3>1, <3>2
  <2> QED
    BY <1>t, <1>d, <2>1, <2>2, <2>4, <2>5, <2>6, <2>7 DEF PhtDown
<1> QED
  BY <1>1, <1>2, <1>3, <1>4, <1>5, <1>6, <1>7, <1>8 DEF H!Next

\* A sequence that counts up to at most n is a prefix of the one that counts to n.
LEMMA PhtCounts ==
    ASSUME NEW s \in Seq(Int), NEW n \in Int, Len(s) <= n, \A i \in 1..Len(s) : s[i] = i
    PROVE  H!IsPrefix(s, H!Upto(n))
<1>1. Len(s) \in Nat /\ n \in Nat
  OBVIOUS
<1>2. H!Upto(n) \in Seq(Int) /\ Len(H!Upto(n)) = n /\ \A i \in 1..n : H!Upto(n)[i] = i
  BY <1>1 DEF H!Upto
<1>3. SubSeq(s, 1, Len(s)) = SubSeq(H!Upto(n), 1, Len(s))
  BY <1>1, <1>2
<1> QED
  BY <1>1, <1>2, <1>3 DEF H!IsPrefix

\* Both ends of a tunnel over HTTP read what the other wrote, in order, without gap or
\* repetition (InOrder), however long the streams and whatever requests are lost.
THEOREM InOrderAlways == Spec => []InOrder
<1>1. Init => PhtInv
  BY PhtInit DEF Init
<1>2. PhtInv /\ [Next]_vars => PhtInv'
  <2> SUFFICES ASSUME PhtInv, [H!Next]_hVars PROVE PhtInv'
    BY Steps
  <2>1. CASE H!Next
    <3>1. PhtTyped'
      BY <2>1, PhtUpNext, PhtDownNext DEF PhtTyped
    <3> QED
      BY <2>1, <3>1, PhtUpNext, PhtDownNext DEF PhtInv
  <2>2. CASE UNCHANGED hVars
    BY <2>2 DEF hVars, PhtInv, PhtTyped, PhtUp, PhtDown, PhtReceived, PhtMarked
  <2> QED
    BY <2>1, <2>2
<1>3. PhtInv => InOrder
  <2> SUFFICES ASSUME PhtInv PROVE H!InOrder
    BY DEF InOrder
  <2>t. /\ hUpGot \in Seq(Int) /\ hDownGot \in Seq(Int) /\ hRxc \in Seq(Int) /\ hLines \in Seq(Int)
        /\ hPushed \in Int /\ hAcked \in Int /\ hWritten \in Int
        /\ Len(hUpGot) \in Nat /\ Len(hDownGot) \in Nat /\ Len(hRxc) \in Nat /\ Len(hLines) \in Nat
    BY DEF PhtInv, PhtTyped
  <2>1. Len(hUpGot) <= hPushed /\ hAcked <= Len(hUpGot)
    BY <2>t DEF PhtInv, PhtTyped, PhtUp
  <2>2. PhtReceived <= hWritten
    <3>1. PhtMarked => Len(hLines) >= 1
      BY <2>t DEF PhtMarked
    <3> QED
      BY <2>t, <3>1 DEF PhtInv, PhtTyped, PhtDown, PhtReceived
  <2> DEFINE D == hDownGot \o hRxc
  <2>3. /\ D \in Seq(Int) /\ Len(D) = PhtReceived
        /\ \A i \in 1..Len(D) : D[i] = IF i <= Len(hDownGot) THEN hDownGot[i] ELSE hRxc[i - Len(hDownGot)]
    BY <2>t DEF PhtReceived
  <2> HIDE DEF D
  <2>4. ASSUME NEW i \in 1..Len(D) PROVE D[i] = i
    <3>1. CASE i <= Len(hDownGot)
      <4>1. i \in 1..Len(hDownGot)
        BY <2>t, <2>3, <3>1
      <4>2. hDownGot[i] = i
        BY <4>1 DEF PhtInv, PhtDown
      <4> QED
        BY <2>3, <3>1, <4>2
    <3>2. CASE i > Len(hDownGot)
      <4>1. i - Len(hDownGot) \in 1..Len(hRxc)
        BY <2>t, <2>3, <3>2 DEF PhtReceived
      <4>2. hRxc[i - Len(hDownGot)] = Len(hDownGot) + (i - Len(hDownGot))
        BY <4>1 DEF PhtInv, PhtDown
      <4> QED
        BY <2>t, <2>3, <3>2, <4>2
    <3> QED
      BY <2>t, <2>3, <3>1, <3>2
  <2>5. H!IsPrefix(hUpGot, H!Upto(hPushed))
    BY <2>t, <2>1, PhtCounts DEF PhtInv, PhtUp
  <2>6. H!IsPrefix(D, H!Upto(hWritten))
    BY <2>t, <2>2, <2>3, <2>4, PhtCounts
  <2> QED
    BY <2>1, <2>5, <2>6 DEF H!InOrder, D
<1> QED
  BY <1>1, <1>2, <1>3, PTL DEF Spec

=============================================================================
