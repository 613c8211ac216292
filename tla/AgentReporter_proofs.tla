------------------------ MODULE AgentReporter_proofs ------------------------
(***************************************************************************)
(* Proofs about AgentReporter, for any set of connections.                 *)
(***************************************************************************)
EXTENDS AgentReporter, TLAPS

\* The initial state satisfies the inductive invariant.
LEMMA InitIInv == Init => IInv
<1> SUFFICES ASSUME Init PROVE IInv
  OBVIOUS
<1>1. connected \in BOOLEAN /\ ~connected
  BY Zenon DEF Init
<1>2. TypeOK
  BY <1>1, SMT DEF Init, TypeOK, Ended, Readers
<1>3. Serving
  BY <1>1, SMT DEF Init, Serving, Ended
<1> QED
  BY <1>1, <1>2, <1>3 DEF IInv, NotDeaf

\* The steps of the loop.
LEMMA RunKeepsIInv ==
  ASSUME IInv, Run
  PROVE  IInv'
<1> USE NoneAssumption
<1>1. CASE Check
  <2>1. TypeOK' /\ Serving'
    BY <1>1, SMT DEF Check, IInv, TypeOK, Serving
  <2>2. NotDeaf'
    BY <1>1, SMT DEF Check, NotDeaf
  <2> QED
    BY <2>1, <2>2 DEF IInv
<1>2. ASSUME NEW c \in Conns, Dial(c)
      PROVE  IInv'
  <2>1. connected' \in BOOLEAN
    BY <1>2, Zenon DEF Dial
  <2>2. TypeOK'
    BY <1>2, <2>1, SMT DEF Dial, IInv, TypeOK
  <2>3. Serving'
    BY <1>2, SMT DEF Dial, IInv, TypeOK, Serving
  <2>4. NotDeaf'
    BY <1>2, SMT DEF Dial, NotDeaf
  <2> QED
    BY <2>2, <2>3, <2>4 DEF IInv
<1>3. CASE DialFails
  <2>1. TypeOK' /\ Serving'
    BY <1>3, SMT DEF DialFails, IInv, TypeOK, Serving
  <2>2. NotDeaf'
    BY <1>3, SMT DEF DialFails, NotDeaf
  <2> QED
    BY <2>1, <2>2 DEF IInv
<1>4. CASE Test
  <2>1. CASE connected
    <3>1. conn \in Conns
      BY <2>1, SMT DEF IInv, TypeOK, Serving
    <3>2. /\ reader' = [reader EXCEPT ![conn] = [at |-> "loop", on |-> None]]
          /\ pc' = "handling"
          /\ UNCHANGED <<conn, connected, sock>>
      BY <1>4, <2>1 DEF Test
    <3>3. TypeOK'
      BY <3>1, <3>2, SMT DEF IInv, TypeOK, Readers
    <3>4. Serving'
      BY <2>1, <3>1, <3>2, SMT DEF IInv, TypeOK, Serving, Readers
    <3>5. reader'[conn].at = "loop"
      BY <3>1, <3>2, SMT DEF IInv, TypeOK
    <3> QED
      BY <3>1, <3>3, <3>4, <3>5 DEF IInv, NotDeaf
  <2>2. CASE ~connected
    <3>1. TypeOK' /\ Serving'
      BY <1>4, <2>2, SMT DEF Test, IInv, TypeOK, Serving
    <3>2. NotDeaf'
      BY <1>4, <2>2, SMT DEF Test, NotDeaf
    <3> QED
      BY <3>1, <3>2 DEF IInv
  <2> QED
    BY <2>1, <2>2
<1>5. CASE Heartbeat
  <2>1. connected' \in BOOLEAN /\ ~connected'
    BY <1>5, Zenon DEF Heartbeat
  <2>2. TypeOK' /\ Serving'
    BY <1>5, <2>1, SMT DEF Heartbeat, IInv, TypeOK, Serving
  <2> QED
    BY <2>1, <2>2 DEF IInv, NotDeaf
<1>6. CASE Leave
  <2>1. connected' \in BOOLEAN /\ ~connected'
    BY <1>6, Zenon DEF Leave
  <2>2. TypeOK' /\ Serving'
    BY <1>6, <2>1, SMT DEF Leave, IInv, TypeOK, Serving
  <2> QED
    BY <2>1, <2>2 DEF IInv, NotDeaf
<1> QED
  BY <1>1, <1>2, <1>3, <1>4, <1>5, <1>6 DEF Run

\* The steps of a goroutine: it ends only when the field connected is, or gets, cleared.
LEMMA ReceiveKeepsIInv ==
  ASSUME IInv, NEW r \in Conns, Receive(r)
  PROVE  IInv'
<1> USE NoneAssumption
<1>1. CASE Loop(r)
  <2>1. CASE conn = None \/ ~connected
    <3>1. ~connected
      BY <2>1 DEF IInv, Serving
    <3>2. UNCHANGED <<conn, connected, pc, sock>> /\ reader' = [reader EXCEPT ![r] = Ended]
      BY <1>1, <2>1 DEF Loop
    <3>3. TypeOK' /\ Serving'
      BY <3>2, SMT DEF IInv, TypeOK, Serving, Readers, Ended
    <3> QED
      BY <3>1, <3>2, <3>3 DEF IInv, NotDeaf
  <2>2. CASE conn # None /\ connected
    <3>1. UNCHANGED <<conn, connected, pc, sock>> /\ reader' = [reader EXCEPT ![r] = [at |-> "read", on |-> conn]]
      BY <1>1, <2>2 DEF Loop
    <3>2. TypeOK' /\ Serving'
      BY <2>2, <3>1, SMT DEF IInv, TypeOK, Serving, Readers
    <3>3. reader'[r].at = "read" /\ reader'[r].on = conn'
      BY <3>1, SMT DEF IInv, TypeOK
    <3> QED
      BY <3>2, <3>3 DEF IInv, NotDeaf
  <2> QED
    BY <2>1, <2>2
<1>2. ASSUME NEW place \in {"busy", "fail"}, reader[r].at = "read", Goto(r, place), UNCHANGED <<conn, connected, pc, sock>>
      PROVE  IInv'
  <2>1. TypeOK' /\ Serving'
    BY <1>2, SMT DEF Goto, IInv, TypeOK, Serving, Readers
  <2>2. reader'[r].at \in {"busy", "fail"}
    BY <1>2, SMT DEF Goto, IInv, TypeOK, Readers
  <2> QED
    BY <2>1, <2>2 DEF IInv, NotDeaf
<1>3. CASE Command(r)
  BY <1>2, <1>3 DEF Command
<1>4. CASE ReadFails(r)
  BY <1>2, <1>4 DEF ReadFails
<1>5. CASE Fail(r)
  <2>1. connected' \in BOOLEAN /\ ~connected'
    BY <1>5, Zenon DEF Fail
  <2>2. TypeOK' /\ Serving'
    BY <1>5, <2>1, SMT DEF Fail, IInv, TypeOK, Serving, Readers, Ended
  <2> QED
    BY <2>1, <2>2 DEF IInv, NotDeaf
<1>6. CASE Executed(r)
  <2>1. TypeOK' /\ Serving'
    BY <1>6, SMT DEF Executed, IInv, TypeOK, Serving, Readers
  <2>2. reader'[r].at = "reply"
    BY <1>6, SMT DEF Executed, IInv, TypeOK
  <2> QED
    BY <2>1, <2>2 DEF IInv, NotDeaf
<1>7. CASE Reply(r)
  <2>1. connected' \in BOOLEAN /\ (connected' => connected)
    BY <1>7, Zenon DEF Reply, IInv, TypeOK
  <2>2. UNCHANGED <<conn, pc, sock>> /\ Goto(r, "loop")
    BY <1>7 DEF Reply
  <2>3. TypeOK'
    BY <2>1, <2>2, SMT DEF Goto, IInv, TypeOK, Readers
  <2>4. \A q \in Conns : reader'[q].at = "read" => reader[q].at = "read" /\ reader'[q].on = reader[q].on
    BY <2>2, SMT DEF Goto, IInv, TypeOK, Readers
  <2>5. Serving'
    BY <2>1, <2>2, <2>4 DEF IInv, Serving
  <2>6. reader'[r].at = "loop"
    BY <2>2, SMT DEF Goto, IInv, TypeOK, Readers
  <2> QED
    BY <2>3, <2>5, <2>6 DEF IInv, NotDeaf
<1> QED
  BY <1>1, <1>3, <1>4, <1>5, <1>6, <1>7 DEF Receive

\* Links break and unreachable sockets are closed, never the current connection.
LEMMA EnvironmentKeepsIInv ==
  ASSUME IInv, NEW c \in Conns, Break(c) \/ Collect(c)
  PROVE  IInv'
<1>1. TypeOK' /\ Serving'
  BY SMT DEF Break, Collect, IInv, TypeOK, Serving
<1>2. NotDeaf'
  BY DEF Break, Collect, IInv, NotDeaf
<1> QED
  BY <1>1, <1>2 DEF IInv

\* IInv is an invariant of the specification.
THEOREM Inductive == Spec => []IInv
<1>1. IInv /\ UNCHANGED vars => IInv'
  BY DEF vars, IInv, TypeOK, Serving, NotDeaf
<1>2. IInv /\ [Next]_vars => IInv'
  BY <1>1, RunKeepsIInv, ReceiveKeepsIInv, EnvironmentKeepsIInv DEF Next
<1> QED
  BY InitIInv, <1>2, PTL DEF Spec

\* A connection the loop serves is read by a goroutine that will note its end.
THEOREM NotDeafAlways == Spec => []NotDeaf
<1>1. IInv => NotDeaf
  BY DEF IInv
<1> QED
  BY <1>1, Inductive, PTL

\* The field connected is only set while there is a connection that is not closed.
THEOREM ConnectedHasConnAlways == Spec => []ConnectedHasConn
<1>1. IInv => ConnectedHasConn
  BY DEF IInv, Serving, ConnectedHasConn
<1> QED
  BY <1>1, Inductive, PTL
=============================================================================
