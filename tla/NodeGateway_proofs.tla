------------------------- MODULE NodeGateway_proofs -------------------------
(***************************************************************************)
(* Proofs about NodeGateway, for any number of sessions and any set of     *)
(* calls.                                                                  *)
(***************************************************************************)
EXTENDS NodeGateway, TLAPS

\* An answer on its way is the answer to a command the agent has executed.
RepliesExecuted == \A r \in Requests, s \in Sessions : <<r, s>> \in replies => r \in executed

\* The table and the sessions; the calls and the agent.
SessionsInv == TableOwned
CallsInv    == PendingExact /\ AnsweredExecuted /\ RepliesExecuted

\* PendingExact and TableOwned are inductive with the types; AnsweredExecuted needs to know
\* that answers only come from commands that were executed.
IInv == TypeOK /\ SessionsInv /\ CallsInv

\* The initial state satisfies the inductive invariant.
LEMMA InitIInv == Init => IInv
<1> SUFFICES ASSUME Init PROVE IInv
  OBVIOUS
<1>1. reading \in [Sessions -> BOOLEAN]
  BY Zenon DEF Init
<1>2. TypeOK
  BY <1>1, SMT DEF Init, TypeOK, PCs, Ended
<1>3. TableOwned
  BY SMT DEF Init, TableOwned
<1>4. CallsInv
  BY SMT DEF Init, CallsInv, PendingExact, AnsweredExecuted, RepliesExecuted
<1> QED
  BY <1>2, <1>3, <1>4 DEF IInv, SessionsInv

\* A step that leaves calls and agent alone keeps what is said of them.
LEMMA CallsKept ==
  ASSUME CallsInv, UNCHANGED <<calls, agent>>
  PROVE  CallsInv'
BY SMT DEF CallsInv, PendingExact, AnsweredExecuted, RepliesExecuted, calls, agent

\* A step that leaves the table and the handlers alone keeps what is said of them.
LEMMA SessionsKept ==
  ASSUME SessionsInv, UNCHANGED <<nodes, pc>>
  PROVE  SessionsInv'
BY DEF SessionsInv, TableOwned

\* The network: sessions come and go, their sockets close.
LEMMA NetworkKeepsIInv ==
  ASSUME IInv, NEW s \in Sessions, Dial(s) \/ Detect(s) \/ ReadEnds(s) \/ ReadBreaks(s) \/ LinkLost
  PROVE  IInv'
<1> USE SessionsAssumption DEF Sessions
<1>1. CallsInv'
  BY CallsKept, SMT DEF IInv, Dial, Detect, ReadEnds, ReadBreaks, LinkLost, calls, agent
<1>2. CASE Dial(s)
  <2>1. TypeOK'
    BY <1>2, SMT DEF Dial, IInv, TypeOK, Goto, PCs, table, calls, agent
  <2>2. TableOwned'
    BY <1>2, SMT DEF Dial, IInv, TypeOK, SessionsInv, TableOwned, Goto, PCs, table
  <2> QED
    BY <1>1, <2>1, <2>2 DEF IInv, SessionsInv
<1>3. CASE Detect(s)
  <2>1. TypeOK'
    BY <1>3, SMT DEF Detect, IInv, TypeOK, ClosedIn, table, calls, agent
  <2> QED
    BY <1>1, <1>3, <2>1, SessionsKept DEF IInv, Detect, table
<1>4. CASE ReadEnds(s) \/ ReadBreaks(s)
  <2>1. reading' \in [Sessions -> BOOLEAN]
    BY <1>4, Zenon DEF ReadEnds, ReadBreaks, IInv, TypeOK
  <2>2. TypeOK'
    BY <1>4, <2>1, SMT DEF ReadEnds, ReadBreaks, IInv, TypeOK, table, calls, agent
  <2> QED
    BY <1>1, <1>4, <2>2, SessionsKept DEF IInv, ReadEnds, ReadBreaks, table
<1>5. CASE LinkLost
  <2>1. TypeOK'
    BY <1>5, SMT DEF LinkLost, IInv, TypeOK, table, handlers, calls, agent
  <2> QED
    BY <1>1, <1>5, <2>1, SessionsKept DEF IInv, LinkLost, table, handlers
<1> QED
  BY <1>2, <1>3, <1>4, <1>5

\* The handler of a session: it takes its own entry out before it ends.
LEMMA HandlerKeepsIInv ==
  ASSUME IInv, NEW s \in Sessions, Handler(s)
  PROVE  IInv'
<1> USE SessionsAssumption DEF Sessions
<1>1. CallsInv'
  BY CallsKept, SMT DEF IInv, Handler, FindPrevious, CloseFrame, PreviousClosed, Register, Online,
     OnlineFails, ReplayDone, ReplayFails, ReadAwaited, CheckCurrent, Remove, Offline, calls, agent
<1>2. CASE FindPrevious(s)
  <2>1. TypeOK'
    <3>1. /\ pc' = [pc EXCEPT ![s] = "closing"] \/ pc' = [pc EXCEPT ![s] = "register"]
          /\ previous' = [previous EXCEPT ![s] = nodes] \/ previous' = previous
          /\ UNCHANGED <<table, sock, reading, link, calls, agent>>
      BY <1>2, Zenon DEF FindPrevious, Goto
    <3>2. pc' \in [Sessions -> PCs] /\ previous' \in [Sessions -> Sessions \cup {0}]
      BY <3>1 DEF IInv, TypeOK, PCs
    <3> QED
      BY <3>1, <3>2 DEF IInv, TypeOK, table, calls, agent
  <2>2. TableOwned'
    BY <1>2, SMT DEF FindPrevious, IInv, TypeOK, SessionsInv, TableOwned, Goto, table
  <2> QED
    BY <1>1, <2>1, <2>2 DEF IInv, SessionsInv
<1>3. CASE CloseFrame(s)
  <2>1. TypeOK'
    BY <1>3, SMT DEF CloseFrame, IInv, TypeOK, table, handlers, calls, agent
  <2> QED
    BY <1>1, <1>3, <2>1, SessionsKept DEF IInv, CloseFrame, table, handlers
<1>4. CASE PreviousClosed(s)
  <2>1. TypeOK'
    BY <1>4, SMT DEF PreviousClosed, IInv, TypeOK, Goto, PCs, table, calls, agent
  <2>2. TableOwned'
    BY <1>4, SMT DEF PreviousClosed, IInv, TypeOK, SessionsInv, TableOwned, Goto, table
  <2> QED
    BY <1>1, <2>1, <2>2 DEF IInv, SessionsInv
<1>5. CASE Register(s)
  <2>1. TypeOK'
    BY <1>5, SMT DEF Register, IInv, TypeOK, Goto, PCs, calls, agent
  <2>2. TableOwned'
    BY <1>5, SMT DEF Register, IInv, TypeOK, TableOwned, Goto
  <2> QED
    BY <1>1, <2>1, <2>2 DEF IInv, SessionsInv
<1>6. CASE Online(s)
  <2>1. reading' \in [Sessions -> BOOLEAN]
    BY <1>6, Zenon DEF Online, IInv, TypeOK
  <2>2. TypeOK'
    BY <1>6, <2>1, SMT DEF Online, IInv, TypeOK, Goto, PCs, calls, agent
  <2>3. TableOwned'
    BY <1>6, SMT DEF Online, IInv, TypeOK, SessionsInv, TableOwned, Goto
  <2> QED
    BY <1>1, <2>2, <2>3 DEF IInv, SessionsInv
<1>7. CASE OnlineFails(s)
  <2>1. TypeOK'
    BY <1>7, SMT DEF OnlineFails, Dispose, IInv, TypeOK, ClosedIn, Goto, PCs, table, calls, agent
  <2>2. TableOwned'
    BY <1>7, SMT DEF OnlineFails, IInv, TypeOK, SessionsInv, TableOwned, Goto, table
  <2> QED
    BY <1>1, <2>1, <2>2 DEF IInv, SessionsInv
<1>8. CASE ReplayDone(s)
  <2>1. TypeOK'
    BY <1>8, SMT DEF ReplayDone, IInv, TypeOK, Goto, PCs, table, calls, agent
  <2>2. TableOwned'
    BY <1>8, SMT DEF ReplayDone, IInv, TypeOK, SessionsInv, TableOwned, Goto, table
  <2> QED
    BY <1>1, <2>1, <2>2 DEF IInv, SessionsInv
<1>9. CASE ReplayFails(s)
  <2>1. TypeOK'
    BY <1>9, SMT DEF ReplayFails, Dispose, IInv, TypeOK, ClosedIn, Goto, PCs, table, calls, agent
  <2>2. TableOwned'
    BY <1>9, SMT DEF ReplayFails, IInv, TypeOK, SessionsInv, TableOwned, Goto, table
  <2> QED
    BY <1>1, <2>1, <2>2 DEF IInv, SessionsInv
<1>10. CASE ReadAwaited(s)
  <2>1. TypeOK'
    BY <1>10, SMT DEF ReadAwaited, IInv, TypeOK, Goto, PCs, table, calls, agent
  <2>2. TableOwned'
    BY <1>10, SMT DEF ReadAwaited, IInv, TypeOK, SessionsInv, TableOwned, Goto, table
  <2> QED
    BY <1>1, <2>1, <2>2 DEF IInv, SessionsInv
<1>11. CASE CheckCurrent(s)
  <2>1. TypeOK'
    BY <1>11, SMT DEF CheckCurrent, Dispose, ClosedIn, IInv, TypeOK, Goto, PCs, table, calls, agent
  <2>2. TableOwned'
    BY <1>11, SMT DEF CheckCurrent, Current, IInv, TypeOK, SessionsInv, TableOwned, Goto, table
  <2> QED
    BY <1>1, <2>1, <2>2 DEF IInv, SessionsInv
<1>12. CASE Remove(s)
  <2>1. TypeOK'
    BY <1>12, SMT DEF Remove, IInv, TypeOK, Goto, PCs, calls, agent
  <2>2. TableOwned'
    BY <1>12 DEF Remove, TableOwned
  <2> QED
    BY <1>1, <2>1, <2>2 DEF IInv, SessionsInv
<1>13. CASE Offline(s)
  <2>1. TypeOK'
    BY <1>13, SMT DEF Offline, Dispose, ClosedIn, IInv, TypeOK, Goto, PCs, calls, agent
  <2>2. TableOwned'
    BY <1>13, SMT DEF Offline, IInv, TypeOK, SessionsInv, TableOwned, Goto
  <2> QED
    BY <1>1, <2>1, <2>2 DEF IInv, SessionsInv
<1> QED
  BY <1>2, <1>3, <1>4, <1>5, <1>6, <1>7, <1>8, <1>9, <1>10, <1>11, <1>12, <1>13 DEF Handler

\* The callers and the answers: an entry of _pending and the state of its call change together.
LEMMA CallsKeepIInv ==
  ASSUME IInv, NEW r \in Requests, NEW s \in Sessions,
         Call(r) \/ Caller(r) \/ Execute(r) \/ Answer(r, s) \/ ReplyLost(r, s)
  PROVE  IInv'
<1> USE SessionsAssumption DEF Sessions
<1>1. SessionsInv'
  BY SessionsKept, SMT DEF IInv, Call, Caller, Sent, SendFails, Timeout, Execute, Answer, ReplyLost, table, handlers
<1>2. CASE Call(r)
  <2>1. CASE nodes = 0 \/ sock[nodes] # "open"
    <3>1. End(r, "failed") /\ UNCHANGED <<table, handlers, link, agent>>
      BY <1>2, <2>1 DEF Call
    <3>2. TypeOK'
      BY <3>1, SMT DEF End, Ended, IInv, TypeOK, table, handlers, agent
    <3>3. CallsInv'
      BY <3>1, SMT DEF End, IInv, TypeOK, CallsInv, PendingExact, AnsweredExecuted, RepliesExecuted, agent
    <3> QED
      BY <1>1, <3>2, <3>3 DEF IInv
  <2>2. CASE ~(nodes = 0 \/ sock[nodes] # "open")
    <3>1. /\ call' = [call EXCEPT ![r] = "sending"]
          /\ via' = [via EXCEPT ![r] = nodes]
          /\ pending' = pending \cup {r}
          /\ UNCHANGED <<table, handlers, link, agent>>
      BY <1>2, <2>2 DEF Call
    <3>2. TypeOK'
      BY <3>1, SMT DEF Ended, IInv, TypeOK, table, handlers, agent
    <3>3. CallsInv'
      BY <3>1, SMT DEF IInv, TypeOK, CallsInv, PendingExact, AnsweredExecuted, RepliesExecuted, agent
    <3> QED
      BY <1>1, <3>2, <3>3 DEF IInv
  <2> QED
    BY <2>1, <2>2
<1>3. CASE Sent(r)
  <2>1. TypeOK'
    BY <1>3, SMT DEF Sent, IInv, TypeOK, table, handlers
  <2>2. CallsInv'
    BY <1>3, SMT DEF Sent, IInv, TypeOK, CallsInv, PendingExact, AnsweredExecuted, RepliesExecuted
  <2> QED
    BY <1>1, <2>1, <2>2 DEF IInv
<1>4. CASE SendFails(r) \/ Timeout(r)
  <2>1. TypeOK'
    <3>1. End(r, "failed") /\ UNCHANGED <<table, handlers, link, agent>>
      BY <1>4, Zenon DEF SendFails, Timeout
    <3> QED
      BY <3>1, SMT DEF End, Ended, IInv, TypeOK, table, handlers, agent
  <2>2. CallsInv'
    BY <1>4, SMT DEF SendFails, Timeout, End, IInv, TypeOK, CallsInv, PendingExact, AnsweredExecuted, RepliesExecuted, agent
  <2> QED
    BY <1>1, <2>1, <2>2 DEF IInv
<1>5. CASE Execute(r)
  <2>1. TypeOK'
    BY <1>5, SMT DEF Execute, IInv, TypeOK, table, handlers, calls
  <2>2. PendingExact' /\ AnsweredExecuted'
    BY <1>5, SMT DEF Execute, IInv, CallsInv, PendingExact, AnsweredExecuted, calls
  <2>3. RepliesExecuted'
    BY <1>5, SMT DEF Execute, IInv, TypeOK, CallsInv, RepliesExecuted
  <2> QED
    BY <1>1, <2>1, <2>2, <2>3 DEF IInv, CallsInv
<1>6. CASE Answer(r, s)
  <2>1. r \in executed
    BY <1>6 DEF Answer, IInv, CallsInv, RepliesExecuted
  <2>2. TypeOK'
    <3>1. /\ replies' = replies \ {<<r, s>>}
          /\ End(r, "answered") \/ UNCHANGED calls
          /\ UNCHANGED <<table, handlers, link, inbox, executed>>
      BY <1>6 DEF Answer
    <3> QED
      <4>1. CASE End(r, "answered")
        BY <3>1, <4>1, SMT DEF End, Ended, IInv, TypeOK, table, handlers
      <4>2. CASE UNCHANGED calls
        BY <3>1, <4>2, SMT DEF IInv, TypeOK, table, handlers, calls
      <4> QED
        BY <3>1, <4>1, <4>2
  <2>3. PendingExact' /\ AnsweredExecuted'
    <3>1. CASE r \in pending
      <4>1. End(r, "answered") /\ UNCHANGED executed
        BY <1>6, <3>1 DEF Answer
      <4> QED
        BY <2>1, <4>1, SMT DEF End, IInv, TypeOK, CallsInv, PendingExact, AnsweredExecuted
    <3>2. CASE r \notin pending
      BY <1>6, <3>2 DEF Answer, IInv, CallsInv, PendingExact, AnsweredExecuted, calls
    <3> QED
      BY <3>1, <3>2
  <2>4. RepliesExecuted'
    BY <1>6, SMT DEF Answer, IInv, CallsInv, RepliesExecuted
  <2> QED
    BY <1>1, <2>2, <2>3, <2>4 DEF IInv, CallsInv
<1>7. CASE ReplyLost(r, s)
  <2>1. TypeOK'
    BY <1>7, SMT DEF ReplyLost, IInv, TypeOK, table, handlers, calls
  <2>2. CallsInv'
    BY <1>7, SMT DEF ReplyLost, IInv, CallsInv, PendingExact, AnsweredExecuted, RepliesExecuted, calls
  <2> QED
    BY <1>1, <2>1, <2>2 DEF IInv
<1> QED
  BY <1>2, <1>3, <1>4, <1>5, <1>6, <1>7 DEF Caller

\* Every step of the specification keeps the inductive invariant.
LEMMA NextKeepsIInv == IInv /\ [Next]_vars => IInv'
<1> SUFFICES ASSUME IInv, [Next]_vars PROVE IInv'
  OBVIOUS
<1>1. 1 \in Sessions
  BY SessionsAssumption, SMT DEF Sessions
<1>2. CASE \E s \in Sessions : Dial(s) \/ Detect(s) \/ Handler(s) \/ ReadEnds(s) \/ ReadBreaks(s)
  BY <1>2, NetworkKeepsIInv, HandlerKeepsIInv
<1>3. CASE LinkLost
  BY <1>1, <1>3, NetworkKeepsIInv
<1>4. CASE \E r \in Requests : Call(r) \/ Caller(r) \/ Execute(r)
  BY <1>1, <1>4, CallsKeepIInv
<1>5. CASE \E r \in Requests, s \in Sessions : Answer(r, s) \/ ReplyLost(r, s)
  BY <1>5, CallsKeepIInv
<1>6. CASE UNCHANGED vars
  <2>1. TypeOK'
    BY <1>6, SMT DEF IInv, TypeOK, vars, table, handlers, calls, agent
  <2> QED
    BY <1>6, <2>1, SessionsKept, CallsKept DEF IInv, vars, table, handlers
<1> QED
  BY <1>2, <1>3, <1>4, <1>5, <1>6 DEF Next

\* The inductive invariant holds in every reachable state of the gateway.
THEOREM Inductive == Spec => []IInv
<1> QED
  BY InitIInv, NextKeepsIInv, PTL DEF Spec

\* The state of the gateway is well typed; in particular no step leaves the set of sessions.
THEOREM TypeCorrect == Spec => []TypeOK
<1>1. IInv => TypeOK
  BY DEF IInv
<1> QED
  BY <1>1, Inductive, PTL

\* The entries of _pending are exactly the calls SendAsync is waiting for.
THEOREM PendingExactAlways == Spec => []PendingExact
<1>1. IInv => PendingExact
  BY DEF IInv, CallsInv
<1> QED
  BY <1>1, Inductive, PTL

\* SendAsync only reports an answer of a command the agent has executed.
THEOREM AnsweredExecutedAlways == Spec => []AnsweredExecuted
<1>1. IInv => AnsweredExecuted
  BY DEF IInv, CallsInv
<1> QED
  BY <1>1, Inductive, PTL

\* The session in the table has a handler that takes it out, or whose status update failed.
THEOREM TableOwnedAlways == Spec => []TableOwned
<1>1. IInv => TableOwned
  BY DEF IInv, SessionsInv
<1> QED
  BY <1>1, Inductive, PTL

\* A step does not change the outcome of a call that has ended.
LEMMA OutcomeKept ==
  ASSUME IInv, [Next]_vars, NEW q \in Requests, call[q] \in Ended
  PROVE  call'[q] = call[q]
<1> USE DEF Ended
<1>1. q \notin pending
  BY SMT DEF IInv, CallsInv, PendingExact
<1>2. CASE UNCHANGED call
  BY <1>2
<1>3. ASSUME NEW r \in Requests, Call(r) \/ Caller(r)
      PROVE  call'[q] = call[q]
  BY <1>3, SMT DEF Call, Caller, Sent, SendFails, Timeout, End, IInv, TypeOK
<1>4. ASSUME NEW r \in Requests, NEW s \in Sessions, Answer(r, s)
      PROVE  call'[q] = call[q]
  BY <1>1, <1>4, SMT DEF Answer, End, calls, IInv, TypeOK
<1>5. ASSUME NEW s \in Sessions, Dial(s) \/ Detect(s) \/ Handler(s) \/ ReadEnds(s) \/ ReadBreaks(s)
      PROVE  UNCHANGED call
  BY <1>5, SMT DEF Dial, Detect, ReadEnds, ReadBreaks, Handler, FindPrevious, CloseFrame, PreviousClosed, Register, Online,
     OnlineFails, ReplayDone, ReplayFails, ReadAwaited, CheckCurrent, Remove, Offline, calls
<1>6. ASSUME NEW r \in Requests, NEW s \in Sessions, Execute(r) \/ ReplyLost(r, s)
      PROVE  UNCHANGED call
  BY <1>6 DEF Execute, ReplyLost, calls
<1>7. LinkLost \/ UNCHANGED vars => UNCHANGED call
  BY DEF LinkLost, vars, calls
<1>8. 1 \in Sessions
  BY SessionsAssumption, SMT DEF Sessions
<1> QED
  BY <1>2, <1>3, <1>4, <1>5, <1>6, <1>7, <1>8 DEF Next

\* SendAsync reports one outcome per call: a late answer or timeout does not change it.
THEOREM OneOutcomeAlways == Spec => OneOutcome
<1>1. IInv /\ [Next]_vars => [\A r \in Requests : call[r] \in Ended => call'[r] = call[r]]_vars
  BY OutcomeKept
<1> QED
  BY <1>1, Inductive, PTL DEF Spec, OneOutcome

(***************************************************************************)
(* The gateway implements RemoteCalls.  The step that needs an invariant   *)
(* of its own is the delivery of a command: it must be the first one.      *)
(***************************************************************************)
Unsent == \A r \in Requests : call[r] \in {"idle", "sending"} => r \notin inbox \cup executed

\* Steps of sessions do not touch calls or the agent.
LEMMA SessionStep ==
  ASSUME NEW s \in Sessions, Dial(s) \/ Detect(s) \/ Handler(s) \/ ReadEnds(s) \/ ReadBreaks(s) \/ LinkLost
  PROVE  UNCHANGED <<calls, agent>>
BY SMT DEF Dial, Detect, ReadEnds, ReadBreaks, LinkLost, Handler, FindPrevious, CloseFrame, PreviousClosed, Register, Online,
   OnlineFails, ReplayDone, ReplayFails, ReadAwaited, CheckCurrent, Remove, Offline, calls, agent

\* A step of the gateway is one of a session, of a call, or none.
LEMMA StepCases ==
  ASSUME [Next]_vars
  PROVE  \/ UNCHANGED <<calls, agent>>
         \/ \E r \in Requests : Call(r) \/ Sent(r) \/ SendFails(r) \/ Timeout(r) \/ Execute(r)
         \/ \E r \in Requests, s \in Sessions : Answer(r, s) \/ ReplyLost(r, s)
<1>1. 1 \in Sessions
  BY SessionsAssumption, SMT DEF Sessions
<1>2. CASE UNCHANGED vars
  BY <1>2 DEF vars
<1> QED
  BY <1>1, <1>2, SessionStep DEF Next, Caller

\* A command is not with the agent before it was sent.
LEMMA UnsentKept == IInv /\ Unsent /\ [Next]_vars => Unsent'
<1> SUFFICES ASSUME IInv, Unsent, [Next]_vars, NEW q \in Requests, call'[q] \in {"idle", "sending"}
             PROVE  q \notin inbox' \cup executed'
  BY DEF Unsent
<1>1. CASE UNCHANGED <<calls, agent>>
  BY <1>1 DEF Unsent, calls, agent
<1>2. ASSUME NEW r \in Requests, Call(r) \/ SendFails(r) \/ Timeout(r)
      PROVE  q \notin inbox' \cup executed'
  BY <1>2, SMT DEF Unsent, Call, SendFails, Timeout, End, IInv, TypeOK, agent
<1>3. ASSUME NEW r \in Requests, Sent(r)
      PROVE  q \notin inbox' \cup executed'
  BY <1>3, SMT DEF Unsent, Sent, IInv, TypeOK
<1>4. ASSUME NEW r \in Requests, Execute(r)
      PROVE  q \notin inbox' \cup executed'
  BY <1>4, SMT DEF Unsent, Execute, calls
<1>5. ASSUME NEW r \in Requests, NEW s \in Sessions, Answer(r, s) \/ ReplyLost(r, s)
      PROVE  q \notin inbox' \cup executed'
  BY <1>5, SMT DEF Unsent, Answer, ReplyLost, End, IInv, TypeOK, calls
<1> QED
  BY <1>1, <1>2, <1>3, <1>4, <1>5, StepCases

\* The outcomes after a step that changes the state of one call.
LEMMA OutcomeMoves ==
  ASSUME NEW r \in Requests, NEW c, call \in [Requests -> {"idle", "sending", "waiting"} \cup Ended],
         call' = [call EXCEPT ![r] = c], c \in {"sending", "waiting", "failed", "answered"},
         NEW o, o = IF c \in {"sending", "waiting"} THEN "open" ELSE c
  PROVE  [q \in Requests |-> Outcome(q)]' = [[q \in Requests |-> Outcome(q)] EXCEPT ![r] = o]
<1>1. ASSUME NEW q \in Requests
      PROVE  Outcome(q)' = IF q = r THEN o ELSE Outcome(q)
  BY <1>1, SMT DEF Outcome, Ended
<1>2. [q \in Requests |-> Outcome(q)]' = [q \in Requests |-> IF q = r THEN o ELSE Outcome(q)]
  BY <1>1, Zenon
<1>3. [[q \in Requests |-> Outcome(q)] EXCEPT ![r] = o] = [q \in Requests |-> IF q = r THEN o ELSE Outcome(q)]
  BY Zenon
<1> QED
  BY <1>2, <1>3

\* Every step of the gateway is a step of the contract, or one it does not see.
LEMMA ContractStep == IInv /\ Unsent /\ [Next]_vars => [Contract!Next]_(Contract!vars)
<1> SUFFICES ASSUME IInv, Unsent, [Next]_vars
             PROVE  Contract!Next \/ UNCHANGED Contract!vars
  OBVIOUS
<1>t. call \in [Requests -> {"idle", "sending", "waiting"} \cup Ended]
  BY DEF IInv, TypeOK
<1>1. ASSUME UNCHANGED call
      PROVE  [q \in Requests |-> Outcome(q)]' = [q \in Requests |-> Outcome(q)]
  BY <1>1, Zenon DEF Outcome
<1>2. CASE UNCHANGED <<calls, agent>>
  BY <1>1, <1>2 DEF calls, agent, Contract!vars
<1>3. ASSUME NEW r \in Requests, Call(r)
      PROVE  Contract!Next
  <2>1. UNCHANGED <<inbox, executed>> /\ call[r] = "idle" /\ Outcome(r) = "new"
    BY <1>3, SMT DEF Call, Outcome, agent
  <2>2. call' = [call EXCEPT ![r] = "failed"] \/ call' = [call EXCEPT ![r] = "sending"]
    BY <1>3 DEF Call, End
  <2>3. CASE call' = [call EXCEPT ![r] = "failed"]
    <3>1. [q \in Requests |-> Outcome(q)]' = [[q \in Requests |-> Outcome(q)] EXCEPT ![r] = "failed"]
      BY <1>t, <2>3, OutcomeMoves
    <3> QED
      BY <2>1, <3>1 DEF Contract!Next, Contract!Step, Contract!Refuse
  <2>4. CASE call' = [call EXCEPT ![r] = "sending"]
    <3>1. [q \in Requests |-> Outcome(q)]' = [[q \in Requests |-> Outcome(q)] EXCEPT ![r] = "open"]
      BY <1>t, <2>4, OutcomeMoves
    <3> QED
      BY <2>1, <3>1 DEF Contract!Next, Contract!Step, Contract!Begin
  <2> QED
    BY <2>2, <2>3, <2>4
<1>4. ASSUME NEW r \in Requests, Sent(r)
      PROVE  Contract!Next \/ UNCHANGED Contract!vars
  <2>1. call[r] = "sending" /\ Outcome(r) = "open" /\ UNCHANGED executed
    BY <1>4, SMT DEF Sent, Outcome
  <2>2. [q \in Requests |-> Outcome(q)]' = [[q \in Requests |-> Outcome(q)] EXCEPT ![r] = "open"]
    BY <1>4, <1>t, OutcomeMoves DEF Sent
  <2>3. [q \in Requests |-> Outcome(q)]' = [q \in Requests |-> Outcome(q)]
    <3>1. [[q \in Requests |-> Outcome(q)] EXCEPT ![r] = Outcome(r)] = [q \in Requests |-> Outcome(q)]
      BY SMT
    <3> QED
      BY <2>1, <2>2, <3>1
  <2>4. r \notin inbox \cup executed
    BY <2>1 DEF Unsent
  <2>5. inbox' = inbox \cup {r} \/ inbox' = inbox
    BY <1>4 DEF Sent
  <2> QED
    BY <2>1, <2>3, <2>4, <2>5 DEF Contract!Next, Contract!Step, Contract!Deliver, Contract!vars
<1>5. ASSUME NEW r \in Requests, SendFails(r) \/ Timeout(r)
      PROVE  Contract!Next
  <2>1. UNCHANGED <<inbox, executed>> /\ Outcome(r) = "open"
    BY <1>5, SMT DEF SendFails, Timeout, Outcome, agent
  <2>2. [q \in Requests |-> Outcome(q)]' = [[q \in Requests |-> Outcome(q)] EXCEPT ![r] = "failed"]
    BY <1>5, <1>t, OutcomeMoves DEF SendFails, Timeout, End
  <2> QED
    BY <2>1, <2>2 DEF Contract!Next, Contract!Step, Contract!GiveUp
<1>6. ASSUME NEW r \in Requests, Execute(r)
      PROVE  Contract!Next
  <2>1. [q \in Requests |-> Outcome(q)]' = [q \in Requests |-> Outcome(q)]
    BY <1>1, <1>6 DEF Execute, calls
  <2> QED
    BY <1>6, <2>1 DEF Execute, Contract!Next, Contract!Step, Contract!Perform
<1>7. ASSUME NEW r \in Requests, NEW s \in Sessions, Answer(r, s)
      PROVE  Contract!Next \/ UNCHANGED Contract!vars
  <2>1. UNCHANGED <<inbox, executed>> /\ r \in executed
    BY <1>7 DEF Answer, IInv, CallsInv, RepliesExecuted
  <2>2. CASE r \in pending
    <3>1. Outcome(r) = "open"
      BY <2>2, SMT DEF IInv, CallsInv, PendingExact, Outcome
    <3>2. [q \in Requests |-> Outcome(q)]' = [[q \in Requests |-> Outcome(q)] EXCEPT ![r] = "answered"]
      BY <1>7, <1>t, <2>2, OutcomeMoves DEF Answer, End
    <3> QED
      BY <2>1, <3>1, <3>2 DEF Contract!Next, Contract!Step, Contract!Answer
  <2>3. CASE r \notin pending
    BY <1>1, <1>7, <2>1, <2>3 DEF Answer, calls, Contract!vars
  <2> QED
    BY <2>2, <2>3
<1>8. ASSUME NEW r \in Requests, NEW s \in Sessions, ReplyLost(r, s)
      PROVE  UNCHANGED Contract!vars
  BY <1>1, <1>8 DEF ReplyLost, calls, Contract!vars
<1> QED
  BY <1>2, <1>3, <1>4, <1>5, <1>6, <1>7, <1>8, StepCases

\* The gateway implements the contract its callers rely on, for any number of
\* overlapping sessions and calls.
THEOREM ImplementsAlways == Spec => Implements
<1>1. Init => Unsent /\ Contract!Init
  <2>1. Init => [q \in Requests |-> Outcome(q)] = [q \in Requests |-> "new"]
    BY SMT DEF Init, Outcome
  <2> QED
    BY <2>1 DEF Init, Unsent, Contract!Init
<1>2. Spec => []Unsent
  BY <1>1, UnsentKept, Inductive, PTL DEF Spec
<1> QED
  BY <1>1, <1>2, ContractStep, Inductive, PTL DEF Spec, Implements, Contract!Spec
=============================================================================
