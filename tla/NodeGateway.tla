---------------------------- MODULE NodeGateway ----------------------------
(***************************************************************************)
(* The panel's WebSocket gateway (dotnet-backend, NodeGateway.cs) for one  *)
(* node: the sessions of its agent, the table entry _nodes[nodeId], the    *)
(* node's status in the database and the calls of SendAsync.               *)
(*                                                                         *)
(* Every connection of the agent is a session, executed by one AcceptAsync *)
(* handler; pc[s] is the await at which the handler of s stands.  The      *)
(* handler and the read loop it starts run concurrently with those of the  *)
(* other sessions.  A lost connection is noticed by the panel only later   *)
(* (Detect), so the agent may already be back with a new session.          *)
(***************************************************************************)
EXTENDS Integers

CONSTANTS
    MaxSessions,    \* bound: connections of the agent in one behaviour
    Requests,       \* calls of SendAsync in one behaviour
    DbFaults        \* can a database statement fail?

ASSUME SessionsAssumption == MaxSessions \in Nat \ {0}
ASSUME FaultsAssumption   == DbFaults \in BOOLEAN

Sessions == 1..MaxSessions

VARIABLES
    nodes,      \* _nodes[nodeId]: a session, or 0
    status,     \* the status column of the node
    pc,         \* where the AcceptAsync handler of each session stands
    previous,   \* the session the handler closes, which it found in the table, or 0
    sock,       \* the panel's end of each session: "none", "open", "closed"
    reading,    \* is the read loop of the session running?
    link,       \* the session the agent is connected through, or 0
    call,       \* state of each SendAsync call
    via,        \* the session a call under way is sent through, or 0
    pending,    \* _pending: calls an answer can still complete
    inbox,      \* commands the agent has received and not executed
    executed,   \* commands the agent has executed
    replies     \* answers on their way: <<request, session>>

table    == <<nodes, status>>
handlers == <<pc, previous, sock, reading>>
calls    == <<call, via, pending>>
agent    == <<inbox, executed, replies>>
vars     == <<table, handlers, link, calls, agent>>

PCs   == {"new", "accepted", "closing", "register", "online", "replay", "read", "check", "remove", "offline", "done", "failed"}
Ended == {"failed", "answered"}

TypeOK ==
    /\ nodes \in Sessions \cup {0}
    /\ status \in {0, 1}
    /\ pc \in [Sessions -> PCs]
    /\ previous \in [Sessions -> Sessions \cup {0}]
    /\ sock \in [Sessions -> {"none", "open", "closed"}]
    /\ reading \in [Sessions -> BOOLEAN]
    /\ link \in Sessions \cup {0}
    /\ call \in [Requests -> {"idle", "sending", "waiting"} \cup Ended]
    /\ via \in [Requests -> Sessions \cup {0}]
    /\ pending \subseteq Requests
    /\ inbox \subseteq Requests
    /\ executed \subseteq Requests
    /\ replies \subseteq Requests \X Sessions

Init ==
    /\ nodes = 0 /\ status = 0
    /\ pc = [s \in Sessions |-> "new"]
    /\ previous = [s \in Sessions |-> 0]
    /\ sock = [s \in Sessions |-> "none"]
    /\ reading = [s \in Sessions |-> FALSE]
    /\ link = 0
    /\ call = [r \in Requests |-> "idle"]
    /\ via = [r \in Requests |-> 0]
    /\ pending = {} /\ inbox = {} /\ executed = {} /\ replies = {}

Goto(s, p)   == pc' = [pc EXCEPT ![s] = p]
ClosedIn(s)  == sock' = [sock EXCEPT ![s] = "closed"]
Current(s)   == nodes = s
\* The socket is closed or disposed on this side, which drops the connection.
Dispose(s)   == ClosedIn(s) /\ link' = IF link = s THEN 0 ELSE link

(***************************************************************************)
(* The agent and the network.                                              *)
(***************************************************************************)

\* The agent dials and authenticates with its secret; sessions are numbered in this order.
Dial(s) ==
    /\ link = 0
    /\ pc[s] = "new" /\ \A t \in 1..(s - 1) : pc[t] # "new"
    /\ link' = s
    /\ sock' = [sock EXCEPT ![s] = "open"]
    /\ Goto(s, "accepted")
    /\ UNCHANGED <<table, previous, reading, calls, agent>>

\* The agent gives its connection up: it crashed, its network failed or its read timed out.
LinkLost ==
    /\ link # 0
    /\ link' = 0
    /\ UNCHANGED <<table, handlers, calls, agent>>

\* The panel's transport notices that the other end is gone.
Detect(s) ==
    /\ sock[s] = "open" /\ link # s
    /\ ClosedIn(s)
    /\ UNCHANGED <<table, pc, previous, reading, link, calls, agent>>

\* The agent executes a command and answers through the connection it has then, if any.
Execute(r) ==
    /\ r \in inbox
    /\ inbox' = inbox \ {r}
    /\ executed' = executed \cup {r}
    /\ replies' = IF link = 0 THEN replies ELSE replies \cup {<<r, link>>}
    /\ UNCHANGED <<table, handlers, link, calls>>

(***************************************************************************)
(* AcceptAsync.                                                            *)
(***************************************************************************)

\* The session in the table is asked to close; CloseAsync waits for the other end.  (A socket
\* that a third session has asked to close already counts as open here and is waited for.)
FindPrevious(s) ==
    /\ pc[s] = "accepted"
    /\ IF nodes # 0 /\ sock[nodes] = "open"
         THEN Goto(s, "closing") /\ previous' = [previous EXCEPT ![s] = nodes]
         ELSE Goto(s, "register") /\ UNCHANGED previous
    /\ UNCHANGED <<table, sock, reading, link, calls, agent>>

\* The agent gets the close frame and drops its connection (an old session may close a newer one).
CloseFrame(s) ==
    /\ pc[s] = "closing" /\ link = previous[s]
    /\ link' = 0
    /\ UNCHANGED <<table, handlers, calls, agent>>

PreviousClosed(s) ==
    /\ pc[s] = "closing" /\ sock[previous[s]] = "closed"
    /\ Goto(s, "register")
    /\ previous' = [previous EXCEPT ![s] = 0]
    /\ UNCHANGED <<table, sock, reading, link, calls, agent>>

Register(s) ==
    /\ pc[s] = "register"
    /\ nodes' = s
    /\ Goto(s, "online")
    /\ UNCHANGED <<status, previous, sock, reading, link, calls, agent>>

\* The status is written, and the read loop started before the replay.
Online(s) ==
    /\ pc[s] = "online"
    /\ status' = 1
    /\ reading' = [reading EXCEPT ![s] = TRUE]
    /\ Goto(s, "replay")
    /\ UNCHANGED <<nodes, previous, sock, link, calls, agent>>

\* The statement fails or is cancelled with the request: the exception leaves
\* AcceptAsync outside its try, the socket is disposed and the table entry stays.
OnlineFails(s) ==
    /\ pc[s] = "online" /\ (DbFaults \/ link # s)
    /\ Dispose(s)
    /\ Goto(s, "failed")
    /\ UNCHANGED <<table, previous, reading, calls, agent>>

\* SyncTunnelsForNodeAsync has replayed the configuration (its calls are calls of SendAsync).
ReplayDone(s) ==
    /\ pc[s] = "replay"
    /\ Goto(s, "read")
    /\ UNCHANGED <<table, previous, sock, reading, link, calls, agent>>

ReplayFails(s) ==
    /\ pc[s] = "replay" /\ (DbFaults \/ link # s)
    /\ Dispose(s)
    /\ Goto(s, "read")
    /\ UNCHANGED <<table, previous, reading, calls, agent>>

\* ReadNodeLoopAsync ends when the socket does.
ReadEnds(s) ==
    /\ reading[s] /\ sock[s] = "closed"
    /\ reading' = [reading EXCEPT ![s] = FALSE]
    /\ UNCHANGED <<table, pc, previous, sock, link, calls, agent>>

\* It also ends at a message it cannot decrypt, or with an exception, while the socket is
\* open: until the handler has ended too, calls are sent to an agent whose answers nobody reads.
ReadBreaks(s) ==
    /\ reading[s] /\ sock[s] = "open"
    /\ reading' = [reading EXCEPT ![s] = FALSE]
    /\ UNCHANGED <<table, pc, previous, sock, link, calls, agent>>

\* Mutant: the handler of a session that was replaced is not ended.
ReadAwaitedCurrent(s) ==
    /\ pc[s] = "read" /\ ~reading[s] /\ Current(s)
    /\ Goto(s, "check")
    /\ UNCHANGED <<table, previous, sock, reading, link, calls, agent>>

ReadAwaited(s) ==
    /\ pc[s] = "read" /\ ~reading[s]
    /\ Goto(s, "check")
    /\ UNCHANGED <<table, previous, sock, reading, link, calls, agent>>

\* Mutant: the entry of the session is left in the table.
CheckNothing(s) ==
    /\ pc[s] = "check"
    /\ Goto(s, "done") /\ Dispose(s)
    /\ UNCHANGED <<table, previous, reading, calls, agent>>

\* The finally block looks the entry up, removes it and writes the status in three steps; the
\* handler that returns disposes its socket.
CheckCurrent(s) ==
    /\ pc[s] = "check"
    /\ IF Current(s) THEN Goto(s, "remove") /\ UNCHANGED <<sock, link>> ELSE Goto(s, "done") /\ Dispose(s)
    /\ UNCHANGED <<table, previous, reading, calls, agent>>

Remove(s) ==
    /\ pc[s] = "remove"
    /\ nodes' = 0
    /\ Goto(s, "offline")
    /\ UNCHANGED <<status, previous, sock, reading, link, calls, agent>>

Offline(s) ==
    /\ pc[s] = "offline"
    /\ \/ status' = 0
       \/ DbFaults /\ status' = status
    /\ Goto(s, "done") /\ Dispose(s)
    /\ UNCHANGED <<nodes, previous, reading, calls, agent>>

(***************************************************************************)
(* SendAsync and the answers.  The outcome of a call is decided by the     *)
(* first TrySetResult or TrySetCanceled of its completion; its entry       *)
(* of _pending, which has a fresh id that only this call and its answer    *)
(* know, is taken out with it.  Between the two nothing can tell: a read   *)
(* loop that has taken the entry too late sets no result.                  *)
(***************************************************************************)
End(r, outcome) ==
    /\ call' = [call EXCEPT ![r] = outcome] /\ pending' = pending \ {r}
    /\ via' = [via EXCEPT ![r] = 0]

Call(r) ==
    /\ call[r] = "idle"
    /\ IF nodes = 0 \/ sock[nodes] # "open"
         THEN End(r, "failed")
         ELSE /\ call' = [call EXCEPT ![r] = "sending"]
              /\ via' = [via EXCEPT ![r] = nodes]
              /\ pending' = pending \cup {r}
    /\ UNCHANGED <<table, handlers, link, agent>>

\* Mutant: a command is written again until it is answered.
SentAgain(r) ==
    /\ call[r] = "sending" /\ sock[via[r]] = "open"
    /\ call' \in {call, [call EXCEPT ![r] = "waiting"]}
    /\ inbox' = IF link = via[r] THEN inbox \cup {r} ELSE inbox
    /\ UNCHANGED <<table, handlers, link, via, pending, executed, replies>>

\* The frame is written; it reaches the agent if the agent still has this connection.
Sent(r) ==
    /\ call[r] = "sending" /\ sock[via[r]] = "open"
    /\ call' = [call EXCEPT ![r] = "waiting"]
    /\ inbox' = IF link = via[r] THEN inbox \cup {r} ELSE inbox
    /\ UNCHANGED <<table, handlers, link, via, pending, executed, replies>>

SendFails(r) ==
    /\ call[r] = "sending" /\ sock[via[r]] = "closed"
    /\ End(r, "failed")
    /\ UNCHANGED <<table, handlers, link, agent>>

\* Mutant: the entry of _pending stays behind.
TimeoutLeaks(r) ==
    /\ call[r] = "waiting"
    /\ call' = [call EXCEPT ![r] = "failed"]
    /\ UNCHANGED <<table, handlers, link, via, pending, agent>>

\* Mutant: a timeout is reported like an answer without a success field.
TimeoutSucceeds(r) ==
    /\ call[r] = "waiting"
    /\ End(r, "answered")
    /\ UNCHANGED <<table, handlers, link, agent>>

\* Mutant: only the loss of the session ends the wait.
TimeoutOnClose(r) ==
    /\ call[r] = "waiting" /\ sock[via[r]] = "closed"
    /\ End(r, "failed")
    /\ UNCHANGED <<table, handlers, link, agent>>

\* The 10 seconds are over.
Timeout(r) ==
    /\ call[r] = "waiting"
    /\ End(r, "failed")
    /\ UNCHANGED <<table, handlers, link, agent>>

\* Mutant: the call is completed even when it has already ended.
AnswerAny(r, s) ==
    /\ <<r, s>> \in replies /\ reading[s] /\ sock[s] = "open"
    /\ replies' = replies \ {<<r, s>>}
    /\ End(r, "answered")
    /\ UNCHANGED <<table, handlers, link, inbox, executed>>

\* The read loop of any session completes the call an answer names, if it is pending.
Answer(r, s) ==
    /\ <<r, s>> \in replies /\ reading[s] /\ sock[s] = "open"
    /\ replies' = replies \ {<<r, s>>}
    /\ IF r \in pending THEN End(r, "answered") ELSE UNCHANGED calls
    /\ UNCHANGED <<table, handlers, link, inbox, executed>>

ReplyLost(r, s) ==
    /\ <<r, s>> \in replies /\ sock[s] = "closed"
    /\ replies' = replies \ {<<r, s>>}
    /\ UNCHANGED <<table, handlers, link, calls, inbox, executed>>

(***************************************************************************)
(* The specification.                                                      *)
(***************************************************************************)
Handler(s) ==
    \/ FindPrevious(s) \/ CloseFrame(s) \/ PreviousClosed(s) \/ Register(s)
    \/ Online(s) \/ OnlineFails(s)
    \/ ReplayDone(s) \/ ReplayFails(s)
    \/ ReadAwaited(s) \/ CheckCurrent(s) \/ Remove(s) \/ Offline(s)

Caller(r) == Sent(r) \/ SendFails(r) \/ Timeout(r)

Next ==
    \/ \E s \in Sessions : Dial(s) \/ Detect(s) \/ Handler(s) \/ ReadEnds(s) \/ ReadBreaks(s)
    \/ LinkLost
    \/ \E r \in Requests : Call(r) \/ Caller(r) \/ Execute(r)
    \/ \E r \in Requests, s \in Sessions : Answer(r, s) \/ ReplyLost(r, s)

\* Handlers and read loops are scheduled, TCP notices a dead peer, timers fire.
Fairness ==
    /\ \A s \in Sessions : WF_vars(Handler(s)) /\ WF_vars(ReadEnds(s)) /\ WF_vars(Detect(s))
    /\ \A r \in Requests : WF_vars(Caller(r))

Spec == Init /\ [][Next]_vars /\ Fairness

(***************************************************************************)
(* Properties.                                                             *)
(***************************************************************************)

\* A call is in _pending exactly while SendAsync waits for it, so nothing is left
\* behind by refused, failed, timed out or answered calls, in whatever order the
\* answer, the timeout and the loss of the session come.
PendingExact == pending = {r \in Requests : call[r] \in {"sending", "waiting"}}

\* An answered command was executed by the agent, also when the answer came back
\* through a later session than the one the command was sent through.
AnsweredExecuted == \A r \in Requests : call[r] = "answered" => r \in executed

\* SendAsync reports one outcome: an answer after the timeout does not change it.
OneOutcome == [][\A r \in Requests : call[r] \in Ended => call'[r] = call[r]]_vars

\* The session in the table has a handler that will take it out again, unless the
\* first status update of that handler failed.
TableOwned ==
    nodes # 0 => pc[nodes] \in {"online", "replay", "read", "check", "remove", "failed"}

\* Every call returns.
CallsEnd == \A r \in Requests : (call[r] # "idle") ~> (call[r] \in Ended)

\* Every handler of a session whose socket is closed ends.
HandlersEnd == \A s \in Sessions : (sock[s] = "closed") ~> (pc[s] \in {"done", "failed"})

\* Once no handler is between two of its steps, a node that is connected and being read
\* is in the table and online in the database: it is offline only briefly.
Settled == \A s \in Sessions : pc[s] \in {"new", "read", "done", "failed"} /\ (sock[s] = "closed" => ~reading[s])
ConnectedIsOnline ==
    Settled /\ link # 0 /\ reading[link] /\ pc[link] = "read" => Current(link) /\ status = 1

\* What the callers of SendAsync see of a call.
Outcome(r) ==
    IF call[r] = "idle" THEN "new"
    ELSE IF call[r] \in {"sending", "waiting"} THEN "open" ELSE call[r]

\* The gateway keeps the contract of RemoteCalls, whatever sessions overlap, are lost
\* or replaced: a command reaches the agent at most once and only while its call is
\* under way, a call ends once, and an answer is the answer of its own command.
Contract   == INSTANCE RemoteCalls WITH outcome <- [r \in Requests |-> Outcome(r)], todo <- inbox, done <- executed
Implements == Contract!Spec
=============================================================================
