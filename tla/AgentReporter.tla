--------------------------- MODULE AgentReporter ---------------------------
(***************************************************************************)
(* The agent's side of its WebSocket (websocket_reporter.go): the loop run *)
(* that connects and sends heartbeats, and the goroutines receiveMessages, *)
(* one started for every connection, that read and execute commands.  They *)
(* share the fields conn and connected, under connMutex but for one read   *)
(* of run.  A goroutine does not keep the connection it was started for:   *)
(* after every command it takes the current one.  The loop holds the mutex *)
(* while it dials, so that Dial is one step.                               *)
(***************************************************************************)
EXTENDS FiniteSets

CONSTANT Conns  \* connections, and the goroutines started for them; reused when both are gone

VARIABLES
    conn,       \* field conn
    connected,  \* field connected
    pc,         \* where run stands
    sock,       \* sockets: "closed", "open", or "broken" (the peer is gone)
    reader      \* goroutines: where they stand and the connection they read from

vars == <<conn, connected, pc, sock, reader>>

CONSTANT None
ASSUME NoneAssumption == None \notin Conns

Ended     == [at |-> "ended", on |-> None]
Alive(r)  == reader[r].at # "ended"
Free(c)   == sock[c] = "closed" /\ ~Alive(c) /\ \A r \in Conns : reader[r].on # c
Readers   == [at : {"ended", "loop", "read", "fail", "busy", "reply"}, on : Conns \cup {None}]

TypeOK ==
    /\ conn \in Conns \cup {None}
    /\ connected \in BOOLEAN
    /\ pc \in {"check", "dial", "test", "handling", "leave"}
    /\ sock \in [Conns -> {"closed", "open", "broken"}]
    /\ reader \in [Conns -> Readers]

Init ==
    /\ conn = None /\ connected = FALSE
    /\ pc = "check"
    /\ sock = [c \in Conns |-> "closed"]
    /\ reader = [c \in Conns |-> Ended]

(***************************************************************************)
(* The loop run.                                                           *)
(***************************************************************************)
Check ==
    /\ pc = "check"
    /\ pc' = IF connected THEN "test" ELSE "dial"
    /\ UNCHANGED <<conn, connected, sock, reader>>

Dial(c) ==
    /\ pc = "dial" /\ Free(c)
    /\ sock' = [sock EXCEPT ![c] = "open"]
    /\ conn' = c /\ connected' = TRUE
    /\ pc' = "test"
    /\ UNCHANGED reader

DialFails ==
    /\ pc = "dial"
    /\ pc' = "check"
    /\ UNCHANGED <<conn, connected, sock, reader>>

\* The field is read without the mutex; handleConnection starts a goroutine.
Test ==
    /\ pc = "test"
    /\ IF connected
         THEN pc' = "handling" /\ reader' = [reader EXCEPT ![conn] = [at |-> "loop", on |-> None]]
         ELSE pc' = "check" /\ UNCHANGED reader
    /\ UNCHANGED <<conn, connected, sock>>

\* Mutant: the heartbeat does not look at the field.
HeartbeatWrites ==
    /\ pc = "handling"
    /\ sock[conn] = "broken"
    /\ pc' = "leave"
    /\ connected' = FALSE
    /\ UNCHANGED <<conn, sock, reader>>

\* A heartbeat: the connection is found lost, or the write fails.
Heartbeat ==
    /\ pc = "handling"
    /\ ~connected \/ sock[conn] = "broken"
    /\ pc' = "leave"
    /\ connected' = FALSE
    /\ UNCHANGED <<conn, sock, reader>>

\* The deferred function of handleConnection.
Leave ==
    /\ pc = "leave"
    /\ sock' = [sock EXCEPT ![conn] = "closed"]
    /\ conn' = None /\ connected' = FALSE
    /\ pc' = "check"
    /\ UNCHANGED reader

(***************************************************************************)
(* The goroutines receiveMessages.                                         *)
(***************************************************************************)
Goto(r, place) == reader' = [reader EXCEPT ![r].at = place]

Loop(r) ==
    /\ reader[r].at = "loop"
    /\ reader' = [reader EXCEPT ![r] = IF conn = None \/ ~connected THEN Ended ELSE [at |-> "read", on |-> conn]]
    /\ UNCHANGED <<conn, connected, pc, sock>>

Command(r) ==
    /\ reader[r].at = "read" /\ sock[reader[r].on] = "open"
    /\ Goto(r, "busy")
    /\ UNCHANGED <<conn, connected, pc, sock>>

\* The socket is closed or lost, the peer closes it, or nothing came for 30 seconds.
ReadFails(r) ==
    /\ reader[r].at = "read"
    /\ Goto(r, "fail")
    /\ UNCHANGED <<conn, connected, pc, sock>>

\* Mutant: the goroutine ends and does not tell the loop.
FailSilent(r) ==
    /\ reader[r].at = "fail"
    /\ reader' = [reader EXCEPT ![r] = Ended]
    /\ UNCHANGED <<conn, connected, pc, sock>>

\* The error is noted in the field, whichever connection the field is about by now.
Fail(r) ==
    /\ reader[r].at = "fail"
    /\ connected' = FALSE
    /\ reader' = [reader EXCEPT ![r] = Ended]
    /\ UNCHANGED <<conn, pc, sock>>

Executed(r) ==
    /\ reader[r].at = "busy"
    /\ reader' = [reader EXCEPT ![r] = [at |-> "reply", on |-> None]]
    /\ UNCHANGED <<conn, connected, pc, sock>>

\* sendResponse uses the current connection; without one the response is dropped.
Reply(r) ==
    /\ reader[r].at = "reply"
    /\ IF connected /\ sock[conn] = "broken" THEN connected' \in BOOLEAN ELSE UNCHANGED connected
    /\ Goto(r, "loop")
    /\ UNCHANGED <<conn, pc, sock>>

(***************************************************************************)
(* The environment: links break; the Go runtime closes sockets that have   *)
(* become unreachable.                                                     *)
(***************************************************************************)
Break(c) ==
    /\ sock[c] = "open"
    /\ sock' = [sock EXCEPT ![c] = "broken"]
    /\ UNCHANGED <<conn, connected, pc, reader>>

Collect(c) ==
    /\ sock[c] # "closed" /\ c # conn /\ \A r \in Conns : reader[r].on # c
    /\ sock' = [sock EXCEPT ![c] = "closed"]
    /\ UNCHANGED <<conn, connected, pc, reader>>

Run    == Check \/ (\E c \in Conns : Dial(c)) \/ DialFails \/ Test \/ Heartbeat \/ Leave
Receive(r) == Loop(r) \/ Command(r) \/ ReadFails(r) \/ Fail(r) \/ Executed(r) \/ Reply(r)
Next   == Run \/ (\E r \in Conns : Receive(r)) \/ (\E c \in Conns : Break(c) \/ Collect(c))

Spec == Init /\ [][Next]_vars

\* Goroutines are scheduled, commands end, reads have a deadline, unreachable sockets are
\* closed, and a panel that is dialled again and again answers once.
LiveSpec ==
    /\ Spec
    /\ WF_vars(Run) /\ SF_vars(\E c \in Conns : Dial(c))
    /\ \A r \in Conns : WF_vars(Receive(r)) /\ WF_vars(Collect(r))

(***************************************************************************)
(* Properties.                                                             *)
(***************************************************************************)

\* The field connected is only set while conn is a connection the agent has not closed.
ConnectedHasConn == connected => conn # None /\ sock[conn] # "closed"

\* While the loop serves a connection there is a goroutine that reads it, or will after its
\* command, or is about to note its end: a connection nobody reads would go unnoticed.
NotDeaf ==
    pc = "handling" /\ connected =>
        \E r \in Conns : reader[r].at \in {"loop", "busy", "reply", "fail"} \/ (reader[r].at = "read" /\ reader[r].on = conn)

\* The strengthening that makes NotDeaf inductive: the loop owns conn, and while it serves a
\* connection the goroutine started for it is alive as long as the connection is not given up.
Serving ==
    /\ conn = None => ~connected
    /\ pc \in {"handling", "leave"} => conn # None
    /\ pc = "dial" => ~connected
    /\ pc = "check" => ~connected
    /\ conn # None => sock[conn] # "closed"
    /\ \A r \in Conns : reader[r].at = "read" => reader[r].on # None

IInv == TypeOK /\ Serving /\ NotDeaf

\* The agent gets connected again and again, whatever breaks.
Reconnects == []<>connected
=============================================================================
