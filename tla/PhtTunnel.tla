----------------------------- MODULE PhtTunnel -----------------------------
(***************************************************************************)
(* A connection carried by HTTP requests (x/internal/util/pht): what the   *)
(* client writes is pushed, one request for each Write; what the server's  *)
(* application writes is pulled by one long request after the other.  On   *)
(* the server the connection is a pipe without a buffer, found by its      *)
(* token.  Requests and answers may be lost.                               *)
(***************************************************************************)
EXTENDS Integers, Sequences, SequencesExt

CONSTANTS MaxChunks   \* bound on what either side writes

VARIABLES
    closed,    \* the client's connection was closed
    push,      \* the client's Write: "none", "sent" (the request is on its way),
               \* "taken" (the application has the data), "refused"; "failed": it has
               \* returned an error
    pushed,    \* chunks the client began to write, and those Write reported as written
    acked,
    pull,      \* the client's readLoop: "ready", "sent", "serving" (the server's handler
               \* runs), "ended" (the answer is complete), "refused", "broken", "over"
    lines,     \* data of the answer under way that the client has not read
    some,      \* the client has read a line of this answer (~done)
    rxc,       \* chunks the client's application has not read
    token,     \* the server knows the token
    pipe,      \* ends of the pipe that are open: the application's and the HTTP handlers'
    written,   \* chunks the server's application wrote
    upGot,     \* what the server's application read
    downGot    \* what the client's application read

client == <<closed, acked, pushed>>
server == <<token, pipe>>
data   == <<written, upGot, downGot>>
vars   == <<client, push, pull, lines, some, rxc, server, data>>

TypeOK ==
    /\ {closed, some, token} \subseteq BOOLEAN
    /\ pushed \in 0..MaxChunks /\ acked \in 0..MaxChunks /\ written \in 0..MaxChunks
    /\ push \in {"none", "sent", "taken", "refused", "failed"}
    /\ pull \in {"ready", "sent", "serving", "ended", "refused", "broken", "over"}
    /\ pipe \subseteq {"app", "http"}

\* Authorized: the token was stored before the client got it.
Init ==
    /\ closed = FALSE /\ push = "none" /\ pushed = 0 /\ acked = 0
    /\ pull = "ready" /\ lines = <<>> /\ some = FALSE /\ rxc = <<>>
    /\ token = TRUE /\ pipe = {"app", "http"}
    /\ written = 0 /\ upGot = <<>> /\ downGot = <<>>

Write ==
    /\ push = "none" /\ ~closed /\ pushed < MaxChunks
    /\ push' = "sent" /\ pushed' = pushed + 1
    /\ UNCHANGED <<closed, acked, pull, lines, some, rxc, server, data>>

\* The server forgets the token and closes its end.
Drop == token' = FALSE /\ pipe' = pipe \ {"http"}

\* handlePush: the application reads what is written to the pipe, in time or not.
HandlePush ==
    /\ push = "sent"
    /\ \/ /\ token /\ pipe = {"app", "http"}
          /\ upGot' = Append(upGot, pushed)
          /\ push' = "taken"
          /\ UNCHANGED server
       \/ token /\ Drop /\ push' = "refused" /\ UNCHANGED upGot
       \/ ~token /\ push' = "refused" /\ UNCHANGED <<server, upGot>>
    /\ UNCHANGED <<client, pull, lines, some, rxc, written, downGot>>

\* The answer arrives, or does not.  Nothing is pushed again: a client that was refused, or
\* lost the answer, gets an error of Write and the connection stays open.  Its callers, which
\* copy between two connections, write no more after an error; CloseClient follows in time.
PushEnds ==
    /\ push \in {"sent", "taken", "refused"}
    /\ \/ push = "taken" /\ push' = "none" /\ acked' = acked + 1
       \/ push' = "failed" /\ UNCHANGED acked
    /\ UNCHANGED <<closed, pushed, pull, lines, some, rxc, server, data>>

\* The connection is marked as closed before the last, empty push, which therefore
\* fails: the server is not told.
CloseClient ==
    /\ ~closed /\ closed' = TRUE
    /\ UNCHANGED <<acked, pushed, push, pull, lines, some, rxc, server, data>>

\* readLoop: the next pull, unless the connection was closed.
Pull ==
    /\ pull = "ready"
    /\ pull' = IF closed THEN "over" ELSE "sent"
    /\ some' = FALSE
    /\ UNCHANGED <<client, push, lines, rxc, server, data>>

HandlePull ==
    /\ pull = "sent"
    /\ pull' = IF token THEN "serving" ELSE "refused"
    /\ UNCHANGED <<client, push, lines, some, rxc, server, data>>

\* A Write of the server's application ends when handlePull reads it.
PullData ==
    /\ pull = "serving" /\ pipe = {"app", "http"} /\ written < MaxChunks
    /\ written' = written + 1
    /\ lines' = Append(lines, written + 1)
    /\ UNCHANGED <<client, push, pull, some, rxc, server, upGot, downGot>>

\* The end of the answer: a line without data when nothing came in time, nothing at all
\* when the application has closed its end, and the token stays; the handler's own end
\* was closed by a push, and the token goes.
PullEnds ==
    /\ pull = "serving" /\ pull' = "ended"
    /\ \/ pipe = {"app", "http"} /\ lines' = Append(lines, 0) /\ UNCHANGED server
       \/ "app" \notin pipe /\ "http" \in pipe /\ UNCHANGED <<lines, server>>
       \/ "http" \notin pipe /\ Drop /\ UNCHANGED lines
    /\ UNCHANGED <<client, push, some, rxc, data>>

\* A line of the answer becomes data for Read.
Scan ==
    /\ lines # <<>> /\ pull \in {"serving", "ended"}
    /\ lines' = Tail(lines) /\ some' = TRUE
    /\ rxc' = IF Head(lines) = 0 THEN rxc ELSE Append(rxc, Head(lines))
    /\ UNCHANGED <<client, push, pull, server, data>>

\* Mutant: an answer that broke off is pulled again.
PulledAgain ==
    /\ lines = <<>> /\ pull \in {"ended", "refused", "broken"}
    /\ pull' = IF pull = "ended" /\ ~some THEN "over" ELSE "ready"
    /\ UNCHANGED <<client, push, lines, some, rxc, server, data>>

\* The answer is over: an error closes the connection, an empty answer only ends the
\* loop, another one leads to the next pull.
Pulled ==
    /\ lines = <<>> /\ pull \in {"ended", "refused", "broken"}
    /\ IF pull = "ended"
         THEN pull' = (IF some THEN "ready" ELSE "over") /\ UNCHANGED closed
         ELSE pull' = "over" /\ closed' = TRUE
    /\ UNCHANGED <<acked, pushed, push, lines, some, rxc, server, data>>

\* The network drops the request or the rest of the answer.
PullBreaks ==
    /\ pull \in {"sent", "serving", "ended"}
    /\ pull' = "broken" /\ lines' = <<>>
    /\ UNCHANGED <<client, push, some, rxc, server, data>>

Read ==
    /\ rxc # <<>>
    /\ rxc' = Tail(rxc) /\ downGot' = Append(downGot, Head(rxc))
    /\ UNCHANGED <<client, push, pull, lines, some, server, written, upGot>>

\* The server's application closes its end, having read what was written.
CloseServer ==
    /\ "app" \in pipe /\ pipe' = pipe \ {"app"}
    /\ UNCHANGED <<client, push, pull, lines, some, rxc, token, data>>

Next ==
    \/ Write \/ HandlePush \/ PushEnds \/ CloseClient
    \/ Pull \/ HandlePull \/ PullData \/ PullEnds \/ Scan \/ Pulled \/ PullBreaks
    \/ Read \/ CloseServer

Spec == Init /\ [][Next]_vars

Upto(n) == [i \in 1..n |-> i]

\* Both ends read what the other wrote, in order, without gap or repetition, however
\* requests are lost, and Write reports as written only what the server's application
\* has read (conn.go:54, :95, server.go:333, :378).
InOrder ==
    /\ IsPrefix(upGot, Upto(pushed)) /\ IsPrefix(downGot \o rxc, Upto(written))
    /\ acked <= Len(upGot)
=============================================================================
