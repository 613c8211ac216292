------------------------------ MODULE Control ------------------------------
(***************************************************************************)
(* A notation for the control flow of the proxy's functions.  A function   *)
(* is a sequence of instructions; an instruction has an operation, what it *)
(* is about, and how far the control moves when the operation succeeds     *)
(* (ok) and when it fails (no), 0 meaning that the function returns an     *)
(* error.  The operators below build sequences the way Go statements nest. *)
(* ProxyFlow gives the operations their meaning.                           *)
(***************************************************************************)
EXTENDS Integers, Sequences

I(op, r, ok, no) == <<[op |-> op, r |-> r, ok |-> ok, no |-> no]>>

(* An operation whose error is returned, one that cannot fail or whose     *)
(* error is ignored, one whose error is handled by h, and one whose        *)
(* success leads to a.                                                     *)
Try(op, r)    == I(op, r, 1, 0)
Do(op, r)     == I(op, r, 1, 1)
Or(op, r, h)  == I(op, r, Len(h) + 1, 1) \o h
Got(op, r, a) == I(op, r, 1, Len(a) + 1) \o a

Return        == I("ret", "", 0, 0)
Fail          == I("fail", "", 0, 0)
Jump(n)       == I("jump", "", n, n)

If(c, a, b)   == I("test", c, 1, Len(a) + 2) \o a \o Jump(Len(b) + 1) \o b
When(c, a)    == I("test", c, 1, Len(a) + 1) \o a
Check(c)      == Try("test", c)
Loop(a)       == a \o Jump(-Len(a))
While(c, a)   == I("test", c, 1, Len(a) + 2) \o a \o Jump(-(Len(a) + 1))

(* What the functions do with connections, files and sessions: open them,  *)
(* close them, close them when the function ends or when it ends with an   *)
(* error (Undo), hand them over to somebody who will close them, start a   *)
(* goroutine which takes over what it is given (Go) or one that the        *)
(* component owns until it is closed (Start).  Leak marks a place where    *)
(* the code gives up its last reference to something it has not closed.    *)
(* The deadline of Timed is cleared when the function ends.                *)
Open(r)       == Try("open", r)
Close(r)      == Do("close", r)
DeferClose(r) == Do("defer", r)
Undo(r)       == Do("undo", r)
Give(r)       == Do("give", r)
Leak(r)       == Do("leak", r)
Go(f)         == Do("go", f)
Start(f)      == Do("open", f)
Deadline(r)   == When("timeout", Do("deadline", r))
NoDeadline(r) == Do("clear", r)
Timed(r)      == When("timeout", Do("deadline", r) \o Do("later", r))

(* Requests of clients: a request is read, its sender authenticated, its   *)
(* rate and its target checked, a connection to the target it names made   *)
(* (Dial), and an answer written.  Pass is a check that has nothing to     *)
(* check.  Unchecked marks a place where the code goes on without a check  *)
(* it makes elsewhere, Silent one where it gives a client no answer.       *)
Rate          == Try("rate", "")
Read          == Try("read", "request")
Auth          == Try("auth", "")
Bypass        == Try("bypass", "")
Dial(r)       == Try("dial", r)
Pass(g)       == Do("pass", g)
Unchecked(g)  == Do("unchecked", g)
Reply         == Do("reply", "")
Silent        == Do("silent", "")
Pipe          == Do("pipe", "")

(* A call, one whose error is ignored, and one whose result is returned;   *)
(* counters and locks.                                                     *)
Call(f)       == Try("call", f)
Invoke(f)     == Do("call", f)
ReturnOf(f)   == Call(f) \o Return
Locked        == Do("lock", "") \o Do("defer", "unlock")
Counted       == When("observed", Do("inc", "") \o Do("defer", "dec"))

(* Parts that many functions share: the load of a certificate, the wait    *)
(* for the first bytes of a client, the transfer of what it sends, the     *)
(* loop that reports statistics and keeps what it could not report for the *)
(* next time, and the two directions of a recorded WebSocket, of which one *)
(* ends first.                                                             *)
Certificate   == When("certificate", Check("load") \o Check("parse"))
Sniffed       == Deadline("conn") \o Do("test", "sniff") \o NoDeadline("conn")
Transfer      ==
    When("sniffing", Sniffed \o When("http", ReturnOf("SniffHTTP"))
                             \o When("tls", ReturnOf("SniffTLS")))
    \o Pipe \o Return
ObserveStats  ==
    When("no observer", Return)
    \o Loop(When("done", Return) \o If("pending", Do("test", "resend"), Do("test", "observe")))
CopyFrames    ==
    Loop(Or("test", "read frame", Return)
         \o When("recorded", Or("test", "payload", Return))
         \o Or("test", "write frame", Return)
         \o When("sampled", Do("test", "record")))

=============================================================================
