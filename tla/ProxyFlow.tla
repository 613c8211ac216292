----------------------------- MODULE ProxyFlow -----------------------------
(***************************************************************************)
(* What the proxy's functions do to connections, on every path.  One       *)
(* entry function (a root) runs, with the functions it calls, from a state *)
(* in which it has been given some resources; every operation that can     *)
(* fail does both.  The functions are those of the Flow modules.           *)
(***************************************************************************)
EXTENDS Control, FiniteSets

CONSTANTS
    Programs,  \* the functions: names to instructions
    Roots      \* entry functions: what they are given, what they hold for their caller
               \* when they succeed (keeps) and when they fail (left), and the checks
               \* their dials need

VARIABLES
    root,      \* the entry function
    stack,     \* calls under way, innermost first: function, place (0: an error is
               \* being returned), what is deferred
    res,       \* resources that are open, and whether a deadline is pending on them
    flags,     \* checks the current request has passed
    dialogue,  \* "none", "asked" (a request was read), "answered", "dropped"
    count,     \* connections counted in the statistics
    locks,     \* locks that are held
    out        \* result of the entry function

vars == <<root, stack, res, flags, dialogue, count, locks, out>>

Frame(f)   == [f |-> f, pc |-> 1, defers |-> <<>>]
Top        == stack[1]
Running    == stack # <<>> /\ Top.pc \in DOMAIN Programs[Top.f]
Instr      == Programs[Top.f][Top.pc]
Names      == {r.name : r \in res}
Opened(r)  == [name |-> r, deadline |-> FALSE]

Init ==
    /\ root \in Roots
    /\ stack = <<Frame(root.f)>>
    /\ res = {Opened(r) : r \in root.given}
    /\ flags = {} /\ dialogue = "none"
    /\ count = 0 /\ locks = 0 /\ out = "running"

(***************************************************************************)
(* Moving on: a distance of 0 is the error return.                         *)
(***************************************************************************)
Move(d)    == stack' = [stack EXCEPT ![1].pc = IF d = 0 THEN 0 ELSE @ + d]
Either(i)  == Move(i.ok) \/ Move(i.no)
Drop(rs)   == {x \in res : x.name \notin rs}
Given(f)   == UNION {r.given : r \in {x \in Roots : x.f = f}}

Test(i) == i.op = "test" /\ Either(i) /\ UNCHANGED <<root, res, flags, dialogue, count, locks, out>>

OpenStep(i) ==
    /\ i.op \in {"open", "dial"}
    /\ \/ Move(i.ok) /\ res' = res \cup {Opened(i.r)}
       \/ Move(i.no) /\ UNCHANGED res
    /\ UNCHANGED <<root, flags, dialogue, count, locks, out>>

\* Closed, from now on somebody else's to close, or lost.
CloseStep(i) ==
    /\ i.op \in {"close", "give", "leak"}
    /\ Move(i.ok) /\ res' = Drop({i.r})
    /\ UNCHANGED <<root, flags, dialogue, count, locks, out>>

\* A goroutine is a root of its own.
GoStep(i) ==
    /\ i.op = "go"
    /\ Move(i.ok) /\ res' = Drop(Given(i.r))
    /\ UNCHANGED <<root, flags, dialogue, count, locks, out>>

DeadlineStep(i) ==
    /\ i.op \in {"deadline", "clear"}
    /\ Move(i.ok)
    /\ res' = {IF x.name = i.r THEN [x EXCEPT !.deadline = i.op = "deadline"] ELSE x : x \in res}
    /\ UNCHANGED <<root, flags, dialogue, count, locks, out>>

\* A new request has to pass the check of its target again.
ReadStep(i) ==
    /\ i.op = "read"
    /\ \/ Move(i.ok) /\ dialogue' = "asked" /\ flags' = flags \ {"bypass"}
       \/ Move(i.no) /\ UNCHANGED <<dialogue, flags>>
    /\ UNCHANGED <<root, res, count, locks, out>>

GuardStep(i) ==
    /\ i.op \in {"auth", "bypass", "rate"}
    /\ \/ Move(i.ok) /\ flags' = flags \cup {i.op}
       \/ Move(i.no) /\ UNCHANGED flags
    /\ UNCHANGED <<root, res, dialogue, count, locks, out>>

PassStep(i) ==
    /\ i.op \in {"pass", "unchecked"}
    /\ Move(i.ok) /\ flags' = flags \cup {i.r}
    /\ UNCHANGED <<root, res, dialogue, count, locks, out>>

\* An answer that cannot be written has a peer that is gone.
ReplyStep(i) ==
    /\ i.op \in {"reply", "silent"}
    /\ Either(i)
    /\ dialogue' = IF i.op = "reply" THEN "answered" ELSE "dropped"
    /\ UNCHANGED <<root, res, flags, count, locks, out>>

PipeStep(i) == i.op = "pipe" /\ Move(i.ok) /\ UNCHANGED <<root, res, flags, dialogue, count, locks, out>>

CountStep(i) ==
    /\ i.op = "inc"
    /\ Move(i.ok) /\ count' = count + 1
    /\ UNCHANGED <<root, res, flags, dialogue, locks, out>>

LockStep(i) ==
    /\ i.op \in {"lock", "unlock"}
    /\ Move(i.ok) /\ locks' = IF i.op = "lock" THEN locks + 1 ELSE locks - 1
    /\ UNCHANGED <<root, res, flags, dialogue, count, out>>

DeferStep(i) ==
    /\ i.op \in {"defer", "undo", "later"}
    /\ stack' = [stack EXCEPT ![1].pc = @ + 1, ![1].defers = Append(@, i)]
    /\ UNCHANGED <<root, res, flags, dialogue, count, locks, out>>

JumpStep(i) == i.op = "jump" /\ Move(i.ok) /\ UNCHANGED <<root, res, flags, dialogue, count, locks, out>>

CallStep(i) ==
    /\ i.op = "call"
    /\ stack' = <<Frame(i.r)>> \o stack
    /\ UNCHANGED <<root, res, flags, dialogue, count, locks, out>>

(***************************************************************************)
(* A function returns: by a statement, at its end, or with the error of an *)
(* operation.  Its deferred closes run and its caller moves on.            *)
(***************************************************************************)
Result ==
    IF Top.pc = 0 \/ (Running /\ Instr.op = "fail") THEN "error" ELSE "ok"

Deferred(op) == {d.r : d \in {x \in {Top.defers[i] : i \in DOMAIN Top.defers} : x.op = op}}
Closing      == Deferred("defer") \cup IF Result = "error" THEN Deferred("undo") ELSE {}

Times(r) == Cardinality({i \in DOMAIN Top.defers : Top.defers[i].r = r})

ReturnStep ==
    /\ stack # <<>>
    /\ Running => Instr.op \in {"ret", "fail"}
    /\ res' = {IF x.name \in Deferred("later") THEN Opened(x.name) ELSE x : x \in Drop(Closing)}
    /\ count' = count - Times("dec")
    /\ locks' = locks - Times("unlock")
    /\ IF Len(stack) = 1
         THEN stack' = <<>> /\ out' = Result
         ELSE LET up == stack[2]
                  at == Programs[up.f][up.pc]
                  d  == IF Result = "ok" THEN at.ok ELSE at.no
              IN  /\ stack' = [Tail(stack) EXCEPT ![1].pc = IF d = 0 THEN 0 ELSE @ + d]
                  /\ UNCHANGED out
    /\ UNCHANGED <<root, flags, dialogue>>

Done == stack = <<>> /\ UNCHANGED vars

Step(i) ==
    \/ Test(i) \/ OpenStep(i) \/ CloseStep(i) \/ GoStep(i) \/ DeadlineStep(i) \/ ReadStep(i)
    \/ GuardStep(i) \/ PassStep(i) \/ ReplyStep(i) \/ PipeStep(i) \/ CountStep(i) \/ LockStep(i)
    \/ DeferStep(i) \/ JumpStep(i) \/ CallStep(i)

Next ==
    \/ Running /\ \E i \in {Instr} : Step(i)
    \/ ReturnStep
    \/ Done

Spec == Init /\ [][Next]_vars

Ended  == stack = <<>>
At(op) == Running /\ Instr.op = op

\* Whatever fails and on whichever path a function returns, it has closed or
\* handed over every connection, file and goroutine it was given or opened, but
\* for what it returns to its caller and what its caller still owns when it
\* fails.  Nothing is lost anywhere but at the places marked Leak.  A goroutine
\* is started with what it will close still open.  Locks and counted connections
\* are given back too.
Released ==
    /\ Ended => Names \subseteq (IF out = "ok" THEN root.keeps ELSE root.left)
    /\ At("go") => Given(Instr.r) \subseteq Names
    /\ Ended => count = 0 /\ locks = 0

\* A connection to a target of the client's choice is opened after the client was
\* authenticated and its rate checked, and after this request's target was looked
\* up in the bypass, also for the later requests over one connection and for the
\* targets that a sniffer finds in what a client sends.  No lookup is left out
\* anywhere but at the places marked Unchecked.
Guarded == At("dial") => root.needs \subseteq flags

\* A request that was read is answered before the function returns, with or
\* without an error, and before the next request is read.  No client is left
\* without an answer anywhere but at the places marked Silent.
Answered == Ended \/ At("read") => dialogue # "asked"

\* No connection is relayed, kept or handed on with the deadline of the handshake.
NoStaleDeadline ==
    At("pipe") \/ At("give") \/ (Ended /\ out = "ok") => \A x \in res : ~x.deadline
=============================================================================
