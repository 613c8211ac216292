--------------------------- MODULE TrafficReport ---------------------------
(***************************************************************************)
(* The traffic of one service of the agent and what the panel bills for    *)
(* it: connections add bytes to the counter of the service (stats.go), the *)
(* goroutine observeStats (service.go) reports the counter to the panel    *)
(* over HTTP and takes off what was reported.  Both directions are counted *)
(* alike; one is modelled.  A service that replaces this one has counter   *)
(* and goroutine of its own.                                               *)
(***************************************************************************)
EXTENDS Integers

CONSTANTS
    Chunks,         \* numbers of bytes one read or write adds
    MaxConns,       \* bound: connections handled at the same time
    MaxBytes,       \* bound: bytes carried
    MaxReports,     \* bound: reports sent
    Faults,         \* can requests, answers and statements of the panel fail?
    ObserverFaults  \* can the observer of the service fail?

ASSUME BoundsAssumption ==
    /\ Chunks \subseteq Nat \ {0}
    /\ MaxConns \in Nat /\ MaxBytes \in Nat /\ MaxReports \in Nat
ASSUME FaultsAssumption == Faults \in BOOLEAN /\ ObserverFaults \in BOOLEAN

VARIABLES
    state,    \* the service: "open", "closed" (no new connections), "done" (Serve returned)
    conns,    \* handlers of connections
    flags,    \* handlers between adding to the counter and setting `updated`
    counter,  \* bytes in the counter
    updated,  \* is there something to report?
    pc,       \* where observeStats stands
    taken,    \* the counter as read for the report
    rest,     \* the value the counter is set to
    events,   \* are there events the observer has not taken?
    sent,     \* number of reports sent
    applied,  \* has the panel applied the report that is waited for?
    late,     \* reports given up that the panel may still apply
    carried,  \* history: all bytes added
    billed,   \* bytes the panel has added to the usage of the forward
    doubt     \* history: bytes billed for reports whose answer did not arrive

stats == <<counter, updated>>
panel == <<applied, late, billed, doubt>>
vars  == <<state, conns, flags, stats, pc, taken, rest, events, sent, panel, carried>>

TypeOK ==
    /\ state \in {"open", "closed", "done"}
    /\ conns \in 0..MaxConns /\ flags \in 0..conns
    /\ counter \in Nat /\ taken \in Nat /\ rest \in Nat
    /\ carried \in Nat /\ billed \in Nat /\ doubt \in Nat
    /\ updated \in BOOLEAN /\ events \in BOOLEAN /\ applied \in BOOLEAN
    /\ pc \in {"idle", "read", "wait", "got", "store", "observe", "stopped"}
    /\ sent \in 0..MaxReports
    /\ late \in [1..MaxReports -> Nat]

Init ==
    /\ state = "open" /\ conns = 0 /\ flags = 0
    /\ counter = 0 /\ updated = FALSE
    /\ pc = "idle" /\ taken = 0 /\ rest = 0 /\ events = FALSE
    /\ sent = 0 /\ applied = FALSE /\ late = [k \in 1..MaxReports |-> 0]
    /\ carried = 0 /\ billed = 0 /\ doubt = 0

(***************************************************************************)
(* Connections.  Stats.Add adds to the counter and then sets `updated`.    *)
(***************************************************************************)
Accept ==
    /\ state = "open" /\ conns < MaxConns
    /\ conns' = conns + 1
    /\ UNCHANGED <<state, flags, stats, pc, taken, rest, events, sent, panel, carried>>

Finish ==
    /\ flags < conns
    /\ conns' = conns - 1
    /\ UNCHANGED <<state, flags, stats, pc, taken, rest, events, sent, panel, carried>>

Add(n) ==
    /\ flags < conns /\ carried + n <= MaxBytes
    /\ counter' = counter + n
    /\ carried' = carried + n
    /\ flags' = flags + 1
    /\ UNCHANGED <<state, conns, updated, pc, taken, rest, events, sent, panel>>

\* Mutant: adding bytes does not set `updated`.
FlagNothing ==
    /\ flags > 0
    /\ flags' = flags - 1
    /\ UNCHANGED <<state, conns, stats, pc, taken, rest, events, sent, panel, carried>>

Flag ==
    /\ flags > 0
    /\ updated' = TRUE
    /\ flags' = flags - 1
    /\ UNCHANGED <<state, conns, counter, pc, taken, rest, events, sent, panel, carried>>

\* The service is closed; Serve returns, and cancels the reports, after its last connection.
Close ==
    /\ state = "open"
    /\ state' = "closed"
    /\ UNCHANGED <<conns, flags, stats, pc, taken, rest, events, sent, panel, carried>>

ServeReturns ==
    /\ state = "closed" /\ conns = 0
    /\ state' = "done"
    /\ UNCHANGED <<conns, flags, stats, pc, taken, rest, events, sent, panel, carried>>

(***************************************************************************)
(* observeStats: on a tick events left over are delivered first; otherwise *)
(* the counter is reported if `updated` was set.                           *)
(***************************************************************************)
Observed == events' \in IF ObserverFaults THEN BOOLEAN ELSE {FALSE}

Flush ==
    /\ pc = "idle" /\ events
    /\ Observed
    /\ UNCHANGED <<state, conns, flags, stats, pc, taken, rest, sent, panel, carried>>

Tick ==
    /\ pc = "idle" /\ ~events /\ updated
    /\ updated' = FALSE
    /\ pc' = "read"
    /\ UNCHANGED <<state, conns, flags, counter, taken, rest, events, sent, panel, carried>>

\* A report is sent only if there are bytes to report.
Read ==
    /\ pc = "read"
    /\ taken' = counter
    /\ IF counter = 0
         THEN pc' = "observe" /\ UNCHANGED <<sent, applied>>
         ELSE sent < MaxReports /\ pc' = "wait" /\ sent' = sent + 1 /\ applied' = FALSE
    /\ UNCHANGED <<state, conns, flags, stats, rest, events, late, billed, doubt, carried>>

\* The panel adds the report to the usage of the forward.
Apply ==
    /\ pc = "wait" /\ ~applied
    /\ billed' = billed + taken
    /\ applied' = TRUE
    /\ UNCHANGED <<state, conns, flags, stats, pc, taken, rest, events, sent, late, doubt, carried>>

\* The panel answers "ok", also when the statement has failed.
Answer ==
    /\ pc = "wait" /\ (applied \/ Faults)
    /\ pc' = "got"
    /\ UNCHANGED <<state, conns, flags, stats, taken, rest, events, sent, panel, carried>>

\* No answer within 5 seconds, an error, or the service has ended.  The panel may have
\* applied the report, or may still apply it, or never see it.
GiveUp ==
    /\ pc = "wait" /\ (Faults \/ state = "done")
    /\ pc' = "observe"
    /\ doubt' = IF applied THEN doubt + taken ELSE doubt
    /\ late' \in {late} \cup (IF applied THEN {} ELSE {[late EXCEPT ![sent] = taken]})
    /\ UNCHANGED <<state, conns, flags, stats, taken, rest, events, sent, applied, billed, carried>>

LateApply(k) ==
    /\ late[k] > 0
    /\ billed' = billed + late[k]
    /\ doubt' = doubt + late[k]
    /\ late' = [late EXCEPT ![k] = 0]
    /\ UNCHANGED <<state, conns, flags, stats, pc, taken, rest, events, sent, applied, carried>>

\* Mutant: the counter is not read again, it is left as it was before the report.
RestStale ==
    /\ pc = "got"
    /\ rest' = taken
    /\ pc' = "store"
    /\ UNCHANGED <<state, conns, flags, stats, taken, events, sent, panel, carried>>

\* Mutant: the counter is set to zero before the value to keep is stored.
RestZero ==
    /\ pc = "got"
    /\ counter' = 0 /\ rest' = 0
    /\ pc' = "store"
    /\ UNCHANGED <<state, conns, flags, updated, taken, events, sent, panel, carried>>

\* ResetTraffic(Get - reported): the counter is read, and then stored.
Rest ==
    /\ pc = "got"
    /\ rest' = counter - taken
    /\ pc' = "store"
    /\ UNCHANGED <<state, conns, flags, stats, taken, events, sent, panel, carried>>

Store ==
    /\ pc = "store"
    /\ counter' = rest
    /\ pc' = "observe"
    /\ UNCHANGED <<state, conns, flags, updated, taken, rest, events, sent, panel, carried>>

Observe ==
    /\ pc = "observe"
    /\ Observed
    /\ pc' = "idle"
    /\ UNCHANGED <<state, conns, flags, stats, taken, rest, sent, panel, carried>>

Stop ==
    /\ pc = "idle" /\ state = "done"
    /\ pc' = "stopped"
    /\ UNCHANGED <<state, conns, flags, stats, taken, rest, events, sent, panel, carried>>

Reporter == Flush \/ Tick \/ Read \/ Rest \/ Store \/ Observe

Next ==
    \/ Accept \/ Finish \/ Flag \/ Close \/ ServeReturns
    \/ \E n \in Chunks : Add(n)
    \/ Reporter \/ Apply \/ Answer \/ GiveUp \/ Stop
    \/ \E k \in 1..MaxReports : LateApply(k)

Spec == Init /\ [][Next]_vars

\* The handlers and observeStats are goroutines that the Go scheduler runs; a request ends
\* with its answer or after 5 seconds; events the observer refuses are offered to it again
\* on every tick until it takes them.
LiveSpec == Spec /\ WF_vars(Reporter) /\ WF_vars(Flag) /\ WF_vars(Apply) /\ WF_vars(Answer \/ GiveUp)

(***************************************************************************)
(* Properties.                                                             *)
(***************************************************************************)

\* The value stored by ResetTraffic is the difference of two unsigned numbers of 64 bits:
\* the counter never falls below what was reported, so that it cannot wrap around.
NoUnderflow ==
    /\ pc \in {"wait", "got", "store"} => taken <= counter
    /\ pc = "store" => rest <= counter - taken

\* The panel never bills more than was carried, but for reports whose answer got lost: their
\* bytes stay in the counter and are reported again.
NeverOverbilled == billed <= carried + doubt

\* What has been applied and is being waited for is still in the counter.
Balance ==
    billed + counter <= carried + doubt + (IF pc \in {"wait", "got", "store"} /\ applied THEN taken ELSE 0)

IInv == TypeOK /\ NoUnderflow /\ Balance /\ (pc = "wait" => sent \in 1..MaxReports)

\* Bytes are not forgotten between adding them and setting `updated`: after they are in the
\* counter it is read for a report, unless the service ends, whatever happens to the report
\* being waited for meanwhile.
Reported == flags > 0 ~> pc = "read" \/ state = "done"
=============================================================================
