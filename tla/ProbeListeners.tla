--------------------------- MODULE ProbeListeners ---------------------------
(***************************************************************************)
(* Diagnosis of a tunnel that has no port yet: the panel asks the exit     *)
(* node to listen on a free port, lets the entry node ping it and asks the *)
(* exit node to stop (RelayForgeApi.cs).  The agent counts the diagnoses   *)
(* that use a port and closes a listener with its last reference or 30     *)
(* seconds after its start (websocket_reporter.go).  All diagnoses of a    *)
(* node choose the same port, its first free one, so one port is modelled. *)
(* A call the panel gave up on is still executed by the agent.             *)
(***************************************************************************)
EXTENDS Integers, FiniteSets

CONSTANTS
    Diagnoses,
    Listeners,  \* listener objects, reused after they are closed and their timer has fired
    MaxReferences,  \* bound on the references of a listener
    None

VARIABLES
    current,    \* probeListeners[port].listener, None without an entry
    references, \* probeListeners[port].references
    open,       \* the listener or the service ("service") that holds the port, or None
    timers,     \* listeners with a goroutine expireTcpProbeListener
    diag,       \* diagnoses: where the panel stands
    inbox,      \* commands on their way to the exit node
    expired     \* (history) a listener was closed by its timer

vars == <<current, references, open, timers, diag, inbox, expired>>

Commands == [cmd : {"start", "stop"}, d : Diagnoses]

TypeOK ==
    /\ current \in Listeners \cup {None}
    /\ references \in 0..MaxReferences
    /\ open \in Listeners \cup {None, "service"}
    /\ timers \subseteq Listeners
    /\ diag \in [Diagnoses -> {"idle", "starting", "pinging", "stopping"}]
    /\ inbox \subseteq Commands
    /\ expired \in BOOLEAN

Init ==
    /\ current = None /\ references = 0 /\ open = None
    /\ timers = {} /\ inbox = {}
    /\ diag = [d \in Diagnoses |-> "idle"]
    /\ expired = FALSE

(***************************************************************************)
(* The panel.                                                              *)
(***************************************************************************)
Diagnose(d) ==
    /\ diag[d] = "idle" /\ \A c \in inbox : c.d # d
    /\ references + Cardinality({c \in inbox : c.cmd = "start"}) < MaxReferences
    /\ diag' = [diag EXCEPT ![d] = "starting"]
    /\ inbox' = inbox \cup {[cmd |-> "start", d |-> d]}
    /\ UNCHANGED <<current, references, open, timers, expired>>

\* SendAsync gives up, or the request is cancelled: no listener was started as
\* far as the panel knows, and nobody will stop it.  A stop is not repeated.
GivesUp(d) ==
    /\ diag[d] \in {"starting", "stopping"}
    /\ diag' = [diag EXCEPT ![d] = "idle"]
    /\ UNCHANGED <<current, references, open, timers, inbox, expired>>

\* The ping is answered, fails or times out; the stop is sent in any case.
Pinged(d) ==
    /\ diag[d] = "pinging"
    /\ diag' = [diag EXCEPT ![d] = "stopping"]
    /\ inbox' = inbox \cup {[cmd |-> "stop", d |-> d]}
    /\ UNCHANGED <<current, references, open, timers, expired>>

(***************************************************************************)
(* The agent.                                                              *)
(***************************************************************************)
Answered(d, place) == diag' = IF diag[d] \in {"starting", "stopping"} THEN [diag EXCEPT ![d] = place] ELSE diag

StartTcpProbeListener(d) ==
    /\ [cmd |-> "start", d |-> d] \in inbox
    /\ inbox' = inbox \ {[cmd |-> "start", d |-> d]}
    /\ IF current # None
         THEN references' = references + 1 /\ Answered(d, "pinging") /\ UNCHANGED <<current, open, timers>>
         ELSE IF open # None
           THEN Answered(d, "idle") /\ UNCHANGED <<current, references, open, timers>>
           ELSE \E l \in Listeners \ timers :
                  /\ current' = l /\ open' = l /\ references' = 1
                  /\ timers' = timers \cup {l}
                  /\ Answered(d, "pinging")
    /\ UNCHANGED expired

\* Mutant: the first diagnosis that ends closes the listener.
ReleaseAtOnce == current' = None /\ open' = None /\ references' = 0

Release ==
    IF references > 1
      THEN references' = references - 1 /\ UNCHANGED <<current, open>>
      ELSE current' = None /\ open' = None /\ references' = 0

StopTcpProbeListener(d) ==
    /\ [cmd |-> "stop", d |-> d] \in inbox
    /\ inbox' = inbox \ {[cmd |-> "stop", d |-> d]}
    /\ IF current = None THEN UNCHANGED <<current, references, open>> ELSE Release
    /\ Answered(d, "idle")
    /\ UNCHANGED <<timers, expired>>

\* Mutant: the timer ends without a look at the table.
ExpireNever(l) ==
    /\ l \in timers
    /\ timers' = timers \ {l}
    /\ UNCHANGED <<current, references, open, diag, inbox, expired>>

\* 30 seconds after the start; nothing is done for a listener that is gone.
ExpireTcpProbeListener(l) ==
    /\ l \in timers
    /\ timers' = timers \ {l}
    /\ IF current = l THEN current' = None /\ open' = None /\ references' = 0 /\ expired' = TRUE
                      ELSE UNCHANGED <<current, references, open, expired>>
    /\ UNCHANGED <<diag, inbox>>

\* Stop of the reporter, when the agent shuts down.
CloseTcpProbeListeners ==
    /\ current # None
    /\ current' = None /\ open' = None /\ references' = 0
    /\ expired' = TRUE
    /\ UNCHANGED <<timers, diag, inbox>>

\* A forward is created or removed on the port: AddService binds it if it is free.
ServiceBinds == open = None /\ open' = "service" /\ UNCHANGED <<current, references, timers, diag, inbox, expired>>
ServiceEnds  == open = "service" /\ open' = None /\ UNCHANGED <<current, references, timers, diag, inbox, expired>>

Next ==
    \/ \E d \in Diagnoses :
         Diagnose(d) \/ GivesUp(d) \/ Pinged(d) \/ StartTcpProbeListener(d) \/ StopTcpProbeListener(d)
    \/ \E l \in Listeners : ExpireTcpProbeListener(l)
    \/ CloseTcpProbeListeners \/ ServiceBinds \/ ServiceEnds

\* The goroutine of a listener ends its sleep.
Fairness == \A l \in Listeners : WF_vars(ExpireTcpProbeListener(l))

Spec == Init /\ [][Next]_vars /\ Fairness

\* No socket outlives its entry and no entry its socket: whatever stops, expiries
\* and lost calls there were, the port is held by the listener in the table or by
\* none of the probes (websocket_reporter.go:1280, :1311).
NoStraySocket == open = current \/ (current = None /\ open = "service")

\* Until a listener has expired, a diagnosis that was told its listener is up
\* finds it up when it pings, whatever other diagnoses of the port stopped, and
\* the references the panel gave up on only keep it open longer
\* (websocket_reporter.go:1246, :1276-1279).
HeldWhilePinging ==
    ~expired => LET users == {d \in Diagnoses : diag[d] = "pinging"}
                IN  users # {} => current # None /\ references >= Cardinality(users)

\* The port is given back: a listener whose stop was lost or never sent does not
\* keep a forward off its port for ever (websocket_reporter.go:1303).
PortGivenBack == \A l \in Listeners : open = l ~> open # l
=============================================================================
