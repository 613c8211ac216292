--------------------------- MODULE ForwardControl ---------------------------
(***************************************************************************)
(* The life of forwards in the panel (ForwardOperations.cs, FlowOperations *)
(* .cs): the rows of table `forward` of one tunnel, the services that the  *)
(* node carrying the traffic runs for them, and the API calls and reports  *)
(* that change both.  Every request is a process that stands at one of its *)
(* awaits; requests run concurrently and nothing locks rows across awaits. *)
(*                                                                         *)
(* The services of one forward on the node are taken as a unit, as its     *)
(* commands name them: svc[f] says whether they run.  What a command does  *)
(* there is modelled in detail by AgentServices.  Whether a command names  *)
(* exactly the services the node has depends on the kind of tunnel.        *)
(***************************************************************************)
EXTENDS Integers, FiniteSets

CONSTANTS
    Forwards,   \* ids of forwards, each given to one row at most
    Ports,      \* ports of the node
    Requests,   \* bound: requests that run at the same time
    Kind,       \* kind of the tunnel
    NetFaults,  \* can a command or its answer be lost, or a client give its request up?
    Replays,    \* is the configuration pushed again (tunnel edited, node reconnected)?
    Restarts    \* does the agent restart?

\* "direct": type 1, or the entry node of a relay (type 2) to another node; "relayAnytls": the
\* same with protocol anytls; "reverse...": the inner node of a reverse tunnel (type 3), by
\* protocol.  The two nodes of a tunnel are different: the panel refuses a relay within one.
\* The kind is fixed in a behaviour, although an edit of the tunnel can change its protocol
\* and so the names that the commands carry: services of the old kind are out of scope.
Kinds == {"direct", "relayAnytls", "reverse", "reverseQuic", "reverseAnytls"}

ASSUME KindAssumption == Kind \in Kinds
ASSUME FlagAssumption == NetFaults \in BOOLEAN /\ Replays \in BOOLEAN /\ Restarts \in BOOLEAN

VARIABLES
    status,     \* status column of each forward: 1 on, 0 paused, 2 over quota; -1 no row
    port,       \* in_port column
    over,       \* is the usage of the forward at or above its limit?
    tunnelOver, \* is the usage of the tunnel, of all its rows, at or above its limit?
    given,      \* ids given by AUTO_INCREMENT so far
    acked,      \* history: forwards whose creation was answered with success
    svc,        \* services of the forward on the node: "absent", "running", "paused", or
                \* "failed": listed in gost.json and not registered
    bound,      \* the port they were last configured with
    req         \* requests: what is executed, for which forward, where it stands

db   == <<status, port, over, tunnelOver, given, acked>>
node == <<svc, bound>>
vars == <<db, node, req>>

None      == "none"
ASSUME NoneAssumption == None \notin Forwards /\ None \notin Ports

Ops       == {"create", "delete", "forceDelete", "pause", "resume", "report", "update", "tunnel", "replay"}
Places    == {"check", "insert", "add", "undo", "unrow", "send", "write", "decide", "list", "stop", "mark",
              "ucheck", "uwrite", "sync", "push", "read", "usage", "reconcile", "setOver", "setOn"}
Idle      == [op |-> None, f |-> None, at |-> None, p |-> None, rows |-> {}]
Exists(f) == status[f] # -1
Row       == [f : Forwards, status : {0, 1, 2}, port : Ports, over : BOOLEAN]
RowsWith(S) == {[f |-> f, status |-> status[f], port |-> port[f], over |-> over[f]] :
                    f \in {g \in Forwards : status[g] \in S}}

TypeOK ==
    /\ status \in [Forwards -> {-1, 0, 1, 2}]
    /\ port \in [Forwards -> Ports \cup {None}]
    /\ over \in [Forwards -> BOOLEAN] /\ tunnelOver \in BOOLEAN
    /\ given \subseteq Forwards /\ acked \subseteq given
    /\ \A f \in Forwards : IF Exists(f) THEN f \in given /\ port[f] \in Ports ELSE port[f] = None /\ ~over[f]
    /\ svc \in [Forwards -> {"absent", "running", "paused", "failed"}]
    /\ bound \in [Forwards -> Ports \cup {None}]
    /\ \A f \in Forwards : svc[f] # "absent" => f \in given /\ bound[f] \in Ports
    /\ req \in [Requests -> [op : Ops \cup {None}, f : Forwards \cup {None}, at : Places \cup {None},
                            p : Ports \cup {None}, rows : SUBSET Row]]

Init ==
    /\ status = [f \in Forwards |-> -1]
    /\ port = [f \in Forwards |-> None]
    /\ over = [f \in Forwards |-> FALSE] /\ tunnelOver = FALSE
    /\ given = {} /\ acked = {}
    /\ svc = [f \in Forwards |-> "absent"]
    /\ bound = [f \in Forwards |-> None]
    /\ req = [i \in Requests |-> Idle]

(***************************************************************************)
(* Which services of a forward the node has, and which ones the commands   *)
(* name: the exit service, "tls", runs on the other node of the tunnel.    *)
(***************************************************************************)
Runs == CASE Kind = "direct"                           -> {"tcp", "udp"}
          [] Kind = "reverseQuic"                      -> {"tcp", "udp"}
          [] Kind \in {"relayAnytls", "reverse", "reverseAnytls"} -> {"tcp"}

StatusNames == CASE Kind = "reverseAnytls"             -> {"tcp"}
                 [] Kind \in {"reverse", "reverseQuic"} -> {"tcp", "udp"}
                 [] OTHER                              -> {"tcp", "udp", "tls"}

ReportNames == {"tcp", "udp", "tls"}

DeleteNames == CASE Kind \in {"relayAnytls", "reverseAnytls"} -> {"tcp"}
                 [] OTHER                              -> {"tcp", "udp"}

(***************************************************************************)
(* What the agent does with a command: the services after it and whether   *)
(* it succeeds.  A command on a name it does not have is refused as a      *)
(* whole.                                                                  *)
(***************************************************************************)
Reverse(k)  == k \in {"reverse", "reverseQuic", "reverseAnytls"}
\* A reverse service binds its port on the other node, after the command has succeeded.
Held(f, p)  == ~Reverse(Kind) /\ \E g \in Forwards \ {f} : svc[g] = "running" /\ bound[g] = p
Result(f, s, p, ok) == [svc |-> [svc EXCEPT ![f] = s], bound |-> [bound EXCEPT ![f] = p], ok |-> ok]
Refused     == [svc |-> svc, bound |-> bound, ok |-> FALSE]
Known(f, names) == svc[f] \in {"running", "paused"} /\ names = Runs
Listen(f, p)    == IF Held(f, p) THEN Result(f, "failed", p, FALSE) ELSE Result(f, "running", p, TRUE)

AddService(f, p) ==
    IF svc[f] \in {"running", "paused"} \/ Held(f, p) THEN Refused ELSE Result(f, "running", p, TRUE)
SyncService(f, p) ==
    IF svc[f] = "absent" THEN AddService(f, p) ELSE Listen(f, p)
DeleteService(f) ==
    IF Known(f, DeleteNames) THEN Result(f, "absent", None, TRUE) ELSE Refused
PauseService(f, names) ==
    IF Known(f, names) THEN Result(f, "paused", bound[f], TRUE) ELSE Refused
ResumeService(f, names) ==
    IF ~Known(f, names) THEN Refused
    ELSE IF svc[f] = "running" THEN Result(f, "running", bound[f], TRUE)
    ELSE Listen(f, bound[f])

(***************************************************************************)
(* Steps of requests.                                                      *)
(***************************************************************************)
Begin(i, o, f, place, p) ==
    /\ req[i] = Idle
    /\ req' = [req EXCEPT ![i] = [op |-> o, f |-> f, at |-> place, p |-> p, rows |-> {}]]
Goto(i, place)  == req' = [req EXCEPT ![i].at = place]
Done(i)         == req' = [req EXCEPT ![i] = Idle]
\* It goes on with a forward and a list of rows.
GotoRows(i, place, f, rows) ==
    req' = [req EXCEPT ![i] = [op |-> @.op, f |-> f, at |-> place, p |-> @.p, rows |-> rows]]
At(i, o, place) == req[i].op = o /\ req[i].at = place

\* SendAsync: the command is executed and answered; or it, or only its answer, is lost.
Send(result, Ok, Failed) ==
    \/ /\ svc' = result.svc /\ bound' = result.bound
       /\ IF result.ok THEN Ok ELSE Failed
    \/ /\ NetFaults
       /\ \/ UNCHANGED node
          \/ svc' = result.svc /\ bound' = result.bound
       /\ Failed

SetStatus(f, from, to) ==
    status' = IF status[f] \in from THEN [status EXCEPT ![f] = to] ELSE status

UsedPorts(excluded) == {port[f] : f \in {g \in Forwards : Exists(g)} \ excluded}

\* Mutant: the rollback of a creation is executed with the request's token too.
AbortRollback(i) ==
    /\ NetFaults
    /\ req[i].at \in {"check", "write", "decide", "list", "mark", "ucheck", "uwrite", "sync", "read", "usage", "setOver", "setOn", "unrow"}
    /\ Done(i)
    /\ UNCHANGED <<db, node>>

\* The client of a request gives up (an agent does after 5 seconds): the next statement
\* throws, unless the rollback of a creation executes it without the request's token.
Abort(i) ==
    /\ NetFaults
    /\ req[i].at \in {"check", "write", "decide", "list", "mark", "ucheck", "uwrite", "sync", "read", "usage", "setOver", "setOn"}
          \/ (req[i].at = "unrow" /\ req[i].op # "create")
    /\ Done(i)
    /\ UNCHANGED <<db, node>>

(***************************************************************************)
(* CreateAsync: the port check, the INSERT and the command are separate    *)
(* statements; a refused command is undone on the node and in the table.   *)
(***************************************************************************)
\* Bound: an id of Forwards is left for every creation that has not inserted its row.
SpareId == Cardinality(given) + Cardinality({j \in Requests : req[j].op = "create" /\ req[j].f = None}) < Cardinality(Forwards)

CreateBegin(i, p) ==
    /\ SpareId
    /\ ~tunnelOver
    /\ Begin(i, "create", None, "check", p)
    /\ UNCHANGED <<db, node>>

CreateCheck(i) ==
    /\ At(i, "create", "check")
    /\ IF req[i].p \in UsedPorts({}) THEN Done(i) ELSE Goto(i, "insert")
    /\ UNCHANGED <<db, node>>

CreateInsert(i, f) ==
    /\ At(i, "create", "insert") /\ f \notin given
    /\ given' = given \cup {f}
    /\ status' = [status EXCEPT ![f] = 1]
    /\ port' = [port EXCEPT ![f] = req[i].p]
    /\ GotoRows(i, "add", f, {})
    /\ UNCHANGED <<over, tunnelOver, acked, node>>

\* Mutant: a refused AddService is answered with an error and not undone.
CreateAddNoUndo(i) ==
    /\ At(i, "create", "add")
    /\ LET f == req[i].f
       IN  Send(AddService(f, req[i].p), Done(i) /\ acked' = acked \cup {f}, Done(i) /\ UNCHANGED acked)
    /\ UNCHANGED <<status, port, over, tunnelOver, given>>

CreateAdd(i) ==
    /\ At(i, "create", "add")
    /\ LET f == req[i].f
       IN  Send(AddService(f, req[i].p), Done(i) /\ acked' = acked \cup {f}, Goto(i, "undo") /\ UNCHANGED acked)
    /\ UNCHANGED <<status, port, over, tunnelOver, given>>

\* RollbackNodeConfigAsync, also used by DeleteAsync: its answers are ignored.
Undo(i) ==
    /\ req[i].at = "undo"
    /\ Send(DeleteService(req[i].f), Goto(i, "unrow"), Goto(i, "unrow"))
    /\ UNCHANGED db

DeleteRow(i) ==
    /\ req[i].at = "unrow"
    /\ status' = [status EXCEPT ![req[i].f] = -1]
    /\ port' = [port EXCEPT ![req[i].f] = None]
    /\ over' = [over EXCEPT ![req[i].f] = FALSE]
    /\ tunnelOver' \in {tunnelOver, FALSE}   \* the usage of the row is gone with it
    /\ Done(i)
    /\ UNCHANGED <<given, acked, node>>

DeleteBegin(i, f, force) ==
    /\ Exists(f)
    /\ IF force THEN Begin(i, "forceDelete", f, "unrow", None) ELSE Begin(i, "delete", f, "undo", None)
    /\ UNCHANGED <<db, node>>

(***************************************************************************)
(* ChangeStatusAsync: pause and resume by the administrator.               *)
(***************************************************************************)
ChangeStatus(i, f, o) ==
    /\ Exists(f)
    /\ o = "resume" => ~over[f] /\ ~tunnelOver
    /\ Begin(i, o, f, "send", None)
    /\ UNCHANGED <<db, node>>

ChangeStatusSend(i) ==
    /\ req[i].op \in {"pause", "resume"} /\ req[i].at = "send"
    /\ LET f == req[i].f
       IN  Send(IF req[i].op = "pause" THEN PauseService(f, StatusNames) ELSE ResumeService(f, StatusNames),
                Goto(i, "write"), Done(i))
    /\ UNCHANGED db

ChangeStatusWrite(i) ==
    /\ req[i].op \in {"pause", "resume"} /\ req[i].at = "write"
    /\ SetStatus(req[i].f, {0, 1, 2}, IF req[i].op = "pause" THEN 0 ELSE 1)
    /\ Done(i)
    /\ UNCHANGED <<port, over, tunnelOver, given, acked, node>>

(***************************************************************************)
(* FlowOperations.ApplyAsync: a report is added to the usage of a forward; *)
(* if the forward is on and over its quota it is paused, if the tunnel is  *)
(* over its quota all its forwards are, whatever the node answers.         *)
(***************************************************************************)
Report(i, f, exceeds, tunnelExceeds) ==
    /\ Exists(f) /\ svc[f] # "absent"
    /\ Begin(i, "report", f, "decide", None)
    /\ over' = [over EXCEPT ![f] = @ \/ exceeds]
    /\ tunnelOver' = (tunnelOver \/ tunnelExceeds)
    /\ UNCHANGED <<status, port, given, acked, node>>

ReportDecide(i) ==
    /\ At(i, "report", "decide")
    /\ LET f == req[i].f
       IN  IF status[f] # 1 \/ ~(over[f] \/ tunnelOver) THEN Done(i)
           ELSE IF tunnelOver THEN Goto(i, "list")
           ELSE GotoRows(i, "stop", f, {r \in RowsWith({1}) : r.f = f})
    /\ UNCHANGED <<db, node>>

ReportList(i) ==
    /\ At(i, "report", "list")
    /\ GotoRows(i, "stop", req[i].f, RowsWith({1}))
    /\ UNCHANGED <<db, node>>

ReportStop(i, r) ==
    /\ At(i, "report", "stop") /\ r \in req[i].rows
    /\ LET Sent == GotoRows(i, "mark", r.f, req[i].rows \ {r})
       IN  Send(PauseService(r.f, ReportNames), Sent, Sent)
    /\ UNCHANGED db

\* Mutant: the row is marked whatever its status has become.
ReportMarkAlways(i) ==
    /\ At(i, "report", "mark")
    /\ SetStatus(req[i].f, {0, 1, 2}, 2)
    /\ Goto(i, "stop")
    /\ UNCHANGED <<port, over, tunnelOver, given, acked, node>>

ReportMark(i) ==
    /\ At(i, "report", "mark")
    /\ SetStatus(req[i].f, {1}, 2)
    /\ Goto(i, "stop")
    /\ UNCHANGED <<port, over, tunnelOver, given, acked, node>>

(***************************************************************************)
(* UpdateAsync changes the row only (port, limit, ...) and then reconciles *)
(* the tunnel.                                                             *)
(***************************************************************************)
Update(i, f, p) ==
    /\ Exists(f)
    /\ Begin(i, "update", f, "ucheck", p)
    /\ UNCHANGED <<db, node>>

UpdateCheck(i) ==
    /\ At(i, "update", "ucheck")
    /\ IF req[i].p \in UsedPorts({req[i].f}) THEN Done(i) ELSE Goto(i, "uwrite")
    /\ UNCHANGED <<db, node>>

UpdateWrite(i, exceeded) ==
    /\ At(i, "update", "uwrite")
    /\ IF Exists(req[i].f)
         THEN port' = [port EXCEPT ![req[i].f] = req[i].p] /\ over' = [over EXCEPT ![req[i].f] = exceeded]
         ELSE UNCHANGED <<port, over>>
    /\ Goto(i, "read")
    /\ UNCHANGED <<status, tunnelOver, given, acked, node>>

(***************************************************************************)
(* ReconcileTunnelAsync pauses what is over its quota and resumes what no  *)
(* longer is, from the rows and the usage it has read before.              *)
(***************************************************************************)
ReconcileRead(i) ==
    /\ req[i].at = "read"
    /\ GotoRows(i, "usage", None, RowsWith({1, 2}))
    /\ UNCHANGED <<db, node>>

ReconcileUsage(i) ==
    /\ req[i].at = "usage"
    /\ GotoRows(i, "reconcile", None,
                {r \in {[q EXCEPT !.over = @ \/ tunnelOver] : q \in req[i].rows} : r.over = (r.status = 1)})
    /\ UNCHANGED <<db, node>>

\* The rows to change are handled one by one; a command that fails leaves its row alone.
ReconcileSend(i, r) ==
    /\ req[i].at = "reconcile" /\ r \in req[i].rows
    /\ LET Next1(f, place) == GotoRows(i, place, f, req[i].rows \ {r})
       IN  IF r.over THEN Send(PauseService(r.f, StatusNames), Next1(r.f, "setOver"), Next1(None, "reconcile"))
                     ELSE Send(ResumeService(r.f, StatusNames), Next1(r.f, "setOn"), Next1(None, "reconcile"))
    /\ UNCHANGED db

ReconcileConfirm(i) ==
    /\ req[i].at \in {"setOver", "setOn"}
    /\ IF req[i].at = "setOver" THEN SetStatus(req[i].f, {1}, 2) ELSE SetStatus(req[i].f, {2}, 1)
    /\ Goto(i, "reconcile")
    /\ UNCHANGED <<port, over, tunnelOver, given, acked, node>>

(***************************************************************************)
(* An edited tunnel is pushed to the node and then reconciled; a node that *)
(* has connected gets the tunnel pushed.  Every row is pushed, whatever    *)
(* its status; the first error ends the request.                           *)
(***************************************************************************)
TunnelUpdate(i, exceeded) ==
    /\ Replays
    /\ Begin(i, "tunnel", None, "sync", None)
    /\ tunnelOver' = exceeded
    /\ UNCHANGED <<status, port, over, given, acked, node>>

Replay(i) ==
    /\ Replays
    /\ Begin(i, "replay", None, "sync", None)
    /\ UNCHANGED <<db, node>>

SyncRead(i) ==
    /\ req[i].at = "sync"
    /\ GotoRows(i, "push", None, RowsWith({0, 1, 2}))
    /\ UNCHANGED <<db, node>>

SyncPush(i, r) ==
    /\ req[i].at = "push" /\ r \in req[i].rows
    /\ Send(SyncService(r.f, r.port), GotoRows(i, "push", None, req[i].rows \ {r}), Done(i))
    /\ UNCHANGED db

\* The loop over the rows is over.
RowsDone(i) ==
    /\ req[i].at \in {"stop", "reconcile", "push"} /\ req[i].rows = {}
    /\ IF At(i, "tunnel", "push") THEN Goto(i, "read") ELSE Done(i)
    /\ UNCHANGED <<db, node>>

\* The agent restarts from gost.json, which makes paused services run again.
Restart ==
    /\ Restarts
    /\ \A f, g \in Forwards : f # g /\ svc[f] # "absent" /\ svc[g] # "absent" => bound[f] # bound[g]
    /\ svc' = [f \in Forwards |-> IF svc[f] = "absent" THEN "absent" ELSE "running"]
    /\ UNCHANGED <<db, bound, req>>

(***************************************************************************)
(* The specification.                                                      *)
(***************************************************************************)
Step(i) ==
    \/ \E p \in Ports : CreateBegin(i, p)
    \/ CreateCheck(i) \/ CreateAdd(i) \/ Undo(i) \/ DeleteRow(i)
    \/ \E f \in Forwards : \/ CreateInsert(i, f)
                           \/ \E force \in BOOLEAN : DeleteBegin(i, f, force)
                           \/ \E o \in {"pause", "resume"} : ChangeStatus(i, f, o)
                           \/ \E exceeds, tunnelExceeds \in BOOLEAN : Report(i, f, exceeds, tunnelExceeds)
                           \/ \E p \in Ports : Update(i, f, p)
    \/ ChangeStatusSend(i) \/ ChangeStatusWrite(i)
    \/ ReportDecide(i) \/ ReportList(i) \/ ReportMark(i)
    \/ UpdateCheck(i) \/ (\E exceeded \in BOOLEAN : UpdateWrite(i, exceeded) \/ TunnelUpdate(i, exceeded))
    \/ ReconcileRead(i) \/ ReconcileUsage(i) \/ ReconcileConfirm(i)
    \/ Replay(i) \/ SyncRead(i) \/ RowsDone(i) \/ Abort(i)
    \/ \E r \in req[i].rows : ReportStop(i, r) \/ ReconcileSend(i, r) \/ SyncPush(i, r)

Next == (\E i \in Requests : Step(i)) \/ Restart

Spec == Init /\ [][Next]_vars

(***************************************************************************)
(* Properties.                                                             *)
(***************************************************************************)

Quiescent == \A i \in Requests : req[i] = Idle

\* A forward the administrator has paused is not turned on, or marked as over its
\* quota, by a report or by a reconciliation that read its row before the pause:
\* only a resume of the administrator ends the pause.
ManualPauseSticks ==
    [][\A f \in Forwards : status[f] = 0 /\ status'[f] > 0 =>
           \E i \in Requests : At(i, "resume", "write") /\ req[i].f = f]_vars

\* A row exists only for a forward whose creation succeeded or is being executed:
\* a creation answered with an error leaves no row, whatever was lost on the way.
RowsAreAcked ==
    \A f \in Forwards : Exists(f) => f \in acked \/ \E i \in Requests : req[i].op = "create" /\ req[i].f = f

\* What an administrator sees of a forward, from its status and whether its id was given, and
\* of a request.
LifeOf(s, known) == CASE s = 1 -> "on"
                      [] s = 0 -> "paused"
                      [] s = 2 -> "over"
                      [] OTHER -> IF known THEN "gone" ELSE "none"
WishOf(q) == CASE q.op \in {"create", "pause", "resume"} -> [op |-> q.op, f |-> q.f]
               [] q.op \in {"delete", "forceDelete"}     -> [op |-> "delete", f |-> q.f]
               [] OTHER                                  -> [op |-> None, f |-> None]

Life == INSTANCE ForwardLife WITH life <- [f \in Forwards |-> LifeOf(status[f], f \in given)],
                                  wish <- [i \in Requests |-> WishOf(req[i])], confirmed <- acked

\* To its administrators the panel is ForwardLife: whatever requests overlap and whatever is
\* lost, a row is inserted once, is paused, resumed and deleted only by a request for that,
\* changes by itself only between on and over its quota, never comes back, and a creation
\* that has inserted its row ends confirmed or with the row deleted.
LifeKept == Life!Spec

\* Between requests a forward marked as over its quota does not run on the node.
OverIsStopped == Quiescent => \A f \in Forwards : status[f] = 2 => svc[f] # "running"

\* A forward that the panel shows as on runs on the node, unless it is being created or its
\* row is about to be deleted, and no two forwards that run hold the same port.  Two creations
\* can both pass the check of one port, and insert their rows, before either sends its command
\* (CreateAsync does not lock the table): the node refuses the second one, whose row goes.
OnIsServed ==
    /\ \A f \in Forwards : status[f] = 1 /\ svc[f] # "running" =>
           \E i \in Requests : req[i].f = f /\ (req[i].op = "create" \/ req[i].at = "unrow")
    /\ \A f, g \in Forwards : f # g /\ svc[f] = "running" /\ svc[g] = "running" => bound[f] # bound[g]

\* When a row is deleted, by a delete or by the rollback of a failed creation, the node has
\* no service of the forward registered (a forced delete leaves the node alone on purpose).
DeleteClears ==
    \A i \in Requests : req[i].at = "unrow" /\ req[i].op # "forceDelete" => svc[req[i].f] \in {"absent", "failed"}
=============================================================================
