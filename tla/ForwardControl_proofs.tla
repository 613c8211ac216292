----------------------- MODULE ForwardControl_proofs -----------------------
(***************************************************************************)
(* Proofs about ForwardControl.                                            *)
(***************************************************************************)
EXTENDS ForwardControl, TLAPS

USE NoneAssumption

(***************************************************************************)
(* Types, and what a request knows where it stands.                        *)
(***************************************************************************)

\* The awaits an operation can stand at.
Reconciling == {"read", "usage", "reconcile", "setOver", "setOn"}
PlacesOf(o) ==
    CASE o = "create"      -> {"check", "insert", "add", "undo", "unrow"}
      [] o = "delete"      -> {"undo", "unrow"}
      [] o = "forceDelete" -> {"unrow"}
      [] o = "pause"       -> {"send", "write"}
      [] o = "resume"      -> {"send", "write"}
      [] o = "report"      -> {"decide", "list", "stop", "mark"}
      [] o = "update"      -> {"ucheck", "uwrite"} \cup Reconciling
      [] o = "tunnel"      -> {"sync", "push"} \cup Reconciling
      [] o = "replay"      -> {"sync", "push"}
      [] o = None          -> {None}

\* Where a request has a row in its hands, it is one that was inserted; a creation
\* has none before; the rows of a list were inserted.
HasRow == {"add", "undo", "unrow", "send", "write", "decide", "list", "stop", "mark", "ucheck", "uwrite", "setOver", "setOn"}
HasPort == {"check", "insert", "add", "ucheck", "uwrite"}
Fit(q, g) ==
    /\ q.at \in PlacesOf(q.op)
    /\ q.at \in HasRow => q.f \in g
    /\ q.at \in {"check", "insert"} => q.f = None
    /\ q.at \in HasPort => q.p \in Ports
    /\ \A r \in q.rows : r.f \in g

TypeInv == TypeOK /\ \A i \in Requests : Fit(req[i], given)

Request == [op : Ops \cup {None}, f : Forwards \cup {None}, at : Places \cup {None},
            p : Ports \cup {None}, rows : SUBSET Row]
DbOK ==
    /\ status \in [Forwards -> {-1, 0, 1, 2}]
    /\ port \in [Forwards -> Ports \cup {None}]
    /\ over \in [Forwards -> BOOLEAN] /\ tunnelOver \in BOOLEAN
    /\ given \subseteq Forwards /\ acked \subseteq given
    /\ \A f \in Forwards : IF Exists(f) THEN f \in given /\ port[f] \in Ports ELSE port[f] = None /\ ~over[f]
NodeOK(s, b) ==
    /\ s \in [Forwards -> {"absent", "running", "paused", "failed"}]
    /\ b \in [Forwards -> Ports \cup {None}]
    /\ \A f \in Forwards : s[f] # "absent" => f \in given /\ b[f] \in Ports
ReqOK == req \in [Requests -> Request] /\ \A i \in Requests : Fit(req[i], given)

\* The three parts of the state, which most steps change one by one.
LEMMA TypeParts == TypeInv <=> DbOK /\ NodeOK(svc, bound) /\ ReqOK
BY DEF TypeInv, TypeOK, DbOK, NodeOK, ReqOK, Request

\* The same of the next state.
LEMMA TypePartsNext == DbOK' /\ NodeOK(svc, bound)' /\ ReqOK' => TypeInv'
BY DEF TypeInv, TypeOK, DbOK, NodeOK, ReqOK, Request

\* The rows a SELECT returns are rows that were inserted.
LEMMA RowsWithFact ==
    ASSUME DbOK, NEW S \in SUBSET {0, 1, 2}
    PROVE  RowsWith(S) \subseteq Row /\ \A r \in RowsWith(S) : r.f \in given
<1> SUFFICES ASSUME NEW f \in Forwards, status[f] \in S
             PROVE  /\ [f |-> f, status |-> status[f], port |-> port[f], over |-> over[f]] \in Row
                    /\ f \in given
  BY DEF RowsWith
<1>1. Exists(f)
  BY DEF Exists
<1>2. f \in given /\ port[f] \in Ports /\ over[f] \in BOOLEAN /\ status[f] \in {0, 1, 2}
  BY <1>1 DEF DbOK
<1> QED
  BY <1>2 DEF Row

\* Whatever the agent does with a command for a forward that was inserted, its
\* services are well typed afterwards.
LEMMA ResultFact ==
    ASSUME DbOK, NodeOK(svc, bound), NEW f \in given, NEW s \in {"running", "paused", "failed"},
           NEW p \in Ports, NEW ok
    PROVE  NodeOK(Result(f, s, p, ok).svc, Result(f, s, p, ok).bound)
BY DEF DbOK, NodeOK, Result

\* So after every command, whatever it names.
LEMMA CommandFact ==
    ASSUME DbOK, NodeOK(svc, bound), NEW f \in given, NEW p \in Ports, NEW names,
           NEW x \in {AddService(f, p), SyncService(f, p), DeleteService(f), PauseService(f, names), ResumeService(f, names)}
    PROVE  NodeOK(x.svc, x.bound)
<1>1. NodeOK(Refused.svc, Refused.bound)
  BY DEF Refused
<1>2. f \in Forwards
  BY DEF DbOK
<1>3. NodeOK(Listen(f, p).svc, Listen(f, p).bound)
  BY ResultFact DEF Listen
<1>4. NodeOK(AddService(f, p).svc, AddService(f, p).bound)
  BY <1>1, ResultFact DEF AddService
<1>5. NodeOK(SyncService(f, p).svc, SyncService(f, p).bound)
  BY <1>3, <1>4 DEF SyncService
<1>6. NodeOK(DeleteService(f).svc, DeleteService(f).bound)
  <2>1. NodeOK(Result(f, "absent", None, TRUE).svc, Result(f, "absent", None, TRUE).bound)
    BY <1>2 DEF NodeOK, Result
  <2> QED
    BY <1>1, <2>1 DEF DeleteService
<1>7. ASSUME Known(f, names) PROVE bound[f] \in Ports
  BY <1>2, <1>7 DEF Known, NodeOK
<1>8. NodeOK(PauseService(f, names).svc, PauseService(f, names).bound)
  BY <1>1, <1>7, ResultFact DEF PauseService
<1>9. NodeOK(ResumeService(f, names).svc, ResumeService(f, names).bound)
  BY <1>1, <1>7, ResultFact DEF ResumeService, Listen
<1> QED
  BY <1>4, <1>5, <1>6, <1>8, <1>9

\* The commands that carry no port need none: a service the node knows has one.
LEMMA NamedFact ==
    ASSUME DbOK, NodeOK(svc, bound), NEW f \in given, NEW names,
           NEW x \in {DeleteService(f), PauseService(f, names), ResumeService(f, names)}
    PROVE  NodeOK(x.svc, x.bound)
<1>1. CASE Ports # {}
  BY <1>1, CommandFact
<1>2. CASE Ports = {}
  <2>1. f \in Forwards /\ svc[f] = "absent"
    BY <1>2 DEF NodeOK, DbOK
  <2>2. x = Refused
    BY <2>1 DEF DeleteService, PauseService, ResumeService, Known
  <2> QED
    BY <2>2 DEF Refused
<1> QED
  BY <1>1, <1>2

\* The awaits of each operation.
LEMMA PlacesFact ==
    /\ PlacesOf("create") = {"check", "insert", "add", "undo", "unrow"}
    /\ PlacesOf("delete") = {"undo", "unrow"}
    /\ PlacesOf("forceDelete") = {"unrow"}
    /\ PlacesOf("pause") = {"send", "write"}
    /\ PlacesOf("resume") = {"send", "write"}
    /\ PlacesOf("report") = {"decide", "list", "stop", "mark"}
    /\ PlacesOf("update") = {"ucheck", "uwrite"} \cup Reconciling
    /\ PlacesOf("tunnel") = {"sync", "push"} \cup Reconciling
    /\ PlacesOf("replay") = {"sync", "push"}
    /\ PlacesOf(None) = {None}
BY DEF PlacesOf, None

\* A request that has ended stands nowhere and knows nothing.
LEMMA IdleFit == Idle \in Request /\ \A g : Fit(Idle, g)
BY PlacesFact DEF Idle, Request, Fit, HasRow, HasPort, None

\* At first there is nothing.
LEMMA InitType == Init => TypeInv
<1> SUFFICES ASSUME Init PROVE DbOK /\ NodeOK(svc, bound) /\ ReqOK
  BY TypeParts
<1>1. DbOK /\ NodeOK(svc, bound)
  BY DEF Init, DbOK, NodeOK, Exists
<1>2. ReqOK
  BY IdleFit DEF Init, ReqOK
<1> QED
  BY <1>1, <1>2

\* A step that gives one request a record that fits.
LEMMA ReqStep ==
    ASSUME ReqOK, NEW i \in Requests, NEW q \in Request, req' = [req EXCEPT ![i] = q],
           Fit(q, given'), given \subseteq given'
    PROVE  ReqOK'
BY DEF ReqOK, Fit

\* A request ends.
LEMMA DoneStep ==
    ASSUME ReqOK, NEW i \in Requests, Done(i), given \subseteq given'
    PROVE  ReqOK'
BY ReqStep, IdleFit DEF Done

\* A request goes on to another place.
LEMMA GotoStep ==
    ASSUME ReqOK, NEW i \in Requests, NEW place \in Places, Goto(i, place), given \subseteq given',
           place \in PlacesOf(req[i].op), place \notin {"check", "insert"},
           place \in HasRow => req[i].f \in given, place \in HasPort => req[i].p \in Ports
    PROVE  ReqOK'
<1> DEFINE q == [req[i] EXCEPT !.at = place]
<1>1. req[i] \in Request /\ Fit(req[i], given)
  BY DEF ReqOK
<1>2. req' = [req EXCEPT ![i] = q]
  BY DEF Goto
<1>3. q \in Request /\ q.op = req[i].op /\ q.f = req[i].f /\ q.at = place /\ q.p = req[i].p /\ q.rows = req[i].rows
  BY <1>1 DEF Request
<1> HIDE DEF q
<1>4. Fit(q, given')
  BY <1>1, <1>3 DEF Fit
<1> QED
  BY <1>2, <1>3, <1>4, ReqStep

\* A request begins.
LEMMA BeginStep ==
    ASSUME ReqOK, NEW i \in Requests, NEW o \in Ops, NEW f \in Forwards \cup {None}, NEW place \in Places,
           NEW p \in Ports \cup {None}, Begin(i, o, f, place, p), given \subseteq given',
           place \in PlacesOf(o), place \in HasRow => f \in given', place \in {"check", "insert"} => f = None,
           place \in HasPort => p \in Ports
    PROVE  ReqOK'
<1> DEFINE q == [op |-> o, f |-> f, at |-> place, p |-> p, rows |-> {}]
<1>1. req' = [req EXCEPT ![i] = q]
  BY DEF Begin
<1>2. q \in Request
  BY DEF Request
<1>3. Fit(q, given')
  BY DEF Fit
<1> QED
  BY <1>1, <1>2, <1>3, ReqStep

\* A request goes on with a forward and a list of rows.
LEMMA GotoRowsStep ==
    ASSUME ReqOK, NEW i \in Requests, NEW place \in Places, NEW f \in Forwards \cup {None}, NEW R \in SUBSET Row,
           GotoRows(i, place, f, R), given \subseteq given',
           place \in PlacesOf(req[i].op), place \notin {"check", "insert"},
           place \in HasRow => f \in given', place \in HasPort => req[i].p \in Ports,
           \A r \in R : r.f \in given'
    PROVE  ReqOK'
<1> DEFINE q == [op |-> req[i].op, f |-> f, at |-> place, p |-> req[i].p, rows |-> R]
<1>1. req[i] \in Request
  BY DEF ReqOK
<1>2. req' = [req EXCEPT ![i] = q]
  BY DEF GotoRows
<1>3. q \in Request
  BY <1>1 DEF Request
<1>4. Fit(q, given')
  BY DEF Fit
<1> QED
  BY <1>2, <1>3, <1>4, ReqStep

\* A statement that leaves the table alone.
LEMMA DbSame == DbOK /\ UNCHANGED db => DbOK'
BY DEF DbOK, db, Exists

\* A step that leaves the node alone.
LEMMA NodeSame == NodeOK(svc, bound) /\ UNCHANGED node /\ given \subseteq given' => NodeOK(svc, bound)'
BY DEF NodeOK, node

\* The node is well typed after a command for a forward that was inserted, lost or not.
LEMMA SentOK ==
    ASSUME DbOK, NodeOK(svc, bound), UNCHANGED db, NEW x, NodeOK(x.svc, x.bound),
           (svc' = x.svc /\ bound' = x.bound) \/ UNCHANGED node
    PROVE  NodeOK(svc, bound)'
<1>1. given' = given
  BY DEF db
<1> QED
  BY <1>1 DEF NodeOK, node

\* Changing the status of a row leaves it a row.
LEMMA SetStatusOK ==
    ASSUME DbOK, NEW f, NEW from \in SUBSET {0, 1, 2}, NEW to \in {0, 1, 2}, SetStatus(f, from, to),
           UNCHANGED <<port, over, tunnelOver, given, acked>>
    PROVE  /\ DbOK'
           /\ \A g \in Forwards : /\ Exists(g)' <=> Exists(g)
                                  /\ status'[g] # status[g] => g = f /\ status[g] \in from /\ status'[g] = to
<1>1. CASE f \in Forwards
  <2>1. \A g \in Forwards : status'[g] = IF g = f /\ status[f] \in from THEN to ELSE status[g]
    BY <1>1 DEF SetStatus, DbOK
  <2>2. status' \in [Forwards -> {-1, 0, 1, 2}]
    BY <1>1 DEF SetStatus, DbOK
  <2>3. \A g \in Forwards : Exists(g)' <=> Exists(g)
    BY <2>1 DEF Exists
  <2> QED
    BY <2>1, <2>2, <2>3 DEF DbOK
<1>2. CASE f \notin Forwards
  <2>1. status' = status
    BY <1>2 DEF SetStatus, DbOK
  <2> QED
    BY <2>1 DEF DbOK, Exists
<1> QED
  BY <1>1, <1>2

\* What TypeInv says of a request that is under way.
LEMMA ReqFact ==
    ASSUME TypeInv, NEW i \in Requests
    PROVE  /\ req[i] \in Request /\ req[i].at \in PlacesOf(req[i].op)
           /\ req[i].at \in HasRow => req[i].f \in given /\ req[i].f \in Forwards
           /\ req[i].at \in HasPort => req[i].p \in Ports
           /\ \A r \in req[i].rows : r \in Row /\ r.f \in given
BY DEF TypeInv, TypeOK, Fit, Request

\* A creation: the state stays well typed.
LEMMA CreateType ==
    ASSUME TypeInv, NEW i \in Requests,
           \/ \E p \in Ports : CreateBegin(i, p)
           \/ CreateCheck(i) \/ CreateAdd(i)
           \/ \E f \in Forwards : CreateInsert(i, f)
    PROVE  TypeInv'
<1>t. DbOK /\ NodeOK(svc, bound) /\ ReqOK
  BY TypeParts
<1>1. ASSUME NEW p \in Ports, CreateBegin(i, p) PROVE TypeInv'
  <2>1. UNCHANGED <<db, node>> /\ given' = given
    BY <1>1 DEF CreateBegin, db
  <2>2. ReqOK'
    BY <1>1, <1>t, <2>1, BeginStep, PlacesFact DEF CreateBegin, Ops, Places, HasRow
  <2> QED
    BY <1>t, <2>1, <2>2, DbSame, NodeSame, TypePartsNext
<1>2. ASSUME CreateCheck(i) PROVE TypeInv'
  <2>1. UNCHANGED <<db, node>> /\ given' = given
    BY <1>2 DEF CreateCheck, db
  <2>2. req[i].op = "create" /\ req[i].at = "check" /\ req[i].p \in Ports
    BY <1>2, ReqFact DEF CreateCheck, At, HasPort
  <2>3. CASE Done(i)
    BY <1>t, <2>1, <2>3, DoneStep, DbSame, NodeSame, TypePartsNext
  <2>4. CASE Goto(i, "insert")
    <3> DEFINE q == [req[i] EXCEPT !.at = "insert"]
    <3>1. req[i] \in Request /\ Fit(req[i], given)
      BY <1>t DEF ReqOK
    <3>2. q \in Request /\ q.op = "create" /\ q.f = req[i].f /\ q.at = "insert" /\ q.p = req[i].p /\ q.rows = req[i].rows
      BY <2>2, <3>1 DEF Request, Places
    <3>3. req' = [req EXCEPT ![i] = q]
      BY <2>4 DEF Goto
    <3> HIDE DEF q
    <3>4. Fit(q, given')
      BY <2>1, <2>2, <3>1, <3>2, PlacesFact DEF Fit, HasRow
    <3> QED
      BY <1>t, <2>1, <3>2, <3>3, <3>4, ReqStep, DbSame, NodeSame, TypePartsNext
  <2> QED
    BY <1>2, <2>3, <2>4 DEF CreateCheck
<1>3. ASSUME CreateAdd(i) PROVE TypeInv'
  <2> DEFINE f == req[i].f
             x == AddService(f, req[i].p)
  <2>1. req[i].op = "create" /\ req[i].at = "add" /\ f \in given /\ req[i].p \in Ports
    BY <1>3, ReqFact DEF CreateAdd, At, HasRow, HasPort
  <2>2. NodeOK(x.svc, x.bound)
    BY <1>t, <2>1, CommandFact
  <2>3. /\ UNCHANGED <<status, port, over, tunnelOver, given>>
        /\ \/ Done(i) /\ acked' = acked \cup {f}
           \/ Goto(i, "undo") /\ acked' = acked
        /\ (svc' = x.svc /\ bound' = x.bound) \/ UNCHANGED node
    BY <1>3 DEF CreateAdd, Send
  <2>4. DbOK'
    BY <1>t, <2>1, <2>3 DEF DbOK, Exists
  <2>5. NodeOK(svc, bound)'
    BY <1>t, <2>2, <2>3 DEF NodeOK, node
  <2>6. ReqOK'
    BY <1>t, <2>1, <2>3, DoneStep, GotoStep, PlacesFact DEF HasRow, HasPort, Places
  <2> QED
    BY <2>4, <2>5, <2>6, TypePartsNext
<1>4. ASSUME NEW f \in Forwards, CreateInsert(i, f) PROVE TypeInv'
  <2>1. req[i].op = "create" /\ req[i].at = "insert" /\ req[i].p \in Ports /\ f \notin given
    BY <1>4, ReqFact DEF CreateInsert, At, HasPort
  <2>2. /\ given' = given \cup {f} /\ status' = [status EXCEPT ![f] = 1]
        /\ port' = [port EXCEPT ![f] = req[i].p] /\ GotoRows(i, "add", f, {})
        /\ UNCHANGED <<over, tunnelOver, acked, node>>
    BY <1>4 DEF CreateInsert
  <2>3. DbOK'
    BY <1>t, <2>1, <2>2 DEF DbOK, Exists
  <2>4. ReqOK'
    BY <1>t, <2>1, <2>2, GotoRowsStep, PlacesFact DEF Places
  <2> QED
    BY <1>t, <2>2, <2>3, <2>4, NodeSame, TypePartsNext
<1> QED
  BY <1>1, <1>2, <1>3, <1>4

\* A deletion, or the end of a failed creation.
LEMMA DeleteType ==
    ASSUME TypeInv, NEW i \in Requests,
           \/ Undo(i) \/ DeleteRow(i)
           \/ \E f \in Forwards, force \in BOOLEAN : DeleteBegin(i, f, force)
    PROVE  TypeInv'
<1>t. DbOK /\ NodeOK(svc, bound) /\ ReqOK
  BY TypeParts
<1>1. ASSUME Undo(i) PROVE TypeInv'
  <2> DEFINE x == DeleteService(req[i].f)
  <2>1. req[i].at = "undo" /\ req[i].f \in given /\ req[i].op \in {"create", "delete"}
    BY <1>1, ReqFact, PlacesFact DEF Undo, HasRow, Reconciling, Request, Ops, None
  <2>2. UNCHANGED db /\ Goto(i, "unrow") /\ ((svc' = x.svc /\ bound' = x.bound) \/ UNCHANGED node)
    BY <1>1 DEF Undo, Send
  <2>3. given' = given
    BY <2>2 DEF db
  <2>4. ReqOK'
    BY <1>t, <2>1, <2>2, <2>3, GotoStep, PlacesFact DEF HasPort, Places
  <2>5. NodeOK(x.svc, x.bound)
    BY <1>t, <2>1, NamedFact
  <2> HIDE DEF x
  <2> QED
    BY <1>t, <2>2, <2>4, <2>5, SentOK, DbSame, TypePartsNext
<1>2. ASSUME DeleteRow(i) PROVE TypeInv'
  <2>1. req[i].f \in Forwards
    BY <1>2, ReqFact DEF DeleteRow, HasRow
  <2>2. DbOK'
    BY <1>t, <1>2, <2>1 DEF DeleteRow, DbOK, Exists
  <2>3. UNCHANGED node /\ given' = given /\ Done(i)
    BY <1>2 DEF DeleteRow
  <2> QED
    BY <1>t, <2>2, <2>3, DoneStep, NodeSame, TypePartsNext
<1>3. ASSUME NEW f \in Forwards, NEW force \in BOOLEAN, DeleteBegin(i, f, force) PROVE TypeInv'
  <2>1. UNCHANGED <<db, node>> /\ given' = given /\ f \in given
    BY <1>3, <1>t DEF DeleteBegin, db, DbOK
  <2>2. Begin(i, "forceDelete", f, "unrow", None) \/ Begin(i, "delete", f, "undo", None)
    BY <1>3 DEF DeleteBegin
  <2>3. ReqOK'
    BY <1>t, <2>1, <2>2, BeginStep, PlacesFact DEF Ops, Places, HasPort
  <2> QED
    BY <1>t, <2>1, <2>3, DbSame, NodeSame, TypePartsNext
<1> QED
  BY <1>1, <1>2, <1>3

\* A pause or a resume.
LEMMA ChangeStatusType ==
    ASSUME TypeInv, NEW i \in Requests,
           \/ \E f \in Forwards, o \in {"pause", "resume"} : ChangeStatus(i, f, o)
           \/ ChangeStatusSend(i) \/ ChangeStatusWrite(i)
    PROVE  TypeInv'
<1>t. DbOK /\ NodeOK(svc, bound) /\ ReqOK
  BY TypeParts
<1>1. ASSUME NEW f \in Forwards, NEW o \in {"pause", "resume"}, ChangeStatus(i, f, o) PROVE TypeInv'
  <2>1. UNCHANGED <<db, node>> /\ given' = given /\ f \in given /\ Begin(i, o, f, "send", None)
    BY <1>1, <1>t DEF ChangeStatus, db, DbOK
  <2>2. ReqOK'
    BY <1>t, <2>1, BeginStep, PlacesFact DEF Ops, Places, HasPort
  <2> QED
    BY <1>t, <2>1, <2>2, DbSame, NodeSame, TypePartsNext
<1>2. ASSUME ChangeStatusSend(i) PROVE TypeInv'
  <2> DEFINE f == req[i].f
             x == IF req[i].op = "pause" THEN PauseService(f, StatusNames) ELSE ResumeService(f, StatusNames)
  <2>1. req[i].op \in {"pause", "resume"} /\ req[i].at = "send" /\ f \in given
    BY <1>2, ReqFact DEF ChangeStatusSend, HasRow
  <2>2. UNCHANGED db /\ (Goto(i, "write") \/ Done(i)) /\ ((svc' = x.svc /\ bound' = x.bound) \/ UNCHANGED node)
    BY <1>2 DEF ChangeStatusSend, Send
  <2>3. given' = given
    BY <2>2 DEF db
  <2>4. ReqOK'
    BY <1>t, <2>1, <2>2, <2>3, GotoStep, DoneStep, PlacesFact DEF HasPort, Places
  <2>5. NodeOK(x.svc, x.bound)
    BY <1>t, <2>1, NamedFact
  <2> HIDE DEF x
  <2> QED
    BY <1>t, <2>2, <2>4, <2>5, SentOK, DbSame, TypePartsNext
<1>3. ASSUME ChangeStatusWrite(i) PROVE TypeInv'
  <2>1. DbOK'
    BY <1>3, <1>t, SetStatusOK DEF ChangeStatusWrite
  <2>2. UNCHANGED node /\ given' = given /\ Done(i)
    BY <1>3 DEF ChangeStatusWrite
  <2> QED
    BY <1>t, <2>1, <2>2, DoneStep, NodeSame, TypePartsNext
<1> QED
  BY <1>1, <1>2, <1>3

\* A report.
LEMMA ReportType ==
    ASSUME TypeInv, NEW i \in Requests,
           \/ \E f \in Forwards, exceeds, tunnelExceeds \in BOOLEAN : Report(i, f, exceeds, tunnelExceeds)
           \/ ReportDecide(i) \/ ReportList(i) \/ ReportMark(i)
           \/ \E r \in req[i].rows : ReportStop(i, r)
    PROVE  TypeInv'
<1>t. DbOK /\ NodeOK(svc, bound) /\ ReqOK
  BY TypeParts
<1>o. RowsWith({1}) \in SUBSET Row /\ \A r \in RowsWith({1}) : r.f \in given
  BY <1>t, RowsWithFact
<1>1. ASSUME NEW f \in Forwards, NEW exceeds \in BOOLEAN, NEW tunnelExceeds \in BOOLEAN,
             Report(i, f, exceeds, tunnelExceeds)
      PROVE  TypeInv'
  <2>1. UNCHANGED node /\ given' = given /\ f \in given /\ Begin(i, "report", f, "decide", None)
    BY <1>1, <1>t DEF Report, DbOK
  <2>2. DbOK'
    BY <1>1, <1>t DEF Report, DbOK, Exists
  <2>3. ReqOK'
    BY <1>t, <2>1, BeginStep, PlacesFact DEF Ops, Places, HasPort
  <2> QED
    BY <1>t, <2>1, <2>2, <2>3, NodeSame, TypePartsNext
<1>2. ASSUME ReportDecide(i) PROVE TypeInv'
  <2> DEFINE R == {r \in RowsWith({1}) : r.f = req[i].f}
  <2>1. req[i].op = "report" /\ req[i].f \in given /\ req[i].f \in Forwards
    BY <1>2, ReqFact DEF ReportDecide, At, HasRow
  <2>2. UNCHANGED <<db, node>> /\ given' = given
    BY <1>2 DEF ReportDecide, db
  <2>3. Done(i) \/ Goto(i, "list") \/ GotoRows(i, "stop", req[i].f, R)
    BY <1>2 DEF ReportDecide
  <2>4. R \in SUBSET Row /\ \A r \in R : r.f \in given
    BY <1>o
  <2> HIDE DEF R
  <2>5. ReqOK'
    BY <1>t, <2>1, <2>2, <2>3, <2>4, DoneStep, GotoStep, GotoRowsStep, PlacesFact DEF Places, HasPort
  <2> QED
    BY <1>t, <2>2, <2>5, DbSame, NodeSame, TypePartsNext
<1>3. ASSUME ReportList(i) PROVE TypeInv'
  <2>1. req[i].op = "report" /\ req[i].f \in given /\ req[i].f \in Forwards
    BY <1>3, ReqFact DEF ReportList, At, HasRow
  <2>2. UNCHANGED <<db, node>> /\ given' = given /\ GotoRows(i, "stop", req[i].f, RowsWith({1}))
    BY <1>3 DEF ReportList, db
  <2>3. ReqOK'
    BY <1>t, <1>o, <2>1, <2>2, GotoRowsStep, PlacesFact DEF Places, HasPort
  <2> QED
    BY <1>t, <2>2, <2>3, DbSame, NodeSame, TypePartsNext
<1>4. ASSUME ReportMark(i) PROVE TypeInv'
  <2>1. DbOK'
    BY <1>4, <1>t, SetStatusOK DEF ReportMark
  <2>2. UNCHANGED node /\ given' = given /\ Goto(i, "stop") /\ req[i].op = "report" /\ req[i].f \in given
    BY <1>4, ReqFact DEF ReportMark, At, HasRow
  <2>3. ReqOK'
    BY <1>t, <2>2, GotoStep, PlacesFact DEF Places, HasPort
  <2> QED
    BY <1>t, <2>1, <2>2, <2>3, NodeSame, TypePartsNext
<1>5. ASSUME NEW r \in req[i].rows, ReportStop(i, r) PROVE TypeInv'
  <2> DEFINE x == PauseService(r.f, ReportNames)
  <2>1. req[i].op = "report" /\ r.f \in given /\ r.f \in Forwards /\ req[i].rows \ {r} \in SUBSET Row
        /\ \A q \in req[i].rows \ {r} : q.f \in given
    BY <1>5, ReqFact DEF ReportStop, At, Row
  <2>2. /\ UNCHANGED db /\ GotoRows(i, "mark", r.f, req[i].rows \ {r})
        /\ (svc' = x.svc /\ bound' = x.bound) \/ UNCHANGED node
    BY <1>5 DEF ReportStop, Send
  <2>3. given' = given
    BY <2>2 DEF db
  <2>4. ReqOK'
    BY <1>t, <2>1, <2>2, <2>3, GotoRowsStep, PlacesFact DEF Places, HasPort
  <2>5. NodeOK(x.svc, x.bound)
    BY <1>t, <2>1, NamedFact
  <2> HIDE DEF x
  <2> QED
    BY <1>t, <2>2, <2>4, <2>5, SentOK, DbSame, TypePartsNext
<1> QED
  BY <1>1, <1>2, <1>3, <1>4, <1>5

\* An update of a row.
LEMMA UpdateType ==
    ASSUME TypeInv, NEW i \in Requests,
           \/ \E f \in Forwards, p \in Ports : Update(i, f, p)
           \/ UpdateCheck(i)
           \/ \E exceeded \in BOOLEAN : UpdateWrite(i, exceeded)
    PROVE  TypeInv'
<1>t. DbOK /\ NodeOK(svc, bound) /\ ReqOK
  BY TypeParts
<1>1. ASSUME NEW f \in Forwards, NEW p \in Ports, Update(i, f, p) PROVE TypeInv'
  <2>1. UNCHANGED <<db, node>> /\ given' = given /\ f \in given /\ Begin(i, "update", f, "ucheck", p)
    BY <1>1, <1>t DEF Update, db, DbOK
  <2>2. ReqOK'
    BY <1>t, <2>1, BeginStep, PlacesFact DEF Ops, Places
  <2> QED
    BY <1>t, <2>1, <2>2, DbSame, NodeSame, TypePartsNext
<1>2. ASSUME UpdateCheck(i) PROVE TypeInv'
  <2>1. req[i].op = "update" /\ req[i].f \in given /\ req[i].p \in Ports
    BY <1>2, ReqFact DEF UpdateCheck, At, HasRow, HasPort
  <2>2. UNCHANGED <<db, node>> /\ given' = given /\ (Done(i) \/ Goto(i, "uwrite"))
    BY <1>2 DEF UpdateCheck, db
  <2>3. ReqOK'
    BY <1>t, <2>1, <2>2, DoneStep, GotoStep, PlacesFact DEF Places
  <2> QED
    BY <1>t, <2>2, <2>3, DbSame, NodeSame, TypePartsNext
<1>3. ASSUME NEW exceeded \in BOOLEAN, UpdateWrite(i, exceeded) PROVE TypeInv'
  <2>1. req[i].op = "update" /\ req[i].f \in given /\ req[i].f \in Forwards /\ req[i].p \in Ports
    BY <1>3, ReqFact DEF UpdateWrite, At, HasRow, HasPort
  <2>2. UNCHANGED <<status, tunnelOver, given, acked, node>> /\ Goto(i, "read")
    BY <1>3 DEF UpdateWrite
  <2>3. DbOK'
    BY <1>3, <1>t, <2>1, <2>2 DEF UpdateWrite, DbOK, Exists
  <2>4. ReqOK'
    BY <1>t, <2>1, <2>2, GotoStep, PlacesFact DEF Places, HasRow, HasPort, Reconciling
  <2> QED
    BY <1>t, <2>2, <2>3, <2>4, NodeSame, TypePartsNext
<1> QED
  BY <1>1, <1>2, <1>3

\* Only an update and an edited tunnel reconcile.
LEMMA ReconcilingOps ==
    ASSUME TypeInv, NEW i \in Requests, req[i].at \in Reconciling
    PROVE  req[i].op \in {"update", "tunnel"}
BY ReqFact, PlacesFact DEF Reconciling, Request, Ops, None

\* A reconciliation.
LEMMA ReconcileType ==
    ASSUME TypeInv, NEW i \in Requests,
           \/ ReconcileRead(i) \/ ReconcileUsage(i) \/ ReconcileConfirm(i)
           \/ \E r \in req[i].rows : ReconcileSend(i, r)
    PROVE  TypeInv'
<1>t. DbOK /\ NodeOK(svc, bound) /\ ReqOK
  BY TypeParts
<1>p. req[i].op \in {"update", "tunnel"}
  BY ReconcilingOps DEF ReconcileRead, ReconcileUsage, ReconcileConfirm, ReconcileSend, Reconciling
<1>1. ASSUME ReconcileRead(i) PROVE TypeInv'
  <2>1. UNCHANGED <<db, node>> /\ given' = given /\ GotoRows(i, "usage", None, RowsWith({1, 2}))
    BY <1>1 DEF ReconcileRead, db
  <2>2. RowsWith({1, 2}) \in SUBSET Row /\ \A r \in RowsWith({1, 2}) : r.f \in given
    BY <1>t, RowsWithFact
  <2>3. ReqOK'
    BY <1>t, <1>p, <2>1, <2>2, GotoRowsStep, PlacesFact DEF Places, HasRow, HasPort, Reconciling
  <2> QED
    BY <1>t, <2>1, <2>3, DbSame, NodeSame, TypePartsNext
<1>2. ASSUME ReconcileUsage(i) PROVE TypeInv'
  <2> DEFINE R == {r \in {[q EXCEPT !.over = @ \/ tunnelOver] : q \in req[i].rows} : r.over = (r.status = 1)}
  <2>1. UNCHANGED <<db, node>> /\ given' = given /\ GotoRows(i, "reconcile", None, R)
    BY <1>2 DEF ReconcileUsage, db
  <2>2. R \in SUBSET Row /\ \A r \in R : r.f \in given
    <3> SUFFICES ASSUME NEW q \in req[i].rows
                 PROVE  /\ [q EXCEPT !.over = @ \/ tunnelOver] \in Row
                        /\ [q EXCEPT !.over = @ \/ tunnelOver].f \in given
      OBVIOUS
    <3>1. q \in Row /\ q.f \in given /\ (q.over \/ tunnelOver) \in BOOLEAN
      BY ReqFact DEF Row
    <3> QED
      BY <3>1 DEF Row
  <2> HIDE DEF R
  <2>3. ReqOK'
    BY <1>t, <1>p, <2>1, <2>2, GotoRowsStep, PlacesFact DEF Places, HasRow, HasPort, Reconciling
  <2> QED
    BY <1>t, <2>1, <2>3, DbSame, NodeSame, TypePartsNext
<1>3. ASSUME ReconcileConfirm(i) PROVE TypeInv'
  <2>1. DbOK'
    BY <1>3, <1>t, SetStatusOK DEF ReconcileConfirm
  <2>2. UNCHANGED node /\ given' = given /\ Goto(i, "reconcile")
    BY <1>3 DEF ReconcileConfirm
  <2>3. ReqOK'
    BY <1>t, <1>p, <2>2, GotoStep, PlacesFact DEF Places, HasRow, HasPort, Reconciling
  <2> QED
    BY <1>t, <2>1, <2>2, <2>3, NodeSame, TypePartsNext
<1>4. ASSUME NEW r \in req[i].rows, ReconcileSend(i, r) PROVE TypeInv'
  <2> DEFINE x == IF r.over THEN PauseService(r.f, StatusNames) ELSE ResumeService(r.f, StatusNames)
             R == req[i].rows \ {r}
  <2>1. r.f \in given /\ r.f \in Forwards /\ R \in SUBSET Row /\ \A q \in R : q.f \in given
    BY ReqFact DEF Row
  <2>2. /\ UNCHANGED db
        /\ GotoRows(i, "setOver", r.f, R) \/ GotoRows(i, "setOn", r.f, R) \/ GotoRows(i, "reconcile", None, R)
        /\ (svc' = x.svc /\ bound' = x.bound) \/ UNCHANGED node
    BY <1>4 DEF ReconcileSend, Send
  <2>3. given' = given
    BY <2>2 DEF db
  <2>5. NodeOK(x.svc, x.bound)
    BY <1>t, <2>1, NamedFact
  <2> HIDE DEF x, R
  <2>4. ReqOK'
    BY <1>t, <1>p, <2>1, <2>2, <2>3, GotoRowsStep, PlacesFact DEF Places, HasRow, HasPort, Reconciling
  <2> QED
    BY <1>t, <2>2, <2>4, <2>5, SentOK, DbSame, TypePartsNext
<1> QED
  BY <1>1, <1>2, <1>3, <1>4

\* The rows of a tunnel are pushed.
LEMMA SyncType ==
    ASSUME TypeInv, NEW i \in Requests,
           \/ \E exceeded \in BOOLEAN : TunnelUpdate(i, exceeded)
           \/ Replay(i) \/ SyncRead(i)
           \/ \E r \in req[i].rows : SyncPush(i, r)
    PROVE  TypeInv'
<1>t. DbOK /\ NodeOK(svc, bound) /\ ReqOK
  BY TypeParts
<1>p. ASSUME req[i].at \in {"sync", "push"} PROVE req[i].op \in {"tunnel", "replay"}
  BY <1>p, ReqFact, PlacesFact DEF Reconciling, Request, Ops, None
<1>1. ASSUME NEW exceeded \in BOOLEAN, TunnelUpdate(i, exceeded) PROVE TypeInv'
  <2>1. UNCHANGED node /\ given' = given /\ Begin(i, "tunnel", None, "sync", None)
    BY <1>1 DEF TunnelUpdate
  <2>2. DbOK'
    BY <1>1, <1>t DEF TunnelUpdate, DbOK, Exists
  <2>3. ReqOK'
    BY <1>t, <2>1, BeginStep, PlacesFact DEF Ops, Places, HasRow, HasPort
  <2> QED
    BY <1>t, <2>1, <2>2, <2>3, NodeSame, TypePartsNext
<1>2. ASSUME Replay(i) PROVE TypeInv'
  <2>1. UNCHANGED <<db, node>> /\ given' = given /\ Begin(i, "replay", None, "sync", None)
    BY <1>2 DEF Replay, db
  <2>2. ReqOK'
    BY <1>t, <2>1, BeginStep, PlacesFact DEF Ops, Places, HasRow, HasPort
  <2> QED
    BY <1>t, <2>1, <2>2, DbSame, NodeSame, TypePartsNext
<1>3. ASSUME SyncRead(i) PROVE TypeInv'
  <2>1. UNCHANGED <<db, node>> /\ given' = given /\ GotoRows(i, "push", None, RowsWith({0, 1, 2}))
    BY <1>3 DEF SyncRead, db
  <2>2. RowsWith({0, 1, 2}) \in SUBSET Row /\ \A r \in RowsWith({0, 1, 2}) : r.f \in given
    BY <1>t, RowsWithFact
  <2>3. ReqOK'
    BY <1>3, <1>t, <1>p, <2>1, <2>2, GotoRowsStep, PlacesFact DEF SyncRead, Places, HasRow, HasPort
  <2> QED
    BY <1>t, <2>1, <2>3, DbSame, NodeSame, TypePartsNext
<1>4. ASSUME NEW r \in req[i].rows, SyncPush(i, r) PROVE TypeInv'
  <2> DEFINE x == SyncService(r.f, r.port)
             R == req[i].rows \ {r}
  <2>1. r.f \in given /\ r.port \in Ports /\ R \in SUBSET Row /\ \A q \in R : q.f \in given
    BY ReqFact DEF Row
  <2>2. /\ UNCHANGED db /\ req[i].at = "push"
        /\ GotoRows(i, "push", None, R) \/ Done(i)
        /\ (svc' = x.svc /\ bound' = x.bound) \/ UNCHANGED node
    BY <1>4 DEF SyncPush, Send
  <2>3. given' = given
    BY <2>2 DEF db
  <2>5. NodeOK(x.svc, x.bound)
    BY <1>t, <2>1, CommandFact
  <2> HIDE DEF x, R
  <2>4. ReqOK'
    BY <1>t, <1>p, <2>1, <2>2, <2>3, GotoRowsStep, DoneStep, PlacesFact DEF Places, HasRow, HasPort
  <2> QED
    BY <1>t, <2>2, <2>4, <2>5, SentOK, DbSame, TypePartsNext
<1> QED
  BY <1>1, <1>2, <1>3, <1>4

\* Every step keeps the state well typed.
LEMMA NextType == TypeInv /\ [Next]_vars => TypeInv'
<1> SUFFICES ASSUME TypeInv, [Next]_vars PROVE TypeInv'
  OBVIOUS
<1>t. DbOK /\ NodeOK(svc, bound) /\ ReqOK
  BY TypeParts
<1>1. ASSUME NEW i \in Requests, RowsDone(i) PROVE TypeInv'
  <2>1. UNCHANGED <<db, node>> /\ given' = given
    BY <1>1 DEF RowsDone, db
  <2>2. (req[i].op = "tunnel" /\ Goto(i, "read")) \/ Done(i)
    BY <1>1 DEF RowsDone, At
  <2>3. ReqOK'
    BY <1>t, <2>1, <2>2, GotoStep, DoneStep, PlacesFact DEF Places, HasRow, HasPort, Reconciling
  <2> QED
    BY <1>t, <2>1, <2>3, DbSame, NodeSame, TypePartsNext
<1>2. ASSUME NEW i \in Requests, Abort(i) PROVE TypeInv'
  <2>1. UNCHANGED <<db, node>> /\ given' = given /\ Done(i)
    BY <1>2 DEF Abort, db
  <2> QED
    BY <1>t, <2>1, DoneStep, DbSame, NodeSame, TypePartsNext
<1>3. ASSUME Restart PROVE TypeInv'
  <2>1. UNCHANGED db /\ req' = req /\ given' = given
    BY <1>3 DEF Restart, db
  <2>2. NodeOK(svc, bound)'
    BY <1>3, <1>t, <2>1 DEF Restart, NodeOK
  <2> QED
    BY <1>t, <2>1, <2>2, DbSame, TypePartsNext DEF ReqOK
<1>4. ASSUME UNCHANGED vars PROVE TypeInv'
  <2>1. UNCHANGED <<db, node>> /\ req' = req /\ given' = given
    BY <1>4 DEF vars, db
  <2> QED
    BY <1>t, <2>1, DbSame, NodeSame, TypePartsNext DEF ReqOK
<1>5. ASSUME NEW i \in Requests, Step(i) PROVE TypeInv'
  BY <1>5, <1>1, <1>2, CreateType, DeleteType, ChangeStatusType, ReportType, UpdateType, ReconcileType, SyncType DEF Step
<1> QED
  BY <1>3, <1>4, <1>5 DEF Next

\* The rows, the services on the node and the requests are well typed, and every request
\* has what the next of its statements needs, for any number of concurrent requests.
THEOREM TypeCorrect == Spec => []TypeInv
BY InitType, NextType, PTL DEF Spec

(***************************************************************************)
(* What a step of one request can change.                                  *)
(***************************************************************************)

\* The steps that write the status column.
LEMMA StatusWriters ==
    ASSUME NEW i \in Requests, Step(i)
    PROVE  \/ status' = status
           \/ \E f \in Forwards : CreateInsert(i, f)
           \/ DeleteRow(i) \/ ChangeStatusWrite(i) \/ ReportMark(i) \/ ReconcileConfirm(i)
BY DEF Step, db, CreateBegin, CreateCheck, CreateAdd, Undo, DeleteBegin, ChangeStatus, Report, Update,
   ChangeStatusSend, ReportDecide, ReportList, UpdateCheck, UpdateWrite, TunnelUpdate, ReconcileRead,
   ReconcileUsage, Replay, SyncRead, RowsDone, Abort, ReportStop, ReconcileSend, SyncPush

\* A request only moves itself on.
LEMMA StepLocal ==
    ASSUME TypeInv, NEW i \in Requests, Step(i), NEW j \in Requests, j # i
    PROVE  req'[j] = req[j]
<1>1. req \in [Requests -> Request]
  BY DEF TypeInv, TypeOK, Request
<1>2. ASSUME NEW place, Goto(i, place) PROVE req'[j] = req[j]
  BY <1>1, <1>2 DEF Goto
<1>3. ASSUME Done(i) PROVE req'[j] = req[j]
  BY <1>1, <1>3 DEF Done
<1>4. ASSUME NEW place, NEW f, NEW R, GotoRows(i, place, f, R) PROVE req'[j] = req[j]
  BY <1>1, <1>4 DEF GotoRows
<1>5. ASSUME NEW o, NEW f, NEW place, NEW p, Begin(i, o, f, place, p) PROVE req'[j] = req[j]
  BY <1>1, <1>5 DEF Begin
<1>6. ASSUME \/ \E p \in Ports : CreateBegin(i, p)
             \/ CreateCheck(i) \/ CreateAdd(i) \/ Undo(i) \/ DeleteRow(i)
             \/ \E f \in Forwards : \/ CreateInsert(i, f)
                                    \/ \E force \in BOOLEAN : DeleteBegin(i, f, force)
      PROVE  req'[j] = req[j]
  BY <1>6, <1>2, <1>3, <1>4, <1>5 DEF CreateBegin, CreateCheck, CreateAdd, Undo, DeleteRow, CreateInsert, DeleteBegin, Send
<1>7. ASSUME \/ \E f \in Forwards : \/ \E o \in {"pause", "resume"} : ChangeStatus(i, f, o)
                                    \/ \E exceeds, tunnelExceeds \in BOOLEAN : Report(i, f, exceeds, tunnelExceeds)
                                    \/ \E p \in Ports : Update(i, f, p)
             \/ ChangeStatusSend(i) \/ ChangeStatusWrite(i)
             \/ ReportDecide(i) \/ ReportList(i) \/ ReportMark(i)
             \/ \E r \in req[i].rows : ReportStop(i, r)
      PROVE  req'[j] = req[j]
  BY <1>7, <1>2, <1>3, <1>4, <1>5 DEF ChangeStatus, Report, Update, ChangeStatusSend, ChangeStatusWrite,
     ReportDecide, ReportList, ReportMark, ReportStop, Send
<1>8. ASSUME \/ UpdateCheck(i) \/ (\E exceeded \in BOOLEAN : UpdateWrite(i, exceeded) \/ TunnelUpdate(i, exceeded))
             \/ ReconcileRead(i) \/ ReconcileUsage(i) \/ ReconcileConfirm(i)
             \/ Replay(i) \/ SyncRead(i) \/ RowsDone(i) \/ Abort(i)
             \/ \E r \in req[i].rows : ReconcileSend(i, r) \/ SyncPush(i, r)
      PROVE  req'[j] = req[j]
  BY <1>8, <1>2, <1>3, <1>4, <1>5 DEF UpdateCheck, UpdateWrite, TunnelUpdate, ReconcileRead, ReconcileUsage,
     ReconcileConfirm, Replay, SyncRead, RowsDone, Abort, ReconcileSend, SyncPush, Send
<1> QED
  BY <1>6, <1>7, <1>8 DEF Step

\* Only a step of a creation adds to the forwards that were answered with success.
LEMMA AckedGrows ==
    ASSUME NEW i \in Requests, Step(i)
    PROVE  acked \subseteq acked'
BY DEF Step, db, CreateBegin, CreateCheck, CreateAdd, Undo, DeleteBegin, ChangeStatus, Report, Update,
   ChangeStatusSend, ReportDecide, ReportList, UpdateCheck, UpdateWrite, TunnelUpdate, ReconcileRead,
   ReconcileUsage, Replay, SyncRead, RowsDone, Abort, ReportStop, ReconcileSend, SyncPush, Send,
   CreateInsert, DeleteRow, ChangeStatusWrite, ReportMark, ReconcileConfirm

\* The steps of a creation.
LEMMA CreateSteps ==
    ASSUME TypeInv, NEW i \in Requests, Step(i), req[i].op = "create"
    PROVE  \/ CreateCheck(i) \/ CreateAdd(i) \/ Undo(i) \/ DeleteRow(i)
           \/ \E f \in Forwards : CreateInsert(i, f)
           \/ Abort(i) /\ req[i].at = "check"
<1>1. req[i].at \in {"check", "insert", "add", "undo", "unrow"} /\ req[i] # Idle
  BY ReqFact, PlacesFact DEF Idle, None
<1> QED
  BY <1>1 DEF Step, CreateBegin, DeleteBegin, ChangeStatus, Report, Update, Begin, ChangeStatusSend, ChangeStatusWrite,
     ReportDecide, ReportList, ReportMark, UpdateCheck, UpdateWrite, TunnelUpdate, ReconcileRead, ReconcileUsage,
     ReconcileConfirm, Replay, SyncRead, RowsDone, Abort, ReportStop, ReconcileSend, SyncPush, At

(***************************************************************************)
(* Creations that fail leave no row.                                       *)
(***************************************************************************)

\* A step that makes no row leaves the other creations their rows.
LEMMA AckKept ==
    ASSUME TypeInv, RowsAreAcked, NEW i \in Requests, Step(i),
           \A g \in Forwards : Exists(g)' => Exists(g) /\ (req[i].op = "create" => g # req[i].f)
    PROVE  RowsAreAcked'
<1> SUFFICES ASSUME NEW g \in Forwards, Exists(g)'
             PROVE  g \in acked' \/ \E j \in Requests : req'[j].op = "create" /\ req'[j].f = g
  BY DEF RowsAreAcked
<1>1. g \in acked \/ \E j \in Requests : req[j].op = "create" /\ req[j].f = g
  BY DEF RowsAreAcked
<1>2. ASSUME NEW j \in Requests, req[j].op = "create", req[j].f = g
      PROVE  req'[j].op = "create" /\ req'[j].f = g
  <2>1. j # i
    BY <1>2
  <2> QED
    BY <1>2, <2>1, StepLocal
<1> QED
  BY <1>1, <1>2, AckedGrows

\* RowsAreAcked is inductive with the types.
LEMMA NextAcked == TypeInv /\ RowsAreAcked /\ [Next]_vars => RowsAreAcked'
<1> SUFFICES ASSUME TypeInv, RowsAreAcked, [Next]_vars PROVE RowsAreAcked'
  OBVIOUS
<1>t. DbOK /\ NodeOK(svc, bound) /\ ReqOK
  BY TypeParts
<1>1. ASSUME NEW i \in Requests, Step(i), req[i].op # "create" PROVE RowsAreAcked'
  <2>1. \A g \in Forwards : Exists(g)' => Exists(g)
    <3>1. CASE status' = status
      BY <3>1 DEF Exists
    <3>2. ASSUME NEW f \in Forwards, CreateInsert(i, f) PROVE FALSE
      BY <1>1, <3>2 DEF CreateInsert, At
    <3>3. CASE DeleteRow(i)
      BY <3>3, <1>t DEF DeleteRow, Exists, DbOK
    <3>4. CASE ChangeStatusWrite(i)
      BY <3>4, <1>t, SetStatusOK DEF ChangeStatusWrite
    <3>5. CASE ReportMark(i)
      BY <3>5, <1>t, SetStatusOK DEF ReportMark
    <3>6. CASE ReconcileConfirm(i)
      BY <3>6, <1>t, SetStatusOK DEF ReconcileConfirm
    <3> QED
      BY <1>1, <3>1, <3>2, <3>3, <3>4, <3>5, <3>6, StatusWriters
  <2> QED
    BY <1>1, <2>1, AckKept
<1>2. ASSUME NEW i \in Requests, Step(i), req[i].op = "create" PROVE RowsAreAcked'
  <2>1. req[i] \in Request /\ req \in [Requests -> Request]
    BY <1>t DEF ReqOK
  <2>2. ASSUME req[i].at \in {"check", "insert"} PROVE req[i].f = None
    BY <2>2, <1>t DEF ReqOK, Fit
  <2>3. CASE CreateCheck(i) \/ (Abort(i) /\ req[i].at = "check")
    <3>1. status' = status /\ req[i].f = None
      BY <2>2, <2>3 DEF CreateCheck, Abort, db, At
    <3> QED
      BY <1>2, <3>1, AckKept DEF Exists
  <2>4. ASSUME NEW f \in Forwards, CreateInsert(i, f) PROVE RowsAreAcked'
    <3>1. req'[i].op = "create" /\ req'[i].f = f
      BY <2>1, <2>4 DEF CreateInsert, GotoRows, At
    <3>2. req[i].f = None /\ acked' = acked
      BY <2>2, <2>4 DEF CreateInsert, At
    <3>3. ASSUME NEW g \in Forwards, g # f, Exists(g)'
          PROVE  g \in acked' \/ \E j \in Requests : req'[j].op = "create" /\ req'[j].f = g
      <4>1. Exists(g)
        BY <1>t, <2>4, <3>3 DEF CreateInsert, Exists, DbOK
      <4>2. g \in acked \/ \E j \in Requests : j # i /\ req[j].op = "create" /\ req[j].f = g
        BY <3>2, <4>1 DEF RowsAreAcked
      <4> QED
        BY <1>2, <3>2, <4>2, StepLocal
    <3> QED
      BY <3>1, <3>3 DEF RowsAreAcked
  <2>5. CASE CreateAdd(i)
    <3>1. UNCHANGED status
      BY <2>5 DEF CreateAdd
    <3>2. CASE acked' = acked \cup {req[i].f}
      <4> SUFFICES ASSUME NEW g \in Forwards, Exists(g)
                   PROVE  g \in acked' \/ \E j \in Requests : req'[j].op = "create" /\ req'[j].f = g
        BY <3>1 DEF RowsAreAcked, Exists
      <4>1. g \in acked \/ \E j \in Requests : req[j].op = "create" /\ req[j].f = g
        BY DEF RowsAreAcked
      <4> QED
        BY <1>2, <3>2, <4>1, StepLocal
    <3>3. CASE acked' = acked /\ Goto(i, "undo")
      <4>1. req'[i].op = req[i].op /\ req'[i].f = req[i].f
        BY <2>1, <3>3 DEF Goto, Request
      <4>2. \A j \in Requests : req'[j].op = req[j].op /\ req'[j].f = req[j].f
        BY <1>2, <4>1, StepLocal
      <4> QED
        BY <3>1, <3>3, <4>2 DEF RowsAreAcked, Exists
    <3> QED
      BY <2>5, <3>2, <3>3 DEF CreateAdd, Send
  <2>6. CASE Undo(i)
    <3>1. UNCHANGED <<status, acked>> /\ Goto(i, "unrow")
      BY <2>6 DEF Undo, Send, db
    <3>2. req'[i].op = req[i].op /\ req'[i].f = req[i].f
      BY <2>1, <3>1 DEF Goto, Request
    <3>3. \A j \in Requests : req'[j].op = req[j].op /\ req'[j].f = req[j].f
      BY <1>2, <3>2, StepLocal
    <3> QED
      BY <3>1, <3>3 DEF RowsAreAcked, Exists
  <2>7. CASE DeleteRow(i)
    <3>1. \A g \in Forwards : Exists(g)' => Exists(g) /\ g # req[i].f
      BY <2>7, <1>t DEF DeleteRow, Exists, DbOK
    <3> QED
      BY <1>2, <3>1, AckKept
  <2> QED
    BY <1>2, <2>3, <2>4, <2>5, <2>6, <2>7, CreateSteps
<1>3. ASSUME Restart \/ UNCHANGED vars PROVE RowsAreAcked'
  BY <1>3 DEF Restart, vars, db, RowsAreAcked, Exists
<1> QED
  BY <1>1, <1>2, <1>3 DEF Next

\* A creation that is answered with an error leaves no row (RowsAreAcked), for any number
\* of concurrent requests and whatever commands and answers are lost.
THEOREM RowsAreAckedAlways == Spec => []RowsAreAcked
<1>1. Init => RowsAreAcked
  BY DEF Init, RowsAreAcked, Exists
<1> QED
  BY <1>1, InitType, NextType, NextAcked, PTL DEF Spec

(***************************************************************************)
(* Only a resume of the administrator ends a pause.                        *)
(***************************************************************************)

\* A forward that the administrator has paused is turned on, or marked as over its quota,
\* by no report, reconciliation or update, whatever they have read before (ManualPauseSticks).
THEOREM ManualPauseSticksAlways == Spec => ManualPauseSticks
<1> DEFINE Sticks == \A f \in Forwards : status[f] = 0 /\ status'[f] > 0 =>
                         \E i \in Requests : At(i, "resume", "write") /\ req[i].f = f
<1>1. TypeInv /\ [Next]_vars => [Sticks]_vars
  <2> SUFFICES ASSUME TypeInv, Next, NEW f \in Forwards, status[f] = 0, status'[f] > 0
               PROVE  \E i \in Requests : At(i, "resume", "write") /\ req[i].f = f
    OBVIOUS
  <2>t. DbOK
    BY TypeParts
  <2>1. status'[f] # status[f]
    OBVIOUS
  <2>2. PICK i \in Requests : Step(i)
    BY <2>1 DEF Next, Restart, db
  <2>3. ASSUME NEW g \in Forwards, CreateInsert(i, g) PROVE FALSE
    BY <2>t, <2>1, <2>3 DEF CreateInsert, DbOK, Exists
  <2>4. CASE DeleteRow(i)
    BY <2>t, <2>1, <2>4 DEF DeleteRow, DbOK
  <2>5. ASSUME ReportMark(i) PROVE FALSE
    BY <2>t, <2>1, <2>5, SetStatusOK DEF ReportMark
  <2>6. ASSUME ReconcileConfirm(i) PROVE FALSE
    BY <2>t, <2>1, <2>6, SetStatusOK DEF ReconcileConfirm
  <2>7. CASE ChangeStatusWrite(i)
    <3>1. PICK to \in {0, 1} : SetStatus(req[i].f, {0, 1, 2}, to) /\ (to = 0 <=> req[i].op = "pause")
      BY <2>7 DEF ChangeStatusWrite
    <3>2. req[i].f = f /\ to = 1
      BY <2>t, <2>1, <2>7, <3>1, SetStatusOK DEF ChangeStatusWrite
    <3> QED
      BY <2>7, <3>1, <3>2 DEF ChangeStatusWrite, At
  <2> QED
    BY <2>1, <2>2, <2>3, <2>4, <2>5, <2>6, <2>7, StatusWriters
<1> QED
  BY <1>1, InitType, NextType, PTL DEF Spec, ManualPauseSticks

(***************************************************************************)
(* Where a step takes its request.                                         *)
(***************************************************************************)

\* The four ways to move a request on.
LEMMA MoveFacts ==
    ASSUME TypeInv, NEW i \in Requests
    PROVE  /\ Done(i) => req'[i] = Idle
           /\ \A place : Goto(i, place) => /\ req'[i].at = place /\ req'[i].op = req[i].op /\ req'[i].f = req[i].f
                                           /\ req'[i].p = req[i].p /\ req'[i].rows = req[i].rows
           /\ \A place, f, R : GotoRows(i, place, f, R) =>
                                /\ req'[i].at = place /\ req'[i].op = req[i].op /\ req'[i].f = f
                                /\ req'[i].p = req[i].p /\ req'[i].rows = R
           /\ \A o, f, place, p : Begin(i, o, f, place, p) =>
                                /\ req[i] = Idle /\ req'[i].at = place /\ req'[i].op = o /\ req'[i].f = f
                                /\ req'[i].p = p /\ req'[i].rows = {}
<1>1. req \in [Requests -> Request] /\ req[i] \in Request
  BY DEF TypeInv, TypeOK, Request
<1>2. Done(i) => req'[i] = Idle
  BY <1>1 DEF Done
<1>3. ASSUME NEW place, Goto(i, place)
      PROVE  /\ req'[i].at = place /\ req'[i].op = req[i].op /\ req'[i].f = req[i].f
             /\ req'[i].p = req[i].p /\ req'[i].rows = req[i].rows
  BY <1>1, <1>3 DEF Goto, Request
<1>4. ASSUME NEW place, NEW f, NEW R, GotoRows(i, place, f, R)
      PROVE  /\ req'[i].at = place /\ req'[i].op = req[i].op /\ req'[i].f = f
             /\ req'[i].p = req[i].p /\ req'[i].rows = R
  BY <1>1, <1>4 DEF GotoRows
<1>5. ASSUME NEW o, NEW f, NEW place, NEW p, Begin(i, o, f, place, p)
      PROVE  /\ req[i] = Idle /\ req'[i].at = place /\ req'[i].op = o /\ req'[i].f = f
             /\ req'[i].p = p /\ req'[i].rows = {}
  BY <1>1, <1>5 DEF Begin
<1> QED
  BY <1>2, <1>3, <1>4, <1>5

\* The steps that bring a request to the deletion of a row, or to a push of the tunnel.
LEMMA Arrivals ==
    ASSUME TypeInv, NEW i \in Requests, Step(i)
    PROVE  /\ req'[i].at = "unrow" => Undo(i) \/ \E f \in Forwards : DeleteBegin(i, f, TRUE)
           /\ req'[i].at \in {"sync", "push"} => Replays \/ req[i].at \in {"sync", "push"}
<1> DEFINE Goal == /\ req'[i].at = "unrow" => Undo(i) \/ \E f \in Forwards : DeleteBegin(i, f, TRUE)
                   /\ req'[i].at \in {"sync", "push"} => Replays \/ req[i].at \in {"sync", "push"}
<1>0. ASSUME req'[i].at \notin {"unrow", "sync", "push"} PROVE Goal
  BY <1>0
<1>d. ASSUME Done(i) PROVE Goal
  <2>1. req'[i].at = "none"
    BY <1>d, MoveFacts DEF Idle, None
  <2> QED
    BY <2>1, <1>0
<1>g. ASSUME NEW place, Goto(i, place) PROVE req'[i].at = place
  BY <1>g, MoveFacts
<1>r. ASSUME NEW place, NEW f, NEW R, GotoRows(i, place, f, R) PROVE req'[i].at = place
  BY <1>r, MoveFacts
<1>b. ASSUME NEW o, NEW f, NEW place, NEW p, Begin(i, o, f, place, p) PROVE req'[i].at = place
  BY <1>b, MoveFacts
<1> HIDE DEF Goal
<1>1. ASSUME (\E p \in Ports : CreateBegin(i, p)) \/ CreateCheck(i) \/ CreateAdd(i) \/ \E f \in Forwards : CreateInsert(i, f)
      PROVE  Goal
  BY <1>1, <1>0, <1>b, <1>d, <1>g, <1>r DEF CreateBegin, CreateCheck, CreateAdd, CreateInsert, Send
<1>2. ASSUME Undo(i) PROVE Goal
  BY <1>2, <1>g DEF Undo, Send, Goal
<1>3. ASSUME DeleteRow(i) \/ Abort(i) \/ ChangeStatusWrite(i) PROVE Goal
  BY <1>3, <1>d DEF DeleteRow, Abort, ChangeStatusWrite
<1>4. ASSUME NEW f \in Forwards, NEW force \in BOOLEAN, DeleteBegin(i, f, force) PROVE Goal
  <2>1. CASE force = TRUE
    BY <1>4, <2>1, <1>b DEF DeleteBegin, Goal
  <2>2. CASE force = FALSE
    BY <1>4, <2>2, <1>0, <1>b DEF DeleteBegin
  <2> QED
    BY <2>1, <2>2
<1>5. ASSUME \E f \in Forwards : \/ \E o \in {"pause", "resume"} : ChangeStatus(i, f, o)
                                 \/ \E exceeds, tunnelExceeds \in BOOLEAN : Report(i, f, exceeds, tunnelExceeds)
                                 \/ \E p \in Ports : Update(i, f, p)
      PROVE  Goal
  BY <1>5, <1>0, <1>b DEF ChangeStatus, Report, Update
<1>6. ASSUME ChangeStatusSend(i) \/ ReportDecide(i) \/ ReportList(i) \/ ReportMark(i) \/ UpdateCheck(i) PROVE Goal
  BY <1>6, <1>0, <1>d, <1>g, <1>r DEF ChangeStatusSend, Send, ReportDecide, ReportList, ReportMark, UpdateCheck
<1>7. ASSUME (\E exceeded \in BOOLEAN : UpdateWrite(i, exceeded) \/ TunnelUpdate(i, exceeded)) \/ Replay(i) PROVE Goal
  BY <1>7, <1>b, <1>g DEF UpdateWrite, TunnelUpdate, Replay, Goal
<1>8. ASSUME ReconcileRead(i) \/ ReconcileUsage(i) \/ ReconcileConfirm(i) PROVE Goal
  BY <1>8, <1>0, <1>g, <1>r DEF ReconcileRead, ReconcileUsage, ReconcileConfirm
<1>9. ASSUME SyncRead(i) \/ RowsDone(i) PROVE Goal
  BY <1>9, <1>d, <1>g, <1>r DEF SyncRead, RowsDone, Goal
<1>10. ASSUME NEW r \in req[i].rows, ReportStop(i, r) \/ ReconcileSend(i, r) PROVE Goal
  BY <1>10, <1>0, <1>r DEF ReportStop, ReconcileSend, Send
<1>11. ASSUME NEW r \in req[i].rows, SyncPush(i, r) PROVE Goal
  BY <1>11, <1>d, <1>r DEF SyncPush, Send, Goal
<1> QED
  BY <1>1, <1>2, <1>3, <1>4, <1>5, <1>6, <1>7, <1>8, <1>9, <1>10, <1>11 DEF Step, Goal

(***************************************************************************)
(* Which kinds of tunnels the commands of the panel name right.            *)
(***************************************************************************)

\* The commands name exactly the services of a forward: pause and resume for two kinds of
\* tunnels, the pause of a report for none, delete for all but one.
LEMMA NamesFact ==
    /\ StatusNames = Runs <=> Kind \in {"reverseQuic", "reverseAnytls"}
    /\ ReportNames # Runs
    /\ DeleteNames = Runs <=> Kind # "reverse"
<1>2. CASE Kind = "direct"
  BY <1>2 DEF StatusNames, ReportNames, DeleteNames, Runs
<1>3. CASE Kind = "relayAnytls"
  BY <1>3 DEF StatusNames, ReportNames, DeleteNames, Runs
<1>5. CASE Kind = "reverse"
  BY <1>5 DEF StatusNames, ReportNames, DeleteNames, Runs
<1>6. CASE Kind = "reverseQuic"
  BY <1>6 DEF StatusNames, ReportNames, DeleteNames, Runs
<1>7. CASE Kind = "reverseAnytls"
  BY <1>7 DEF StatusNames, ReportNames, DeleteNames, Runs
<1> QED
  BY <1>2, <1>3, <1>5, <1>6, <1>7, KindAssumption DEF Kinds

\* What a deletion does to the services of its forward.
LEMMA DeleteEffect ==
    ASSUME TypeInv, DeleteNames = Runs, NEW f \in Forwards
    PROVE  DeleteService(f).svc[f] \in {"absent", "failed"}
<1>1. svc \in [Forwards -> {"absent", "running", "paused", "failed"}]
  BY DEF TypeInv, TypeOK
<1> QED
  BY <1>1 DEF DeleteService, Known, Result, Refused

(***************************************************************************)
(* A deleted row leaves nothing on the node.                               *)
(***************************************************************************)

\* At most one request runs at a time.
OneRequest == \A i, j \in Requests : i = j

\* A step that brings a request to the deletion of a row has cleared the node before.
LEMMA NextClears ==
    ASSUME OneRequest, ~NetFaults, ~Restarts, DeleteNames = Runs, TypeInv, DeleteClears, [Next]_vars
    PROVE  DeleteClears'
<1>1. ASSUME NEW i \in Requests, Step(i), req'[i].at = "unrow", req'[i].op # "forceDelete"
      PROVE  svc'[req'[i].f] \in {"absent", "failed"}
  <2>1. ASSUME NEW f \in Forwards, DeleteBegin(i, f, TRUE) PROVE FALSE
    BY <1>1, <2>1, MoveFacts DEF DeleteBegin
  <2>2. Undo(i)
    BY <1>1, <2>1, Arrivals
  <2>3. req[i].f \in Forwards
    BY <2>2, ReqFact DEF Undo, HasRow
  <2>4. svc' = DeleteService(req[i].f).svc /\ Goto(i, "unrow")
    BY <2>2 DEF Undo, Send
  <2>5. req'[i].f = req[i].f
    BY <2>4, MoveFacts
  <2> QED
    BY <2>3, <2>4, <2>5, DeleteEffect
<1>2. ASSUME UNCHANGED vars PROVE DeleteClears'
  BY <1>2 DEF vars, node, DeleteClears
<1> QED
  BY <1>1, <1>2 DEF Next, Restart, OneRequest, DeleteClears

\* When a row is deleted the node has no service of the forward (DeleteClears), for every kind
\* of tunnel but "reverse", if requests run one after the other, no command is lost and the
\* agent is not restarted between the command and the deletion.
THEOREM DeleteClearsAlways ==
    ASSUME OneRequest, ~NetFaults, ~Restarts, Kind # "reverse"
    PROVE  Spec => []DeleteClears
<1>1. DeleteNames = Runs
  BY NamesFact
<1>2. Init => DeleteClears
  BY DEF Init, DeleteClears, Idle, None
<1>3. TypeInv /\ DeleteClears /\ [Next]_vars => DeleteClears'
  BY <1>1, NextClears
<1> QED
  BY <1>2, <1>3, InitType, NextType, PTL DEF Spec

(***************************************************************************)
(* A forward that is on is served.                                         *)
(***************************************************************************)

\* A request that accounts for a row whose services do not run.
Busy(i, f) == req[i].f = f /\ (req[i].op = "create" \/ req[i].at = "unrow")

\* The node only adds and deletes services, no tunnel is pushed, every row is served or in the
\* hands of a request, and running forwards hold different ports.
ServeInv ==
    /\ \A f \in Forwards : svc[f] \in {"absent", "running"}
    /\ \A i \in Requests : req[i].at \notin {"sync", "push"}
    /\ \A f \in Forwards : Exists(f) => svc[f] = "running" \/ \E i \in Requests : Busy(i, f)
    /\ \A f, g \in Forwards : f # g /\ svc[f] = "running" /\ svc[g] = "running" => bound[f] # bound[g]

\* A system that loses and pushes nothing, with a tunnel whose pauses the node refuses.
Served == ~NetFaults /\ ~Replays /\ Kind \in {"direct", "relayAnytls"}

\* The steps that change the services.
LEMMA SvcWriters ==
    ASSUME Served, ServeInv, NEW i \in Requests, Step(i)
    PROVE  UNCHANGED <<svc, bound>> \/ CreateAdd(i) \/ Undo(i)
<1>1. StatusNames # Runs /\ ReportNames # Runs
  BY NamesFact DEF Served
<1>2. \A f : /\ PauseService(f, StatusNames) = Refused /\ ResumeService(f, StatusNames) = Refused
             /\ PauseService(f, ReportNames) = Refused
  BY <1>1 DEF PauseService, ResumeService, Known
<1>3. Refused.svc = svc /\ Refused.bound = bound
  BY DEF Refused
<1>4. ASSUME ChangeStatusSend(i) PROVE UNCHANGED <<svc, bound>>
  BY <1>2, <1>3, <1>4 DEF ChangeStatusSend, Send, Served
<1>5. ASSUME NEW r \in req[i].rows, ReportStop(i, r) \/ ReconcileSend(i, r) PROVE UNCHANGED <<svc, bound>>
  BY <1>2, <1>3, <1>5 DEF ReportStop, ReconcileSend, Send, Served
<1>6. ASSUME NEW r \in req[i].rows, SyncPush(i, r) PROVE FALSE
  BY <1>6 DEF SyncPush, ServeInv
<1> QED
  BY <1>4, <1>5, <1>6 DEF Step, node, CreateBegin, CreateCheck, CreateInsert, DeleteRow, DeleteBegin, ChangeStatus,
     ChangeStatusWrite, Report, Update, ReportDecide, ReportList, ReportMark, UpdateCheck, UpdateWrite, TunnelUpdate,
     ReconcileRead, ReconcileUsage, ReconcileConfirm, Replay, SyncRead, RowsDone, Abort

\* A creation, and a request that is about to delete its row, keeps hold of the row until the
\* services run or the row is gone.
LEMMA BusyKept ==
    ASSUME Served, TypeInv, ServeInv, NEW i \in Requests, Step(i), NEW f \in Forwards, Busy(i, f)
    PROVE  Busy(i, f)' \/ svc'[f] = "running" \/ ~Exists(f)'
<1>t. DbOK /\ NodeOK(svc, bound)
  BY TypeParts
<1>1. CASE DeleteRow(i)
  BY <1>t, <1>1 DEF DeleteRow, Exists, DbOK, Busy
<1>2. CASE req[i].op = "create"
  <2>1. ASSUME CreateAdd(i) PROVE Busy(i, f)' \/ svc'[f] = "running"
    <3>1. CASE AddService(f, req[i].p).ok
      BY <1>t, <2>1, <3>1 DEF CreateAdd, Send, Served, AddService, Result, Refused, NodeOK, Busy
    <3>2. CASE ~AddService(f, req[i].p).ok
      <4>1. Goto(i, "undo")
        BY <2>1, <3>2 DEF CreateAdd, Send, Served, Busy
      <4> QED
        BY <1>2, <4>1, MoveFacts DEF Busy
    <3> QED
      BY <3>1, <3>2
  <2>2. ASSUME Undo(i) PROVE Busy(i, f)'
    <3>1. Goto(i, "unrow")
      BY <2>2 DEF Undo, Send
    <3> QED
      BY <1>2, <3>1, MoveFacts DEF Busy
  <2>3. ~CreateCheck(i) /\ ~Abort(i) /\ \A g \in Forwards : ~CreateInsert(i, g)
    BY DEF CreateCheck, CreateInsert, At, Abort, Served, Busy, TypeInv, Fit
  <2> QED
    BY <1>1, <1>2, <2>1, <2>2, <2>3, CreateSteps
<1>3. CASE req[i].at = "unrow"
  <2>1. req[i] # Idle
    BY <1>3 DEF Idle, None
  <2>2. DeleteRow(i)
    BY <1>3, <2>1 DEF Step, CreateBegin, CreateCheck, CreateAdd, Undo, CreateInsert, DeleteBegin, ChangeStatus, Report,
       Update, Begin, ChangeStatusSend, ChangeStatusWrite, ReportDecide, ReportList, ReportMark, UpdateCheck, UpdateWrite,
       TunnelUpdate, ReconcileRead, ReconcileUsage, ReconcileConfirm, Replay, SyncRead, RowsDone, Abort, Served,
       ReportStop, ReconcileSend, SyncPush, At
  <2> QED
    BY <1>1, <2>2
<1> QED
  BY <1>2, <1>3 DEF Busy

\* A row is inserted by the creation that keeps hold of it.
LEMMA RowsInserted ==
    ASSUME TypeInv, NEW i \in Requests, Step(i), NEW f \in Forwards, ~Exists(f), Exists(f)'
    PROVE  Busy(i, f)'
<1>t. DbOK
  BY TypeParts
<1>1. ASSUME NEW g \in Forwards, CreateInsert(i, g) PROVE Busy(i, f)'
  <2>1. f = g
    BY <1>t, <1>1 DEF CreateInsert, Exists, DbOK
  <2>2. GotoRows(i, "add", g, {}) /\ req[i].op = "create"
    BY <1>1 DEF CreateInsert, At
  <2> QED
    BY <2>1, <2>2, MoveFacts DEF Busy
<1>2. ASSUME DeleteRow(i) PROVE FALSE
  BY <1>t, <1>2 DEF DeleteRow, Exists, DbOK
<1>3. ASSUME ChangeStatusWrite(i) PROVE FALSE
  BY <1>t, <1>3, SetStatusOK DEF ChangeStatusWrite
<1>4. ASSUME ReportMark(i) PROVE FALSE
  BY <1>t, <1>4, SetStatusOK DEF ReportMark
<1>5. ASSUME ReconcileConfirm(i) PROVE FALSE
  BY <1>t, <1>5, SetStatusOK DEF ReconcileConfirm
<1> QED
  BY <1>1, <1>2, <1>3, <1>4, <1>5, StatusWriters DEF Exists

\* ServeInv is inductive with the types.
LEMMA NextServe ==
    ASSUME Served, TypeInv, ServeInv, [Next]_vars
    PROVE  ServeInv'
<1>t. DbOK /\ NodeOK(svc, bound)
  BY TypeParts
<1>1. ASSUME NEW i \in Requests, Step(i) PROVE ServeInv'
  <2>1. ASSUME CreateAdd(i) PROVE /\ \A f \in Forwards : svc'[f] \in {"absent", "running"} /\ (svc[f] = "running" => svc'[f] = "running")
                                  /\ \A f, g \in Forwards : f # g /\ svc'[f] = "running" /\ svc'[g] = "running" => bound'[f] # bound'[g]
    <3> DEFINE h == req[i].f
               x == AddService(h, req[i].p)
    <3>1. h \in Forwards /\ svc' = x.svc /\ bound' = x.bound
      BY <2>1, ReqFact DEF CreateAdd, Send, Served, At, HasRow
    <3>2. CASE x = Refused
      BY <3>1, <3>2 DEF Refused, ServeInv
    <3>3. CASE x # Refused
      <4>1. ~Held(h, req[i].p) /\ x = Result(h, "running", req[i].p, TRUE)
        BY <3>3 DEF AddService
      <4>2. \A g \in Forwards \ {h} : svc[g] = "running" => bound[g] # req[i].p
        BY <4>1 DEF Held, Reverse, Served
      <4>3. \A g \in Forwards : /\ svc'[g] = IF g = h THEN "running" ELSE svc[g]
                                /\ bound'[g] = IF g = h THEN req[i].p ELSE bound[g]
        BY <1>t, <3>1, <4>1 DEF Result, NodeOK
      <4> QED
        BY <4>2, <4>3 DEF ServeInv
    <3> QED
      BY <3>2, <3>3
  <2>2. ASSUME Undo(i) PROVE /\ \A f \in Forwards : /\ svc'[f] \in {"absent", "running"}
                                                    /\ svc[f] = "running" => svc'[f] = "running" \/ Busy(i, f)'
                             /\ \A f, g \in Forwards : f # g /\ svc'[f] = "running" /\ svc'[g] = "running" => bound'[f] # bound'[g]
    <3> DEFINE h == req[i].f
    <3>1. /\ h \in Forwards /\ Goto(i, "unrow")
          /\ svc' = DeleteService(h).svc /\ bound' = DeleteService(h).bound
      BY <2>2, ReqFact DEF Undo, Send, Served, HasRow
    <3>2. ASSUME NEW f \in Forwards, f = h PROVE Busy(i, f)'
      BY <3>1, <3>2, MoveFacts DEF Busy
    <3>3. \A g \in Forwards : /\ g # h => svc'[g] = svc[g] /\ bound'[g] = bound[g]
                              /\ svc'[g] \in {"absent", "running"}
                              /\ svc'[g] = "running" => svc[g] = "running" /\ bound'[g] = bound[g]
      BY <1>t, <3>1 DEF DeleteService, Result, Refused, NodeOK, ServeInv
    <3> QED
      BY <3>2, <3>3 DEF ServeInv
  <2>3. /\ \A f \in Forwards : /\ svc'[f] \in {"absent", "running"}
                               /\ svc[f] = "running" => svc'[f] = "running" \/ Busy(i, f)'
        /\ \A f, g \in Forwards : f # g /\ svc'[f] = "running" /\ svc'[g] = "running" => bound'[f] # bound'[g]
    BY <1>1, <2>1, <2>2, SvcWriters DEF ServeInv
  <2>4. \A j \in Requests : req'[j].at \notin {"sync", "push"}
    BY <1>1, Arrivals, StepLocal DEF Served, ServeInv
  <2>5. ASSUME NEW f \in Forwards, Exists(f)' PROVE svc'[f] = "running" \/ \E j \in Requests : Busy(j, f)'
    <3>1. CASE ~Exists(f)
      BY <1>1, <2>5, <3>1, RowsInserted
    <3>2. CASE svc[f] = "running"
      BY <2>3, <3>2
    <3>3. ASSUME NEW j \in Requests, Busy(j, f), j # i PROVE Busy(j, f)'
      BY <1>1, <3>3, StepLocal DEF Busy
    <3>4. ASSUME Busy(i, f) PROVE Busy(i, f)' \/ svc'[f] = "running"
      BY <1>1, <2>5, <3>4, BusyKept
    <3> QED
      BY <3>1, <3>2, <3>3, <3>4 DEF ServeInv
  <2> QED
    BY <2>3, <2>4, <2>5 DEF ServeInv
<1>2. ASSUME Restart PROVE ServeInv'
  <2>1. svc' = svc
    BY <1>t, <1>2 DEF Restart, ServeInv, NodeOK
  <2> QED
    BY <1>2, <2>1 DEF Restart, ServeInv, Busy, Exists, db
<1>3. ASSUME UNCHANGED vars PROVE ServeInv'
  BY <1>3 DEF vars, db, node, ServeInv, Busy, Exists
<1> QED
  BY <1>1, <1>2, <1>3 DEF Next

\* A forward that is on runs on the node, on a port of its own (OnIsServed), however many
\* creations, edits, pauses, reports and deletions overlap and whenever the agent restarts, in
\* a direct tunnel or at the entry of a relay, while no command is lost and no tunnel pushed.
THEOREM OnIsServedAlways ==
    ASSUME ~NetFaults, ~Replays, Kind \in {"direct", "relayAnytls"}
    PROVE  Spec => []OnIsServed
<1>1. Served
  BY DEF Served
<1>2. Init => ServeInv
  BY DEF Init, ServeInv, Exists, Idle, None
<1>3. TypeInv /\ ServeInv /\ [Next]_vars => ServeInv'
  BY <1>1, NextServe
<1>4. ServeInv => OnIsServed
  BY DEF ServeInv, OnIsServed, Exists, Busy
<1> QED
  BY <1>2, <1>3, <1>4, InitType, NextType, PTL DEF Spec

(***************************************************************************)
(* The panel implements ForwardLife.                                       *)
(***************************************************************************)

\* What a request asks for, by its operation.
LEMMA WishFact ==
    ASSUME NEW q
    PROVE  /\ q.op \in {"create", "pause", "resume"} => WishOf(q) = [op |-> q.op, f |-> q.f]
           /\ q.op \in {"delete", "forceDelete"} => WishOf(q) = [op |-> "delete", f |-> q.f]
           /\ q.op \in {"report", "update", "tunnel", "replay", None} => WishOf(q) = Life!NoWish
BY DEF WishOf, None, Life!NoWish

\* A request that is not under way asks for nothing.
LEMMA IdleWish == WishOf(Idle) = Life!NoWish
BY WishFact DEF Idle

\* A step of a request changes no other wish.
LEMMA WishMoves ==
    ASSUME TypeInv, NEW i \in Requests, Step(i)
    PROVE  [j \in Requests |-> WishOf(req[j])]' = [[j \in Requests |-> WishOf(req[j])] EXCEPT ![i] = WishOf(req'[i])]
<1>1. ASSUME NEW j \in Requests
      PROVE  WishOf(req[j])' = IF j = i THEN WishOf(req'[i]) ELSE WishOf(req[j])
  BY <1>1, StepLocal
<1>2. [j \in Requests |-> WishOf(req[j])]' = [j \in Requests |-> IF j = i THEN WishOf(req'[i]) ELSE WishOf(req[j])]
  BY <1>1, Zenon
<1>3. [[j \in Requests |-> WishOf(req[j])] EXCEPT ![i] = WishOf(req'[i])]
        = [j \in Requests |-> IF j = i THEN WishOf(req'[i]) ELSE WishOf(req[j])]
  BY Zenon
<1> QED
  BY <1>2, <1>3

\* A step that writes no status leaves the forwards as they were.
LEMMA LifeSame ==
    ASSUME status' = status, given' = given
    PROVE  [f \in Forwards |-> LifeOf(status[f], f \in given)]' = [f \in Forwards |-> LifeOf(status[f], f \in given)]
OBVIOUS

\* What the status of a row says of its forward.
LEMMA LifeNames ==
    LifeOf(1, TRUE) = "on" /\ LifeOf(0, TRUE) = "paused" /\ LifeOf(2, TRUE) = "over" /\ LifeOf(-1, TRUE) = "gone"
BY SMT DEF LifeOf

\* A statement that writes the status of one row.
LEMMA LifeMoves ==
    ASSUME TypeInv, NEW f \in Forwards, NEW s \in {-1, 0, 1, 2}, status' = [status EXCEPT ![f] = s],
           given' = given \cup {f}, NEW l, LifeOf(s, TRUE) = l
    PROVE  [g \in Forwards |-> LifeOf(status[g], g \in given)]' = [[g \in Forwards |-> LifeOf(status[g], g \in given)] EXCEPT ![f] = l]
<1>1. status \in [Forwards -> {-1, 0, 1, 2}]
  BY DEF TypeInv, TypeOK
<1>2. ASSUME NEW g \in Forwards
      PROVE  LifeOf(status'[g], g \in given') = IF g = f THEN l ELSE LifeOf(status[g], g \in given)
  <2>1. CASE g = f
    <3>1. status'[g] = s /\ g \in given'
      BY <1>1, <2>1
    <3> QED
      BY <2>1, <3>1, SMT DEF LifeOf
  <2>2. CASE g # f
    <3>1. status'[g] = status[g] /\ (g \in given' <=> g \in given)
      BY <1>1, <2>2
    <3> QED
      BY <2>2, <3>1
  <2> QED
    BY <2>1, <2>2
<1>3. [g \in Forwards |-> LifeOf(status[g], g \in given)]' = [g \in Forwards |-> IF g = f THEN l ELSE LifeOf(status[g], g \in given)]
  BY <1>2
<1>4. [[g \in Forwards |-> LifeOf(status[g], g \in given)] EXCEPT ![f] = l] = [g \in Forwards |-> IF g = f THEN l ELSE LifeOf(status[g], g \in given)]
  <2> DEFINE F == [g \in Forwards |-> LifeOf(status[g], g \in given)]
  <2>1. \A g \in Forwards : F[g] = LifeOf(status[g], g \in given)
    OBVIOUS
  <2>2. F = [g \in Forwards |-> F[g]]
    OBVIOUS
  <2> HIDE DEF F
  <2>3. [F EXCEPT ![f] = l] = [g \in Forwards |-> IF g = f THEN l ELSE F[g]]
    BY <2>2
  <2>4. [g \in Forwards |-> IF g = f THEN l ELSE F[g]] = [g \in Forwards |-> IF g = f THEN l ELSE LifeOf(status[g], g \in given)]
    BY <2>1
  <2> QED
    BY <2>3, <2>4 DEF F
<1> QED
  BY <1>3, <1>4

\* What the life of a forward says of its row.
LEMMA LifeFact ==
    ASSUME TypeInv, NEW f \in Forwards
    PROVE  /\ LifeOf(status[f], f \in given) = "on" <=> status[f] = 1
           /\ LifeOf(status[f], f \in given) = "paused" <=> status[f] = 0
           /\ LifeOf(status[f], f \in given) = "over" <=> status[f] = 2
           /\ LifeOf(status[f], f \in given) = "none" <=> f \notin given
           /\ Exists(f) <=> LifeOf(status[f], f \in given) \in {"on", "paused", "over"}
<1>1. status[f] \in {-1, 0, 1, 2} /\ (Exists(f) => f \in given)
  BY DEF TypeInv, TypeOK
<1> QED
  BY <1>1 DEF LifeOf, Exists

\* Steps the administrators do not see, and requests that end without effect.
LEMMA QuietStep ==
    ASSUME TypeInv, NEW i \in Requests, Step(i), UNCHANGED <<status, given, acked>>,
           \/ WishOf(req'[i]) = WishOf(req[i])
           \/ Done(i) /\ (req[i].op = "create" => req[i].f = None)
    PROVE  [Life!Next]_(Life!vars)
<1>1. [f \in Forwards |-> LifeOf(status[f], f \in given)]' = [f \in Forwards |-> LifeOf(status[f], f \in given)]
  BY LifeSame
<1>2. [j \in Requests |-> WishOf(req[j])]' = [[j \in Requests |-> WishOf(req[j])] EXCEPT ![i] = WishOf(req'[i])]
  BY WishMoves
<1>3. CASE WishOf(req'[i]) = WishOf(req[i])
  <2>1. [[j \in Requests |-> WishOf(req[j])] EXCEPT ![i] = WishOf(req[i])] = [j \in Requests |-> WishOf(req[j])]
    BY Zenon
  <2> QED
    BY <1>1, <1>2, <1>3, <2>1 DEF Life!vars
<1>4. CASE Done(i) /\ (req[i].op = "create" => req[i].f = None)
  <2>1. WishOf(req'[i]) = Life!NoWish
    BY <1>4, MoveFacts, IdleWish
  <2>2. WishOf(req[i]).op = "create" => WishOf(req[i]).f = "none"
    <3>1. req[i].op \in {"create", "pause", "resume", "delete", "forceDelete", "report", "update", "tunnel", "replay", None}
      BY ReqFact DEF Request, Ops
    <3> QED
      BY <1>4, <3>1, WishFact, SMT DEF Life!NoWish, None
  <2>3. Life!Fail(i)
    BY <1>1, <1>2, <2>1, <2>2 DEF Life!Fail, Life!Ended
  <2> QED
    BY <2>3 DEF Life!Next
<1> QED
  BY <1>3, <1>4

\* The statements of reports, edits and replays that write no status, and those of the
\* administrators' own requests before their last one.
LEMMA QuietSteps ==
    ASSUME TypeInv, NEW i \in Requests, Step(i)
    PROVE  \/ [Life!Next]_(Life!vars)
           \/ \E p \in Ports : CreateBegin(i, p)
           \/ \E f \in Forwards : \/ CreateInsert(i, f)
                                  \/ \E force \in BOOLEAN : DeleteBegin(i, f, force)
                                  \/ \E o \in {"pause", "resume"} : ChangeStatus(i, f, o)
           \/ CreateAdd(i) \/ DeleteRow(i) \/ ChangeStatusWrite(i) \/ ReportMark(i) \/ ReconcileConfirm(i)
<1> DEFINE Others == {"report", "update", "tunnel", "replay", None}
           Same   == UNCHANGED <<status, given, acked>>
<1>t. req[i].at \in PlacesOf(req[i].op) /\ req[i].op \in Ops \cup {None}
  BY ReqFact DEF Request
<1>1. ASSUME Same, req[i].op \in Others, req'[i].op \in Others PROVE [Life!Next]_(Life!vars)
  BY <1>1, WishFact, QuietStep
<1>2. ASSUME Same, req'[i].op = req[i].op, req'[i].f = req[i].f PROVE [Life!Next]_(Life!vars)
  BY <1>2, QuietStep DEF WishOf
<1>3. ASSUME Same, Done(i), req[i].op # "create" PROVE [Life!Next]_(Life!vars)
  BY <1>3, QuietStep
<1>4. CASE CreateCheck(i) \/ Undo(i) \/ ChangeStatusSend(i) \/ Abort(i)
  <2>1. Same
    BY <1>4 DEF CreateCheck, Undo, ChangeStatusSend, Abort, db
  <2>2. CASE CreateCheck(i)
    <3>1. req[i].f = None
      BY <2>2 DEF CreateCheck, At, TypeInv, Fit
    <3>2. Done(i) \/ Goto(i, "insert")
      BY <2>2 DEF CreateCheck
    <3> QED
      BY <1>2, <2>1, <3>1, <3>2, MoveFacts, QuietStep
  <2>3. CASE Undo(i)
    BY <1>2, <2>1, <2>3, MoveFacts DEF Undo, Send
  <2>4. CASE ChangeStatusSend(i)
    <3>1. Goto(i, "write") \/ Done(i)
      BY <2>4 DEF ChangeStatusSend, Send
    <3> QED
      BY <1>2, <1>3, <2>1, <2>4, <3>1, MoveFacts DEF ChangeStatusSend
  <2>5. CASE Abort(i)
    <3>1. Done(i) /\ (req[i].op = "create" => req[i].at = "check")
      BY <1>t, <2>5, PlacesFact DEF Abort
    <3>2. req[i].op = "create" => req[i].f = None
      BY <3>1 DEF TypeInv, Fit
    <3> QED
      BY <2>1, <3>1, <3>2, QuietStep
  <2> QED
    BY <1>4, <2>2, <2>3, <2>4, <2>5
<1>5. CASE \/ \E f \in Forwards : \/ \E exceeds, tunnelExceeds \in BOOLEAN : Report(i, f, exceeds, tunnelExceeds)
                                  \/ \E p \in Ports : Update(i, f, p)
           \/ \E exceeded \in BOOLEAN : TunnelUpdate(i, exceeded)
           \/ Replay(i)
  <2>1. Same
    BY <1>5 DEF Report, Update, TunnelUpdate, Replay, db
  <2>2. req[i] = Idle /\ req'[i].op \in Others
    BY <1>5, MoveFacts DEF Report, Update, TunnelUpdate, Replay
  <2>3. req[i].op = None
    BY <2>2 DEF Idle
  <2> QED
    BY <1>1, <2>1, <2>2, <2>3
<1>6. CASE \/ ReportDecide(i) \/ ReportList(i) \/ UpdateCheck(i) \/ (\E exceeded \in BOOLEAN : UpdateWrite(i, exceeded))
           \/ ReconcileRead(i) \/ ReconcileUsage(i) \/ SyncRead(i) \/ RowsDone(i)
           \/ \E r \in req[i].rows : ReportStop(i, r) \/ ReconcileSend(i, r) \/ SyncPush(i, r)
  <2>1. Same
    BY <1>6 DEF ReportDecide, ReportList, UpdateCheck, UpdateWrite, ReconcileRead, ReconcileUsage, SyncRead, RowsDone,
       ReportStop, ReconcileSend, SyncPush, db
  <2>2. req[i].at \in {"decide", "list", "stop", "ucheck", "uwrite", "read", "usage", "reconcile", "sync", "push"}
    BY <1>6 DEF ReportDecide, ReportList, UpdateCheck, UpdateWrite, ReconcileRead, ReconcileUsage, SyncRead, RowsDone,
       ReportStop, ReconcileSend, SyncPush, At
  <2>3. req[i].op \in Others
    BY <1>t, <2>2, PlacesFact DEF Ops
  <2>4. Done(i) \/ (\E place : Goto(i, place)) \/ (\E place, f, R : GotoRows(i, place, f, R))
    BY <1>6 DEF ReportDecide, ReportList, UpdateCheck, UpdateWrite, ReconcileRead, ReconcileUsage, SyncRead, RowsDone,
       ReportStop, ReconcileSend, SyncPush, Send
  <2>5. req'[i].op \in Others
    BY <2>3, <2>4, MoveFacts DEF Idle
  <2> QED
    BY <1>1, <2>1, <2>3, <2>5
<1> QED
  BY <1>4, <1>5, <1>6 DEF Step

\* A request of an administrator begins.
LEMMA AskSteps ==
    ASSUME TypeInv, NEW i \in Requests, Step(i),
           \/ \E p \in Ports : CreateBegin(i, p)
           \/ \E f \in Forwards : \/ \E force \in BOOLEAN : DeleteBegin(i, f, force)
                                  \/ \E o \in {"pause", "resume"} : ChangeStatus(i, f, o)
    PROVE  Life!Next
<1>1. UNCHANGED <<status, given, acked>>
  BY DEF CreateBegin, DeleteBegin, ChangeStatus, db
<1>2. [f \in Forwards |-> LifeOf(status[f], f \in given)]' = [f \in Forwards |-> LifeOf(status[f], f \in given)]
  BY <1>1, LifeSame
<1>3. [j \in Requests |-> WishOf(req[j])]' = [[j \in Requests |-> WishOf(req[j])] EXCEPT ![i] = WishOf(req'[i])]
  BY WishMoves
<1>4. WishOf(req[i]) = Life!NoWish
  BY IdleWish DEF CreateBegin, DeleteBegin, ChangeStatus, Begin
<1>5. ASSUME NEW p \in Ports, CreateBegin(i, p) PROVE Life!Next
  <2>1. WishOf(req'[i]) = [op |-> "create", f |-> "none"]
    BY <1>5, MoveFacts, WishFact DEF CreateBegin, None
  <2>2. Life!AskCreate(i)
    BY <1>1, <1>2, <1>3, <1>4, <2>1 DEF Life!AskCreate
  <2> QED
    BY <2>2 DEF Life!Next
<1>6. ASSUME NEW f \in Forwards, NEW o \in {"delete", "pause", "resume"}, Exists(f), WishOf(req'[i]) = [op |-> o, f |-> f]
      PROVE  Life!Next
  <2>1. Life!Alive(f)
    BY <1>6, LifeFact DEF Life!Alive
  <2>2. Life!Ask(i, o, f)
    BY <1>1, <1>2, <1>3, <1>4, <1>6, <2>1 DEF Life!Ask
  <2> QED
    BY <1>6, <2>2 DEF Life!Next
<1>7. ASSUME NEW f \in Forwards, NEW force \in BOOLEAN, DeleteBegin(i, f, force) PROVE Life!Next
  <2>1. Exists(f) /\ req'[i].op \in {"delete", "forceDelete"} /\ req'[i].f = f
    BY <1>7, MoveFacts DEF DeleteBegin
  <2> QED
    BY <1>6, <2>1, WishFact
<1>8. ASSUME NEW f \in Forwards, NEW o \in {"pause", "resume"}, ChangeStatus(i, f, o) PROVE Life!Next
  <2>1. Exists(f) /\ req'[i].op = o /\ req'[i].f = f
    BY <1>8, MoveFacts DEF ChangeStatus
  <2> QED
    BY <1>6, <2>1, WishFact
<1> QED
  BY <1>5, <1>7, <1>8

\* A creation inserts its row, and is confirmed or goes on to undo itself.
LEMMA CreateLife ==
    ASSUME TypeInv, NEW i \in Requests, Step(i), CreateAdd(i) \/ \E f \in Forwards : CreateInsert(i, f)
    PROVE  [Life!Next]_(Life!vars)
<1>1. [j \in Requests |-> WishOf(req[j])]' = [[j \in Requests |-> WishOf(req[j])] EXCEPT ![i] = WishOf(req'[i])]
  BY WishMoves
<1>2. req[i].op = "create" /\ WishOf(req[i]) = [op |-> "create", f |-> req[i].f]
  BY WishFact DEF CreateAdd, CreateInsert, At
<1>3. ASSUME NEW f \in Forwards, CreateInsert(i, f) PROVE Life!Next
  <2>1. req[i].f = "none" /\ f \notin given
    BY <1>3 DEF CreateInsert, At, TypeInv, Fit, None
  <2>2. [g \in Forwards |-> LifeOf(status[g], g \in given)]' = [[g \in Forwards |-> LifeOf(status[g], g \in given)] EXCEPT ![f] = "on"]
    BY <1>3, LifeMoves, LifeNames DEF CreateInsert
  <2>3. LifeOf(status[f], f \in given) = "none" /\ acked' = acked
    BY <1>3, <2>1, LifeFact DEF CreateInsert
  <2>4. WishOf(req'[i]) = [op |-> "create", f |-> f]
    BY <1>2, <1>3, MoveFacts, WishFact DEF CreateInsert
  <2>5. Life!Insert(i, f)
    BY <1>1, <1>2, <2>1, <2>2, <2>3, <2>4 DEF Life!Insert, Life!Asked, Life!Becomes
  <2> QED
    BY <2>5 DEF Life!Next
<1>4. CASE CreateAdd(i)
  <2>1. req[i].f \in Forwards
    BY <1>4, ReqFact DEF CreateAdd, At, HasRow
  <2>2. status' = status /\ given' = given
    BY <1>4 DEF CreateAdd
  <2>3. CASE Done(i) /\ acked' = acked \cup {req[i].f}
    <3>1. WishOf(req'[i]) = Life!NoWish
      BY <2>3, MoveFacts, IdleWish
    <3>2. Life!Confirm(i, req[i].f)
      BY <1>1, <1>2, <2>2, <2>3, <3>1, LifeSame DEF Life!Confirm, Life!Asked, Life!Ended
    <3> QED
      BY <2>1, <3>2 DEF Life!Next
  <2>4. CASE Goto(i, "undo") /\ acked' = acked
    <3>1. WishOf(req'[i]) = WishOf(req[i])
      BY <2>4, MoveFacts DEF WishOf
    <3> QED
      BY <2>2, <2>4, <3>1, QuietStep
  <2> QED
    BY <1>4, <2>3, <2>4 DEF CreateAdd, Send
<1> QED
  BY <1>3, <1>4

\* A row is deleted for a deletion, or for a creation that has failed.
LEMMA DeleteLife ==
    ASSUME TypeInv, NEW i \in Requests, Step(i), DeleteRow(i)
    PROVE  Life!Next
<1>1. [j \in Requests |-> WishOf(req[j])]' = [[j \in Requests |-> WishOf(req[j])] EXCEPT ![i] = WishOf(req'[i])]
  BY WishMoves
<1>2. req[i].f \in Forwards /\ req[i].f \in given
  BY ReqFact DEF DeleteRow, HasRow
<1>3. req[i].op \in {"create", "delete", "forceDelete"}
  <2>1. "unrow" \in PlacesOf(req[i].op) /\ req[i].op \in Ops \cup {None}
    BY ReqFact DEF DeleteRow, Request
  <2> QED
    BY <2>1, PlacesFact DEF Ops, Reconciling, None
<1>4. PICK o \in {"create", "delete"} : WishOf(req[i]) = [op |-> o, f |-> req[i].f]
  BY <1>3, WishFact
<1>5. [g \in Forwards |-> LifeOf(status[g], g \in given)]'
        = [[g \in Forwards |-> LifeOf(status[g], g \in given)] EXCEPT ![req[i].f] = "gone"]
  <2>1. status' = [status EXCEPT ![req[i].f] = -1] /\ given' = given \cup {req[i].f}
    BY <1>2 DEF DeleteRow
  <2> QED
    BY <1>2, <2>1, LifeMoves, LifeNames
<1>6. WishOf(req'[i]) = Life!NoWish /\ acked' = acked
  BY MoveFacts, IdleWish DEF DeleteRow
<1>7. Life!Remove(i, req[i].f)
  BY <1>1, <1>4, <1>5, <1>6 DEF Life!Remove, Life!Asked, Life!Becomes, Life!Ended
<1> QED
  BY <1>2, <1>7 DEF Life!Next

\* The status of a row is written for a pause or a resume.
LEMMA ChangeStatusLife ==
    ASSUME TypeInv, NEW i \in Requests, Step(i), ChangeStatusWrite(i)
    PROVE  [Life!Next]_(Life!vars)
<1>1. [j \in Requests |-> WishOf(req[j])]' = [[j \in Requests |-> WishOf(req[j])] EXCEPT ![i] = WishOf(req'[i])]
  BY WishMoves
<1>2. req[i].f \in Forwards /\ req[i].f \in given /\ req[i].op \in {"pause", "resume"} /\ acked' = acked /\ given' = given
  BY ReqFact DEF ChangeStatusWrite, HasRow
<1>3. WishOf(req[i]) = [op |-> req[i].op, f |-> req[i].f] /\ WishOf(req'[i]) = Life!NoWish
  BY <1>2, WishFact, MoveFacts, IdleWish DEF ChangeStatusWrite
<1>4. CASE ~Exists(req[i].f)
  <2>1. status' = status
    BY <1>2, <1>4 DEF ChangeStatusWrite, SetStatus, Exists
  <2> QED
    BY <1>2, <2>1, QuietStep DEF ChangeStatusWrite
<1>5. CASE Exists(req[i].f)
  <2>1. Life!Alive(req[i].f)
    BY <1>2, <1>5, LifeFact DEF Life!Alive
  <2>2. status[req[i].f] \in {0, 1, 2} /\ given' = given \cup {req[i].f}
    BY <1>2, <1>5 DEF TypeInv, TypeOK, Exists
  <2>3. CASE req[i].op = "pause"
    <3>1. status' = [status EXCEPT ![req[i].f] = 0]
      BY <2>2, <2>3 DEF ChangeStatusWrite, SetStatus
    <3>2. [g \in Forwards |-> LifeOf(status[g], g \in given)]'
            = [[g \in Forwards |-> LifeOf(status[g], g \in given)] EXCEPT ![req[i].f] = "paused"]
      BY <1>2, <2>2, <3>1, LifeMoves, LifeNames
    <3>3. Life!Pause(i, req[i].f)
      BY <1>1, <1>2, <1>3, <2>1, <2>3, <3>2 DEF Life!Pause, Life!Asked, Life!Becomes, Life!Ended
    <3> QED
      BY <1>2, <3>3 DEF Life!Next
  <2>4. CASE req[i].op = "resume"
    <3>1. status' = [status EXCEPT ![req[i].f] = 1]
      BY <2>2, <2>4 DEF ChangeStatusWrite, SetStatus
    <3>2. [g \in Forwards |-> LifeOf(status[g], g \in given)]'
            = [[g \in Forwards |-> LifeOf(status[g], g \in given)] EXCEPT ![req[i].f] = "on"]
      BY <1>2, <2>2, <3>1, LifeMoves, LifeNames
    <3>3. Life!Resume(i, req[i].f)
      BY <1>1, <1>2, <1>3, <2>1, <2>4, <3>2 DEF Life!Resume, Life!Asked, Life!Becomes, Life!Ended
    <3> QED
      BY <1>2, <3>3 DEF Life!Next
  <2> QED
    BY <1>2, <2>3, <2>4
<1> QED
  BY <1>4, <1>5

\* Reports and reconciliations move a row between on and over its quota.
LEMMA QuotaLife ==
    ASSUME TypeInv, NEW i \in Requests, Step(i), ReportMark(i) \/ ReconcileConfirm(i)
    PROVE  [Life!Next]_(Life!vars)
<1>1. req[i].f \in Forwards /\ req[i].f \in given /\ UNCHANGED <<given, acked>>
  BY ReqFact DEF ReportMark, ReconcileConfirm, At, HasRow
<1>2. WishOf(req'[i]) = WishOf(req[i])
  BY MoveFacts DEF ReportMark, ReconcileConfirm, WishOf
<1>3. \/ status' = status
      \/ status[req[i].f] = 1 /\ status' = [status EXCEPT ![req[i].f] = 2]
      \/ status[req[i].f] = 2 /\ status' = [status EXCEPT ![req[i].f] = 1]
  BY DEF ReportMark, ReconcileConfirm, SetStatus
<1>4. CASE status' = status
  BY <1>1, <1>2, <1>4, QuietStep
<1>5. CASE status' # status
  <2>1. PICK s \in {1, 2} : status[req[i].f] \in {1, 2} /\ status' = [status EXCEPT ![req[i].f] = s]
    BY <1>3, <1>5
  <2>2. PICK l \in {"on", "over"} : l = IF s = 1 THEN "on" ELSE "over"
    OBVIOUS
  <2>3. LifeOf(s, TRUE) = l
    BY <2>2, LifeNames
  <2>4. given' = given \cup {req[i].f}
    BY <1>1
  <2>5. [g \in Forwards |-> LifeOf(status[g], g \in given)]'
          = [[g \in Forwards |-> LifeOf(status[g], g \in given)] EXCEPT ![req[i].f] = l]
    BY <1>1, <2>1, <2>3, <2>4, LifeMoves
  <2>6. LifeOf(status[req[i].f], req[i].f \in given) \in {"on", "over"}
    BY <1>1, <2>1, LifeFact
  <2>7. [j \in Requests |-> WishOf(req[j])]' = [j \in Requests |-> WishOf(req[j])]
    <3>1. [j \in Requests |-> WishOf(req[j])]' = [[j \in Requests |-> WishOf(req[j])] EXCEPT ![i] = WishOf(req[i])]
      BY <1>2, WishMoves
    <3>2. [[j \in Requests |-> WishOf(req[j])] EXCEPT ![i] = WishOf(req[i])] = [j \in Requests |-> WishOf(req[j])]
      BY Zenon
    <3> QED
      BY <3>1, <3>2
  <2>8. Life!Quota(req[i].f)
    BY <1>1, <2>2, <2>5, <2>6, <2>7 DEF Life!Quota, Life!Becomes
  <2> QED
    BY <1>1, <2>8 DEF Life!Next
<1> QED
  BY <1>4, <1>5

\* Every step of the panel is a step of ForwardLife, or one it does not see.
LEMMA LifeStep == TypeInv /\ [Next]_vars => [Life!Next]_(Life!vars)
<1> SUFFICES ASSUME TypeInv, [Next]_vars PROVE [Life!Next]_(Life!vars)
  OBVIOUS
<1>1. ASSUME NEW i \in Requests, Step(i) PROVE [Life!Next]_(Life!vars)
  BY <1>1, QuietSteps, AskSteps, CreateLife, DeleteLife, ChangeStatusLife, QuotaLife
<1>2. CASE Restart \/ UNCHANGED vars
  <2>1. UNCHANGED <<status, given, acked, req>>
    BY <1>2 DEF Restart, vars, db
  <2> QED
    BY <2>1, LifeSame DEF Life!vars
<1> QED
  BY <1>1, <1>2 DEF Next

\* The panel implements ForwardLife (LifeKept) for any number of forwards and of concurrent
\* requests, for every kind of tunnel, and whatever is lost, given up, replayed or restarted.
THEOREM LifeKeptAlways == Spec => LifeKept
<1>1. Init => Life!Init
  <2> SUFFICES ASSUME Init PROVE Life!Init
    OBVIOUS
  <2>1. [f \in Forwards |-> LifeOf(status[f], f \in given)] = [f \in Forwards |-> "none"]
    BY SMT DEF Init, LifeOf
  <2>2. \A i \in Requests : WishOf(req[i]) = Life!NoWish
    BY IdleWish DEF Init
  <2> QED
    BY <2>1, <2>2 DEF Init, Life!Init
<1> QED
  BY <1>1, InitType, NextType, LifeStep, PTL DEF Spec, LifeKept, Life!Spec
=============================================================================
