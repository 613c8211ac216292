--------------------------- MODULE AgentServices ---------------------------
(***************************************************************************)
(* The service manager of the RelayForge agent (go-gost/x/socket): what    *)
(* the panel's AddService, UpdateService, SyncService, DeleteService,      *)
(* PauseService and ResumeService commands do to                           *)
(*                                                                         *)
(*   registry   the service registry: service name -> endpoint of the      *)
(*              registered service object, or None;                        *)
(*   listeners  which service object (by name) holds each endpoint; an     *)
(*              endpoint is a protocol and an address to listen on, and is *)
(*              held by one socket at a time;                              *)
(*   config     config.Global().Services, as the entries of each name in   *)
(*              order (no command looks at the order of different names);  *)
(*   file       gost.json, the copy of config read at the next start.      *)
(*                                                                         *)
(* Commands are executed by the goroutine that reads the WebSocket, one at *)
(* a time. The names of a command are handled one per step (in any order:  *)
(* the panel may list them in any order), so that a parse may fail, another*)
(* process may take a port, or the agent may crash between two of them.    *)
(* A registered service is open when its object still holds its endpoint;  *)
(* Close releases the endpoint and leaves the object in the registry.      *)
(***************************************************************************)
EXTENDS Naturals, Sequences, FiniteSets

CONSTANTS
    Names,          \* service names of one node
    Addrs,          \* endpoints a service can listen on
    None,           \* no service object
    Free, Foreign,  \* an endpoint nobody holds / another process holds
    Torn,           \* gost.json after it was truncated and before it is written
    MaxBatch,       \* bound: names in one command
    MaxEntries,     \* bound: config entries of one name
    ParseFaults,    \* can ParseService fail although the endpoint is free?
    DiskFaults,     \* can creating or writing gost.json fail?
    Contended       \* endpoints other processes of the host may take

ASSUME NamesAssumption == None \notin Addrs /\ Free \notin Names /\ Foreign \notin Names
ASSUME FreeAssumption  == Free # Foreign
ASSUME FiniteAssumption == IsFiniteSet(Names)
ASSUME BoundAssumption == MaxBatch \in Nat \ {0} /\ MaxEntries \in Nat \ {0}
ASSUME FaultAssumption == ParseFaults \in BOOLEAN /\ DiskFaults \in BOOLEAN /\ Contended \subseteq Addrs

VARIABLES
    up,         \* is the agent process running?
    registry, listeners, config, file,
    op,         \* the command being executed, or "none"
    phase,      \* where it is
    todo, done, \* names of the command still to handle / handled
    want,       \* the endpoint the command's configuration gives each name
    ok,         \* success flag of the response
    failed,     \* history: has any command failed so far?
    before      \* history: registry, open services and config when the command arrived

command == <<op, todo, done, want>>
vars    == <<up, registry, listeners, config, file, op, phase, todo, done, want, ok, failed, before>>

ConfigOps == {"AddService", "UpdateService", "SyncService"}
NameOps   == {"DeleteService", "PauseService", "ResumeService"}
Phases    == {"idle", "check", "items", "save", "write", "reply"}
Entry     == [addr : Addrs, paused : BOOLEAN]

Registered(n) == registry[n] # None
Open(n)       == Registered(n) /\ listeners[registry[n]] = n
OpenNames     == {n \in Names : Open(n)}

\* The endpoint is held by an object of name n that is neither registered nor one of
\* those createServices has parsed and not registered yet.
Orphan(a, n) == /\ listeners[a] = n
                /\ registry[n] # a
                /\ ~(op = "AddService" /\ phase = "items" /\ n \in done /\ want[n] = a)

NoConfig == [n \in Names |-> <<>>]
NoWant   == [n \in Names |-> None]
Nothing  == [reg |-> [n \in Names |-> None], open |-> {}, cfg |-> NoConfig]
Snapshot == [reg |-> registry, open |-> OpenNames, cfg |-> config]

TypeOK ==
    /\ up \in BOOLEAN
    /\ registry \in [Names -> Addrs \cup {None}]
    /\ listeners \in [Addrs -> Names \cup {Free, Foreign}]
    /\ config \in [Names -> Seq(Entry)]
    /\ file \in [Names -> Seq(Entry)] \cup {Torn}
    /\ op \in ConfigOps \cup NameOps \cup {"none"}
    /\ phase \in Phases
    /\ todo \subseteq Names
    /\ done \subseteq Names
    /\ want \in [Names -> Addrs \cup {None}]
    /\ ok \in BOOLEAN
    /\ failed \in BOOLEAN
    /\ before \in [reg : [Names -> Addrs \cup {None}], open : SUBSET Names, cfg : [Names -> Seq(Entry)]]

(***************************************************************************)
(* Building blocks.                                                        *)
(***************************************************************************)

\* service.Close() of the registered objects of S: their endpoints are released.
Closed(S) ==
    [a \in Addrs |-> IF \E n \in S : registry[n] = a /\ listeners[a] = n
                     THEN Free ELSE listeners[a]]

\* ParseService binds the endpoint a for n (ln.Init) and then builds the handler: it
\* cannot succeed on an endpoint that is held, and may fail for reasons of its own
\* before or after it has bound the endpoint.  ParseFailed is the set of tables of
\* listeners it can leave behind: nothing closes what a failed parse has bound.
Bindable(lst, a)       == lst[a] = Free
Bound(lst, n, a)       == [lst EXCEPT ![a] = n]
ParseFailed(lst, n, a) == IF lst[a] # Free THEN {lst}
                          ELSE IF ParseFaults THEN {lst, Bound(lst, n, a)} ELSE {}

\* The first entry of a name, which is the one every command rewrites.
FirstEntry(n)   == config[n][1]
SetFirst(es, e) == IF es = <<>> THEN es ELSE [es EXCEPT ![1] = e]
SetPaused(es, b) == IF es = <<>> THEN es ELSE [es EXCEPT ![1] = [addr |-> es[1].addr, paused |-> b]]
NewEntry(n)     == [addr |-> want[n], paused |-> FALSE]

\* The command goes on with the names left, or is answered with an error.
Handled(n) == /\ todo' = todo \ {n}
              /\ done' = done \cup {n}
              /\ UNCHANGED <<op, want, phase, ok, failed>>
Fail       == /\ phase' = "save" /\ todo' = {} /\ done' = {}
              /\ ok' = FALSE
              /\ failed' = TRUE
              /\ UNCHANGED <<op, want>>
Succeed    == /\ phase' = "save" /\ todo' = {} /\ done' = {}
              /\ ok' = TRUE
              /\ UNCHANGED <<op, want, failed>>

(***************************************************************************)
(* The agent receives a command.  The panel sends distinct names.          *)
(***************************************************************************)
Receive(o, S, w) ==
    /\ up /\ phase = "idle"
    /\ S # {} /\ Cardinality(S) <= MaxBatch
    /\ \A n \in S : Len(config[n]) < MaxEntries \/ o \notin {"AddService", "SyncService"}
    /\ op' = o /\ todo' = S /\ done' = {} /\ want' = w
    /\ phase' = IF o \in {"AddService", "SyncService"} THEN "items" ELSE "check"
    /\ before' = Snapshot
    /\ UNCHANGED <<up, registry, listeners, config, file, ok, failed>>

(***************************************************************************)
(* createServices: every configuration is parsed (which binds its port)    *)
(* before any is registered, served and recorded.  An error leaves what    *)
(* the earlier names bound.  Register cannot fail: the names are distinct  *)
(* and were not registered when they were parsed.                          *)
(***************************************************************************)
\* Mutant: a service is registered and recorded as soon as it is parsed.
CreateParseRegisters(n) ==
    /\ op = "AddService" /\ phase = "items" /\ n \in todo
    /\ ~Registered(n) /\ Bindable(listeners, want[n])
    /\ listeners' = Bound(listeners, n, want[n])
    /\ registry' = [registry EXCEPT ![n] = want[n]]
    /\ config' = [config EXCEPT ![n] = Append(@, NewEntry(n))]
    /\ Handled(n)
    /\ UNCHANGED <<up, file, before>>

CreateParse(n) ==
    /\ op = "AddService" /\ phase = "items" /\ n \in todo
    /\ ~Registered(n) /\ Bindable(listeners, want[n])
    /\ listeners' = Bound(listeners, n, want[n])
    /\ Handled(n)
    /\ UNCHANGED <<up, registry, config, file, before>>

CreateParseFails(n) ==
    /\ op = "AddService" /\ phase = "items" /\ n \in todo
    /\ listeners' \in IF Registered(n) THEN {listeners} ELSE ParseFailed(listeners, n, want[n])
    /\ Fail
    /\ UNCHANGED <<up, registry, config, file, before>>

CreateCommit ==
    /\ op = "AddService" /\ phase = "items" /\ todo = {}
    /\ registry' = [n \in Names |-> IF n \in done THEN want[n] ELSE registry[n]]
    /\ config' = [n \in Names |-> IF n \in done THEN Append(config[n], NewEntry(n)) ELSE config[n]]
    /\ Succeed
    /\ UNCHANGED <<up, listeners, file, before>>

(***************************************************************************)
(* updateServices: all names must be registered; then each is closed,      *)
(* unregistered, parsed again and registered; the entries are replaced at  *)
(* the end.  syncServices does the same for one name at a time, and        *)
(* creates the names that are not registered.                              *)
(***************************************************************************)
\* Mutant: a name that is not registered is neither refused nor answered.
UpdateCheckSilent ==
    /\ op = "UpdateService" /\ phase = "check"
    /\ \A n \in todo : Registered(n)
    /\ phase' = "items"
    /\ UNCHANGED <<up, registry, listeners, config, file, before, command, ok, failed>>

UpdateCheck ==
    /\ op = "UpdateService" /\ phase = "check"
    /\ \/ /\ \A n \in todo : Registered(n)
          /\ phase' = "items"
          /\ UNCHANGED <<command, ok, failed>>
       \/ /\ \E n \in todo : ~Registered(n)
          /\ Fail
    /\ UNCHANGED <<up, registry, listeners, config, file, before>>

Restart(n, a) ==
    /\ Bindable(Closed({n}), a)
    /\ listeners' = Bound(Closed({n}), n, a)
    /\ registry' = [registry EXCEPT ![n] = a]

RestartFails(n, a) ==
    /\ listeners' \in ParseFailed(Closed({n}), n, a)
    /\ registry' = [registry EXCEPT ![n] = None]
    /\ Fail

UpdateItem(n) ==
    /\ op = "UpdateService" /\ phase = "items" /\ n \in todo
    /\ \/ Restart(n, want[n]) /\ Handled(n)
       \/ RestartFails(n, want[n])
    /\ UNCHANGED <<up, config, file, before>>

\* Mutant: the entries are not replaced.
UpdateCommitForgets ==
    /\ op = "UpdateService" /\ phase = "items" /\ todo = {}
    /\ Succeed
    /\ UNCHANGED <<up, registry, listeners, config, file, before>>

UpdateCommit ==
    /\ op = "UpdateService" /\ phase = "items" /\ todo = {}
    /\ config' = [n \in Names |-> IF n \in done THEN SetFirst(config[n], NewEntry(n)) ELSE config[n]]
    /\ Succeed
    /\ UNCHANGED <<up, registry, listeners, file, before>>

SyncUpdate(n) ==
    /\ op = "SyncService" /\ phase = "items" /\ n \in todo
    /\ Registered(n)
    /\ \/ /\ Restart(n, want[n])
          /\ config' = [config EXCEPT ![n] = SetFirst(@, NewEntry(n))]
          /\ Handled(n)
       \/ /\ RestartFails(n, want[n])
          /\ UNCHANGED config
    /\ UNCHANGED <<up, file, before>>

SyncCreate(n) ==
    /\ op = "SyncService" /\ phase = "items" /\ n \in todo
    /\ ~Registered(n)
    /\ \/ /\ Bindable(listeners, want[n])
          /\ listeners' = Bound(listeners, n, want[n])
          /\ registry' = [registry EXCEPT ![n] = want[n]]
          /\ config' = [config EXCEPT ![n] = Append(@, NewEntry(n))]
          /\ Handled(n)
       \/ /\ listeners' \in ParseFailed(listeners, n, want[n])
          /\ Fail
          /\ UNCHANGED <<registry, config>>
    /\ UNCHANGED <<up, file, before>>

SyncDone ==
    /\ op = "SyncService" /\ phase = "items" /\ todo = {}
    /\ Succeed
    /\ UNCHANGED <<up, registry, listeners, config, file, before>>

(***************************************************************************)
(* deleteServices: all names must be registered; they are unregistered,    *)
(* closed and all their entries dropped.                                   *)
(***************************************************************************)
\* Mutant: the entries are dropped before all names are known to be registered.
DeleteEntriesFirst ==
    /\ op = "DeleteService" /\ phase = "check"
    /\ config' = [n \in Names |-> IF n \in todo THEN <<>> ELSE config[n]]
    /\ \/ /\ \A n \in todo : Registered(n)
          /\ listeners' = Closed(todo)
          /\ registry' = [n \in Names |-> IF n \in todo THEN None ELSE registry[n]]
          /\ Succeed
       \/ /\ \E n \in todo : ~Registered(n)
          /\ Fail
          /\ UNCHANGED <<registry, listeners>>
    /\ UNCHANGED <<up, file, before>>

Delete ==
    /\ op = "DeleteService" /\ phase = "check"
    /\ \/ /\ \A n \in todo : Registered(n)
          /\ listeners' = Closed(todo)
          /\ registry' = [n \in Names |-> IF n \in todo THEN None ELSE registry[n]]
          /\ config' = [n \in Names |-> IF n \in todo THEN <<>> ELSE config[n]]
          /\ Succeed
       \/ /\ \E n \in todo : ~Registered(n)
          /\ Fail
          /\ UNCHANGED <<registry, listeners, config>>
    /\ UNCHANGED <<up, file, before>>

(***************************************************************************)
(* pauseServices: all names must be registered; each is closed (and stays  *)
(* in the registry); at the end their entries are marked.  A name without  *)
(* an entry fails the command.  rollbackPausedServices then parses and     *)
(* registers the closed ones again, but Register refuses a name that is    *)
(* still registered and the new object is closed, so it restores nothing.  *)
(***************************************************************************)
PauseCheck ==
    /\ op = "PauseService" /\ phase = "check"
    /\ \/ /\ \A n \in todo : Registered(n)
          /\ phase' = "items"
          /\ UNCHANGED <<command, ok, failed>>
       \/ /\ \E n \in todo : ~Registered(n)
          /\ Fail
    /\ UNCHANGED <<up, registry, listeners, config, file, before>>

PauseItem(n) ==
    /\ op = "PauseService" /\ phase = "items" /\ n \in todo
    /\ LET missing == config[n] = <<>>
       IN  /\ listeners' = IF missing THEN listeners ELSE Closed({n})
           /\ IF missing THEN Fail ELSE Handled(n)
    /\ UNCHANGED <<up, registry, config, file, before>>

PauseCommit ==
    /\ op = "PauseService" /\ phase = "items" /\ todo = {}
    /\ config' = [n \in Names |-> IF n \in done THEN SetPaused(config[n], TRUE) ELSE config[n]]
    /\ Succeed
    /\ UNCHANGED <<up, registry, listeners, file, before>>

(***************************************************************************)
(* resumeServices: all names must be registered and have an entry; those   *)
(* whose entry is marked paused are closed, unregistered, parsed again     *)
(* from that entry and registered; at the end the marks are removed.  When *)
(* one fails, the ones already resumed are closed again.                   *)
(***************************************************************************)
ResumeCheck ==
    /\ op = "ResumeService" /\ phase = "check"
    /\ \/ /\ \A n \in todo : Registered(n) /\ config[n] # <<>>
          /\ todo' = {n \in todo : FirstEntry(n).paused}
          /\ phase' = "items"
          /\ UNCHANGED <<op, done, want, ok, failed>>
       \/ /\ \E n \in todo : ~Registered(n) \/ config[n] = <<>>
          /\ Fail
    /\ UNCHANGED <<up, registry, listeners, config, file, before>>

ResumeItem(n) ==
    /\ op = "ResumeService" /\ phase = "items" /\ n \in todo
    /\ Restart(n, FirstEntry(n).addr)
    /\ Handled(n)
    /\ UNCHANGED <<up, config, file, before>>

ResumeItemFails(n) ==
    /\ op = "ResumeService" /\ phase = "items" /\ n \in todo
    /\ \E lst \in ParseFailed(Closed({n}), n, FirstEntry(n).addr) :
           listeners' = [a \in Addrs |-> IF \E m \in done : registry[m] = a /\ lst[a] = m THEN Free ELSE lst[a]]
    /\ registry' = [registry EXCEPT ![n] = None]
    /\ config' = [m \in Names |-> IF m \in done THEN SetPaused(config[m], TRUE) ELSE config[m]]
    /\ Fail
    /\ UNCHANGED <<up, file, before>>

ResumeCommit ==
    /\ op = "ResumeService" /\ phase = "items" /\ todo = {}
    /\ config' = [n \in Names |-> IF n \in done THEN SetPaused(config[n], FALSE) ELSE config[n]]
    /\ Succeed
    /\ UNCHANGED <<up, registry, listeners, file, before>>

(***************************************************************************)
(* saveConfig and the response, which end every command: os.Create         *)
(* truncates gost.json, then the configuration is written; errors of       *)
(* either are ignored.                                                     *)
(***************************************************************************)
SaveTruncate ==
    /\ phase = "save"
    /\ file' = Torn
    /\ phase' = "write"
    /\ UNCHANGED <<up, registry, listeners, config, command, ok, failed, before>>

\* Mutant: what is written was read before the command was executed.
SaveWriteStale ==
    /\ phase = "write"
    /\ file' = before.cfg
    /\ phase' = "reply"
    /\ UNCHANGED <<up, registry, listeners, config, command, ok, failed, before>>

SaveWrite ==
    /\ phase = "write"
    /\ file' = config
    /\ phase' = "reply"
    /\ UNCHANGED <<up, registry, listeners, config, command, ok, failed, before>>

SaveFails ==
    /\ DiskFaults /\ phase \in {"save", "write"}
    /\ phase' = "reply"
    /\ UNCHANGED <<up, registry, listeners, config, file, command, ok, failed, before>>

Reply ==
    /\ phase = "reply"
    /\ phase' = "idle"
    /\ op' = "none" /\ want' = NoWant /\ ok' = TRUE
    /\ before' = Nothing
    /\ UNCHANGED <<up, registry, listeners, config, file, todo, done, failed>>

(***************************************************************************)
(* The process dies at any moment and is started again: program.Start sets *)
(* the configuration read from gost.json and loader.register parses and    *)
(* registers every entry, paused or not.  Any parse error or name that is  *)
(* already registered makes Start fail, and the process exits.             *)
(***************************************************************************)
Crash ==
    /\ up
    /\ up' = FALSE
    /\ registry' = [n \in Names |-> None]
    /\ listeners' = [a \in Addrs |-> IF listeners[a] \in Names THEN Free ELSE listeners[a]]
    /\ config' = NoConfig
    /\ phase' = "idle" /\ op' = "none" /\ todo' = {} /\ done' = {} /\ want' = NoWant /\ ok' = TRUE
    /\ before' = Nothing
    /\ UNCHANGED <<file, failed>>

Loadable(f) ==
    /\ f # Torn
    /\ \A n \in Names : Len(f[n]) <= 1
    /\ \A n, m \in Names : n # m /\ f[n] # <<>> /\ f[m] # <<>> => f[n][1].addr # f[m][1].addr
    /\ \A n \in Names : f[n] # <<>> => listeners[f[n][1].addr] = Free

Start ==
    /\ ~up /\ Loadable(file)
    /\ up' = TRUE
    /\ config' = file
    /\ registry' = [n \in Names |-> IF file[n] = <<>> THEN None ELSE file[n][1].addr]
    /\ listeners' = [a \in Addrs |-> IF \E n \in Names : file[n] # <<>> /\ file[n][1].addr = a
                                     THEN CHOOSE n \in Names : file[n] # <<>> /\ file[n][1].addr = a
                                     ELSE listeners[a]]
    /\ UNCHANGED <<file, command, phase, ok, failed, before>>

\* The garbage collector finalizes the socket of an object nothing refers to any more.
Finalize(a) ==
    /\ listeners[a] \in Names /\ Orphan(a, listeners[a])
    /\ listeners' = [listeners EXCEPT ![a] = Free]
    /\ UNCHANGED <<up, registry, config, file, command, phase, ok, failed, before>>

\* Another process of the host takes or gives up an endpoint.
OtherProcess(a) ==
    /\ a \in Contended
    /\ \/ listeners[a] = Free /\ listeners' = [listeners EXCEPT ![a] = Foreign]
       \/ listeners[a] = Foreign /\ listeners' = [listeners EXCEPT ![a] = Free]
    /\ UNCHANGED <<up, registry, config, file, command, phase, ok, failed, before>>

(***************************************************************************)
(* The specification.                                                      *)
(***************************************************************************)
Init ==
    /\ up = TRUE
    /\ registry = [n \in Names |-> None]
    /\ listeners = [a \in Addrs |-> Free]
    /\ config = NoConfig
    /\ file = NoConfig
    /\ op = "none" /\ phase = "idle" /\ todo = {} /\ done = {}
    /\ want = NoWant
    /\ ok = TRUE /\ failed = FALSE
    /\ before = Nothing

\* Every step of the goroutine that executes the command.
Work ==
    \/ \E n \in Names : \/ CreateParse(n) \/ CreateParseFails(n)
                        \/ UpdateItem(n) \/ SyncUpdate(n) \/ SyncCreate(n)
                        \/ PauseItem(n) \/ ResumeItem(n) \/ ResumeItemFails(n)
    \/ CreateCommit
    \/ UpdateCheck \/ UpdateCommit
    \/ SyncDone
    \/ Delete
    \/ PauseCheck \/ PauseCommit
    \/ ResumeCheck \/ ResumeCommit
    \/ SaveTruncate \/ SaveWrite \/ SaveFails
    \/ Reply

Next ==
    \/ \E o \in ConfigOps, S \in SUBSET Names, w \in [Names -> Addrs] : Receive(o, S, w)
    \/ \E o \in NameOps, S \in SUBSET Names : Receive(o, S, NoWant)
    \/ Work
    \/ Crash
    \/ Start
    \/ \E a \in Addrs : Finalize(a) \/ OtherProcess(a)

\* The goroutine keeps running while the process does.
Spec == Init /\ [][Next]_vars /\ WF_vars(Work)

(***************************************************************************)
(* Properties.                                                             *)
(***************************************************************************)

\* A registered service always has a configuration entry, so the branches of
\* pauseServices and resumeServices for a service whose configuration is missing
\* (and the rollback of pauseServices, which cannot restore anything) are not
\* reached by any history of commands, failures and restarts.
RegisteredHasConfig == \A n \in Names : Registered(n) => config[n] # <<>>

\* A PauseService that is answered with an error has closed nothing and changed
\* no registration and no configuration (pauseServices, "transactional pause").
PauseAllOrNothing ==
    (op = "PauseService" /\ phase = "reply" /\ ~ok) => Snapshot = before

\* A name is as it was when the command arrived; a name is as the command asked.
Serves(n, a) == registry[n] = a /\ Open(n)
Recorded(n)  == \E k \in DOMAIN config[n] : config[n][k] = NewEntry(n)
Untouched(n) == registry[n] = before.reg[n] /\ config[n] = before.cfg[n] /\ (Open(n) <=> n \in before.open)
Obeyed(n) ==
    /\ op \in ConfigOps => Serves(n, want[n]) /\ Recorded(n)
    /\ op = "DeleteService" => registry[n] = None /\ config[n] = <<>> /\ listeners[before.reg[n]] # n
    /\ op = "PauseService" => registry[n] = before.reg[n] /\ ~Open(n) /\ FirstEntry(n).paused
    /\ op = "ResumeService" => Serves(n, FirstEntry(n).addr) /\ ~FirstEntry(n).paused

\* The step that decides the answer of a command leaves the node as the answer says.
AnswerTrue ==
    phase \in {"check", "items"} /\ phase' = "save" =>
        /\ \A n \in Names \ (todo \cup done) : Untouched(n)'
        /\ ok' => \A n \in todo \cup done : Obeyed(n)'
        /\ ~ok' => /\ \A n \in todo : Untouched(n)' \/ (registry'[n] = None /\ config'[n] = before.cfg[n])
                   /\ op = "UpdateService" => config' = before.cfg
                   /\ op = "ResumeService" => \A n \in done : ~Open(n)' /\ FirstEntry(n)'.paused
                   /\ op \in {"AddService", "DeleteService", "PauseService"} => \A n \in Names : Untouched(n)'

\* What the panel may conclude from an answer, wherever a command failed and whatever other
\* processes did to the ports meanwhile.  The names the command does not handle are as they
\* were.  After a success every name it handled is as asked.  A failed AddService,
\* DeleteService or PauseService has changed nothing, a failed UpdateService no entry, a failed
\* ResumeService has paused again what it had resumed, and a name that a failed command did
\* not finish is untouched or at worst no longer registered, with its entries kept.
CommandEffect == [][AnswerTrue]_vars

\* As long as no command has failed, a name is registered exactly when it has an
\* entry, has only one, and outside a command the service listens where the entry
\* says unless that entry is marked paused.
CleanAgreement ==
    ~failed /\ up => \A n \in Names :
        /\ Registered(n) <=> config[n] # <<>>
        /\ Len(config[n]) <= 1
        /\ phase = "idle" /\ Registered(n) =>
              /\ registry[n] = FirstEntry(n).addr
              /\ ~FirstEntry(n).paused => Open(n)

\* Without disk errors, between two commands gost.json is the configuration in memory.
FileCurrent == ~DiskFaults /\ up /\ phase = "idle" => file = config

\* Every command received is answered, or lost with the process.
CommandsEnd == (phase # "idle") ~> (phase = "idle")

(***************************************************************************)
(* The inductive invariant: what the properties above need to know about   *)
(* the states in the middle of a command.                                  *)
(***************************************************************************)

DownIsIdle == ~up => phase = "idle"

WantTyped == op \in ConfigOps => want \in [Names -> Addrs]

\* The names that passed the check phase stay registered until the command fails.
ItemsRegistered ==
    phase = "items" /\ op \in {"UpdateService", "PauseService", "ResumeService"}
        => \A n \in todo \cup done : Registered(n)

NothingDone == phase = "check" => done = {}

\* PauseService touches nothing before its check phase has passed, and cannot fail later.
PauseUntouched ==
    op = "PauseService" /\ (phase = "check" \/ (phase \in {"save", "write", "reply"} /\ ~ok))
        => Snapshot = before

\* What a command has done to the names it has handled, before its last step.
Midway(n) ==
    /\ op = "AddService" => Untouched(n) /\ ~Registered(n) /\ listeners[want[n]] = n
    /\ op = "UpdateService" => Serves(n, want[n]) /\ config[n] = before.cfg[n]
    /\ op = "SyncService" => Serves(n, want[n]) /\ Recorded(n)
    /\ op = "PauseService" => registry[n] = before.reg[n] /\ config[n] = before.cfg[n] /\ ~Open(n)
    /\ op = "ResumeService" => Serves(n, FirstEntry(n).addr) /\ config[n] = before.cfg[n]

\* A command works on its names one by one and on no other; CommandEffect follows.
CommandProgress ==
    phase \in {"check", "items"} =>
        /\ todo \cap done = {}
        /\ \A n \in Names : IF n \in done THEN Midway(n) ELSE Untouched(n)

\* How a name of the running command may differ from what CleanAgreement says of it.
Moved(n) == phase = "items" /\ n \in done
ServedAt(n) == IF Moved(n) /\ op = "UpdateService" THEN want[n] ELSE FirstEntry(n).addr
MustServe(n) == \/ ~FirstEntry(n).paused /\ ~(Moved(n) /\ op = "PauseService")
                \/ Moved(n) /\ op \in {"UpdateService", "ResumeService"}

CleanItems ==
    ~failed /\ up => \A n \in Names :
        /\ Registered(n) <=> config[n] # <<>>
        /\ Len(config[n]) <= 1
        /\ Registered(n) => registry[n] = ServedAt(n) /\ (MustServe(n) => Open(n))
        /\ op = "AddService" /\ Moved(n) => ~Registered(n) /\ listeners[want[n]] = n

\* The conjunction is inductive; RegisteredHasConfig is a conjunct, PauseAllOrNothing
\* and CleanAgreement follow from PauseUntouched and CleanItems.
IInv == TypeOK /\ DownIsIdle /\ WantTyped /\ ItemsRegistered /\ NothingDone
        /\ RegisteredHasConfig /\ PauseUntouched /\ CleanItems
=============================================================================
