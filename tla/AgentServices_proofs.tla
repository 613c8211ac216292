------------------------ MODULE AgentServices_proofs ------------------------
(***************************************************************************)
(* Proofs about AgentServices.                                             *)
(***************************************************************************)
EXTENDS AgentServices, SequenceTheorems, FiniteSetTheorems, TLAPS

USE NamesAssumption, FreeAssumption

(***************************************************************************)
(* Facts about the operators.                                              *)
(***************************************************************************)

\* Rewriting the first entry (UpdateService, SyncService) keeps a list of entries of the same length.
LEMMA SetFirstFact ==
    ASSUME NEW es \in Seq(Entry), NEW e \in Entry
    PROVE  /\ SetFirst(es, e) \in Seq(Entry)
           /\ Len(SetFirst(es, e)) = Len(es)
           /\ SetFirst(es, e) = <<>> <=> es = <<>>
           /\ es # <<>> => SetFirst(es, e)[1] = e
<1>1. CASE es = <<>>
  BY <1>1 DEF SetFirst
<1>2. CASE es # <<>>
  <2>1. 1 \in 1..Len(es)
    BY <1>2
  <2>2. SetFirst(es, e) = [es EXCEPT ![1] = e]
    BY <1>2 DEF SetFirst
  <2>3. [es EXCEPT ![1] = e] \in Seq(Entry) /\ Len([es EXCEPT ![1] = e]) = Len(es)
    BY <2>1, ExceptSeq
  <2>4. [es EXCEPT ![1] = e][1] = e
    BY <2>1
  <2> QED
    BY <1>2, <2>1, <2>2, <2>3, <2>4
<1> QED
  BY <1>1, <1>2

\* Marking the first entry paused or not (PauseService, ResumeService) does too, and keeps its endpoint.
LEMMA SetPausedFact ==
    ASSUME NEW es \in Seq(Entry), NEW b \in BOOLEAN
    PROVE  /\ SetPaused(es, b) \in Seq(Entry)
           /\ Len(SetPaused(es, b)) = Len(es)
           /\ SetPaused(es, b) = <<>> <=> es = <<>>
           /\ es # <<>> => SetPaused(es, b)[1] = [addr |-> es[1].addr, paused |-> b]
<1>1. CASE es = <<>>
  BY <1>1 DEF SetPaused
<1>2. CASE es # <<>>
  <2> DEFINE e == [addr |-> es[1].addr, paused |-> b]
  <2>1. 1 \in 1..Len(es)
    BY <1>2
  <2>2. es[1] \in Entry
    BY <2>1
  <2>3. e \in Entry
    BY <2>2 DEF Entry
  <2>4. SetPaused(es, b) = [es EXCEPT ![1] = e]
    BY <1>2 DEF SetPaused
  <2>5. [es EXCEPT ![1] = e] \in Seq(Entry) /\ Len([es EXCEPT ![1] = e]) = Len(es)
    BY <2>1, <2>3, ExceptSeq
  <2>6. [es EXCEPT ![1] = e][1] = e
    BY <2>1
  <2> HIDE DEF e
  <2> QED
    BY <1>2, <2>1, <2>4, <2>5, <2>6 DEF e
<1> QED
  BY <1>1, <1>2

\* A list of entries that is not empty has a first one.
LEMMA FirstEntryFact ==
    ASSUME NEW es \in Seq(Entry), es # <<>>
    PROVE  es[1] \in Entry /\ es[1].addr \in Addrs /\ es[1].paused \in BOOLEAN
<1>1. 1 \in 1..Len(es)
  OBVIOUS
<1>2. es[1] \in Entry
  BY <1>1
<1> QED
  BY <1>2 DEF Entry

\* Closing services only releases endpoints, and only endpoints of those services.
LEMMA ClosedFact ==
    ASSUME TypeOK, NEW S \in SUBSET Names
    PROVE  /\ Closed(S) \in [Addrs -> Names \cup {Free, Foreign}]
           /\ \A a \in Addrs : Closed(S)[a] = listeners[a] \/ Closed(S)[a] = Free
           /\ \A n \in Names \ S : Open(n) => Closed(S)[registry[n]] = n
BY DEF Closed, TypeOK, Open, Registered

\* What a failed parse leaves is a table of listeners in which no endpoint in use has changed hands.
LEMMA ParseFailedFact ==
    ASSUME NEW lst \in [Addrs -> Names \cup {Free, Foreign}], NEW n \in Names, NEW a \in Addrs,
           NEW new \in ParseFailed(lst, n, a)
    PROVE  /\ new \in [Addrs -> Names \cup {Free, Foreign}]
           /\ \A b \in Addrs : lst[b] \in Names => new[b] = lst[b]
BY DEF ParseFailed, Bound

(***************************************************************************)
(* Type correctness.                                                       *)
(***************************************************************************)

\* The names ResumeService works on have the entry it reads their endpoint from.
ResumeTyped == op = "ResumeService" /\ phase = "items" => \A n \in todo : config[n] # <<>>

TypeInv == TypeOK /\ WantTyped /\ ResumeTyped /\ DownIsIdle

\* The empty values of the state are well typed.
LEMMA EmptyFact ==
    /\ NoConfig \in [Names -> Seq(Entry)]
    /\ NoWant \in [Names -> Addrs \cup {None}]
    /\ Nothing \in [reg : [Names -> Addrs \cup {None}], open : SUBSET Names, cfg : [Names -> Seq(Entry)]]
<1>1. NoConfig \in [Names -> Seq(Entry)]
  BY DEF NoConfig
<1>2. NoWant \in [Names -> Addrs \cup {None}]
  BY DEF NoWant
<1> QED
  BY <1>1, <1>2 DEF Nothing

\* The agent starts in a well-typed state.
LEMMA InitType == Init => TypeInv
BY EmptyFact DEF Init, TypeInv, TypeOK, WantTyped, ResumeTyped, DownIsIdle, Phases, ConfigOps, NameOps

\* What a command step does to the bookkeeping of the command is well typed.
LEMMA HandledType ==
    ASSUME TypeInv, NEW n \in Names, Handled(n)
    PROVE  /\ op' = op /\ want' = want /\ phase' = phase
           /\ todo' \subseteq Names /\ done' \subseteq Names
           /\ ok' \in BOOLEAN /\ failed' \in BOOLEAN
BY DEF TypeInv, TypeOK, Handled

\* So is an error answer.
LEMMA FailType ==
    ASSUME TypeInv, Fail
    PROVE  /\ op' = op /\ want' = want /\ phase' = "save" /\ phase' \in Phases
           /\ todo' \subseteq Names /\ done' \subseteq Names
           /\ ok' \in BOOLEAN /\ failed' \in BOOLEAN
BY DEF TypeInv, TypeOK, Fail, Phases

\* And a success answer.
LEMMA SucceedType ==
    ASSUME TypeInv, Succeed
    PROVE  /\ op' = op /\ want' = want /\ phase' = "save" /\ phase' \in Phases
           /\ todo' \subseteq Names /\ done' \subseteq Names
           /\ ok' \in BOOLEAN /\ failed' \in BOOLEAN
BY DEF TypeInv, TypeOK, Succeed, Phases

\* Every step of the agent, of its host and of its panel keeps the state well typed.
LEMMA NextType == TypeInv /\ [Next]_vars => TypeInv'
<1> SUFFICES ASSUME TypeInv, [Next]_vars PROVE TypeInv'
  OBVIOUS
<1> DEFINE Table == [Addrs -> Names \cup {Free, Foreign}]
           Config == [Names -> Seq(Entry)]
<1>t. /\ listeners \in Table /\ config \in Config /\ registry \in [Names -> Addrs \cup {None}]
      /\ TypeOK /\ before \in [reg : [Names -> Addrs \cup {None}], open : SUBSET Names, cfg : [Names -> Seq(Entry)]]
      /\ todo \in SUBSET Names /\ done \in SUBSET Names
  BY DEF TypeInv, TypeOK
<1>e. ASSUME NEW n \in Names, want \in [Names -> Addrs] PROVE NewEntry(n) \in Entry
  BY <1>e DEF NewEntry, Entry
<1>1. ASSUME NEW o \in ConfigOps \cup NameOps, NEW S \in SUBSET Names, NEW w \in [Names -> Addrs \cup {None}],
             o \in ConfigOps => w \in [Names -> Addrs],
             Receive(o, S, w)
      PROVE  TypeInv'
  <2>1. OpenNames \in SUBSET Names
    BY DEF OpenNames
  <2>2. before' \in [reg : [Names -> Addrs \cup {None}], open : SUBSET Names, cfg : [Names -> Seq(Entry)]]
    BY <1>1, <2>1, <1>t DEF Receive, Snapshot
  <2>3. phase' \in Phases
    BY <1>1 DEF Receive, Phases
  <2> QED
    BY <1>1, <2>2, <2>3, <1>t DEF Receive, TypeInv, TypeOK, WantTyped, ResumeTyped, DownIsIdle
<1>2. ASSUME NEW n \in Names, CreateParse(n) PROVE TypeInv'
  <2>1. want \in [Names -> Addrs]
    BY <1>2 DEF CreateParse, TypeInv, WantTyped, ConfigOps
  <2>2. listeners' \in Table
    BY <1>2, <2>1, <1>t DEF CreateParse, Bound
  <2> QED
    BY <1>2, <2>2, HandledType DEF CreateParse, TypeInv, TypeOK, WantTyped, ResumeTyped, DownIsIdle
<1>3. ASSUME NEW n \in Names, CreateParseFails(n) PROVE TypeInv'
  <2>1. want[n] \in Addrs
    BY <1>3 DEF CreateParseFails, TypeInv, WantTyped, ConfigOps
  <2>2. listeners' \in Table
    BY <1>3, <2>1, <1>t, ParseFailedFact DEF CreateParseFails
  <2> QED
    BY <1>3, <2>2, FailType DEF CreateParseFails, TypeInv, TypeOK, WantTyped, ResumeTyped, DownIsIdle
<1>4. ASSUME CreateCommit PROVE TypeInv'
  <2>1. want \in [Names -> Addrs]
    BY <1>4 DEF CreateCommit, TypeInv, WantTyped, ConfigOps
  <2>2. registry' \in [Names -> Addrs \cup {None}]
    BY <1>4, <2>1, <1>t DEF CreateCommit
  <2>3. \A n \in Names : Append(config[n], NewEntry(n)) \in Seq(Entry)
    BY <2>1, <1>e, <1>t
  <2>4. config' \in Config
    BY <1>4, <2>3, <1>t DEF CreateCommit
  <2> QED
    BY <1>4, <2>2, <2>4, SucceedType DEF CreateCommit, TypeInv, TypeOK, WantTyped, ResumeTyped, DownIsIdle
<1>5. ASSUME UpdateCheck PROVE TypeInv'
  BY <1>5, FailType DEF UpdateCheck, command, TypeInv, TypeOK, WantTyped, ResumeTyped, DownIsIdle, Phases
<1>s. ASSUME NEW n \in Names PROVE Closed({n}) \in Table
  <2>1. {n} \in SUBSET Names
    OBVIOUS
  <2> QED
    BY <2>1, <1>t, ClosedFact
<1>r. ASSUME NEW n \in Names, NEW a \in Addrs, Restart(n, a)
      PROVE  listeners' \in Table /\ registry' \in [Names -> Addrs \cup {None}]
  <2>1. Closed({n}) \in Table
    BY <1>s
  <2> QED
    BY <1>r, <1>t, <2>1 DEF Restart, Bound
<1>f. ASSUME NEW n \in Names, NEW a \in Addrs, RestartFails(n, a)
      PROVE  listeners' \in Table /\ registry' \in [Names -> Addrs \cup {None}]
  <2>1. Closed({n}) \in Table
    BY <1>s
  <2> QED
    BY <1>f, <1>t, <2>1, ParseFailedFact DEF RestartFails
<1>6. ASSUME NEW n \in Names, UpdateItem(n) PROVE TypeInv'
  <2>1. want[n] \in Addrs
    BY <1>6 DEF UpdateItem, TypeInv, WantTyped, ConfigOps
  <2>2. CASE Restart(n, want[n]) /\ Handled(n)
    BY <1>6, <2>1, <2>2, <1>r, HandledType DEF UpdateItem, TypeInv, TypeOK, WantTyped, ResumeTyped, DownIsIdle
  <2>3. CASE RestartFails(n, want[n])
    BY <1>6, <2>1, <2>3, <1>f, FailType DEF UpdateItem, RestartFails, TypeInv, TypeOK, WantTyped, ResumeTyped, DownIsIdle
  <2> QED
    BY <1>6, <2>2, <2>3 DEF UpdateItem
<1>7. ASSUME UpdateCommit PROVE TypeInv'
  <2>1. want \in [Names -> Addrs]
    BY <1>7 DEF UpdateCommit, TypeInv, WantTyped, ConfigOps
  <2>2. \A n \in Names : SetFirst(config[n], NewEntry(n)) \in Seq(Entry)
    BY <2>1, <1>e, <1>t, SetFirstFact
  <2>3. config' \in Config
    BY <1>7, <2>2, <1>t DEF UpdateCommit
  <2> QED
    BY <1>7, <2>3, SucceedType DEF UpdateCommit, TypeInv, TypeOK, WantTyped, ResumeTyped, DownIsIdle
<1>8. ASSUME NEW n \in Names, SyncUpdate(n) PROVE TypeInv'
  <2>1. want \in [Names -> Addrs] /\ want[n] \in Addrs
    BY <1>8 DEF SyncUpdate, TypeInv, WantTyped, ConfigOps
  <2>2. SetFirst(config[n], NewEntry(n)) \in Seq(Entry)
    BY <2>1, <1>e, <1>t, SetFirstFact
  <2>3. CASE Restart(n, want[n]) /\ config' = [config EXCEPT ![n] = SetFirst(@, NewEntry(n))] /\ Handled(n)
    <3>1. config' \in Config
      BY <2>2, <2>3, <1>t
    <3> QED
      BY <1>8, <2>1, <2>3, <3>1, <1>r, HandledType DEF SyncUpdate, TypeInv, TypeOK, WantTyped, ResumeTyped, DownIsIdle
  <2>4. CASE RestartFails(n, want[n]) /\ UNCHANGED config
    BY <1>8, <2>1, <2>4, <1>f, FailType DEF SyncUpdate, RestartFails, TypeInv, TypeOK, WantTyped, ResumeTyped, DownIsIdle
  <2> QED
    BY <1>8, <2>3, <2>4 DEF SyncUpdate
<1>9. ASSUME NEW n \in Names, SyncCreate(n) PROVE TypeInv'
  <2>1. want \in [Names -> Addrs] /\ want[n] \in Addrs
    BY <1>9 DEF SyncCreate, TypeInv, WantTyped, ConfigOps
  <2>2. CASE /\ listeners' = Bound(listeners, n, want[n])
             /\ registry' = [registry EXCEPT ![n] = want[n]]
             /\ config' = [config EXCEPT ![n] = Append(@, NewEntry(n))]
             /\ Handled(n)
    <3>1. Append(config[n], NewEntry(n)) \in Seq(Entry)
      BY <2>1, <1>e, <1>t
    <3>2. config' \in Config /\ listeners' \in Table /\ registry' \in [Names -> Addrs \cup {None}]
      BY <2>1, <2>2, <3>1, <1>t DEF Bound
    <3> QED
      BY <1>9, <2>2, <3>2, HandledType DEF SyncCreate, TypeInv, TypeOK, WantTyped, ResumeTyped, DownIsIdle
  <2>3. CASE listeners' \in ParseFailed(listeners, n, want[n]) /\ Fail /\ UNCHANGED <<registry, config>>
    <3>1. listeners' \in Table
      BY <2>1, <2>3, <1>t, ParseFailedFact
    <3> QED
      BY <1>9, <2>3, <3>1, FailType DEF SyncCreate, TypeInv, TypeOK, WantTyped, ResumeTyped, DownIsIdle
  <2> QED
    BY <1>9, <2>2, <2>3 DEF SyncCreate
<1>10. ASSUME SyncDone PROVE TypeInv'
  BY <1>10, SucceedType DEF SyncDone, TypeInv, TypeOK, WantTyped, ResumeTyped, DownIsIdle
<1>11. ASSUME Delete PROVE TypeInv'
  <2>1. <<>> \in Seq(Entry)
    OBVIOUS
  <2>2. Closed(todo) \in Table
    BY <1>t, ClosedFact
  <2>3. listeners' \in Table /\ registry' \in [Names -> Addrs \cup {None}]
    BY <1>11, <2>2, <1>t DEF Delete
  <2>4. config' \in Config
    BY <1>11, <2>1, <1>t DEF Delete
  <2> QED
    BY <1>11, <2>3, <2>4, FailType, SucceedType DEF Delete, TypeInv, TypeOK, WantTyped, ResumeTyped, DownIsIdle
<1>12. ASSUME PauseCheck PROVE TypeInv'
  BY <1>12, FailType DEF PauseCheck, command, TypeInv, TypeOK, WantTyped, ResumeTyped, DownIsIdle, Phases
<1>13. ASSUME NEW n \in Names, PauseItem(n) PROVE TypeInv'
  <2>1. Closed({n}) \in Table
    BY <1>s
  <2>2. listeners' \in Table
    BY <1>13, <2>1, <1>t DEF PauseItem
  <2>3. Fail \/ Handled(n)
    BY <1>13 DEF PauseItem
  <2> QED
    BY <1>13, <2>2, <2>3, FailType, HandledType DEF PauseItem, TypeInv, TypeOK, WantTyped, ResumeTyped, DownIsIdle
<1>p. ASSUME NEW b \in BOOLEAN, config' = [n \in Names |-> IF n \in done THEN SetPaused(config[n], b) ELSE config[n]]
      PROVE  config' \in Config
  BY <1>p, <1>t, SetPausedFact
<1>14. ASSUME PauseCommit PROVE TypeInv'
  <2>1. config' \in Config
    BY <1>14, <1>p DEF PauseCommit
  <2> QED
    BY <1>14, <2>1, SucceedType DEF PauseCommit, TypeInv, TypeOK, WantTyped, ResumeTyped, DownIsIdle
<1>15. ASSUME ResumeCheck PROVE TypeInv'
  <2>1. CASE Fail
    BY <1>15, <2>1, FailType DEF ResumeCheck, TypeInv, TypeOK, WantTyped, ResumeTyped, DownIsIdle
  <2>2. CASE ~Fail
    BY <1>15, <2>2 DEF ResumeCheck, TypeInv, TypeOK, WantTyped, ResumeTyped, DownIsIdle, Phases
  <2> QED
    BY <2>1, <2>2
<1>a. ASSUME NEW n \in Names, config[n] # <<>> PROVE FirstEntry(n).addr \in Addrs
  BY <1>a, <1>t, FirstEntryFact DEF FirstEntry
<1>16. ASSUME NEW n \in Names, ResumeItem(n) PROVE TypeInv'
  <2>1. FirstEntry(n).addr \in Addrs
    BY <1>16, <1>a DEF ResumeItem, TypeInv, ResumeTyped
  <2>2. listeners' \in Table /\ registry' \in [Names -> Addrs \cup {None}]
    BY <1>16, <2>1, <1>r DEF ResumeItem
  <2>3. ResumeTyped'
    BY <1>16 DEF ResumeItem, Handled, TypeInv, ResumeTyped
  <2> QED
    BY <1>16, <2>2, <2>3, HandledType DEF ResumeItem, TypeInv, TypeOK, WantTyped, DownIsIdle
<1>17. ASSUME NEW n \in Names, ResumeItemFails(n) PROVE TypeInv'
  <2>1. FirstEntry(n).addr \in Addrs
    BY <1>17, <1>a DEF ResumeItemFails, TypeInv, ResumeTyped
  <2>2. Closed({n}) \in Table
    BY <1>s
  <2>3. PICK lst \in ParseFailed(Closed({n}), n, FirstEntry(n).addr) :
           listeners' = [a \in Addrs |-> IF \E m \in done : registry[m] = a /\ lst[a] = m THEN Free ELSE lst[a]]
    BY <1>17 DEF ResumeItemFails
  <2>4. lst \in Table
    BY <2>1, <2>2, ParseFailedFact
  <2>5. listeners' \in Table
    BY <2>3, <2>4
  <2>6. registry' \in [Names -> Addrs \cup {None}]
    BY <1>17, <1>t DEF ResumeItemFails
  <2>7. config' \in Config
    BY <1>17, <1>p DEF ResumeItemFails
  <2> QED
    BY <1>17, <2>5, <2>6, <2>7, FailType DEF ResumeItemFails, TypeInv, TypeOK, WantTyped, ResumeTyped, DownIsIdle
<1>18. ASSUME ResumeCommit PROVE TypeInv'
  <2>1. config' \in Config
    BY <1>18, <1>p DEF ResumeCommit
  <2> QED
    BY <1>18, <2>1, SucceedType DEF ResumeCommit, TypeInv, TypeOK, WantTyped, ResumeTyped, DownIsIdle
<1>19. ASSUME SaveTruncate \/ SaveWrite \/ SaveFails PROVE TypeInv'
  BY <1>19 DEF SaveTruncate, SaveWrite, SaveFails, command, TypeInv, TypeOK, WantTyped, ResumeTyped, DownIsIdle, Phases
<1>20. ASSUME Reply PROVE TypeInv'
  BY <1>20, EmptyFact DEF Reply, TypeInv, TypeOK, WantTyped, ResumeTyped, DownIsIdle, Phases, ConfigOps, NameOps
<1>21. ASSUME Crash PROVE TypeInv'
  <2>1. listeners' \in Table /\ registry' \in [Names -> Addrs \cup {None}]
    BY <1>21, <1>t DEF Crash
  <2> QED
    BY <1>21, <2>1, EmptyFact DEF Crash, TypeInv, TypeOK, WantTyped, ResumeTyped, DownIsIdle, Phases, ConfigOps, NameOps
<1>22. ASSUME Start PROVE TypeInv'
  <2>1. file \in Config
    BY <1>22 DEF Start, Loadable, TypeInv, TypeOK
  <2>2. \A n \in Names : file[n] # <<>> => file[n][1].addr \in Addrs
    BY <2>1, FirstEntryFact
  <2>3. registry' \in [Names -> Addrs \cup {None}]
    BY <1>22, <2>2 DEF Start
  <2>4. listeners' \in Table
    BY <1>22, <1>t DEF Start
  <2>5. phase = "idle"
    BY <1>22 DEF Start, TypeInv, DownIsIdle
  <2> QED
    BY <1>22, <2>1, <2>3, <2>4, <2>5 DEF Start, command, TypeInv, TypeOK, WantTyped, ResumeTyped, DownIsIdle
<1>23. ASSUME NEW a \in Addrs, Finalize(a) \/ OtherProcess(a) PROVE TypeInv'
  <2>1. listeners' \in Table
    BY <1>23, <1>t DEF Finalize, OtherProcess
  <2> QED
    BY <1>23, <2>1 DEF Finalize, OtherProcess, command, TypeInv, TypeOK, WantTyped, ResumeTyped, DownIsIdle
<1>24. ASSUME UNCHANGED vars PROVE TypeInv'
  BY <1>24 DEF vars, TypeInv, TypeOK, WantTyped, ResumeTyped, DownIsIdle
<1>25. NoWant \in [Names -> Addrs \cup {None}]
  BY DEF NoWant
<1>26. ASSUME NEW o \in NameOps, NEW S \in SUBSET Names, Receive(o, S, NoWant) PROVE TypeInv'
  <2>1. o \notin ConfigOps
    BY DEF NameOps, ConfigOps
  <2> QED
    BY <1>1, <1>25, <1>26, <2>1
<1>27. ASSUME NEW o \in ConfigOps, NEW S \in SUBSET Names, NEW w \in [Names -> Addrs], Receive(o, S, w) PROVE TypeInv'
  BY <1>1, <1>27
<1>28. ASSUME Work PROVE TypeInv'
  BY <1>28, <1>2, <1>3, <1>4, <1>5, <1>6, <1>7, <1>8, <1>9, <1>10, <1>11, <1>12, <1>13, <1>14, <1>15,
     <1>16, <1>17, <1>18, <1>19, <1>20 DEF Work
<1> QED
  BY <1>21, <1>22, <1>23, <1>24, <1>26, <1>27, <1>28 DEF Next

\* The state of the service manager is always well typed.
THEOREM TypeCorrect == Spec => []TypeOK
<1>1. TypeInv => TypeOK
  BY DEF TypeInv
<1> QED
  BY <1>1, InitType, NextType, PTL DEF Spec

(***************************************************************************)
(* Every registered service has a configuration entry.                     *)
(***************************************************************************)
RegInv == ItemsRegistered /\ NothingDone /\ RegisteredHasConfig

\* Nothing is registered at the start.
LEMMA InitReg == Init => RegInv
BY DEF Init, RegInv, NothingDone, ItemsRegistered, RegisteredHasConfig, Registered

\* An answered command has no names left to look at.
LEMMA AnsweredItems == Fail \/ Succeed => ItemsRegistered' /\ NothingDone'
BY DEF Fail, Succeed, ItemsRegistered, NothingDone

\* No step registers a service without recording its entry, and none drops the entry of a registered one.
LEMMA NextReg == TypeInv /\ RegInv /\ [Next]_vars => RegInv'
<1> SUFFICES ASSUME TypeInv, RegInv, [Next]_vars PROVE RegInv'
  OBVIOUS
<1>t. /\ TypeOK /\ config \in [Names -> Seq(Entry)] /\ registry \in [Names -> Addrs \cup {None}]
      /\ todo \subseteq Names /\ done \subseteq Names
      /\ \A n \in Names : registry[n] # None => config[n] # <<>>
  BY DEF TypeInv, TypeOK, RegInv, RegisteredHasConfig, Registered
<1>w. op \in ConfigOps => want \in [Names -> Addrs] /\ \A n \in Names : NewEntry(n) \in Entry
  BY DEF TypeInv, WantTyped, NewEntry, Entry
<1>a. ASSUME NEW n \in Names, op = "ResumeService" /\ phase = "items" /\ n \in todo PROVE FirstEntry(n).addr \in Addrs
  BY <1>a, <1>t, FirstEntryFact DEF FirstEntry, TypeInv, ResumeTyped
<1>1. ASSUME NEW o, NEW S \in SUBSET Names, NEW w, Receive(o, S, w) PROVE RegInv'
  BY <1>1, <1>t DEF Receive, RegInv, NothingDone, ItemsRegistered, RegisteredHasConfig, Registered
<1>2. ASSUME NEW n \in Names, CreateParse(n) PROVE RegInv'
  BY <1>2, <1>t DEF CreateParse, Handled, RegInv, NothingDone, ItemsRegistered, RegisteredHasConfig, Registered
<1>3. ASSUME NEW n \in Names, CreateParseFails(n) PROVE RegInv'
  BY <1>3, <1>t, AnsweredItems DEF CreateParseFails, RegInv, RegisteredHasConfig, Registered
<1>4. ASSUME CreateCommit PROVE RegInv'
  <2>1. \A n \in Names : Append(config[n], NewEntry(n)) # <<>>
    BY <1>4, <1>t, <1>w DEF CreateCommit, ConfigOps
  <2>2. RegisteredHasConfig'
    BY <1>4, <2>1, <1>t DEF CreateCommit, RegisteredHasConfig, Registered
  <2> QED
    BY <1>4, <2>2, AnsweredItems DEF CreateCommit, RegInv
<1>5. ASSUME UpdateCheck \/ PauseCheck PROVE RegInv'
  <2>1. RegisteredHasConfig'
    BY <1>5, <1>t DEF UpdateCheck, PauseCheck, RegisteredHasConfig, Registered
  <2>2. CASE Fail
    BY <2>1, <2>2, AnsweredItems DEF RegInv
  <2>3. CASE ~Fail
    <3>1. \A n \in todo : Registered(n)
      BY <1>5, <2>3 DEF UpdateCheck, PauseCheck
    <3>2. todo' = todo /\ done' = done /\ registry' = registry
      BY <1>5, <2>3 DEF UpdateCheck, PauseCheck, command
    <3>3. done = {}
      BY <1>5 DEF UpdateCheck, PauseCheck, RegInv, NothingDone
    <3> QED
      BY <2>1, <1>5, <3>1, <3>2, <3>3 DEF RegInv, NothingDone, ItemsRegistered, Registered
  <2> QED
    BY <2>2, <2>3
<1>6. ASSUME NEW n \in Names, UpdateItem(n) PROVE RegInv'
  <2>1. config' = config /\ config[n] # <<>> /\ want[n] \in Addrs
    BY <1>6, <1>t, <1>w DEF UpdateItem, RegInv, ItemsRegistered, Registered, ConfigOps
  <2>2. CASE Restart(n, want[n]) /\ Handled(n)
    <3>1. RegisteredHasConfig'
      BY <2>1, <2>2, <1>t DEF Restart, RegisteredHasConfig, Registered
    <3>2. ItemsRegistered' /\ NothingDone'
      <4>1. \A m \in Names : registry[m] # None => registry'[m] # None
        BY <2>1, <2>2, <1>t DEF Restart
      <4>2. op' = op /\ phase' = phase /\ todo' \cup done' = todo \cup done
        BY <1>6, <2>2 DEF Handled, UpdateItem
      <4> QED
        BY <1>6, <4>1, <4>2, <1>t DEF UpdateItem, RegInv, NothingDone, ItemsRegistered, Registered
    <3> QED
      BY <3>1, <3>2 DEF RegInv
  <2>3. CASE RestartFails(n, want[n])
    BY <2>1, <2>3, <1>t, AnsweredItems DEF RestartFails, RegInv, RegisteredHasConfig, Registered
  <2> QED
    BY <1>6, <2>2, <2>3 DEF UpdateItem
<1>7. ASSUME UpdateCommit PROVE RegInv'
  <2>1. \A n \in Names : config'[n] = <<>> <=> config[n] = <<>>
    BY <1>7, <1>t, <1>w, SetFirstFact DEF UpdateCommit, ConfigOps
  <2> QED
    BY <1>7, <2>1, <1>t, AnsweredItems DEF UpdateCommit, RegInv, RegisteredHasConfig, Registered
<1>8. ASSUME NEW n \in Names, SyncUpdate(n) PROVE RegInv'
  <2>1. config[n] # <<>> /\ op \in ConfigOps
    BY <1>8, <1>t DEF SyncUpdate, Registered, ConfigOps
  <2>2. \A m \in Names : config'[m] = <<>> <=> config[m] = <<>>
    <3>1. config[n] \in Seq(Entry) /\ NewEntry(n) \in Entry
      BY <2>1, <1>t, <1>w
    <3>2. SetFirst(config[n], NewEntry(n)) = <<>> <=> config[n] = <<>>
      BY <3>1, SetFirstFact
    <3>3. config' = config \/ config' = [config EXCEPT ![n] = SetFirst(config[n], NewEntry(n))]
      BY <1>8 DEF SyncUpdate
    <3> QED
      BY <3>2, <3>3, <1>t
  <2>3. RegisteredHasConfig'
    <3>1. PICK a \in Addrs \cup {None} : registry' = [registry EXCEPT ![n] = a]
      BY <1>8, <2>1, <1>w DEF SyncUpdate, Restart, RestartFails
    <3> QED
      BY <2>1, <2>2, <3>1, <1>t DEF RegisteredHasConfig, Registered
  <2>4. CASE Handled(n)
    BY <1>8, <2>3, <2>4 DEF SyncUpdate, Handled, RegInv, NothingDone, ItemsRegistered
  <2>5. CASE Fail
    BY <2>3, <2>5, AnsweredItems DEF RegInv
  <2> QED
    BY <1>8, <2>4, <2>5 DEF SyncUpdate, RestartFails
<1>9. ASSUME NEW n \in Names, SyncCreate(n) PROVE RegInv'
  <2>1. Append(config[n], NewEntry(n)) # <<>>
    <3>1. config[n] \in Seq(Entry) /\ NewEntry(n) \in Entry
      BY <1>9, <1>t, <1>w DEF SyncCreate, ConfigOps
    <3> QED
      BY <3>1
  <2>2. RegisteredHasConfig'
    <3>1. CASE registry' = [registry EXCEPT ![n] = want[n]] /\ config' = [config EXCEPT ![n] = Append(@, NewEntry(n))]
      <4>1. \A m \in Names : registry'[m] = IF m = n THEN want[n] ELSE registry[m]
        BY <3>1, <1>t
      <4>2. \A m \in Names : config'[m] = IF m = n THEN Append(config[n], NewEntry(n)) ELSE config[m]
        BY <3>1, <1>t
      <4> QED
        BY <2>1, <4>1, <4>2, <1>t DEF RegisteredHasConfig, Registered
    <3>2. CASE UNCHANGED <<registry, config>>
      BY <3>2, <1>t DEF RegisteredHasConfig, Registered
    <3> QED
      BY <1>9, <3>1, <3>2 DEF SyncCreate
  <2>3. CASE Handled(n)
    BY <1>9, <2>2, <2>3 DEF SyncCreate, Handled, RegInv, NothingDone, ItemsRegistered
  <2>4. CASE Fail
    BY <2>2, <2>4, AnsweredItems DEF RegInv
  <2> QED
    BY <1>9, <2>3, <2>4 DEF SyncCreate
<1>10. ASSUME SyncDone PROVE RegInv'
  BY <1>10, <1>t, AnsweredItems DEF SyncDone, RegInv, RegisteredHasConfig, Registered
<1>11. ASSUME Delete PROVE RegInv'
  <2>1. RegisteredHasConfig'
    BY <1>11, <1>t DEF Delete, RegisteredHasConfig, Registered
  <2> QED
    BY <1>11, <2>1, AnsweredItems DEF Delete, RegInv
<1>12. ASSUME NEW n \in Names, PauseItem(n) PROVE RegInv'
  <2>1. RegisteredHasConfig'
    BY <1>12, <1>t DEF PauseItem, RegisteredHasConfig, Registered
  <2>2. CASE Fail
    BY <2>1, <2>2, AnsweredItems DEF RegInv
  <2>3. CASE Handled(n)
    BY <1>12, <2>1, <2>3 DEF PauseItem, Handled, RegInv, NothingDone, ItemsRegistered, Registered
  <2> QED
    BY <1>12, <2>2, <2>3 DEF PauseItem
<1>13. ASSUME PauseCommit \/ ResumeCommit PROVE RegInv'
  <2>1. \A n \in Names : config'[n] = <<>> <=> config[n] = <<>>
    <3>1. PICK b \in BOOLEAN : config' = [n \in Names |-> IF n \in done THEN SetPaused(config[n], b) ELSE config[n]]
      BY <1>13 DEF PauseCommit, ResumeCommit
    <3> QED
      BY <3>1, <1>t, SetPausedFact
  <2> QED
    BY <1>13, <2>1, <1>t, AnsweredItems DEF PauseCommit, ResumeCommit, RegInv, RegisteredHasConfig, Registered
<1>14. ASSUME ResumeCheck PROVE RegInv'
  <2>1. RegisteredHasConfig'
    BY <1>14, <1>t DEF ResumeCheck, RegisteredHasConfig, Registered
  <2>2. CASE Fail
    BY <2>1, <2>2, AnsweredItems DEF RegInv
  <2>3. CASE ~Fail
    BY <1>14, <2>1, <2>3 DEF ResumeCheck, RegInv, NothingDone, ItemsRegistered, Registered
  <2> QED
    BY <2>2, <2>3
<1>15. ASSUME NEW n \in Names, ResumeItem(n) PROVE RegInv'
  <2>1. config' = config /\ config[n] # <<>> /\ FirstEntry(n).addr \in Addrs
    BY <1>15, <1>t, <1>a DEF ResumeItem, TypeInv, ResumeTyped
  <2>2. RegisteredHasConfig'
    BY <1>15, <2>1, <1>t DEF ResumeItem, Restart, RegisteredHasConfig, Registered
  <2>3. ItemsRegistered' /\ NothingDone'
    <3>1. \A m \in Names : registry[m] # None => registry'[m] # None
      BY <1>15, <2>1, <1>t DEF ResumeItem, Restart
    <3>2. op' = op /\ phase' = phase /\ todo' \cup done' = todo \cup done
      BY <1>15 DEF Handled, ResumeItem
    <3> QED
      BY <1>15, <3>1, <3>2, <1>t DEF ResumeItem, RegInv, NothingDone, ItemsRegistered, Registered
  <2> QED
    BY <2>2, <2>3 DEF RegInv
<1>16. ASSUME NEW n \in Names, ResumeItemFails(n) PROVE RegInv'
  <2>1. \A m \in Names : config'[m] = <<>> <=> config[m] = <<>>
    BY <1>16, <1>t, SetPausedFact DEF ResumeItemFails
  <2>2. RegisteredHasConfig'
    BY <1>16, <2>1, <1>t DEF ResumeItemFails, RegisteredHasConfig, Registered
  <2> QED
    BY <1>16, <2>2, AnsweredItems DEF ResumeItemFails, RegInv
<1>17. ASSUME SaveTruncate \/ SaveWrite \/ SaveFails \/ Reply PROVE RegInv'
  BY <1>17, <1>t DEF SaveTruncate, SaveWrite, SaveFails, Reply, command, RegInv, NothingDone, ItemsRegistered, RegisteredHasConfig, Registered
<1>18. ASSUME Crash PROVE RegInv'
  BY <1>18 DEF Crash, RegInv, NothingDone, ItemsRegistered, RegisteredHasConfig, Registered
<1>19. ASSUME Start PROVE RegInv'
  BY <1>19 DEF Start, command, TypeInv, DownIsIdle, RegInv, NothingDone, ItemsRegistered, RegisteredHasConfig, Registered
<1>20. ASSUME NEW a \in Addrs, Finalize(a) \/ OtherProcess(a) PROVE RegInv'
  BY <1>20 DEF Finalize, OtherProcess, command, RegInv, NothingDone, ItemsRegistered, RegisteredHasConfig, Registered
<1>21. ASSUME UNCHANGED vars PROVE RegInv'
  BY <1>21 DEF vars, RegInv, NothingDone, ItemsRegistered, RegisteredHasConfig, Registered
<1>22. ASSUME Work PROVE RegInv'
  BY <1>22, <1>2, <1>3, <1>4, <1>5, <1>6, <1>7, <1>8, <1>9, <1>10, <1>11, <1>12, <1>13, <1>14, <1>15,
     <1>16, <1>17 DEF Work
<1> QED
  BY <1>1, <1>18, <1>19, <1>20, <1>21, <1>22 DEF Next

\* A registered service always has a configuration entry.
THEOREM RegisteredHasConfigAlways == Spec => []RegisteredHasConfig
<1>1. RegInv => RegisteredHasConfig
  BY DEF RegInv
<1> QED
  BY <1>1, InitType, NextType, InitReg, NextReg, PTL DEF Spec

(***************************************************************************)
(* A refused PauseService has changed nothing.                             *)
(***************************************************************************)

\* The snapshot depends on the registry, the listeners and the configuration only.
LEMMA SnapshotSame == UNCHANGED <<registry, listeners, config>> => Snapshot' = Snapshot
<1> SUFFICES ASSUME UNCHANGED <<registry, listeners, config>> PROVE Snapshot' = Snapshot
  OBVIOUS
<1>1. OpenNames' = OpenNames
  BY DEF OpenNames, Open, Registered
<1> QED
  BY <1>1 DEF Snapshot

\* Neither the garbage collector nor another process closes a registered service.
LEMMA HostKeepsOpen ==
    ASSUME TypeOK, NEW a \in Addrs, Finalize(a) \/ OtherProcess(a)
    PROVE  /\ UNCHANGED <<registry, config>>
           /\ \A n \in Names : Open(n)' <=> Open(n)
<1>1. UNCHANGED <<registry, config>>
  BY DEF Finalize, OtherProcess
<1>2. PICK v \in {Free, Foreign} : listeners' = [listeners EXCEPT ![a] = v]
  BY DEF Finalize, OtherProcess
<1>3. ASSUME NEW n \in Names PROVE ~(listeners[a] = n /\ registry[n] = a)
  BY DEF Finalize, OtherProcess, Orphan
<1>4. ASSUME NEW n \in Names PROVE Open(n)' <=> Open(n)
  <2>1. CASE registry[n] = a
    BY <1>1, <1>2, <1>3, <2>1 DEF Open, Registered, TypeOK
  <2>2. CASE registry[n] # a
    BY <1>1, <1>2, <2>2 DEF Open, Registered, TypeOK
  <2> QED
    BY <2>1, <2>2
<1> QED
  BY <1>1, <1>4

\* A command other than PauseService does not matter here.
LEMMA NotPause == op' # "PauseService" => PauseUntouched'
BY DEF PauseUntouched

\* PauseService fails only in its check phase, before it has touched anything.
LEMMA NextPause == TypeInv /\ RegInv /\ PauseUntouched /\ [Next]_vars => PauseUntouched'
<1> SUFFICES ASSUME TypeInv, RegInv, PauseUntouched, [Next]_vars PROVE PauseUntouched'
  OBVIOUS
<1>1. ASSUME NEW o, NEW S, NEW w, Receive(o, S, w) PROVE PauseUntouched'
  <2>1. Snapshot' = Snapshot
    BY <1>1, SnapshotSame DEF Receive
  <2> QED
    BY <1>1, <2>1 DEF Receive, PauseUntouched
<1>2. ASSUME op # "PauseService",
             \/ \E n \in Names : \/ CreateParse(n) \/ CreateParseFails(n)
                                 \/ UpdateItem(n) \/ SyncUpdate(n) \/ SyncCreate(n)
                                 \/ ResumeItem(n) \/ ResumeItemFails(n)
             \/ CreateCommit \/ UpdateCheck \/ UpdateCommit \/ SyncDone \/ Delete \/ ResumeCheck \/ ResumeCommit
      PROVE  PauseUntouched'
  <2>1. op' = op
    BY <1>2 DEF CreateParse, CreateParseFails, UpdateItem, SyncUpdate, SyncCreate, ResumeItem, ResumeItemFails,
       CreateCommit, UpdateCheck, UpdateCommit, SyncDone, Delete, ResumeCheck, ResumeCommit,
       Handled, Fail, Succeed, RestartFails, command
  <2> QED
    BY <1>2, <2>1, NotPause
<1>3. ASSUME PauseCheck PROVE PauseUntouched'
  <2>1. Snapshot' = Snapshot /\ before' = before /\ Snapshot = before
    BY <1>3, SnapshotSame DEF PauseCheck, PauseUntouched
  <2> QED
    BY <2>1 DEF PauseUntouched
<1>4. ASSUME NEW n \in Names, PauseItem(n) PROVE PauseUntouched'
  <2>1. config[n] # <<>>
    BY <1>4 DEF PauseItem, RegInv, ItemsRegistered, RegisteredHasConfig
  <2>2. phase' = "items"
    BY <1>4, <2>1 DEF PauseItem, Handled
  <2> QED
    BY <2>2 DEF PauseUntouched
<1>5. ASSUME PauseCommit PROVE PauseUntouched'
  BY <1>5 DEF PauseCommit, Succeed, PauseUntouched
<1>6. ASSUME SaveTruncate \/ SaveWrite \/ SaveFails PROVE PauseUntouched'
  <2>1. Snapshot' = Snapshot /\ before' = before /\ ok' = ok /\ op' = op /\ phase' # "check" /\ phase \in {"save", "write"}
    BY <1>6, SnapshotSame DEF SaveTruncate, SaveWrite, SaveFails, command
  <2> QED
    BY <2>1 DEF PauseUntouched
<1>7. ASSUME Reply \/ Crash PROVE PauseUntouched'
  BY <1>7, NotPause DEF Reply, Crash
<1>8. ASSUME Start PROVE PauseUntouched'
  BY <1>8 DEF Start, PauseUntouched, TypeInv, DownIsIdle
<1>9. ASSUME NEW a \in Addrs, Finalize(a) \/ OtherProcess(a) PROVE PauseUntouched'
  <2>1. Snapshot' = Snapshot
    BY <1>9, HostKeepsOpen DEF Snapshot, OpenNames, TypeInv
  <2>2. UNCHANGED <<before, ok, op, phase>>
    BY <1>9 DEF Finalize, OtherProcess, command
  <2> QED
    BY <2>1, <2>2 DEF PauseUntouched
<1>10. ASSUME UNCHANGED vars PROVE PauseUntouched'
  BY <1>10, SnapshotSame DEF vars, PauseUntouched
<1>11. ASSUME Work PROVE PauseUntouched'
  <2>1. CASE op = "PauseService"
    <3>1. PauseCheck \/ (\E n \in Names : PauseItem(n)) \/ PauseCommit \/ SaveTruncate \/ SaveWrite \/ SaveFails \/ Reply
      BY <1>11, <2>1 DEF Work, CreateParse, CreateParseFails, UpdateItem, SyncUpdate, SyncCreate, ResumeItem,
         ResumeItemFails, CreateCommit, UpdateCheck, UpdateCommit, SyncDone, Delete, ResumeCheck, ResumeCommit
    <3> QED
      BY <3>1, <1>3, <1>4, <1>5, <1>6, <1>7
  <2>2. CASE op # "PauseService"
    BY <1>11, <2>2, <1>2, <1>6, <1>7 DEF Work, PauseCheck, PauseItem, PauseCommit
  <2> QED
    BY <2>1, <2>2
<1> QED
  BY <1>1, <1>7, <1>8, <1>9, <1>10, <1>11 DEF Next

\* A PauseService answered with an error has closed nothing and changed no registration and no configuration.
THEOREM PauseIsAllOrNothing == Spec => []PauseAllOrNothing
<1>1. Init => PauseUntouched
  BY DEF Init, PauseUntouched
<1>2. PauseUntouched => PauseAllOrNothing
  BY DEF PauseUntouched, PauseAllOrNothing
<1> QED
  BY <1>1, <1>2, InitType, NextType, InitReg, NextReg, NextPause, PTL DEF Spec

(***************************************************************************)
(* Between two commands gost.json is the configuration in memory.          *)
(***************************************************************************)

\* From the moment the file is written until the next command.
FileInv == ~DiskFaults /\ up /\ phase \in {"reply", "idle"} => file = config

\* The configuration changes only inside a command, which writes the file before it answers.
LEMMA NextFile == TypeInv /\ FileInv /\ [Next]_vars => FileInv'
<1> SUFFICES ASSUME TypeInv, FileInv, [Next]_vars PROVE FileInv'
  OBVIOUS
<1>1. ASSUME phase' \in {"items", "check", "save", "write"} PROVE FileInv'
  BY <1>1 DEF FileInv
<1>2. ASSUME NEW o, NEW S, NEW w, Receive(o, S, w) PROVE FileInv'
  BY <1>1, <1>2 DEF Receive
<1>3. ASSUME Fail \/ Succeed PROVE FileInv'
  BY <1>1, <1>3 DEF Fail, Succeed
<1>4. ASSUME NEW n, phase = "items", Handled(n) PROVE FileInv'
  BY <1>1, <1>4 DEF Handled
<1>5. ASSUME NEW n \in Names, \/ CreateParse(n) \/ CreateParseFails(n) \/ UpdateItem(n) \/ SyncUpdate(n) \/ SyncCreate(n)
                              \/ PauseItem(n) \/ ResumeItem(n) \/ ResumeItemFails(n)
      PROVE  FileInv'
  BY <1>3, <1>4, <1>5 DEF CreateParse, CreateParseFails, UpdateItem, SyncUpdate, SyncCreate, PauseItem, ResumeItem,
     ResumeItemFails, RestartFails
<1>6. ASSUME CreateCommit \/ UpdateCommit \/ SyncDone \/ Delete \/ PauseCommit \/ ResumeCommit PROVE FileInv'
  BY <1>3, <1>6 DEF CreateCommit, UpdateCommit, SyncDone, Delete, PauseCommit, ResumeCommit
<1>7. ASSUME UpdateCheck \/ PauseCheck \/ ResumeCheck PROVE FileInv'
  BY <1>1, <1>3, <1>7 DEF UpdateCheck, PauseCheck, ResumeCheck
<1>8. ASSUME SaveTruncate \/ SaveWrite \/ SaveFails \/ Reply PROVE FileInv'
  BY <1>8 DEF SaveTruncate, SaveWrite, SaveFails, Reply, FileInv
<1>9. ASSUME Crash \/ Start \/ (\E a \in Addrs : Finalize(a) \/ OtherProcess(a)) \/ UNCHANGED vars PROVE FileInv'
  BY <1>9 DEF Crash, Start, Finalize, OtherProcess, vars, FileInv
<1>10. ASSUME Work PROVE FileInv'
  BY <1>5, <1>6, <1>7, <1>8, <1>10 DEF Work
<1> QED
  BY <1>2, <1>9, <1>10 DEF Next

\* Without disk errors gost.json is the configuration in memory between two commands
\* (FileCurrent), whatever crashed, failed or was contended before.
THEOREM FileCurrentAlways == Spec => []FileCurrent
<1>1. Init => FileInv
  BY DEF Init, FileInv
<1>2. FileInv => FileCurrent
  BY DEF FileInv, FileCurrent
<1> QED
  BY <1>1, <1>2, InitType, NextType, NextFile, PTL DEF Spec

(***************************************************************************)
(* As long as no command has failed, registry, endpoints and configuration *)
(* agree.                                                                  *)
(***************************************************************************)

\* What CleanItems says of one name.
CleanName(n) ==
    /\ Registered(n) <=> config[n] # <<>>
    /\ Len(config[n]) <= 1
    /\ Registered(n) => registry[n] = ServedAt(n) /\ (MustServe(n) => Open(n))
    /\ op = "AddService" /\ Moved(n) => ~Registered(n) /\ listeners[want[n]] = n

\* The command has not done anything to the name that its entry does not say.
Plain(n) == ~(Moved(n) /\ op \in {"AddService", "UpdateService", "PauseService", "ResumeService"})

\* CleanItems says so of every name.
LEMMA CleanParts ==
    /\ CleanItems /\ ~failed /\ up => \A n \in Names : CleanName(n)
    /\ (~failed' /\ up' => \A n \in Names : CleanName(n)') => CleanItems'
BY DEF CleanItems, CleanName

\* A name that a step leaves alone, and whose service it does not close.
LEMMA NameKept ==
    ASSUME NEW n \in Names, CleanName(n), registry'[n] = registry[n], config'[n] = config[n], Open(n) => Open(n)',
           \/ Plain(n) /\ Plain(n)'
           \/ /\ op' = op /\ want' = want /\ (Moved(n)' <=> Moved(n))
              /\ op = "AddService" /\ Moved(n) => listeners'[want[n]] = n
    PROVE  CleanName(n)'
<1>1. Registered(n)' <=> Registered(n)
  BY DEF Registered
<1>2. FirstEntry(n)' = FirstEntry(n)
  BY DEF FirstEntry
<1>3. CASE Plain(n) /\ Plain(n)'
  <2>1. ServedAt(n)' = ServedAt(n) /\ (MustServe(n)' => MustServe(n))
    BY <1>2, <1>3 DEF ServedAt, MustServe, Plain
  <2> QED
    BY <1>1, <1>3, <2>1 DEF CleanName, Plain
<1>4. CASE /\ op' = op /\ want' = want /\ (Moved(n)' <=> Moved(n))
           /\ op = "AddService" /\ Moved(n) => listeners'[want[n]] = n
  <2>1. ServedAt(n)' = ServedAt(n) /\ (MustServe(n)' <=> MustServe(n))
    BY <1>2, <1>4 DEF ServedAt, MustServe
  <2> QED
    BY <1>1, <1>4, <2>1 DEF CleanName
<1> QED
  BY <1>3, <1>4

\* A name whose service a step has started where its only entry says.
LEMMA NameServed ==
    ASSUME NEW n \in Names, config'[n] # <<>>, Len(config'[n]) <= 1, Registered(n)', Open(n)',
           registry'[n] = ServedAt(n)', op' # "AddService" \/ ~Moved(n)'
    PROVE  CleanName(n)'
BY DEF CleanName

\* Binding an endpoint that is free takes it from nobody.
LEMMA BoundFact ==
    ASSUME NEW lst \in [Addrs -> Names \cup {Free, Foreign}], NEW n \in Names, NEW a \in Addrs, lst[a] = Free
    PROVE  /\ Bound(lst, n, a)[a] = n
           /\ \A b \in Addrs : lst[b] \in Names => Bound(lst, n, a)[b] = lst[b]
BY DEF Bound

\* A service that is started again is open, and the others stay as they were.
LEMMA RestartFact ==
    ASSUME TypeOK, NEW n \in Names, NEW a \in Addrs, Restart(n, a)
    PROVE  /\ registry'[n] = a /\ Registered(n)' /\ Open(n)'
           /\ \A m \in Names \ {n} : registry'[m] = registry[m] /\ (Open(m) => Open(m)')
<1>1. {n} \in SUBSET Names /\ registry \in [Names -> Addrs \cup {None}]
  BY DEF TypeOK
<1>2. /\ Closed({n}) \in [Addrs -> Names \cup {Free, Foreign}]
      /\ \A m \in Names \ {n} : Open(m) => Closed({n})[registry[m]] = m
  BY <1>1, ClosedFact
<1>3. /\ listeners' = Bound(Closed({n}), n, a) /\ Closed({n})[a] = Free
      /\ registry' = [registry EXCEPT ![n] = a]
  BY DEF Restart, Bindable
<1>4. /\ listeners'[a] = n
      /\ \A b \in Addrs : Closed({n})[b] \in Names => listeners'[b] = Closed({n})[b]
  BY <1>2, <1>3, BoundFact
<1>5. registry'[n] = a /\ \A m \in Names \ {n} : registry'[m] = registry[m]
  BY <1>1, <1>3
<1>6. ASSUME NEW m \in Names \ {n}, Open(m) PROVE Open(m)'
  <2>1. registry[m] \in Addrs /\ Closed({n})[registry[m]] = m
    BY <1>1, <1>2, <1>6 DEF Open, Registered
  <2> QED
    BY <1>4, <1>5, <2>1 DEF Open, Registered
<1>7. Registered(n)' /\ Open(n)'
  BY <1>4, <1>5 DEF Open, Registered
<1> QED
  BY <1>5, <1>6, <1>7

CleanInv == TypeInv /\ RegInv /\ CleanItems

\* AddService: what is parsed is held until it is registered.
LEMMA CreateClean ==
    ASSUME CleanInv, ~failed, up, (\E n \in Names : CreateParse(n)) \/ CreateCommit, NEW m \in Names
    PROVE  CleanName(m)'
<1>t. /\ TypeOK /\ config \in [Names -> Seq(Entry)] /\ registry \in [Names -> Addrs \cup {None}]
      /\ listeners \in [Addrs -> Names \cup {Free, Foreign}]
  BY DEF CleanInv, TypeInv, TypeOK
<1>c. CleanName(m)
  BY CleanParts DEF CleanInv
<1>w. op = "AddService" /\ phase = "items" /\ want \in [Names -> Addrs] /\ \A n \in Names : NewEntry(n) \in Entry
  BY DEF CreateParse, CreateCommit, CleanInv, TypeInv, WantTyped, ConfigOps, NewEntry, Entry
<1>1. ASSUME NEW n \in Names, CreateParse(n) PROVE CleanName(m)'
  <2>1. /\ listeners'[want[n]] = n
        /\ \A b \in Addrs : listeners[b] \in Names => listeners'[b] = listeners[b]
    BY <1>1, <1>t, <1>w, BoundFact DEF CreateParse, Bindable
  <2>2. /\ ~Registered(n) /\ UNCHANGED <<registry, config, op, want, phase>>
        /\ done' = done \cup {n}
    BY <1>1 DEF CreateParse, Handled
  <2>3. CASE m = n
    BY <1>c, <2>1, <2>2, <2>3 DEF CleanName, Registered
  <2>4. CASE m # n
    <3>1. Open(m) => Open(m)'
      BY <1>t, <2>1, <2>2 DEF Open, Registered
    <3>2. Moved(m)' <=> Moved(m)
      BY <2>2, <2>4 DEF Moved
    <3>3. Moved(m) => listeners'[want[m]] = m
      BY <1>c, <1>w, <2>1 DEF CleanName
    <3> QED
      BY <1>c, <2>2, <3>1, <3>2, <3>3, NameKept
  <2> QED
    BY <2>3, <2>4
<1>2. ASSUME CreateCommit PROVE CleanName(m)'
  <2>1. ~Moved(m)' /\ listeners' = listeners
    BY <1>2 DEF CreateCommit, Succeed, Moved
  <2>2. CASE m \in done
    <3>1. ~Registered(m) /\ listeners[want[m]] = m /\ config[m] = <<>>
      BY <1>c, <1>w, <2>2 DEF CleanName, Moved
    <3>2. registry'[m] = want[m] /\ config'[m] = Append(<<>>, NewEntry(m))
      BY <1>2, <1>t, <2>2, <3>1 DEF CreateCommit
    <3>3. config'[m] # <<>> /\ Len(config'[m]) <= 1 /\ config'[m][1] = NewEntry(m)
      BY <3>2, <1>w
    <3>4. Registered(m)' /\ Open(m)'
      BY <2>1, <3>1, <3>2, <1>w DEF Open, Registered
    <3>5. registry'[m] = ServedAt(m)'
      BY <2>1, <3>2, <3>3 DEF ServedAt, FirstEntry, NewEntry
    <3> QED
      BY <2>1, <3>3, <3>4, <3>5, NameServed
  <2>3. CASE m \notin done
    <3>1. registry'[m] = registry[m] /\ config'[m] = config[m] /\ ~Moved(m)
      BY <1>2, <1>t, <2>3 DEF CreateCommit, Moved
    <3> QED
      BY <1>c, <2>1, <3>1, NameKept DEF Open, Registered, Plain
  <2> QED
    BY <2>2, <2>3
<1> QED
  BY <1>1, <1>2

\* UpdateService: what is started again runs where the new entry will say.
LEMMA UpdateClean ==
    ASSUME CleanInv, ~failed, up, ~failed', (\E n \in Names : UpdateItem(n)) \/ UpdateCommit, NEW m \in Names
    PROVE  CleanName(m)'
<1>t. /\ TypeOK /\ config \in [Names -> Seq(Entry)] /\ registry \in [Names -> Addrs \cup {None}]
      /\ listeners \in [Addrs -> Names \cup {Free, Foreign}]
  BY DEF CleanInv, TypeInv, TypeOK
<1>c. CleanName(m)
  BY CleanParts DEF CleanInv
<1>w. op = "UpdateService" /\ phase = "items" /\ want \in [Names -> Addrs] /\ \A n \in Names : NewEntry(n) \in Entry
  BY DEF UpdateItem, UpdateCommit, CleanInv, TypeInv, WantTyped, ConfigOps, NewEntry, Entry
<1>i. \A n \in todo \cup done : Registered(n)
  BY <1>w DEF CleanInv, RegInv, ItemsRegistered
<1>1. ASSUME NEW n \in Names, UpdateItem(n) PROVE CleanName(m)'
  <2>1. Restart(n, want[n]) /\ Handled(n) /\ UNCHANGED config
    BY <1>1 DEF UpdateItem, RestartFails, Fail
  <2>2. /\ UNCHANGED <<config, op, want, phase>> /\ done' = done \cup {n}
    BY <2>1 DEF Handled
  <2>3. /\ registry'[n] = want[n] /\ Registered(n)' /\ Open(n)'
        /\ \A k \in Names \ {n} : registry'[k] = registry[k] /\ (Open(k) => Open(k)')
    BY <1>t, <1>w, <2>1, RestartFact
  <2>4. CASE m = n
    <3>1. Moved(m)' /\ ServedAt(m)' = want[m]
      BY <1>w, <2>2, <2>4 DEF Moved, ServedAt
    <3>2. config[m] # <<>> /\ Len(config[m]) <= 1
      BY <1>1, <1>c, <1>i, <2>4 DEF CleanName, UpdateItem
    <3> QED
      BY <1>w, <2>2, <2>3, <2>4, <3>1, <3>2, NameServed
  <2>5. CASE m # n
    <3>1. Moved(m)' <=> Moved(m)
      BY <2>2, <2>5 DEF Moved
    <3> QED
      BY <1>c, <1>w, <2>2, <2>3, <2>5, <3>1, NameKept
  <2> QED
    BY <2>4, <2>5
<1>2. ASSUME UpdateCommit PROVE CleanName(m)'
  <2>1. ~Moved(m)' /\ UNCHANGED <<listeners, registry>>
    BY <1>2 DEF UpdateCommit, Succeed, Moved
  <2>2. CASE m \in done
    <3>1. Registered(m) /\ registry[m] = want[m] /\ Open(m) /\ config[m] # <<>> /\ Len(config[m]) <= 1
      BY <1>c, <1>i, <1>w, <2>2 DEF CleanName, Moved, ServedAt, MustServe
    <3>2. config'[m] = SetFirst(config[m], NewEntry(m))
      BY <1>2, <1>t, <2>2 DEF UpdateCommit
    <3>3. config'[m] # <<>> /\ Len(config'[m]) <= 1 /\ config'[m][1] = NewEntry(m)
      BY <3>1, <3>2, <1>w, <1>t, SetFirstFact
    <3>4. registry'[m] = ServedAt(m)'
      BY <2>1, <3>1, <3>3 DEF ServedAt, FirstEntry, NewEntry
    <3> QED
      BY <2>1, <3>1, <3>3, <3>4, NameServed DEF Open, Registered
  <2>3. CASE m \notin done
    <3>1. registry'[m] = registry[m] /\ config'[m] = config[m] /\ ~Moved(m)
      BY <1>2, <1>t, <2>3 DEF UpdateCommit, Moved
    <3> QED
      BY <1>c, <2>1, <3>1, NameKept DEF Open, Registered, Plain
  <2> QED
    BY <2>2, <2>3
<1> QED
  BY <1>1, <1>2

\* SyncService: every name is finished before the next one.
LEMMA SyncClean ==
    ASSUME CleanInv, ~failed, up, ~failed', (\E n \in Names : SyncUpdate(n) \/ SyncCreate(n)) \/ SyncDone, NEW m \in Names
    PROVE  CleanName(m)'
<1>t. /\ TypeOK /\ config \in [Names -> Seq(Entry)] /\ registry \in [Names -> Addrs \cup {None}]
      /\ listeners \in [Addrs -> Names \cup {Free, Foreign}]
  BY DEF CleanInv, TypeInv, TypeOK
<1>c. \A n \in Names : CleanName(n)
  BY CleanParts DEF CleanInv
<1>w. op = "SyncService" /\ phase = "items" /\ want \in [Names -> Addrs] /\ \A n \in Names : NewEntry(n) \in Entry
  BY DEF SyncUpdate, SyncCreate, SyncDone, CleanInv, TypeInv, WantTyped, ConfigOps, NewEntry, Entry
<1>p. op' = op /\ Plain(m) /\ Plain(m)'
  BY <1>w DEF SyncUpdate, SyncCreate, SyncDone, Handled, Succeed, RestartFails, Fail, Plain
<1>s. ASSUME config'[m] # <<>>, Len(config'[m]) <= 1, config'[m][1] = NewEntry(m), registry'[m] = want[m],
             Registered(m)', Open(m)'
      PROVE  CleanName(m)'
  <2>1. registry'[m] = ServedAt(m)' /\ op' # "AddService"
    BY <1>s, <1>p, <1>w DEF ServedAt, FirstEntry, NewEntry
  <2> QED
    BY <1>s, <2>1, NameServed
<1>1. ASSUME NEW n \in Names, SyncUpdate(n) PROVE CleanName(m)'
  <2>1. Restart(n, want[n]) /\ config' = [config EXCEPT ![n] = SetFirst(@, NewEntry(n))] /\ Registered(n)
    BY <1>1 DEF SyncUpdate, RestartFails, Fail
  <2>2. /\ registry'[n] = want[n] /\ Registered(n)' /\ Open(n)'
        /\ \A k \in Names \ {n} : registry'[k] = registry[k] /\ (Open(k) => Open(k)')
    BY <1>t, <1>w, <2>1, RestartFact
  <2>3. CASE m = n
    <3>1. config[m] # <<>> /\ Len(config[m]) <= 1
      BY <1>c, <2>1, <2>3 DEF CleanName
    <3>2. config'[m] = SetFirst(config[m], NewEntry(m))
      BY <1>t, <2>1, <2>3
    <3>3. config'[m] # <<>> /\ Len(config'[m]) <= 1 /\ config'[m][1] = NewEntry(m)
      BY <1>t, <1>w, <3>1, <3>2, SetFirstFact
    <3> QED
      BY <1>s, <2>2, <2>3, <3>3
  <2>4. CASE m # n
    <3>1. config'[m] = config[m]
      BY <1>t, <2>1, <2>4
    <3> QED
      BY <1>c, <1>p, <2>2, <2>4, <3>1, NameKept
  <2> QED
    BY <2>3, <2>4
<1>2. ASSUME NEW n \in Names, SyncCreate(n) PROVE CleanName(m)'
  <2>1. /\ listeners[want[n]] = Free /\ listeners' = Bound(listeners, n, want[n]) /\ ~Registered(n)
        /\ registry' = [registry EXCEPT ![n] = want[n]]
        /\ config' = [config EXCEPT ![n] = Append(@, NewEntry(n))]
    BY <1>2 DEF SyncCreate, Bindable, Fail
  <2>2. /\ listeners'[want[n]] = n
        /\ \A b \in Addrs : listeners[b] \in Names => listeners'[b] = listeners[b]
    <3>1. want[n] \in Addrs /\ listeners[want[n]] = Free /\ listeners' = Bound(listeners, n, want[n])
      BY <1>w, <2>1
    <3> QED
      BY <1>t, <3>1, BoundFact
  <2>3. CASE m = n
    <3>1. config[m] = <<>>
      BY <1>c, <2>1, <2>3 DEF CleanName
    <3>2. config'[m] = Append(<<>>, NewEntry(m)) /\ registry'[m] = want[m]
      BY <1>t, <2>1, <2>3, <3>1
    <3>3. config'[m] # <<>> /\ Len(config'[m]) <= 1 /\ config'[m][1] = NewEntry(m)
      BY <1>w, <3>2
    <3>4. Registered(m)' /\ Open(m)'
      BY <1>w, <2>2, <2>3, <3>2 DEF Registered, Open
    <3> QED
      BY <1>s, <3>2, <3>3, <3>4
  <2>4. CASE m # n
    <3>1. config'[m] = config[m] /\ registry'[m] = registry[m]
      BY <1>t, <2>1, <2>4
    <3>2. Open(m) => Open(m)'
      BY <1>t, <2>2, <3>1 DEF Open, Registered
    <3> QED
      BY <1>c, <1>p, <3>1, <3>2, NameKept
  <2> QED
    BY <2>3, <2>4
<1>3. ASSUME SyncDone PROVE CleanName(m)'
  <2>1. UNCHANGED <<registry, listeners, config>>
    BY <1>3 DEF SyncDone
  <2> QED
    BY <1>c, <1>p, <2>1, NameKept DEF Open, Registered
<1> QED
  BY <1>1, <1>2, <1>3

\* DeleteService: nothing is left of the names, and the others are left alone.
LEMMA DeleteClean ==
    ASSUME CleanInv, ~failed, up, ~failed', Delete, NEW m \in Names
    PROVE  CleanName(m)'
<1>t. /\ TypeOK /\ config \in [Names -> Seq(Entry)] /\ registry \in [Names -> Addrs \cup {None}]
      /\ listeners \in [Addrs -> Names \cup {Free, Foreign}] /\ todo \in SUBSET Names
  BY DEF CleanInv, TypeInv, TypeOK
<1>c. CleanName(m)
  BY CleanParts DEF CleanInv
<1>1. /\ listeners' = Closed(todo) /\ Succeed /\ phase = "check"
      /\ registry' = [n \in Names |-> IF n \in todo THEN None ELSE registry[n]]
      /\ config' = [n \in Names |-> IF n \in todo THEN <<>> ELSE config[n]]
  BY DEF Delete, Fail
<1>2. ~Moved(m) /\ ~Moved(m)'
  BY <1>1 DEF Succeed, Moved
<1>3. CASE m \in todo
  <2>1. registry'[m] = None /\ config'[m] = <<>>
    BY <1>1, <1>3
  <2>2. Len(config'[m]) <= 1
    BY <2>1
  <2> QED
    BY <1>2, <2>1, <2>2 DEF CleanName, Registered
<1>4. CASE m \notin todo
  <2>1. registry'[m] = registry[m] /\ config'[m] = config[m]
    BY <1>1, <1>4
  <2>2. Open(m) => Closed(todo)[registry[m]] = m
    BY <1>t, <1>4, ClosedFact
  <2>3. Open(m) => Open(m)'
    BY <1>1, <2>1, <2>2 DEF Open, Registered
  <2> QED
    BY <1>c, <1>2, <2>1, <2>3, NameKept DEF Plain
<1> QED
  BY <1>3, <1>4

\* PauseService: what is closed is marked before the answer.
LEMMA PauseClean ==
    ASSUME CleanInv, ~failed, up, ~failed', (\E n \in Names : PauseItem(n)) \/ PauseCommit, NEW m \in Names
    PROVE  CleanName(m)'
<1>t. /\ TypeOK /\ config \in [Names -> Seq(Entry)] /\ registry \in [Names -> Addrs \cup {None}]
      /\ listeners \in [Addrs -> Names \cup {Free, Foreign}]
  BY DEF CleanInv, TypeInv, TypeOK
<1>c. CleanName(m)
  BY CleanParts DEF CleanInv
<1>w. op = "PauseService" /\ phase = "items"
  BY DEF PauseItem, PauseCommit
<1>i. \A n \in todo \cup done : Registered(n)
  BY <1>w DEF CleanInv, RegInv, ItemsRegistered
<1>1. ASSUME NEW n \in Names, PauseItem(n) PROVE CleanName(m)'
  <2>1. listeners' = Closed({n}) /\ Handled(n) /\ UNCHANGED <<registry, config>>
    BY <1>1 DEF PauseItem, Fail
  <2>2. UNCHANGED <<registry, config, op, want, phase>> /\ done' = done \cup {n}
    BY <2>1 DEF Handled
  <2>3. CASE m = n
    <3>1. Moved(m)' /\ ~MustServe(m)'
      BY <1>w, <2>2, <2>3 DEF Moved, MustServe
    <3>2. ServedAt(m)' = FirstEntry(m).addr /\ ServedAt(m) = FirstEntry(m).addr
      BY <1>w, <2>2 DEF ServedAt, FirstEntry
    <3> QED
      BY <1>c, <1>w, <2>2, <3>1, <3>2 DEF CleanName, Registered
  <2>4. CASE m # n
    <3>1. Moved(m)' <=> Moved(m)
      BY <2>2, <2>4 DEF Moved
    <3>2. Open(m) => Closed({n})[registry[m]] = m
      BY <1>t, <2>4, ClosedFact
    <3>3. Open(m) => Open(m)'
      BY <2>1, <3>2 DEF Open, Registered
    <3> QED
      BY <1>c, <1>w, <2>2, <3>1, <3>3, NameKept
  <2> QED
    BY <2>3, <2>4
<1>2. ASSUME PauseCommit PROVE CleanName(m)'
  <2>1. ~Moved(m)' /\ UNCHANGED <<listeners, registry>>
    BY <1>2 DEF PauseCommit, Succeed, Moved
  <2>2. CASE m \in done
    <3>1. Registered(m) /\ config[m] # <<>> /\ Len(config[m]) <= 1 /\ registry[m] = config[m][1].addr
      BY <1>c, <1>i, <1>w, <2>2 DEF CleanName, ServedAt, FirstEntry
    <3>2. config'[m] = SetPaused(config[m], TRUE)
      BY <1>2, <1>t, <2>2 DEF PauseCommit
    <3>3. config'[m] # <<>> /\ Len(config'[m]) <= 1 /\ config'[m][1].addr = config[m][1].addr /\ config'[m][1].paused
      <4>1. config[m] \in Seq(Entry)
        BY <1>t
      <4>2. /\ Len(config'[m]) = Len(config[m]) /\ config'[m] # <<>>
            /\ config'[m][1] = [addr |-> config[m][1].addr, paused |-> TRUE]
        BY <3>1, <3>2, <4>1, SetPausedFact
      <4> QED
        BY <3>1, <4>2
    <3>4. ServedAt(m)' = config'[m][1].addr /\ ~MustServe(m)'
      BY <2>1, <3>3 DEF ServedAt, MustServe, FirstEntry
    <3> QED
      BY <2>1, <3>1, <3>3, <3>4 DEF CleanName, Registered
  <2>3. CASE m \notin done
    <3>1. registry'[m] = registry[m] /\ config'[m] = config[m] /\ ~Moved(m)
      BY <1>2, <1>t, <2>3 DEF PauseCommit, Moved
    <3> QED
      BY <1>c, <2>1, <3>1, NameKept DEF Open, Registered, Plain
  <2> QED
    BY <2>2, <2>3
<1> QED
  BY <1>1, <1>2

\* ResumeService: what is marked as running has been started.
LEMMA ResumeClean ==
    ASSUME CleanInv, ~failed, up, ~failed', (\E n \in Names : ResumeItem(n)) \/ ResumeCommit, NEW m \in Names
    PROVE  CleanName(m)'
<1>t. /\ TypeOK /\ config \in [Names -> Seq(Entry)] /\ registry \in [Names -> Addrs \cup {None}]
      /\ listeners \in [Addrs -> Names \cup {Free, Foreign}]
  BY DEF CleanInv, TypeInv, TypeOK
<1>c. CleanName(m)
  BY CleanParts DEF CleanInv
<1>w. op = "ResumeService" /\ phase = "items"
  BY DEF ResumeItem, ResumeCommit
<1>i. \A n \in todo \cup done : Registered(n)
  BY <1>w DEF CleanInv, RegInv, ItemsRegistered
<1>1. ASSUME NEW n \in Names, ResumeItem(n) PROVE CleanName(m)'
  <2>1. Restart(n, FirstEntry(n).addr) /\ Handled(n) /\ UNCHANGED config
    BY <1>1 DEF ResumeItem
  <2>2. UNCHANGED <<config, op, want, phase>> /\ done' = done \cup {n}
    BY <2>1 DEF Handled
  <2>3. FirstEntry(n).addr \in Addrs
    BY <1>1, <1>t, FirstEntryFact DEF ResumeItem, CleanInv, TypeInv, ResumeTyped, FirstEntry
  <2>4. /\ registry'[n] = FirstEntry(n).addr /\ Registered(n)' /\ Open(n)'
        /\ \A k \in Names \ {n} : registry'[k] = registry[k] /\ (Open(k) => Open(k)')
    BY <1>t, <2>1, <2>3, RestartFact
  <2>5. CASE m = n
    <3>1. ServedAt(m)' = FirstEntry(m).addr
      BY <1>w, <2>2 DEF ServedAt, FirstEntry
    <3>2. config[m] # <<>> /\ Len(config[m]) <= 1
      BY <1>1, <1>c, <1>i, <2>5 DEF CleanName, ResumeItem
    <3> QED
      BY <1>w, <2>2, <2>4, <2>5, <3>1, <3>2, NameServed
  <2>6. CASE m # n
    <3>1. Moved(m)' <=> Moved(m)
      BY <2>2, <2>6 DEF Moved
    <3> QED
      BY <1>c, <1>w, <2>2, <2>4, <2>6, <3>1, NameKept
  <2> QED
    BY <2>5, <2>6
<1>2. ASSUME ResumeCommit PROVE CleanName(m)'
  <2>1. ~Moved(m)' /\ UNCHANGED <<listeners, registry>>
    BY <1>2 DEF ResumeCommit, Succeed, Moved
  <2>2. CASE m \in done
    <3>1. /\ Registered(m) /\ Open(m) /\ config[m] # <<>> /\ Len(config[m]) <= 1
          /\ registry[m] = config[m][1].addr
      BY <1>c, <1>i, <1>w, <2>2 DEF CleanName, ServedAt, MustServe, Moved, FirstEntry
    <3>2. config'[m] = SetPaused(config[m], FALSE)
      BY <1>2, <1>t, <2>2 DEF ResumeCommit
    <3>3. config'[m] # <<>> /\ Len(config'[m]) <= 1 /\ config'[m][1].addr = config[m][1].addr
      <4>1. config[m] \in Seq(Entry)
        BY <1>t
      <4>2. /\ Len(config'[m]) = Len(config[m]) /\ config'[m] # <<>>
            /\ config'[m][1] = [addr |-> config[m][1].addr, paused |-> FALSE]
        BY <3>1, <3>2, <4>1, SetPausedFact
      <4> QED
        BY <3>1, <4>2
    <3>4. ServedAt(m)' = config'[m][1].addr
      BY <2>1 DEF ServedAt, FirstEntry
    <3> QED
      BY <2>1, <3>1, <3>3, <3>4, NameServed DEF Open, Registered
  <2>3. CASE m \notin done
    <3>1. registry'[m] = registry[m] /\ config'[m] = config[m] /\ ~Moved(m)
      BY <1>2, <1>t, <2>3 DEF ResumeCommit, Moved
    <3> QED
      BY <1>c, <2>1, <3>1, NameKept DEF Open, Registered, Plain
  <2> QED
    BY <2>2, <2>3
<1> QED
  BY <1>1, <1>2

\* A start makes every entry of gost.json a service that listens where the entry says.
LEMMA StartClean ==
    ASSUME CleanInv, Start, NEW m \in Names
    PROVE  CleanName(m)'
<1>1. phase' = "idle" /\ file # Torn /\ file \in [Names -> Seq(Entry)] /\ config' = file
  BY DEF Start, Loadable, CleanInv, TypeInv, TypeOK, DownIsIdle
<1>2. ~Moved(m)' /\ Len(config'[m]) <= 1
  BY <1>1 DEF Moved, Start, Loadable
<1>3. registry'[m] = IF file[m] = <<>> THEN None ELSE file[m][1].addr
  BY DEF Start
<1>4. CASE file[m] = <<>>
  BY <1>1, <1>2, <1>3, <1>4 DEF CleanName, Registered
<1>5. CASE file[m] # <<>>
  <2> DEFINE a == file[m][1].addr
  <2>1. a \in Addrs
    BY <1>1, <1>5, FirstEntryFact
  <2>2. \A n \in Names : file[n] # <<>> /\ file[n][1].addr = a <=> n = m
    BY <1>5 DEF Start, Loadable
  <2>3. (CHOOSE n \in Names : file[n] # <<>> /\ file[n][1].addr = a) = m
    BY <2>2
  <2>4. listeners'[a] = m
    BY <2>1, <2>2, <2>3 DEF Start
  <2>5. Registered(m)' /\ Open(m)'
    BY <1>3, <1>5, <2>1, <2>4 DEF Registered, Open
  <2>6. registry'[m] = ServedAt(m)'
    BY <1>1, <1>2, <1>3, <1>5 DEF ServedAt, FirstEntry
  <2> QED
    BY <1>1, <1>2, <1>5, <2>5, <2>6, NameServed
<1> QED
  BY <1>4, <1>5

\* The host takes no endpoint from a service, registered or parsed.
LEMMA HostClean ==
    ASSUME CleanInv, ~failed, up, NEW a \in Addrs, Finalize(a) \/ OtherProcess(a), NEW m \in Names
    PROVE  CleanName(m)'
<1>t. /\ TypeOK /\ listeners \in [Addrs -> Names \cup {Free, Foreign}]
  BY DEF CleanInv, TypeInv, TypeOK
<1>c. CleanName(m)
  BY CleanParts DEF CleanInv
<1>1. UNCHANGED <<registry, config>> /\ (Open(m)' <=> Open(m))
  BY <1>t, HostKeepsOpen
<1>2. UNCHANGED <<op, want, phase, done>>
  BY DEF Finalize, OtherProcess, command
<1>3. ASSUME op = "AddService", Moved(m) PROVE listeners'[want[m]] = m
  <2>1. listeners[want[m]] = m /\ want[m] \in Addrs /\ phase = "items" /\ m \in done
    BY <1>3, <1>c DEF CleanName, Moved, CleanInv, TypeInv, WantTyped, ConfigOps
  <2>2. a # want[m]
    BY <1>3, <2>1 DEF Finalize, OtherProcess, Orphan
  <2> QED
    BY <1>t, <2>1, <2>2 DEF Finalize, OtherProcess
<1>4. Moved(m)' <=> Moved(m)
  BY <1>2 DEF Moved
<1> QED
  BY <1>c, <1>1, <1>2, <1>3, <1>4, NameKept

\* The steps at both ends of a command change nothing a name depends on.
LEMMA EndsClean ==
    ASSUME CleanInv, ~failed, up, ~failed',
           \/ \E o, S, w : Receive(o, S, w)
           \/ UpdateCheck \/ PauseCheck \/ ResumeCheck
           \/ SaveTruncate \/ SaveWrite \/ SaveFails \/ Reply,
           NEW m \in Names
    PROVE  CleanName(m)'
<1>c. CleanName(m)
  BY CleanParts DEF CleanInv
<1>1. UNCHANGED <<registry, listeners, config>>
  BY DEF Receive, UpdateCheck, PauseCheck, ResumeCheck, SaveTruncate, SaveWrite, SaveFails, Reply
<1>2. phase # "items"
  BY DEF Receive, UpdateCheck, PauseCheck, ResumeCheck, SaveTruncate, SaveWrite, SaveFails, Reply
<1>3. done' = {} \/ phase' # "items"
  BY DEF Receive, UpdateCheck, PauseCheck, ResumeCheck, SaveTruncate, SaveWrite, SaveFails, Reply, Fail, command,
     CleanInv, RegInv, NothingDone
<1>4. ~Moved(m) /\ ~Moved(m)'
  BY <1>2, <1>3 DEF Moved
<1> QED
  BY <1>c, <1>1, <1>4, NameKept DEF Open, Registered, Plain

\* No step that succeeds breaks the agreement.
LEMMA NextClean == CleanInv /\ [Next]_vars => CleanItems'
<1> SUFFICES ASSUME CleanInv, [Next]_vars, ~failed', up', NEW m \in Names PROVE CleanName(m)'
  BY CleanParts
<1>1. CASE UNCHANGED vars
  <2>1. CleanName(m) /\ UNCHANGED <<registry, listeners, config, op, want, phase, done>>
    BY <1>1, CleanParts DEF CleanInv, vars
  <2> QED
    BY <2>1 DEF CleanName, Registered, ServedAt, MustServe, Open, Moved, FirstEntry
<1>2. CASE Start
  BY <1>2, StartClean
<1>3. ASSUME Crash PROVE FALSE
  BY <1>3 DEF Crash
<1>4. ASSUME Fail PROVE FALSE
  BY <1>4 DEF Fail
<1>5. ASSUME Work PROVE up
  <2>1. phase # "idle"
    BY <1>5 DEF Work, CreateParse, CreateParseFails, UpdateItem, SyncUpdate, SyncCreate, PauseItem, ResumeItem, ResumeItemFails,
       CreateCommit, UpdateCheck, UpdateCommit, SyncDone, Delete, PauseCheck, PauseCommit, ResumeCheck, ResumeCommit,
       SaveTruncate, SaveWrite, SaveFails, Reply
  <2> QED
    BY <2>1 DEF CleanInv, TypeInv, DownIsIdle
<1>6. ASSUME Work PROVE ~failed
  BY <1>6 DEF Work, CreateParse, CreateParseFails, UpdateItem, SyncUpdate, SyncCreate, PauseItem, ResumeItem, ResumeItemFails,
     CreateCommit, UpdateCheck, UpdateCommit, SyncDone, Delete, PauseCheck, PauseCommit, ResumeCheck, ResumeCommit,
     SaveTruncate, SaveWrite, SaveFails, Reply, Handled, Fail, Succeed, RestartFails
<1>7. CASE Work
  <2>1. ~failed /\ up
    BY <1>5, <1>6, <1>7
  <2>2. ASSUME NEW n \in Names, CreateParseFails(n) \/ ResumeItemFails(n) PROVE FALSE
    BY <1>4, <2>2 DEF CreateParseFails, ResumeItemFails
  <2> QED
    BY <1>7, <2>1, <2>2, CreateClean, UpdateClean, SyncClean, DeleteClean, PauseClean, ResumeClean, EndsClean DEF Work
<1>8. ASSUME NEW o, NEW S, NEW w, Receive(o, S, w) PROVE CleanName(m)'
  <2>1. ~failed /\ up
    BY <1>8 DEF Receive
  <2> QED
    BY <1>8, <2>1, EndsClean
<1>9. ASSUME NEW a \in Addrs, Finalize(a) \/ OtherProcess(a) PROVE CleanName(m)'
  <2>1. UNCHANGED <<failed, up>>
    BY <1>9 DEF Finalize, OtherProcess
  <2>2. ~failed /\ up
    BY <2>1
  <2> QED
    BY <1>9, <2>2, HostClean
<1> QED
  BY <1>1, <1>2, <1>3, <1>7, <1>8, <1>9 DEF Next

\* As long as no command has failed the agent's registry, its endpoints and its configuration
\* agree (CleanAgreement), through any sequence of commands, crashes and restarts.
THEOREM CleanAgreementAlways == Spec => []CleanAgreement
<1>1. Init => CleanItems
  BY DEF Init, CleanItems, NoConfig, Registered, Moved
<1>2. CleanItems => CleanAgreement
  BY DEF CleanItems, CleanAgreement, ServedAt, MustServe, Moved
<1>3. TypeInv /\ RegInv /\ CleanItems /\ [Next]_vars => CleanItems'
  BY NextClean DEF CleanInv
<1> QED
  BY <1>1, <1>2, <1>3, InitType, NextType, InitReg, NextReg, PTL DEF Spec

(***************************************************************************)
(* What the answer of a command says.                                      *)
(***************************************************************************)

\* Nothing happens to the endpoints that objects of another name hold when a service is
\* closed and its name parsed again, with success or without.
LEMMA ListenersLocal ==
    ASSUME TypeOK, NEW n \in Names, NEW a \in Addrs, NEW lst, lst = Closed({n}),
           NEW new, (lst[a] = Free /\ new = Bound(lst, n, a)) \/ new \in ParseFailed(lst, n, a)
    PROVE  \A m \in Names \ {n}, b \in Addrs : new[b] = m <=> listeners[b] = m
<1>1. /\ listeners \in [Addrs -> Names \cup {Free, Foreign}]
      /\ lst \in [Addrs -> Names \cup {Free, Foreign}]
  BY DEF Closed, TypeOK
<1>2. ASSUME NEW m \in Names \ {n}, NEW b \in Addrs PROVE lst[b] = m <=> listeners[b] = m
  BY <1>1, <1>2 DEF Closed
<1>3. new = lst \/ (lst[a] = Free /\ new = Bound(lst, n, a))
  BY DEF ParseFailed
<1>4. ASSUME NEW m \in Names \ {n}, NEW b \in Addrs PROVE new[b] = m <=> lst[b] = m
  BY <1>1, <1>3, <1>4 DEF Bound
<1> QED
  BY <1>2, <1>4

\* A name with the same registration, entries and endpoints.
LEMMA NameSame ==
    ASSUME TypeInv, NEW m \in Names, registry'[m] = registry[m], config'[m] = config[m], before' = before,
           \A b \in Addrs : listeners'[b] = m <=> listeners[b] = m
    PROVE  /\ Open(m)' <=> Open(m)
           /\ Untouched(m)' <=> Untouched(m)
           /\ op' = op /\ want' = want /\ Midway(m) => Midway(m)'
<1>1. Open(m)' <=> Open(m)
  <2>1. registry[m] \in Addrs \cup {None}
    BY DEF TypeInv, TypeOK
  <2> QED
    BY <2>1 DEF Open, Registered
<1>2. Untouched(m)' <=> Untouched(m)
  BY <1>1 DEF Untouched
<1>3. ASSUME op' = op, want' = want, Midway(m) PROVE Midway(m)'
  <2>1. op = "AddService" => want[m] \in Addrs
    BY DEF TypeInv, WantTyped, ConfigOps
  <2>2. /\ \A a : Serves(m, a)' <=> Serves(m, a)
        /\ Recorded(m)' <=> Recorded(m)
        /\ FirstEntry(m)' = FirstEntry(m)
        /\ Registered(m)' <=> Registered(m)
    BY <1>1, <1>3 DEF Serves, Recorded, NewEntry, FirstEntry, Registered
  <2>3. op = "AddService" => (listeners[want[m]] = m => listeners'[want'[m]] = m)
    BY <1>3, <2>1
  <2> QED
    BY <1>1, <1>2, <1>3, <2>2, <2>3 DEF Midway
<1> QED
  BY <1>1, <1>2, <1>3

\* A command handles one of its names and leaves the others alone.
LEMMA HandledProgress ==
    ASSUME TypeInv, CommandProgress, phase = "items", NEW n \in todo, Handled(n), before' = before,
           \A m \in Names \ {n} : registry'[m] = registry[m] /\ config'[m] = config[m],
           \A m \in Names \ {n}, b \in Addrs : listeners'[b] = m <=> listeners[b] = m,
           Midway(n)'
    PROVE  CommandProgress'
<1>1. todo' = todo \ {n} /\ done' = done \cup {n} /\ op' = op /\ want' = want /\ phase' = phase
  BY DEF Handled
<1>2. todo \cap done = {} /\ \A m \in Names : IF m \in done THEN Midway(m) ELSE Untouched(m)
  BY DEF CommandProgress
<1>3. ASSUME NEW m \in Names PROVE IF m \in done' THEN Midway(m)' ELSE Untouched(m)'
  <2>1. CASE m = n
    BY <1>1, <2>1
  <2>2. CASE m # n
    <3>1. /\ Untouched(m)' <=> Untouched(m)
          /\ Midway(m) => Midway(m)'
      BY <1>1, <2>2, NameSame
    <3> QED
      BY <1>1, <1>2, <2>2, <3>1
  <2> QED
    BY <2>1, <2>2
<1>4. todo' \cap done' = {}
  BY <1>1, <1>2
<1> QED
  BY <1>3, <1>4 DEF CommandProgress

\* A step that changes nothing a command works on.
LEMMA StillProgress ==
    ASSUME TypeInv, CommandProgress, UNCHANGED <<registry, listeners, config, before, op, want, done>>,
           todo' \subseteq todo, phase \in {"check", "items"}
    PROVE  CommandProgress'
<1>1. ASSUME NEW m \in Names PROVE IF m \in done' THEN Midway(m)' ELSE Untouched(m)'
  <2>1. /\ Untouched(m)' <=> Untouched(m)
        /\ Midway(m) => Midway(m)'
    BY NameSame
  <2> QED
    BY <2>1 DEF CommandProgress
<1>2. todo' \cap done' = {}
  BY DEF CommandProgress
<1> QED
  BY <1>1, <1>2 DEF CommandProgress

\* A service that is started again for a command, and the others.
LEMMA RestartLocal ==
    ASSUME TypeInv, NEW n \in Names, NEW a \in Addrs, Restart(n, a)
    PROVE  /\ Serves(n, a)'
           /\ \A m \in Names \ {n} : registry'[m] = registry[m]
           /\ \A m \in Names \ {n}, b \in Addrs : listeners'[b] = m <=> listeners[b] = m
<1>1. TypeOK
  BY DEF TypeInv
<1>2. \A m \in Names \ {n}, b \in Addrs : listeners'[b] = m <=> listeners[b] = m
  BY <1>1, ListenersLocal DEF Restart, Bindable
<1> QED
  BY <1>1, <1>2, RestartFact DEF Serves

\* The entry that a command with a configuration leaves is the one it came with.
LEMMA RecordedFact ==
    ASSUME NEW n \in Names, config[n] \in Seq(Entry), NewEntry(n) \in Entry, want' = want,
           \/ config'[n] = Append(config[n], NewEntry(n))
           \/ config[n] # <<>> /\ config'[n] = SetFirst(config[n], NewEntry(n))
    PROVE  Recorded(n)'
<1>1. NewEntry(n)' = NewEntry(n)
  BY DEF NewEntry
<1>2. CASE config'[n] = Append(config[n], NewEntry(n))
  <2>1. Len(config[n]) + 1 \in DOMAIN config'[n] /\ config'[n][Len(config[n]) + 1] = NewEntry(n)
    BY <1>2
  <2> QED
    BY <1>1, <2>1, Zenon DEF Recorded
<1>3. CASE config[n] # <<>> /\ config'[n] = SetFirst(config[n], NewEntry(n))
  <2>1. config'[n] \in Seq(Entry) /\ config'[n] # <<>> /\ config'[n][1] = NewEntry(n)
    BY <1>3, SetFirstFact
  <2>2. 1 \in DOMAIN config'[n]
    BY <2>1
  <2> QED
    BY <1>1, <2>1, <2>2, Zenon DEF Recorded
<1> QED
  BY <1>2, <1>3

\* The entry of a command with a configuration is one.
LEMMA NewEntryFact ==
    ASSUME TypeInv, op \in ConfigOps, NEW n \in Names
    PROVE  want[n] \in Addrs /\ NewEntry(n) \in Entry /\ config[n] \in Seq(Entry)
<1>1. want[n] \in Addrs /\ config[n] \in Seq(Entry)
  BY DEF TypeInv, WantTyped, TypeOK
<1> QED
  BY <1>1 DEF NewEntry, Entry

\* AddService, UpdateService and SyncService handle a name.
LEMMA ConfigProgress ==
    ASSUME TypeInv, RegInv, CommandProgress, NEW n \in Names, phase' = "items",
           CreateParse(n) \/ UpdateItem(n) \/ SyncUpdate(n) \/ SyncCreate(n)
    PROVE  CommandProgress'
<1>1. op \in ConfigOps /\ n \in todo /\ phase = "items" /\ before' = before
  BY DEF CreateParse, UpdateItem, SyncUpdate, SyncCreate, ConfigOps
<1>2. /\ want[n] \in Addrs /\ NewEntry(n) \in Entry /\ config[n] \in Seq(Entry) /\ TypeOK
      /\ registry \in [Names -> Addrs \cup {None}] /\ config \in [Names -> Seq(Entry)]
  BY <1>1, NewEntryFact DEF TypeInv, TypeOK
<1>3. Untouched(n)
  BY <1>1 DEF CommandProgress
<1>4. Handled(n) /\ op' = op /\ want' = want
  BY DEF CreateParse, UpdateItem, SyncUpdate, SyncCreate, RestartFails, Fail, Handled
<1>5. CASE CreateParse(n)
  <2>1. listeners' = Bound(listeners, n, want[n]) /\ listeners[want[n]] = Free /\ UNCHANGED <<registry, config>> /\ ~Registered(n) /\ op = "AddService"
    BY <1>5 DEF CreateParse, Bindable
  <2>2. \A m \in Names \ {n}, b \in Addrs : listeners'[b] = m <=> listeners[b] = m
    BY <1>2, <2>1 DEF Bound, TypeOK
  <2>3. listeners'[want[n]] = n
    BY <1>2, <2>1 DEF Bound, TypeOK
  <2>4. ~Registered(n)' /\ Untouched(n)'
    BY <1>1, <1>3, <2>1 DEF Untouched, Open, Registered
  <2>5. Midway(n)'
    BY <1>4, <2>1, <2>3, <2>4 DEF Midway
  <2> QED
    BY <1>1, <1>4, <2>1, <2>2, <2>5, HandledProgress
<1>6. CASE UpdateItem(n)
  <2>1. Restart(n, want[n]) /\ config' = config /\ op = "UpdateService"
    BY <1>6 DEF UpdateItem, RestartFails, Fail
  <2>2. Midway(n)'
    BY <1>1, <1>2, <1>3, <1>4, <2>1, RestartLocal DEF Midway, Untouched
  <2> QED
    BY <1>1, <1>2, <1>4, <2>1, <2>2, RestartLocal, HandledProgress
<1>7. CASE SyncUpdate(n)
  <2>1. Restart(n, want[n]) /\ config' = [config EXCEPT ![n] = SetFirst(config[n], NewEntry(n))] /\ op = "SyncService" /\ config[n] # <<>>
    BY <1>7 DEF SyncUpdate, RestartFails, Fail, RegInv, RegisteredHasConfig
  <2>2. config'[n] = SetFirst(config[n], NewEntry(n)) /\ \A m \in Names \ {n} : config'[m] = config[m]
    BY <1>2, <2>1
  <2>3. Recorded(n)'
    BY <1>2, <1>4, <2>1, <2>2, RecordedFact
  <2>4. Midway(n)'
    BY <1>2, <1>4, <2>1, <2>3, RestartLocal DEF Midway
  <2> QED
    BY <1>1, <1>2, <1>4, <2>1, <2>2, <2>4, RestartLocal, HandledProgress
<1>8. CASE SyncCreate(n)
  <2>1. /\ listeners' = Bound(listeners, n, want[n]) /\ listeners[want[n]] = Free
        /\ registry' = [registry EXCEPT ![n] = want[n]]
        /\ config' = [config EXCEPT ![n] = Append(config[n], NewEntry(n))] /\ op = "SyncService"
    BY <1>8 DEF SyncCreate, Fail, Bindable
  <2>2. /\ config'[n] = Append(config[n], NewEntry(n)) /\ registry'[n] = want[n]
        /\ \A m \in Names \ {n} : config'[m] = config[m] /\ registry'[m] = registry[m]
    BY <1>2, <2>1
  <2>3. \A m \in Names \ {n}, b \in Addrs : listeners'[b] = m <=> listeners[b] = m
    BY <1>2, <2>1 DEF Bound, TypeOK
  <2>4. listeners'[want[n]] = n
    BY <1>2, <2>1 DEF Bound, TypeOK
  <2>5. Serves(n, want[n])'
    BY <1>2, <1>4, <2>2, <2>4 DEF Serves, Open, Registered
  <2>6. Recorded(n)'
    BY <1>2, <1>4, <2>2, RecordedFact
  <2>7. Midway(n)'
    BY <1>4, <2>1, <2>5, <2>6 DEF Midway
  <2> QED
    BY <1>1, <1>4, <2>2, <2>3, <2>7, HandledProgress
<1> QED
  BY <1>5, <1>6, <1>7, <1>8

\* PauseService and ResumeService handle a name.
LEMMA NameProgress ==
    ASSUME TypeInv, RegInv, CommandProgress, NEW n \in Names, phase' = "items", PauseItem(n) \/ ResumeItem(n)
    PROVE  CommandProgress'
<1>1. n \in todo /\ phase = "items" /\ before' = before /\ UNCHANGED config
  BY DEF PauseItem, ResumeItem
<1>2. TypeOK /\ registry \in [Names -> Addrs \cup {None}] /\ config \in [Names -> Seq(Entry)]
  BY DEF TypeInv, TypeOK
<1>3. Untouched(n)
  BY <1>1 DEF CommandProgress
<1>4. Handled(n) /\ op' = op
  BY DEF PauseItem, ResumeItem, Fail, Handled
<1>5. CASE PauseItem(n)
  <2>1. Registered(n) /\ config[n] # <<>> /\ op = "PauseService"
    BY <1>1, <1>5 DEF PauseItem, RegInv, ItemsRegistered, RegisteredHasConfig
  <2>2. listeners' = Closed({n}) /\ UNCHANGED registry
    BY <1>5, <2>1 DEF PauseItem
  <2>3. \A m \in Names \ {n}, b \in Addrs : listeners'[b] = m <=> listeners[b] = m
    BY <1>2, <2>2 DEF Closed, TypeOK
  <2>4. ~Open(n)'
    BY <1>2, <2>1, <2>2 DEF Closed, Open, Registered
  <2>5. Midway(n)'
    BY <1>1, <1>3, <1>4, <2>1, <2>2, <2>4 DEF Midway, Untouched
  <2> QED
    BY <1>1, <1>4, <2>2, <2>3, <2>5, HandledProgress
<1>6. CASE ResumeItem(n)
  <2>1. config[n] # <<>> /\ op = "ResumeService"
    BY <1>1, <1>6 DEF ResumeItem, TypeInv, ResumeTyped
  <2>2. FirstEntry(n).addr \in Addrs /\ Restart(n, FirstEntry(n).addr) /\ FirstEntry(n)' = FirstEntry(n)
    BY <1>1, <1>2, <1>6, <2>1, FirstEntryFact DEF ResumeItem, FirstEntry
  <2>3. Serves(n, FirstEntry(n).addr)'
    <3>1. ASSUME NEW a \in Addrs, a = FirstEntry(n).addr PROVE Serves(n, a)'
      BY <2>2, <3>1, RestartLocal
    <3> QED
      BY <2>2, <3>1 DEF Serves
  <2>4. Midway(n)'
    BY <1>1, <1>3, <1>4, <2>1, <2>3 DEF Midway, Untouched
  <2> QED
    BY <1>1, <1>4, <2>2, <2>4, RestartLocal, HandledProgress
<1> QED
  BY <1>5, <1>6

\* Neither the garbage collector nor another process takes what a command has parsed.
LEMMA HostProgress ==
    ASSUME TypeInv, RegInv, CommandProgress, NEW a \in Addrs, Finalize(a) \/ OtherProcess(a)
    PROVE  CommandProgress'
<1>1. UNCHANGED <<registry, config, op, todo, done, want, phase, before>>
  BY DEF Finalize, OtherProcess, command
<1> SUFFICES ASSUME phase \in {"check", "items"}, NEW m \in Names
             PROVE  IF m \in done THEN Midway(m)' ELSE Untouched(m)'
  BY <1>1 DEF CommandProgress
<1>2. Open(m)' <=> Open(m)
  BY HostKeepsOpen DEF TypeInv
<1>3. IF m \in done THEN Midway(m) ELSE Untouched(m)
  BY DEF CommandProgress
<1>4. Untouched(m) => Untouched(m)'
  BY <1>1, <1>2 DEF Untouched
<1>5. /\ \A b : Serves(m, b)' <=> Serves(m, b)
      /\ Recorded(m)' <=> Recorded(m)
      /\ FirstEntry(m)' = FirstEntry(m)
      /\ Registered(m)' <=> Registered(m)
  BY <1>1, <1>2 DEF Serves, Recorded, NewEntry, FirstEntry, Registered
<1>6. ASSUME op = "AddService", m \in done, listeners[want[m]] = m, ~Registered(m) PROVE listeners'[want[m]] = m
  <2>1. want[m] \in Addrs /\ phase = "items" /\ listeners \in [Addrs -> Names \cup {Free, Foreign}]
    BY <1>6 DEF TypeInv, TypeOK, WantTyped, ConfigOps, RegInv, NothingDone
  <2>2. PICK v \in {Free, Foreign} : listeners' = [listeners EXCEPT ![a] = v]
    BY DEF Finalize, OtherProcess
  <2>3. want[m] # a
    BY <1>6, <2>1 DEF Finalize, OtherProcess, Orphan
  <2> QED
    BY <1>6, <2>1, <2>2, <2>3
<1> QED
  BY <1>1, <1>2, <1>3, <1>4, <1>5, <1>6 DEF Midway

\* CommandProgress is inductive with the types and the registrations.
LEMMA NextProgress == TypeInv /\ RegInv /\ CommandProgress /\ [Next]_vars => CommandProgress'
<1> SUFFICES ASSUME TypeInv, RegInv, CommandProgress, [Next]_vars, phase' \in {"check", "items"} PROVE CommandProgress'
  BY DEF CommandProgress
<1>1. ASSUME NEW o, NEW S, NEW w, Receive(o, S, w) PROVE CommandProgress'
  <2>1. UNCHANGED <<registry, listeners, config>> /\ done' = {} /\ before' = Snapshot
    BY <1>1 DEF Receive
  <2>2. ASSUME NEW m \in Names PROVE Untouched(m)'
    BY <2>1 DEF Untouched, Snapshot, OpenNames, Open, Registered
  <2> QED
    BY <2>1, <2>2 DEF CommandProgress
<1>2. ASSUME UpdateCheck \/ PauseCheck \/ ResumeCheck PROVE CommandProgress'
  <2>1. UNCHANGED <<registry, listeners, config, before, op, want, done>> /\ todo' \subseteq todo /\ phase = "check"
    BY <1>2 DEF UpdateCheck, PauseCheck, ResumeCheck, Fail, command
  <2> QED
    BY <2>1, StillProgress
<1>3. ASSUME Work PROVE CommandProgress'
  <2>1. \/ \E n \in Names : CreateParse(n) \/ UpdateItem(n) \/ SyncUpdate(n) \/ SyncCreate(n) \/ PauseItem(n) \/ ResumeItem(n)
        \/ UpdateCheck \/ PauseCheck \/ ResumeCheck
    BY <1>3 DEF Work, CreateParseFails, ResumeItemFails, CreateCommit, UpdateCommit, SyncDone, Delete, PauseCommit,
       ResumeCommit, SaveTruncate, SaveWrite, SaveFails, Reply, Fail, Succeed
  <2>2. ASSUME NEW n \in Names,
               CreateParse(n) \/ UpdateItem(n) \/ SyncUpdate(n) \/ SyncCreate(n) \/ PauseItem(n) \/ ResumeItem(n)
        PROVE  phase' = "items"
    BY <2>2 DEF CreateParse, UpdateItem, SyncUpdate, SyncCreate, PauseItem, ResumeItem, RestartFails, Handled, Fail
  <2> QED
    BY <1>2, <2>1, <2>2, ConfigProgress, NameProgress
<1>4. ASSUME Crash PROVE FALSE
  BY <1>4 DEF Crash
<1>5. ASSUME Start PROVE FALSE
  BY <1>5 DEF Start, TypeInv, DownIsIdle
<1>6. ASSUME UNCHANGED vars PROVE CommandProgress'
  <2>1. UNCHANGED <<registry, listeners, config, before, op, want, done, todo, phase>>
    BY <1>6 DEF vars
  <2> QED
    BY <2>1, StillProgress
<1> QED
  BY <1>1, <1>3, <1>4, <1>5, <1>6, HostProgress DEF Next

\* A command refused by its check has touched nothing.
LEMMA CheckAnswer ==
    ASSUME TypeInv, RegInv, CommandProgress, phase = "check", Fail, UNCHANGED <<registry, listeners, config, before>>
    PROVE  AnswerTrue
<1>1. ASSUME NEW m \in Names PROVE Untouched(m)
  BY DEF CommandProgress, RegInv, NothingDone
<1>2. ASSUME NEW m \in Names PROVE Untouched(m)'
  BY <1>1, NameSame
<1>3. config' = before.cfg
  <2>1. config \in [Names -> Seq(Entry)] /\ before.cfg \in [Names -> Seq(Entry)]
    BY DEF TypeInv, TypeOK
  <2> QED
    BY <1>1, <2>1 DEF Untouched
<1>4. done = {} /\ todo \subseteq Names /\ ok' = FALSE
  BY DEF RegInv, NothingDone, TypeInv, TypeOK, Fail
<1> QED
  BY <1>2, <1>3, <1>4 DEF AnswerTrue

\* A failed AddService: what it parsed is registered nowhere and recorded nowhere.
LEMMA CreateFailsAnswer ==
    ASSUME TypeInv, RegInv, CommandProgress, NEW n \in Names, CreateParseFails(n)
    PROVE  AnswerTrue
<1>1. op = "AddService" /\ phase = "items" /\ n \in todo /\ UNCHANGED <<registry, config, before>> /\ ok' = FALSE
  BY DEF CreateParseFails, Fail
<1>2. want[n] \in Addrs /\ todo \subseteq Names /\ TypeOK
  BY <1>1, NewEntryFact DEF TypeInv, TypeOK, ConfigOps
<1>3. ASSUME NEW m \in Names PROVE Untouched(m)
  BY <1>1 DEF CommandProgress, Midway
<1>4. listeners' \in ParseFailed(listeners, n, want[n]) \/ (Registered(n) /\ listeners' = listeners)
  BY DEF CreateParseFails
<1>5. \A m \in Names \ {n}, b \in Addrs : listeners'[b] = m <=> listeners[b] = m
  <2>1. CASE listeners' = listeners
    BY <2>1
  <2>2. CASE listeners' \in ParseFailed(listeners, n, want[n])
    BY <1>2, <2>2 DEF ParseFailed, Bound, TypeOK
  <2> QED
    BY <1>4, <2>1, <2>2
<1>6. Untouched(n)'
  <2>1. CASE ~Registered(n)
    BY <1>1, <1>3, <2>1 DEF Untouched, Open, Registered
  <2>2. CASE Registered(n)
    <3>1. listeners' = listeners
      BY <2>2 DEF CreateParseFails
    <3> QED
      BY <1>1, <1>3, <3>1, NameSame
  <2> QED
    BY <2>1, <2>2
<1>7. ASSUME NEW m \in Names PROVE Untouched(m)'
  <2>1. CASE m = n
    BY <1>6, <2>1
  <2>2. CASE m # n
    BY <1>1, <1>3, <1>5, <2>2, NameSame
  <2> QED
    BY <2>1, <2>2
<1> QED
  BY <1>1, <1>2, <1>7 DEF AnswerTrue

\* A command that ends on one of its names, whose service it has closed: the others are as
\* it had left them.
LEMMA ItemFailsAnswer ==
    ASSUME TypeInv, RegInv, CommandProgress, NEW n \in Names, phase' = "save",
           UpdateItem(n) \/ SyncUpdate(n) \/ SyncCreate(n)
    PROVE  AnswerTrue
<1>1. op \in {"UpdateService", "SyncService"} /\ phase = "items" /\ n \in todo /\ before' = before /\ config' = config /\ ok' = FALSE
  BY DEF UpdateItem, SyncUpdate, SyncCreate, Handled, RestartFails, Fail
<1>2. want[n] \in Addrs /\ todo \subseteq Names /\ TypeOK /\ registry \in [Names -> Addrs \cup {None}]
  BY <1>1, NewEntryFact DEF TypeInv, TypeOK, ConfigOps
<1>3. registry'[n] = None /\ \A m \in Names \ {n} : registry'[m] = registry[m]
  BY <1>1, <1>2 DEF UpdateItem, SyncUpdate, SyncCreate, Handled, RestartFails, Registered
<1>4. listeners' \in ParseFailed(Closed({n}), n, want[n]) \/ listeners' \in ParseFailed(listeners, n, want[n])
  BY DEF UpdateItem, SyncUpdate, SyncCreate, Handled, RestartFails
<1>5. \A m \in Names \ {n}, b \in Addrs : listeners'[b] = m <=> listeners[b] = m
  <2>1. CASE listeners' \in ParseFailed(Closed({n}), n, want[n])
    BY <1>2, <2>1, ListenersLocal
  <2>2. CASE listeners' \in ParseFailed(listeners, n, want[n])
    BY <1>2, <2>2 DEF ParseFailed, Bound, TypeOK
  <2> QED
    BY <1>4, <2>1, <2>2
<1>6. ASSUME NEW m \in Names \ {n} PROVE Untouched(m)' <=> Untouched(m)
  BY <1>1, <1>3, <1>5, <1>6, NameSame
<1>7. ASSUME NEW m \in Names, m \notin done PROVE Untouched(m)' \/ (m = n /\ registry'[m] = None /\ config'[m] = before.cfg[m])
  <2>1. Untouched(m)
    BY <1>1, <1>7 DEF CommandProgress
  <2>2. CASE m = n
    BY <1>1, <1>3, <2>1, <2>2 DEF Untouched
  <2>3. CASE m # n
    BY <1>6, <2>1, <2>3
  <2> QED
    BY <2>2, <2>3
<1>8. todo \cap done = {}
  BY <1>1 DEF CommandProgress
<1>9. ASSUME op = "UpdateService" PROVE config' = before.cfg
  <2>1. config \in [Names -> Seq(Entry)] /\ before.cfg \in [Names -> Seq(Entry)]
    BY DEF TypeInv, TypeOK
  <2>2. ASSUME NEW m \in Names PROVE config[m] = before.cfg[m]
    BY <1>1, <1>9 DEF CommandProgress, Midway, Untouched
  <2> QED
    BY <1>1, <2>1, <2>2
<1> QED
  BY <1>1, <1>2, <1>7, <1>8, <1>9 DEF AnswerTrue

\* A successful AddService, UpdateService or SyncService: every name serves and is recorded.
LEMMA ConfigAnswer ==
    ASSUME TypeInv, RegInv, CommandProgress, CreateCommit \/ UpdateCommit \/ SyncDone
    PROVE  AnswerTrue
<1>1. /\ op \in ConfigOps /\ phase = "items" /\ todo = {} /\ UNCHANGED <<listeners, before, want, op>> /\ ok' = TRUE
  BY DEF CreateCommit, UpdateCommit, SyncDone, Succeed, ConfigOps
<1>2. done \subseteq Names /\ registry \in [Names -> Addrs \cup {None}] /\ config \in [Names -> Seq(Entry)]
  BY DEF TypeInv, TypeOK
<1>3. ASSUME NEW m \in Names, m \notin done PROVE Untouched(m)'
  <2>1. registry'[m] = registry[m] /\ config'[m] = config[m]
    BY <1>2, <1>3 DEF CreateCommit, UpdateCommit, SyncDone
  <2>2. Untouched(m)
    BY <1>1, <1>3 DEF CommandProgress
  <2> QED
    BY <1>1, <2>1, <2>2, NameSame
<1>4. ASSUME NEW m \in done PROVE Serves(m, want[m])' /\ Recorded(m)'
  <2>1. m \in Names /\ Midway(m) /\ want[m] \in Addrs /\ NewEntry(m) \in Entry /\ config[m] \in Seq(Entry)
    BY <1>1, <1>2, <1>4, NewEntryFact DEF CommandProgress
  <2>2. CASE CreateCommit
    <3>1. registry'[m] = want[m] /\ config'[m] = Append(config[m], NewEntry(m)) /\ listeners[want[m]] = m
      BY <1>4, <2>1, <2>2 DEF CreateCommit, Midway
    <3>2. Serves(m, want[m])'
      BY <1>1, <2>1, <3>1 DEF Serves, Open, Registered
    <3> QED
      BY <1>1, <2>1, <3>1, <3>2, RecordedFact
  <2>3. CASE UpdateCommit
    <3>1. config'[m] = SetFirst(config[m], NewEntry(m)) /\ registry' = registry /\ Serves(m, want[m])
      BY <1>4, <2>1, <2>3 DEF UpdateCommit, Midway
    <3>2. config[m] # <<>>
      BY <2>1, <3>1 DEF Serves, Open, RegInv, RegisteredHasConfig
    <3>3. Serves(m, want[m])'
      BY <1>1, <3>1 DEF Serves, Open, Registered
    <3> QED
      BY <1>1, <2>1, <3>1, <3>2, <3>3, RecordedFact
  <2>4. CASE SyncDone
    <3>1. UNCHANGED <<registry, config>> /\ Serves(m, want[m]) /\ Recorded(m)
      BY <2>1, <2>4 DEF SyncDone, Midway
    <3> QED
      BY <1>1, <3>1 DEF Serves, Open, Registered, Recorded, NewEntry
  <2> QED
    BY <2>2, <2>3, <2>4
<1>5. ASSUME NEW m \in done PROVE Obeyed(m)'
  BY <1>1, <1>4, <1>5 DEF Obeyed, ConfigOps
<1> QED
  BY <1>1, <1>3, <1>5 DEF AnswerTrue

\* DeleteService closes the services it takes out of the registry, and no other.
LEMMA DeleteAnswer ==
    ASSUME TypeInv, RegInv, CommandProgress, Delete
    PROVE  AnswerTrue
<1>1. op = "DeleteService" /\ phase = "check" /\ before' = before /\ done = {}
  BY DEF Delete, RegInv, NothingDone
<1>2. CASE Fail /\ UNCHANGED <<registry, listeners, config>>
  BY <1>1, <1>2, CheckAnswer
<1>3. CASE /\ \A n \in todo : Registered(n)
           /\ listeners' = Closed(todo)
           /\ registry' = [n \in Names |-> IF n \in todo THEN None ELSE registry[n]]
           /\ config' = [n \in Names |-> IF n \in todo THEN <<>> ELSE config[n]]
           /\ Succeed
  <2>1. /\ ok' = TRUE /\ op' = op /\ todo \subseteq Names /\ listeners \in [Addrs -> Names \cup {Free, Foreign}]
        /\ registry \in [Names -> Addrs \cup {None}]
    BY <1>3 DEF Succeed, TypeInv, TypeOK
  <2>2. ASSUME NEW m \in Names PROVE Untouched(m)
    BY <1>1 DEF CommandProgress
  <2>3. ASSUME NEW m \in Names \ todo PROVE Untouched(m)'
    <3>1. registry'[m] = registry[m] /\ config'[m] = config[m]
      BY <1>3, <2>3
    <3>2. \A b \in Addrs : listeners'[b] = m <=> listeners[b] = m
      BY <1>3, <2>1, <2>3 DEF Closed
    <3> QED
      BY <1>1, <2>2, <3>1, <3>2, NameSame
  <2>4. ASSUME NEW m \in todo PROVE Obeyed(m)'
    <3>1. m \in Names /\ registry'[m] = None /\ config'[m] = <<>>
      BY <1>3, <2>1, <2>4
    <3>2. before.reg[m] = registry[m] /\ registry[m] \in Addrs
      BY <1>3, <2>1, <2>2, <2>4 DEF Untouched, Registered
    <3>3. listeners'[registry[m]] # m
      BY <1>3, <2>1, <2>4, <3>2 DEF Closed
    <3> QED
      BY <1>1, <2>1, <3>1, <3>2, <3>3 DEF Obeyed, ConfigOps
  <2> QED
    BY <1>1, <2>1, <2>3, <2>4 DEF AnswerTrue
<1> QED
  BY <1>2, <1>3 DEF Delete

\* PauseService closes and marks its names; ResumeService starts them where their entries say.
LEMMA MarkAnswer ==
    ASSUME TypeInv, RegInv, CommandProgress, PauseCommit \/ ResumeCommit
    PROVE  AnswerTrue
<1>1. phase = "items" /\ todo = {} /\ UNCHANGED <<registry, listeners, before, op>> /\ ok' = TRUE
  BY DEF PauseCommit, ResumeCommit, Succeed
<1>2. done \subseteq Names /\ config \in [Names -> Seq(Entry)]
  BY DEF TypeInv, TypeOK
<1>3. ASSUME NEW m \in Names, m \notin done PROVE Untouched(m)'
  <2>1. config'[m] = config[m]
    BY <1>2, <1>3 DEF PauseCommit, ResumeCommit
  <2>2. Untouched(m)
    BY <1>1, <1>3 DEF CommandProgress
  <2> QED
    BY <1>1, <2>1, <2>2, NameSame
<1>4. ASSUME NEW m \in done PROVE Obeyed(m)'
  <2>1. m \in Names /\ Midway(m) /\ config[m] \in Seq(Entry) /\ (Open(m)' <=> Open(m))
    BY <1>1, <1>2, <1>4 DEF CommandProgress, Open, Registered
  <2>2. config[m] # <<>>
    BY <1>1, <1>4, <2>1 DEF PauseCommit, ResumeCommit, RegInv, ItemsRegistered, RegisteredHasConfig
  <2>3. CASE PauseCommit
    <3>1. config'[m] = SetPaused(config[m], TRUE) /\ op = "PauseService"
      BY <1>4, <2>1, <2>3 DEF PauseCommit
    <3>2. config'[m][1] = [addr |-> config[m][1].addr, paused |-> TRUE]
      BY <2>1, <2>2, <3>1, SetPausedFact
    <3>3. FirstEntry(m)'.paused
      BY <3>2 DEF FirstEntry
    <3> QED
      BY <1>1, <2>1, <3>1, <3>3 DEF Midway, Obeyed, ConfigOps
  <2>4. CASE ResumeCommit
    <3>1. config'[m] = SetPaused(config[m], FALSE) /\ op = "ResumeService"
      BY <1>4, <2>1, <2>4 DEF ResumeCommit
    <3>2. config'[m][1] = [addr |-> config[m][1].addr, paused |-> FALSE]
      BY <2>1, <2>2, <3>1, SetPausedFact
    <3>3. FirstEntry(m)'.addr = FirstEntry(m).addr /\ ~FirstEntry(m)'.paused
      BY <3>2 DEF FirstEntry
    <3>4. Serves(m, FirstEntry(m).addr)'
      BY <1>1, <2>1, <3>1, <3>3 DEF Midway, Serves
    <3> QED
      BY <1>1, <3>1, <3>3, <3>4 DEF Obeyed, ConfigOps
  <2> QED
    BY <2>3, <2>4
<1> QED
  BY <1>1, <1>3, <1>4 DEF AnswerTrue

\* A failed ResumeService closes and marks again what it had resumed.
LEMMA ResumeFailsAnswer ==
    ASSUME TypeInv, RegInv, CommandProgress, NEW n \in Names, ResumeItemFails(n)
    PROVE  AnswerTrue
<1>1. op = "ResumeService" /\ phase = "items" /\ n \in todo /\ before' = before /\ ok' = FALSE /\ op' = op
  BY DEF ResumeItemFails, Fail
<1>2. /\ TypeOK /\ registry \in [Names -> Addrs \cup {None}] /\ config \in [Names -> Seq(Entry)]
      /\ todo \subseteq Names /\ done \subseteq Names /\ todo \cap done = {}
  BY <1>1 DEF TypeInv, TypeOK, CommandProgress
<1>3. FirstEntry(n).addr \in Addrs
  BY <1>1, <1>2, FirstEntryFact DEF FirstEntry, TypeInv, ResumeTyped
<1>4. PICK lst \in ParseFailed(Closed({n}), n, FirstEntry(n).addr) :
          listeners' = [a \in Addrs |-> IF \E m \in done : registry[m] = a /\ lst[a] = m THEN Free ELSE lst[a]]
  BY DEF ResumeItemFails
<1>5. \A m \in Names \ {n}, b \in Addrs : lst[b] = m <=> listeners[b] = m
  BY <1>2, <1>3, <1>4, ListenersLocal
<1>6. registry'[n] = None /\ \A m \in Names \ {n} : registry'[m] = registry[m]
  BY <1>2 DEF ResumeItemFails
<1>7. \A m \in Names : config'[m] = IF m \in done THEN SetPaused(config[m], TRUE) ELSE config[m]
  BY DEF ResumeItemFails
<1>8. ASSUME NEW m \in Names, m \notin done, m # n PROVE Untouched(m)'
  <2>1. Untouched(m)
    BY <1>1, <1>8 DEF CommandProgress
  <2>2. \A b \in Addrs : listeners'[b] = m <=> listeners[b] = m
    BY <1>4, <1>5, <1>8
  <2>3. registry'[m] = registry[m] /\ config'[m] = config[m]
    BY <1>6, <1>7, <1>8
  <2> QED
    BY <1>1, <2>1, <2>2, <2>3, NameSame
<1>9. registry'[n] = None /\ config'[n] = before.cfg[n]
  BY <1>1, <1>2, <1>6, <1>7 DEF CommandProgress, Untouched
<1>10. ASSUME NEW m \in done PROVE ~Open(m)' /\ FirstEntry(m)'.paused
  <2>1. m \in Names /\ m # n /\ config[m] \in Seq(Entry) /\ registry'[m] = registry[m] /\ registry[m] \in Addrs /\ config[m] # <<>>
    BY <1>1, <1>2, <1>6, <1>10 DEF RegInv, ItemsRegistered, RegisteredHasConfig, Registered
  <2>2. listeners'[registry[m]] # m
    BY <1>4, <1>10, <2>1
  <2>3. config'[m] = SetPaused(config[m], TRUE)
    BY <1>7, <1>10, <2>1
  <2>4. config'[m][1] = [addr |-> config[m][1].addr, paused |-> TRUE]
    BY <2>1, <2>3, SetPausedFact
  <2> QED
    BY <2>1, <2>2, <2>4 DEF Open, FirstEntry
<1> QED
  BY <1>1, <1>2, <1>8, <1>9, <1>10 DEF AnswerTrue

\* Every step that decides an answer leaves the node as the answer says.
LEMMA NextAnswer == TypeInv /\ RegInv /\ CommandProgress /\ [Next]_vars => AnswerTrue
<1> SUFFICES ASSUME TypeInv, RegInv, CommandProgress, [Next]_vars, phase \in {"check", "items"}, phase' = "save"
             PROVE  AnswerTrue
  BY DEF AnswerTrue
<1>1. Work
  BY DEF Next, Receive, Crash, Start, Finalize, OtherProcess, vars
<1>2. \/ \E n \in Names : CreateParseFails(n) \/ UpdateItem(n) \/ SyncUpdate(n) \/ SyncCreate(n) \/ PauseItem(n) \/ ResumeItemFails(n)
      \/ CreateCommit \/ UpdateCommit \/ SyncDone \/ Delete \/ PauseCommit \/ ResumeCommit
      \/ UpdateCheck \/ PauseCheck \/ ResumeCheck
  BY <1>1 DEF Work, CreateParse, ResumeItem, Handled, SaveTruncate, SaveWrite, SaveFails, Reply
<1>3. ASSUME NEW n \in Names, PauseItem(n) PROVE FALSE
  <2>1. config[n] # <<>>
    BY <1>3 DEF PauseItem, RegInv, ItemsRegistered, RegisteredHasConfig
  <2> QED
    BY <1>3, <2>1 DEF PauseItem, Handled
<1>4. ASSUME UpdateCheck \/ PauseCheck \/ ResumeCheck PROVE AnswerTrue
  <2>1. phase = "check" /\ Fail /\ UNCHANGED <<registry, listeners, config, before>>
    BY <1>4 DEF UpdateCheck, PauseCheck, ResumeCheck
  <2> QED
    BY <2>1, CheckAnswer
<1> QED
  BY <1>2, <1>3, <1>4, CreateFailsAnswer, ItemFailsAnswer, ConfigAnswer, DeleteAnswer, MarkAnswer, ResumeFailsAnswer

\* What the panel may conclude from the answer of a command (CommandEffect), for any number of
\* names and endpoints, wherever the command failed and whatever other processes did meanwhile.
THEOREM CommandEffectAlways == Spec => CommandEffect
<1>1. Init => CommandProgress
  BY DEF Init, CommandProgress
<1>2. TypeInv /\ RegInv /\ CommandProgress /\ [Next]_vars => [AnswerTrue]_vars
  BY NextAnswer
<1> QED
  BY <1>1, <1>2, InitType, NextType, InitReg, NextReg, NextProgress, PTL DEF Spec, CommandEffect

(***************************************************************************)
(* Every command ends after a bounded number of steps.                     *)
(***************************************************************************)

\* The steps that are left of the command, at most.
Remaining ==
    CASE phase = "check" -> Cardinality(todo) + 5
      [] phase = "items" -> Cardinality(todo) + 4
      [] phase = "save"  -> 3
      [] phase = "write" -> 2
      [] phase = "reply" -> 1
      [] phase = "idle"  -> 0

\* The names of a command are finitely many.
LEMMA TodoFinite ==
    ASSUME TypeInv
    PROVE  IsFiniteSet(todo) /\ Cardinality(todo) \in Nat
<1>1. todo \subseteq Names
  BY DEF TypeInv, TypeOK
<1>2. IsFiniteSet(todo)
  BY <1>1, FiniteAssumption, FS_Subset
<1> QED
  BY <1>2, FS_CardinalityType

\* What is left is a number.
LEMMA RemainingFact ==
    ASSUME TypeInv
    PROVE  /\ Remaining \in Nat
           /\ phase = "check" => Remaining = Cardinality(todo) + 5
           /\ phase = "items" => Remaining = Cardinality(todo) + 4
           /\ phase = "save" => Remaining = 3
           /\ phase = "write" => Remaining = 2
           /\ phase = "reply" => Remaining = 1
           /\ phase = "idle" => Remaining = 0
<1>1. phase \in Phases
  BY DEF TypeInv, TypeOK
<1> QED
  BY <1>1, TodoFinite DEF Remaining, Phases

\* A command has no more names than the bound says.
SmallBatch == Cardinality(todo) <= MaxBatch

\* A command is received with at most MaxBatch names, and afterwards only loses some.
LEMMA NextBatch == TypeInv /\ SmallBatch /\ [Next]_vars => SmallBatch'
<1> SUFFICES ASSUME TypeInv, Cardinality(todo) <= MaxBatch, [Next]_vars PROVE Cardinality(todo') <= MaxBatch
  BY DEF SmallBatch
<1>1. ASSUME NEW o, NEW S, NEW w, Receive(o, S, w) PROVE Cardinality(todo') <= MaxBatch
  BY <1>1 DEF Receive
<1>2. ASSUME todo' \subseteq todo PROVE Cardinality(todo') <= MaxBatch
  <2>1. IsFiniteSet(todo) /\ Cardinality(todo) \in Nat /\ MaxBatch \in Nat
    BY TodoFinite, BoundAssumption
  <2>2. IsFiniteSet(todo') /\ Cardinality(todo') <= Cardinality(todo)
    BY <1>2, <2>1, FS_Subset
  <2>3. Cardinality(todo') \in Nat
    BY <2>2, FS_CardinalityType
  <2> QED
    BY <2>1, <2>2, <2>3
<1>3. ASSUME Work PROVE todo' \subseteq todo
  BY <1>3 DEF Work, CreateParse, CreateParseFails, UpdateItem, SyncUpdate, SyncCreate, PauseItem, ResumeItem,
     ResumeItemFails, CreateCommit, UpdateCheck, UpdateCommit, SyncDone, Delete, PauseCheck, PauseCommit, ResumeCheck,
     ResumeCommit, SaveTruncate, SaveWrite, SaveFails, Reply, RestartFails, Handled, Fail, Succeed, command
<1>4. ASSUME \/ Crash \/ Start \/ UNCHANGED vars
             \/ \E a \in Addrs : Finalize(a) \/ OtherProcess(a)
      PROVE  todo' \subseteq todo
  BY <1>4 DEF Crash, Start, Finalize, OtherProcess, command, vars
<1> QED
  BY <1>1, <1>2, <1>3, <1>4 DEF Next

\* Every step of the goroutine brings its command nearer to its end.
LEMMA WorkShrinks == TypeInv /\ TypeInv' /\ Work => Remaining' < Remaining
<1> SUFFICES ASSUME TypeInv, TypeInv', Work PROVE Remaining' < Remaining
  OBVIOUS
<1>1. /\ Remaining \in Nat
      /\ phase = "check" => Remaining = Cardinality(todo) + 5
      /\ phase = "items" => Remaining = Cardinality(todo) + 4
      /\ phase = "save" => Remaining = 3
      /\ phase = "write" => Remaining = 2
      /\ phase = "reply" => Remaining = 1
  BY RemainingFact
<1>2. /\ Remaining' \in Nat
      /\ phase' = "items" => Remaining' = Cardinality(todo') + 4
      /\ phase' = "save" => Remaining' = 3
      /\ phase' = "write" => Remaining' = 2
      /\ phase' = "reply" => Remaining' = 1
      /\ phase' = "idle" => Remaining' = 0
  <2>1. phase' \in Phases /\ todo' \subseteq Names
    BY DEF TypeInv, TypeOK
  <2>2. IsFiniteSet(todo') /\ Cardinality(todo') \in Nat
    BY <2>1, FiniteAssumption, FS_Subset, FS_CardinalityType
  <2> QED
    BY <2>1, <2>2 DEF Remaining, Phases
<1>3. IsFiniteSet(todo) /\ Cardinality(todo) \in Nat
  BY TodoFinite
<1>4. ASSUME phase \in {"check", "items"}, phase' = "save" PROVE Remaining' < Remaining
  BY <1>1, <1>2, <1>3, <1>4
<1>5. ASSUME phase = "items", NEW n \in todo, Handled(n) PROVE Remaining' < Remaining
  <2>1. todo' = todo \ {n} /\ phase' = "items"
    BY <1>5 DEF Handled
  <2>2. Cardinality(todo') = Cardinality(todo) - 1
    BY <1>3, <2>1, FS_RemoveElement
  <2> QED
    BY <1>1, <1>2, <1>3, <1>5, <2>1, <2>2
<1>6. ASSUME phase = "check", phase' = "items", todo' \subseteq todo PROVE Remaining' < Remaining
  <2>1. Cardinality(todo') <= Cardinality(todo) /\ Cardinality(todo') \in Nat
    BY <1>3, <1>6, FS_Subset, FS_CardinalityType
  <2> QED
    BY <1>1, <1>2, <1>3, <1>6, <2>1
<1>7. CASE \E n \in Names : \/ CreateParse(n) \/ CreateParseFails(n) \/ UpdateItem(n) \/ SyncUpdate(n) \/ SyncCreate(n)
                            \/ PauseItem(n) \/ ResumeItem(n) \/ ResumeItemFails(n)
  <2>1. PICK n \in todo : phase = "items" /\ (Handled(n) \/ phase' = "save")
    BY <1>7 DEF CreateParse, CreateParseFails, UpdateItem, SyncUpdate, SyncCreate, PauseItem, ResumeItem,
       ResumeItemFails, RestartFails, Fail
  <2> QED
    BY <1>4, <1>5, <2>1
<1>8. CASE CreateCommit \/ UpdateCommit \/ SyncDone \/ Delete \/ PauseCommit \/ ResumeCommit
  BY <1>4, <1>8 DEF CreateCommit, UpdateCommit, SyncDone, Delete, PauseCommit, ResumeCommit, Succeed, Fail
<1>9. CASE UpdateCheck \/ PauseCheck \/ ResumeCheck
  BY <1>4, <1>6, <1>9 DEF UpdateCheck, PauseCheck, ResumeCheck, Fail, command
<1>10. CASE SaveTruncate \/ SaveWrite \/ SaveFails \/ Reply
  BY <1>1, <1>2, <1>10 DEF SaveTruncate, SaveWrite, SaveFails, Reply
<1> QED
  BY <1>7, <1>8, <1>9, <1>10 DEF Work

\* A command is at no time more than MaxBatch + 5 steps from its end, and every step of the
\* goroutine that executes it is one less: no retry, rollback or failure makes it turn in
\* circles.  With the fairness of Spec this is why CommandsEnd holds.
THEOREM CommandsShrink == Spec => [](Remaining <= MaxBatch + 5) /\ [][Work => Remaining' < Remaining]_vars
<1> DEFINE Near == Remaining <= MaxBatch + 5
           Nearer == [Work => Remaining' < Remaining]_vars
<1>1. Init => SmallBatch
  BY FS_EmptySet, BoundAssumption DEF Init, SmallBatch
<1>2. TypeInv /\ SmallBatch => Near
  <2> SUFFICES ASSUME TypeInv, Cardinality(todo) <= MaxBatch PROVE Remaining <= MaxBatch + 5
    BY DEF SmallBatch
  <2>1. phase \in Phases /\ MaxBatch \in Nat
    BY BoundAssumption DEF TypeInv, TypeOK
  <2> QED
    BY <2>1, RemainingFact, TodoFinite DEF Phases
<1>3. TypeInv /\ [Next]_vars => Nearer
  BY NextType, WorkShrinks
<1> HIDE DEF Near
<1>4. Spec => []Near
  BY <1>1, <1>2, InitType, NextType, NextBatch, PTL DEF Spec
<1>5. Spec => [][Work => Remaining' < Remaining]_vars
  BY <1>3, InitType, NextType, PTL DEF Spec
<1> QED
  BY <1>4, <1>5 DEF Near
=============================================================================
