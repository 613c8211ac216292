------------------------------- MODULE Guards -------------------------------
(***************************************************************************)
(* The smaller concurrent components of the panel and the agent, explored  *)
(* one beside the other: they share nothing, so Init picks the one that    *)
(* moves and the others stay where they start.                             *)
(***************************************************************************)
EXTENDS Integers, FiniteSets

CONSTANTS
    Diagnoses, Listeners, MaxReferences,        \* ProbeListeners
    MaxVersion, Partial,                        \* AutoUpdate
    Loaders, MaxSaves,                          \* TelegramSettings
    Reports, MaxResets, MaxStops, Thresholds,   \* TelegramClaims
    Browsers, Nodes, Tickets,                   \* AdminSessions
    None

VARIABLES which,
    pCurrent, pReferences, pOpen, pTimers, pDiag, pInbox, pExpired,
    uWindows, uExe, uPrev, uTemp, uRunning, uPc, uOffered, uBest,
    sTable, sSaving, sCache, sFresh, sHolder, sLoader,
    cUsage, cThreshold, cClaims, cRep, cResets, cStops, cSent, cOrphans,
    aTicket, aBrowser, aAdmins, aLock, aNode

pVars == <<pCurrent, pReferences, pOpen, pTimers, pDiag, pInbox, pExpired>>
uVars == <<uWindows, uExe, uPrev, uTemp, uRunning, uPc, uOffered, uBest>>
sVars == <<sTable, sSaving, sCache, sFresh, sHolder, sLoader>>
cVars == <<cUsage, cThreshold, cClaims, cRep, cResets, cStops, cSent, cOrphans>>
aVars == <<aTicket, aBrowser, aAdmins, aLock, aNode>>
vars  == <<which, pVars, uVars, sVars, cVars, aVars>>

P == INSTANCE ProbeListeners WITH
       current <- pCurrent, references <- pReferences, open <- pOpen, timers <- pTimers, diag <- pDiag, inbox <- pInbox, expired <- pExpired
U == INSTANCE AutoUpdate WITH
       windows <- uWindows, exe <- uExe, prev <- uPrev, temp <- uTemp, running <- uRunning, pc <- uPc, offered <- uOffered, best <- uBest
S == INSTANCE TelegramSettings WITH
       table <- sTable, saving <- sSaving, cache <- sCache, fresh <- sFresh, holder <- sHolder, loader <- sLoader
C == INSTANCE TelegramClaims WITH
       usage <- cUsage, threshold <- cThreshold, claims <- cClaims, rep <- cRep, resets <- cResets, stops <- cStops, sent <- cSent, orphans <- cOrphans
A == INSTANCE AdminSessions WITH
       ticket <- aTicket, browser <- aBrowser, admins <- aAdmins, lock <- aLock, node <- aNode

\* No listener is the name of a service or none at all, and no version is a partial or missing file.
ASSUME NoneAssumption ==
    /\ None \notin Listeners /\ "service" \notin Listeners /\ None # "service"
    /\ None \notin 1..MaxVersion /\ Partial \notin 1..MaxVersion /\ Partial # None

\* There is a first version; diagnoses and reports under way are finitely many.
ASSUME BoundsAssumption == MaxVersion \in Nat \ {0} /\ IsFiniteSet(Diagnoses) /\ IsFiniteSet(Reports)

Init ==
    /\ which \in {"probe", "update", "settings", "claims", "admin"}
    /\ P!Init /\ S!Init /\ C!Init /\ A!Init /\ U!Init
    /\ which # "update" => ~uWindows
    /\ which # "claims" => cThreshold = 1

Probe(Act)    == which = "probe"    /\ Act /\ UNCHANGED <<which, uVars, sVars, cVars, aVars>>
Update(Act)   == which = "update"   /\ Act /\ UNCHANGED <<which, pVars, sVars, cVars, aVars>>
Settings(Act) == which = "settings" /\ Act /\ UNCHANGED <<which, pVars, uVars, cVars, aVars>>
Claims(Act)   == which = "claims"   /\ Act /\ UNCHANGED <<which, pVars, uVars, sVars, aVars>>
Admin(Act)    == which = "admin"    /\ Act /\ UNCHANGED <<which, pVars, uVars, sVars, cVars>>

Next ==
    \/ Probe(P!Next) \/ Update(U!Next)
    \/ Settings(S!Next) \/ Claims(C!Next) \/ Admin(A!Next)

\* The fairness of the components, for the one that moves.
Fairness ==
    /\ \A l \in Listeners : WF_vars(Probe(P!ExpireTcpProbeListener(l)))
    /\ WF_vars(Update(U!Restart /\ U!Note)) /\ WF_vars(Update(U!Script /\ U!Note))
    /\ WF_vars(Settings(S!Expire)) /\ WF_vars(Settings(S!InvalidateCache \/ \E r \in S!Rows : S!Upsert(r)))
    /\ \A l \in Loaders : WF_vars(Settings(S!LoadStep(l)))
    /\ \A r \in Reports : WF_vars(Claims(C!Step(r)))
    /\ \A k \in C!Keys : SF_vars(Claims(C!Deliver(k)))
    /\ \A n \in Nodes : WF_vars(Admin(A!NextAdmin(n))) /\ SF_vars(Admin(A!WaitSendLock(n))) /\ WF_vars(Admin(A!Sent(n)))
    /\ \A b \in Browsers : WF_vars(Admin(aBrowser[b].at = "silent" /\ A!End(b)))

Spec == Init /\ [][Next]_vars /\ Fairness

\* A probe listener is open exactly while it is in the table, and a diagnosis that
\* was told its listener is up finds it up, until one expires (websocket_reporter.go:1276-1280).
ProbesHeld == P!NoStraySocket /\ P!HeldWhilePinging

\* A verified agent is on the disk at any time, under its name or as its backup, and
\* the agent never runs an older version than before (auto_update.go:91, auto_update_unix.go:13-24).
UpdateSafe == U!AgentOnDisk /\ U!NoDowngrade

\* The agent recovers from what stopped half way: every probe listener is closed in
\* the end, and after a crash the agent runs again unless the name of its executable
\* is free (websocket_reporter.go:1303, auto_update_unix.go:14-18).
AgentRecovers == P!PortGivenBack /\ U!ComesBack

\* Torn or stale settings are used for a while only (TelegramNotifier.cs:59, :208).
SettlesOnStored == S!SettlesOnStored

\* A claim stands for exactly one notice, sent, on its way or lost (TelegramNotifier.cs:145).
ClaimIsOneNotice == C!ClaimIsOneNotice

\* A level that was reached is told in the end if reports keep coming, unless the panel or its
\* database failed between the claim and the message (TelegramNotifier.cs:145).
ToldInTheEnd == C!ToldInTheEnd

\* A silent browser delays the read loops of the nodes and does not stop them (NodeGateway.cs:254).
NodesReadOn == A!NodesReadOn
=============================================================================
