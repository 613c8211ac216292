---------------------------- MODULE Guards_proofs ----------------------------
(***************************************************************************)
(* Proofs of the safety properties of the components of Guards, for any    *)
(* number of diagnoses, versions and reports.  Every component has an      *)
(* inductive invariant of its own; a step of Guards is a step of one       *)
(* component or leaves it alone (Steps).                                   *)
(***************************************************************************)
EXTENDS Guards, FiniteSetTheorems, TLAPS

\* A step of Guards is, for each component, one of its steps or none.
LEMMA Steps ==
    ASSUME [Next]_vars
    PROVE  [P!Next]_pVars /\ [U!Next]_uVars /\ [C!Next]_cVars
<1>1. CASE Probe(P!Next)
  BY <1>1 DEF Probe
<1>2. CASE Update(U!Next)
  BY <1>2 DEF Update
<1>3. CASE Settings(S!Next)
  BY <1>3 DEF Settings
<1>4. CASE Claims(C!Next)
  BY <1>4 DEF Claims
<1>5. CASE Admin(A!Next)
  BY <1>5 DEF Admin
<1>6. CASE UNCHANGED vars
  BY <1>6 DEF vars
<1> QED
  BY <1>1, <1>2, <1>3, <1>4, <1>5, <1>6 DEF Next

(***************************************************************************)
(* The agent's update of itself.                                           *)
(***************************************************************************)

\* While the agent runs it is the highest version that ran; until the renames its
\* name holds it, and what is being installed is newer.
UpdRunning ==
    /\ uRunning # None => uRunning = uBest
    /\ uRunning # None /\ uPc \in {"wait", "download", "verified"} => uExe = uRunning
    /\ uPc \in {"download", "verified", "renamed", "placed"} => uRunning # None /\ uOffered > uRunning

\* What each place between the check of the digest and the restart has on the disk.
UpdInstalling ==
    /\ uPc \in {"verified", "renamed", "script"} => uTemp = uOffered
    /\ uPc = "renamed" => uExe = None /\ uPrev = uRunning
    /\ uPc = "placed" => uExe = uOffered /\ uPrev = uRunning
    /\ uPc = "script" => uRunning = None /\ uExe = uBest /\ uOffered > uBest

\* What is left when the process is gone: a file to start that is not older than
\* any that ran, or the backup alone.
UpdStopped ==
    /\ uPc = "stuck" => uExe = None /\ uPrev \in U!Versions
    /\ uPc = "wait" /\ uRunning = None =>
         (uExe = None /\ uPrev \in U!Versions) \/ (uExe \in U!Versions /\ uExe >= uBest)

UpdInv == U!TypeOK /\ UpdRunning /\ UpdInstalling /\ UpdStopped

\* The installed version runs and nothing else is there.
LEMMA UpdInit == U!Init => UpdInv
BY NoneAssumption, BoundsAssumption
   DEF U!Init, UpdInv, U!TypeOK, U!Versions, U!File, UpdRunning, UpdInstalling, UpdStopped

\* A version is a number, and neither a partial file nor none.
LEMMA VersionsAreNumbers ==
    U!Versions \subseteq Int /\ None \notin U!Versions /\ Partial \notin U!Versions
BY NoneAssumption, BoundsAssumption DEF U!Versions

\* Every step of the updater, its failures and the kills between them.
LEMMA UpdNext ==
    ASSUME UpdInv, U!Next
    PROVE  UpdInv'
<1> USE VersionsAreNumbers DEF UpdInv
<1>n. U!Note
  BY DEF U!Next
<1>1. CASE U!CheckAndApplyUpdate
  BY <1>1, <1>n DEF U!CheckAndApplyUpdate, U!Accepted, U!Note, U!TypeOK, U!File, UpdRunning, UpdInstalling, UpdStopped
<1>2. CASE U!Download
  BY <1>2, <1>n DEF U!Download, U!Note, U!TypeOK, U!File, UpdRunning, UpdInstalling, UpdStopped
<1>3. CASE U!Verify
  BY <1>3, <1>n DEF U!Verify, U!Abandon, U!Note, U!TypeOK, U!File, UpdRunning, UpdInstalling, UpdStopped
<1>4. CASE U!Backup
  BY <1>4, <1>n DEF U!Backup, U!Abandon, U!Note, U!TypeOK, U!File, UpdRunning, UpdInstalling, UpdStopped
<1>5. CASE U!Place
  BY <1>5, <1>n DEF U!Place, U!Rollback, U!Abandon, U!Note, U!TypeOK, U!File, UpdRunning, UpdInstalling, UpdStopped
<1>6. CASE U!Exec
  BY <1>6, <1>n DEF U!Exec, U!Rollback, U!Abandon, U!files, U!Note, U!TypeOK, U!File, UpdRunning, UpdInstalling, UpdStopped
<1>7. CASE U!StartScript
  BY <1>7, <1>n DEF U!StartScript, U!Abandon, U!Note, U!TypeOK, U!File, UpdRunning, UpdInstalling, UpdStopped
<1>8. CASE U!Script
  BY <1>8, <1>n DEF U!Script, U!Note, U!TypeOK, U!File, UpdRunning, UpdInstalling, UpdStopped
<1>9. CASE U!Crash
  BY <1>9, <1>n DEF U!Crash, U!Note, U!TypeOK, U!File, UpdRunning, UpdInstalling, UpdStopped
<1>10. CASE U!Restart
  BY <1>10, <1>n DEF U!Restart, U!Note, U!TypeOK, U!File, UpdRunning, UpdInstalling, UpdStopped
<1> QED
  BY <1>1, <1>2, <1>3, <1>4, <1>5, <1>6, <1>7, <1>8, <1>9, <1>10 DEF U!Next, U!Step

\* However many versions are released, whatever step of an installation fails and
\* whenever the agent is killed, a verified agent stays on the disk and none older
\* than before ever runs (auto_update.go:91, auto_update_unix.go:13-24).
THEOREM UpdateSafeAlways == Spec => []UpdateSafe
<1>1. Init => UpdInv
  BY UpdInit DEF Init
<1>2. UpdInv /\ [Next]_vars => UpdInv'
  <2> SUFFICES ASSUME UpdInv, [U!Next]_uVars PROVE UpdInv'
    BY Steps
  <2>1. CASE U!Next
    BY <2>1, UpdNext
  <2>2. CASE UNCHANGED uVars
    BY <2>2 DEF uVars, UpdInv, U!TypeOK, UpdRunning, UpdInstalling, UpdStopped
  <2> QED
    BY <2>1, <2>2
<1>3. UpdInv => UpdateSafe
  BY VersionsAreNumbers
     DEF UpdInv, UpdateSafe, U!AgentOnDisk, U!NoDowngrade, U!TypeOK, U!File, UpdRunning, UpdInstalling, UpdStopped
<1> QED
  BY <1>1, <1>2, <1>3, PTL DEF Spec

(***************************************************************************)
(* The claims of the Telegram notices.                                     *)
(***************************************************************************)

\* The reports whose claim of notice k is still there.
Owners(k) == {r \in Reports : cRep[r].own /\ cRep[r].key = k}

Reporting == [at : {"idle", "compare", "send", "failed"}, u : 0..2, key : C!Keys, own : BOOLEAN]

ClaimTyped ==
    /\ cUsage \in 0..2
    /\ cRep \in [Reports -> Reporting]
    /\ cSent \in [C!Keys -> Nat]

\* Only a report that is about to send, or could not, has a claim of its own.
ClaimOwned == \A r \in Reports : cRep[r].own => cRep[r].at \in {"send", "failed"}

\* What claims of notice k there are, told, under way and lost.
ClaimCounted(k) ==
    cSent[k] + Cardinality(Owners(k)) + (IF k \in cOrphans THEN 1 ELSE 0) = (IF k \in cClaims THEN 1 ELSE 0)

ClaimInv == ClaimTyped /\ ClaimOwned /\ \A k \in C!Keys : ClaimCounted(k)

\* The reports are finitely many, and so are the owners of a claim.
LEMMA OwnersFinite ==
    ASSUME NEW k
    PROVE  IsFiniteSet(Owners(k)) /\ Cardinality(Owners(k)) \in Nat
<1>1. Owners(k) \in SUBSET Reports
  BY DEF Owners
<1> QED
  BY <1>1, BoundsAssumption, FS_Subset, FS_CardinalityType

\* As many owners as before, as long as they are the same.
LEMMA CountKept ==
    ASSUME NEW k \in C!Keys, ClaimCounted(k), Owners(k)' = Owners(k),
           cSent'[k] = cSent[k], k \in cOrphans' <=> k \in cOrphans, k \in cClaims' <=> k \in cClaims
    PROVE  ClaimCounted(k)'
<1>1. Cardinality(Owners(k)') = Cardinality(Owners(k))
  OBVIOUS
<1> QED
  BY <1>1 DEF ClaimCounted

\* A notice nobody owns, with no claim, told to nobody.
LEMMA CountNone ==
    ASSUME NEW k \in C!Keys, Owners(k)' = {}, cSent'[k] = 0, k \notin cOrphans', k \notin cClaims'
    PROVE  ClaimCounted(k)'
<1>1. Cardinality(Owners(k)') = 0
  BY FS_EmptySet
<1> QED
  BY <1>1 DEF ClaimCounted

\* Where a report goes after a notice: to the next one, without a claim.
LEMMA AfterTyped ==
    ASSUME ClaimTyped, NEW r \in Reports
    PROVE  C!After(r) \in Reporting /\ ~C!After(r).own
<1>1. cRep[r] \in Reporting
  BY DEF ClaimTyped
<1>2. C!Idle \in Reporting /\ ~C!Idle.own
  BY DEF C!Idle, Reporting, C!Keys
<1>3. LET x == [cRep[r] EXCEPT !.at = "compare", !.key = "limit", !.own = FALSE]
      IN  x \in Reporting /\ ~x.own
  BY <1>1 DEF Reporting, C!Keys
<1> QED
  BY <1>2, <1>3 DEF C!After

\* A report that has no claim before a step and none after it changes no owners.
LEMMA OwnersKept ==
    ASSUME ClaimTyped, NEW r \in Reports, NEW x \in Reporting, cRep' = [cRep EXCEPT ![r] = x],
           ~cRep[r].own, ~x.own, NEW k
    PROVE  Owners(k)' = Owners(k)
<1>1. cRep'[r] = x /\ \A q \in Reports \ {r} : cRep'[q] = cRep[q]
  BY DEF ClaimTyped
<1> QED
  BY <1>1 DEF Owners

\* A claim is deleted by its key: nobody owns it any more, and the other stays.
LEMMA ClearClaimKeeps ==
    ASSUME ClaimInv, NEW r \in Reports, C!ClearClaim(r), UNCHANGED cUsage
    PROVE  ClaimInv'
<1>t. ClaimTyped /\ ClaimOwned
  BY DEF ClaimInv
<1>k. PICK k \in C!Keys : k = cRep[r].key
  BY <1>t DEF ClaimTyped, Reporting
<1>1. /\ cClaims' = cClaims \ {k} /\ cOrphans' = cOrphans \ {k}
      /\ cSent' = [cSent EXCEPT ![k] = 0]
      /\ cRep' = [q \in Reports |-> IF q = r THEN C!After(r)
                    ELSE IF cRep[q].at # "idle" /\ cRep[q].key = k THEN [cRep[q] EXCEPT !.own = FALSE] ELSE cRep[q]]
  BY <1>k DEF C!ClearClaim
<1>2. ASSUME NEW q \in Reports
      PROVE  /\ cRep'[q] \in Reporting
             /\ cRep'[q].own => cRep'[q] = cRep[q] /\ cRep[q].key # k
             /\ cRep[q].own /\ cRep[q].key # k => cRep'[q] = cRep[q]
  <2>1. cRep[q] \in Reporting
    BY <1>t DEF ClaimTyped
  <2>2. CASE q = r
    BY <1>1, <1>k, <2>2, <1>t, AfterTyped
  <2>3. CASE q # r /\ cRep[q].at # "idle" /\ cRep[q].key = k
    <3>1. cRep'[q] = [cRep[q] EXCEPT !.own = FALSE]
      BY <1>1, <2>3
    <3> QED
      BY <2>1, <2>3, <3>1 DEF Reporting
  <2>4. CASE q # r /\ ~(cRep[q].at # "idle" /\ cRep[q].key = k)
    <3>1. cRep'[q] = cRep[q]
      BY <1>1, <2>4
    <3>2. cRep[q].own => cRep[q].key # k
      BY <1>t, <2>4 DEF ClaimOwned
    <3> QED
      BY <2>1, <3>1, <3>2
  <2> QED
    BY <2>2, <2>3, <2>4
<1>3. ClaimTyped'
  <2>1. cSent' \in [C!Keys -> Nat]
    BY <1>t, <1>1 DEF ClaimTyped
  <2>2. cRep' \in [Reports -> Reporting]
    BY <1>1, <1>2
  <2> QED
    BY <1>t, <2>1, <2>2 DEF ClaimTyped
<1>4. ClaimOwned'
  BY <1>t, <1>2 DEF ClaimOwned
<1>5. Owners(k)' = {}
  BY <1>2 DEF Owners
<1>6. ASSUME NEW j \in C!Keys, j # k
      PROVE  ClaimCounted(j)'
  <2>1. Owners(j)' = Owners(j)
    BY <1>2, <1>6 DEF Owners
  <2>2. cSent'[j] = cSent[j] /\ (j \in cClaims' <=> j \in cClaims) /\ (j \in cOrphans' <=> j \in cOrphans)
    BY <1>t, <1>1, <1>6 DEF ClaimTyped
  <2> QED
    BY <2>1, <2>2, CountKept DEF ClaimInv
<1>7. ClaimCounted(k)'
  <2>1. cSent'[k] = 0 /\ k \notin cClaims' /\ k \notin cOrphans'
    BY <1>t, <1>k, <1>1 DEF ClaimTyped
  <2> QED
    BY <1>k, <1>5, <2>1, CountNone
<1> QED
  BY <1>3, <1>4, <1>6, <1>7 DEF ClaimInv

\* A report that takes a claim nobody has.
LEMMA ClaimTaken ==
    ASSUME ClaimInv, NEW r \in Reports, cRep[r].at = "compare", cRep[r].key \notin cClaims,
           cClaims' = cClaims \cup {cRep[r].key}, cRep' = [cRep EXCEPT ![r].at = "send", ![r].own = TRUE],
           UNCHANGED <<cUsage, cSent, cOrphans>>
    PROVE  ClaimInv'
<1>t. ClaimTyped /\ ClaimOwned /\ cRep[r] \in Reporting /\ ~cRep[r].own
  BY DEF ClaimInv, ClaimTyped, ClaimOwned
<1>1. /\ cRep'[r] \in Reporting /\ cRep'[r].at = "send" /\ cRep'[r].own /\ cRep'[r].key = cRep[r].key
      /\ \A q \in Reports \ {r} : cRep'[q] = cRep[q]
      /\ cRep' \in [Reports -> Reporting]
  BY <1>t DEF ClaimTyped, Reporting
<1>2. ClaimTyped' /\ ClaimOwned'
  BY <1>t, <1>1 DEF ClaimTyped, ClaimOwned
<1>3. PICK k \in C!Keys : k = cRep[r].key
  BY <1>t DEF Reporting
<1>4. ASSUME NEW j \in C!Keys, j # k
      PROVE  ClaimCounted(j)'
  <2>1. Owners(j)' = Owners(j)
    BY <1>t, <1>1, <1>3, <1>4 DEF Owners
  <2>2. j \in cClaims' <=> j \in cClaims
    BY <1>3, <1>4
  <2> QED
    BY <2>1, <2>2, CountKept DEF ClaimInv
<1>5. ClaimCounted(k)'
  <2>1. cSent[k] \in Nat /\ Cardinality(Owners(k)) \in Nat /\ IsFiniteSet(Owners(k))
    BY <1>t, OwnersFinite DEF ClaimTyped
  <2>2. cSent[k] + Cardinality(Owners(k)) + (IF k \in cOrphans THEN 1 ELSE 0) = 0
    BY <1>3 DEF ClaimInv, ClaimCounted
  <2>3. cSent[k] = 0 /\ Cardinality(Owners(k)) = 0 /\ k \notin cOrphans
    BY <2>1, <2>2
  <2>4. Owners(k) = {}
    BY <2>1, <2>3, FS_EmptySet
  <2>5. Owners(k)' = {r}
    BY <1>1, <1>3, <2>4 DEF Owners
  <2>6. Cardinality(Owners(k)') = 1
    BY <2>5, FS_Singleton
  <2>7. k \in cClaims' /\ cSent'[k] = 0 /\ k \notin cOrphans'
    BY <1>3, <2>3
  <2> QED
    BY <2>6, <2>7 DEF ClaimCounted
<1> QED
  BY <1>2, <1>4, <1>5 DEF ClaimInv

\* A notice is delivered: the claim of its owner is told once more.
LEMMA DeliveredKeeps ==
    ASSUME ClaimInv, NEW r \in Reports, C!Delivered(r)
    PROVE  ClaimInv'
<1>t. ClaimTyped /\ ClaimOwned /\ cRep[r] \in Reporting
  BY DEF ClaimInv, ClaimTyped
<1>1. /\ cRep' = [cRep EXCEPT ![r] = C!After(r)]
      /\ cSent' = IF cRep[r].own THEN [cSent EXCEPT ![cRep[r].key] = @ + 1] ELSE cSent
      /\ UNCHANGED <<cUsage, cClaims, cOrphans>>
  BY DEF C!Delivered
<1>2. C!After(r) \in Reporting /\ ~C!After(r).own
  BY <1>t, AfterTyped
<1>3. PICK k \in C!Keys : k = cRep[r].key
  BY <1>t DEF Reporting
<1>4. ClaimTyped' /\ ClaimOwned'
  <2>1. cSent' \in [C!Keys -> Nat]
    BY <1>t, <1>1, <1>3 DEF ClaimTyped
  <2> QED
    BY <1>t, <1>1, <1>2, <2>1 DEF ClaimTyped, ClaimOwned
<1>5. CASE ~cRep[r].own
  <2>1. ASSUME NEW j \in C!Keys PROVE ClaimCounted(j)'
    <3>1. Owners(j)' = Owners(j)
      BY <1>t, <1>1, <1>2, <1>5, OwnersKept
    <3> QED
      BY <1>1, <1>5, <3>1, CountKept DEF ClaimInv
  <2> QED
    BY <1>4, <2>1 DEF ClaimInv
<1>6. CASE cRep[r].own
  <2>1. cRep'[r] = C!After(r) /\ \A q \in Reports \ {r} : cRep'[q] = cRep[q]
    BY <1>t, <1>1 DEF ClaimTyped
  <2>2. ASSUME NEW j \in C!Keys, j # k PROVE ClaimCounted(j)'
    <3>1. Owners(j)' = Owners(j)
      BY <1>2, <1>3, <2>1, <2>2 DEF Owners
    <3>2. cSent'[j] = cSent[j]
      BY <1>t, <1>1, <1>3, <2>2 DEF ClaimTyped
    <3> QED
      BY <1>1, <3>1, <3>2, CountKept DEF ClaimInv
  <2>3. ClaimCounted(k)'
    <3>1. Owners(k)' = Owners(k) \ {r} /\ r \in Owners(k)
      BY <1>2, <1>3, <1>6, <2>1 DEF Owners
    <3>2. Cardinality(Owners(k) \ {r}) = Cardinality(Owners(k)) - 1 /\ Cardinality(Owners(k)) \in Nat
      BY <3>1, OwnersFinite, FS_RemoveElement
    <3>3. Cardinality(Owners(k)') = Cardinality(Owners(k)) - 1
      BY <3>1, <3>2
    <3>4. cSent'[k] = cSent[k] + 1 /\ cSent[k] \in Nat
      BY <1>t, <1>1, <1>3, <1>6 DEF ClaimTyped
    <3> QED
      BY <1>1, <3>2, <3>3, <3>4 DEF ClaimInv, ClaimCounted
  <2> QED
    BY <1>4, <2>2, <2>3 DEF ClaimInv
<1> QED
  BY <1>5, <1>6

\* The panel stops: the claims under way are lost, each of them once.
LEMMA StopKeeps ==
    ASSUME ClaimInv, C!Stop
    PROVE  ClaimInv'
<1>1. /\ cRep' = [r \in Reports |-> C!Idle] /\ UNCHANGED <<cUsage, cClaims, cSent>>
      /\ cOrphans' = cOrphans \cup {k \in cClaims : \E r \in Reports : cRep[r].own /\ cRep[r].key = k}
  BY DEF C!Stop
<1>2. C!Idle \in Reporting /\ ~C!Idle.own
  BY DEF C!Idle, Reporting, C!Keys
<1>3. ClaimTyped' /\ ClaimOwned'
  BY <1>1, <1>2 DEF ClaimInv, ClaimTyped, ClaimOwned
<1>4. ASSUME NEW k \in C!Keys PROVE ClaimCounted(k)'
  <2>1. Cardinality(Owners(k)') = 0
    <3>1. Owners(k)' = {}
      BY <1>1, <1>2 DEF Owners
    <3> QED
      BY <3>1, FS_EmptySet
  <2>2. cSent[k] \in Nat /\ Cardinality(Owners(k)) \in Nat /\ (Cardinality(Owners(k)) = 0 <=> Owners(k) = {})
    BY OwnersFinite, FS_EmptySet DEF ClaimInv, ClaimTyped
  <2>3. cSent[k] + Cardinality(Owners(k)) + (IF k \in cOrphans THEN 1 ELSE 0) = (IF k \in cClaims THEN 1 ELSE 0)
    BY DEF ClaimInv, ClaimCounted
  <2>4. k \in cOrphans' <=> k \in cOrphans \/ (k \in cClaims /\ Owners(k) # {})
    BY <1>1 DEF Owners
  <2>5. cSent[k] + (IF k \in cOrphans' THEN 1 ELSE 0) = (IF k \in cClaims THEN 1 ELSE 0)
    BY <2>2, <2>3, <2>4
  <2> QED
    BY <1>1, <2>1, <2>2, <2>5 DEF ClaimCounted
<1> QED
  BY <1>3, <1>4 DEF ClaimInv

\* Steps after which the owners are the same: a report begins, or goes on without a claim.
LEMMA UnownedKeeps ==
    ASSUME ClaimInv, NEW r \in Reports, NEW x \in Reporting, cRep' = [cRep EXCEPT ![r] = x],
           ~cRep[r].own, ~x.own, UNCHANGED <<cUsage, cClaims, cSent, cOrphans>>
    PROVE  ClaimInv'
<1>1. ClaimTyped' /\ ClaimOwned'
  BY DEF ClaimInv, ClaimTyped, ClaimOwned
<1>2. ASSUME NEW k \in C!Keys PROVE ClaimCounted(k)'
  <2>1. Owners(k)' = Owners(k)
    BY OwnersKept DEF ClaimInv
  <2> QED
    BY <2>1, CountKept DEF ClaimInv
<1> QED
  BY <1>1, <1>2 DEF ClaimInv

\* A statement fails and ends its report: a claim of its own is lost.
LEMMA StatementFailsKeeps ==
    ASSUME ClaimInv, NEW r \in Reports, C!StatementFails(r)
    PROVE  ClaimInv'
<1>t. ClaimTyped /\ ClaimOwned /\ cRep[r] \in Reporting
  BY DEF ClaimInv, ClaimTyped
<1>1. /\ cRep' = [cRep EXCEPT ![r] = C!Idle] /\ UNCHANGED <<cUsage, cClaims, cSent>>
      /\ cOrphans' = IF cRep[r].own THEN cOrphans \cup {cRep[r].key} ELSE cOrphans
  BY DEF C!StatementFails
<1>2. C!Idle \in Reporting /\ ~C!Idle.own
  BY DEF C!Idle, Reporting, C!Keys
<1>3. CASE ~cRep[r].own
  BY <1>1, <1>2, <1>3, UnownedKeeps
<1>4. CASE cRep[r].own
  <2>k. PICK k \in C!Keys : k = cRep[r].key
    BY <1>t DEF Reporting
  <2>1. cRep'[r] = C!Idle /\ \A q \in Reports \ {r} : cRep'[q] = cRep[q]
    BY <1>t, <1>1 DEF ClaimTyped
  <2>2. ClaimTyped' /\ ClaimOwned'
    BY <1>t, <1>1, <1>2 DEF ClaimTyped, ClaimOwned
  <2>3. ASSUME NEW j \in C!Keys, j # k PROVE ClaimCounted(j)'
    <3>1. Owners(j)' = Owners(j)
      BY <1>2, <2>k, <2>1, <2>3 DEF Owners
    <3>2. j \in cOrphans' <=> j \in cOrphans
      BY <1>1, <1>4, <2>k, <2>3
    <3> QED
      BY <1>1, <3>1, <3>2, CountKept DEF ClaimInv
  <2>4. ClaimCounted(k)'
    <3>1. Owners(k)' = Owners(k) \ {r} /\ r \in Owners(k)
      BY <1>2, <1>4, <2>k, <2>1 DEF Owners
    <3>2. Cardinality(Owners(k) \ {r}) = Cardinality(Owners(k)) - 1 /\ Cardinality(Owners(k)) \in Nat
      BY <3>1, OwnersFinite, FS_RemoveElement
    <3>3. Cardinality(Owners(k)) # 0
      BY <3>1, OwnersFinite, FS_EmptySet
    <3>4. Cardinality(Owners(k)') = Cardinality(Owners(k)) - 1
      BY <3>1, <3>2
    <3>5. cSent[k] \in Nat /\ k \in cOrphans'
      BY <1>t, <1>1, <1>4, <2>k DEF ClaimTyped
    <3>6. cSent[k] + Cardinality(Owners(k)) + (IF k \in cOrphans THEN 1 ELSE 0) = (IF k \in cClaims THEN 1 ELSE 0)
      BY DEF ClaimInv, ClaimCounted
    <3>7. Cardinality(Owners(k)) = 1 /\ k \notin cOrphans
      BY <3>2, <3>3, <3>5, <3>6
    <3>8. cSent'[k] + Cardinality(Owners(k)') + 1 = (IF k \in cClaims' THEN 1 ELSE 0)
      BY <1>1, <3>4, <3>5, <3>6, <3>7
    <3> QED
      BY <3>5, <3>8 DEF ClaimCounted
  <2> QED
    BY <2>2, <2>3, <2>4 DEF ClaimInv
<1> QED
  BY <1>3, <1>4

\* Every step of the notifier.
LEMMA ClaimNext ==
    ASSUME ClaimInv, C!Next
    PROVE  ClaimInv'
<1>t. ClaimTyped /\ ClaimOwned
  BY DEF ClaimInv
<1>1. CASE C!Grow \/ C!Reset
  BY <1>1 DEF C!Grow, C!Reset, ClaimInv, ClaimTyped, ClaimOwned, ClaimCounted, Owners
<1>2. CASE C!Stop
  BY <1>2, StopKeeps
<1>3. ASSUME NEW r \in Reports, C!Report(r)
      PROVE  ClaimInv'
  <2>1. PICK x \in Reporting : x = [at |-> "compare", u |-> cUsage, key |-> "threshold", own |-> FALSE]
    BY <1>t DEF ClaimTyped, Reporting, C!Keys
  <2>2. cRep' = [cRep EXCEPT ![r] = x] /\ ~cRep[r].own /\ ~x.own /\ UNCHANGED <<cUsage, cClaims, cSent, cOrphans>>
    BY <1>t, <1>3, <2>1 DEF C!Report, ClaimOwned
  <2> QED
    BY <2>2, UnownedKeeps
<1>4. ASSUME NEW r \in Reports, C!Below(r)
      PROVE  ClaimInv'
  BY <1>4, ClearClaimKeeps DEF C!Below
<1>5. ASSUME NEW r \in Reports, C!TryClaim(r)
      PROVE  ClaimInv'
  <2>1. cRep[r].at = "compare" /\ UNCHANGED <<cUsage, cSent, cOrphans>> /\ ~cRep[r].own
    BY <1>t, <1>5 DEF C!TryClaim, ClaimOwned
  <2>2. CASE (cRep[r].key = "threshold" /\ cThreshold = 2) \/ cRep[r].key \in cClaims
    <3>1. UNCHANGED cClaims /\ cRep' = [cRep EXCEPT ![r] = C!After(r)]
      BY <1>5, <2>2 DEF C!TryClaim
    <3> QED
      BY <1>t, <2>1, <3>1, AfterTyped, UnownedKeeps
  <2>3. CASE ~((cRep[r].key = "threshold" /\ cThreshold = 2) \/ cRep[r].key \in cClaims)
    <3>1. cClaims' = cClaims \cup {cRep[r].key} /\ cRep' = [cRep EXCEPT ![r].at = "send", ![r].own = TRUE]
      BY <1>5, <2>3 DEF C!TryClaim
    <3> QED
      BY <2>1, <2>3, <3>1, ClaimTaken
  <2> QED
    BY <2>2, <2>3
<1>6. ASSUME NEW r \in Reports, C!Delivered(r)
      PROVE  ClaimInv'
  BY <1>6, DeliveredKeeps
<1>7. ASSUME NEW r \in Reports, C!Release(r)
      PROVE  ClaimInv'
  BY <1>7, ClearClaimKeeps DEF C!Release
<1>8. ASSUME NEW r \in Reports, C!SendFails(r)
      PROVE  ClaimInv'
  <2>1. /\ cRep' = [cRep EXCEPT ![r].at = "failed"] /\ UNCHANGED <<cUsage, cClaims, cSent, cOrphans>>
    BY <1>8 DEF C!SendFails
  <2>2. /\ cRep' \in [Reports -> Reporting] /\ cRep'[r].at = "failed"
        /\ \A q \in Reports : cRep'[q].own = cRep[q].own /\ cRep'[q].key = cRep[q].key
        /\ \A q \in Reports \ {r} : cRep'[q] = cRep[q]
    BY <1>t, <2>1 DEF ClaimTyped, Reporting
  <2>3. ClaimTyped' /\ ClaimOwned'
    BY <1>t, <2>1, <2>2 DEF ClaimTyped, ClaimOwned
  <2>4. ASSUME NEW k \in C!Keys PROVE ClaimCounted(k)'
    <3>1. Owners(k)' = Owners(k)
      BY <2>2 DEF Owners
    <3> QED
      BY <2>1, <3>1, CountKept DEF ClaimInv
  <2> QED
    BY <2>3, <2>4 DEF ClaimInv
<1>9. ASSUME NEW r \in Reports, C!StatementFails(r)
      PROVE  ClaimInv'
  BY <1>9, StatementFailsKeeps
<1> QED
  BY <1>1, <1>2, <1>3, <1>4, <1>5, <1>6, <1>7, <1>8, <1>9 DEF C!Next, C!Step

\* However many reports run at the same time, a claim in the table stands for one
\* notice, told, on its way or lost, and a notice without one was
\* not told since it was last deleted (TelegramNotifier.cs:131, :146, :219).
THEOREM ClaimIsOneNoticeAlways == Spec => []ClaimIsOneNotice
<1>1. Init => ClaimInv
  <2> SUFFICES ASSUME C!Init PROVE ClaimInv
    BY DEF Init
  <2>1. ClaimTyped /\ ClaimOwned
    BY DEF C!Init, ClaimTyped, ClaimOwned, Reporting, C!Idle, C!Keys
  <2>2. ASSUME NEW k \in C!Keys PROVE ClaimCounted(k)
    <3>1. Owners(k) = {}
      BY DEF C!Init, Owners, C!Idle
    <3>2. Cardinality(Owners(k)) = 0
      BY <3>1, FS_EmptySet
    <3> QED
      BY <3>2 DEF C!Init, ClaimCounted
  <2> QED
    BY <2>1, <2>2 DEF ClaimInv
<1>2. ClaimInv /\ [Next]_vars => ClaimInv'
  <2> SUFFICES ASSUME ClaimInv, [C!Next]_cVars PROVE ClaimInv'
    BY Steps
  <2>1. CASE C!Next
    BY <2>1, ClaimNext
  <2>2. CASE UNCHANGED cVars
    BY <2>2 DEF cVars, ClaimInv, ClaimTyped, ClaimOwned, ClaimCounted, Owners
  <2> QED
    BY <2>1, <2>2
<1>3. ClaimInv => ClaimIsOneNotice
  BY DEF ClaimInv, ClaimCounted, Owners, ClaimIsOneNotice, C!ClaimIsOneNotice, C!Cardinality, Cardinality
<1> QED
  BY <1>1, <1>2, <1>3, PTL DEF Spec

(***************************************************************************)
(* The probe listeners of the diagnoses.                                   *)
(***************************************************************************)

StartOf(d) == [cmd |-> "start", d |-> d]
StopOf(d)  == [cmd |-> "stop", d |-> d]

\* The diagnoses a reference was taken for and not given back: those that ping, and
\* those whose stop is on its way.
Holding == {d \in Diagnoses : pDiag[d] = "pinging" \/ StopOf(d) \in pInbox}

ProbeTyped ==
    /\ pCurrent \in Listeners \cup {None} /\ pReferences \in Nat
    /\ pDiag \in [Diagnoses -> {"idle", "starting", "pinging", "stopping"}]

\* An entry has references, and none is left without an entry.
ProbeEntry == pCurrent = None <=> pReferences = 0

\* A diagnosis has at most one command on its way, and not one of an earlier call
\* that would be taken for the answer to its own.
ProbeOrder == \A d \in Diagnoses :
    /\ ~(StartOf(d) \in pInbox /\ StopOf(d) \in pInbox)
    /\ pDiag[d] = "pinging" => StartOf(d) \notin pInbox /\ StopOf(d) \notin pInbox
    /\ pDiag[d] = "starting" => StopOf(d) \notin pInbox
    /\ pDiag[d] = "stopping" => StartOf(d) \notin pInbox

\* Until a listener is closed over their heads, every such diagnosis has its reference.
ProbeCounted == ~pExpired => pReferences >= Cardinality(Holding)

ProbeInv == ProbeTyped /\ ProbeEntry /\ P!NoStraySocket /\ ProbeOrder /\ ProbeCounted

\* The commands of the diagnoses are told apart.
LEMMA CommandsDiffer ==
    ASSUME NEW d, NEW e
    PROVE  /\ StartOf(d) # StopOf(e) /\ (StartOf(d) = StartOf(e) => d = e) /\ (StopOf(d) = StopOf(e) => d = e)
           /\ StartOf(d).d = d /\ StopOf(d).d = d
<1>1. StartOf(d).d = d /\ StartOf(e).d = e /\ StopOf(d).d = d /\ StopOf(e).d = e
  BY DEF StartOf, StopOf
<1>2. StartOf(d).cmd = "start" /\ StopOf(e).cmd = "stop"
  BY DEF StartOf, StopOf
<1> QED
  BY <1>1, <1>2

\* The diagnoses are finitely many.
LEMMA HoldingFinite == IsFiniteSet(Holding) /\ Cardinality(Holding) \in Nat
<1>1. Holding \in SUBSET Diagnoses
  BY DEF Holding
<1> QED
  BY <1>1, BoundsAssumption, FS_Subset, FS_CardinalityType

\* Fewer diagnoses that hold a reference, and as many references.
LEMMA CountedFewer ==
    ASSUME ProbeTyped, ProbeCounted, Holding' \subseteq Holding, pReferences' >= pReferences, pReferences' \in Nat,
           ~pExpired' => ~pExpired
    PROVE  ProbeCounted'
<1>1. PICK V \in SUBSET Holding : V = Holding'
  OBVIOUS
<1>2. Cardinality(V) <= Cardinality(Holding) /\ Cardinality(V) \in Nat /\ Cardinality(Holding) \in Nat
  BY <1>1, HoldingFinite, FS_Subset, FS_CardinalityType
<1> QED
  BY <1>1, <1>2 DEF ProbeTyped, ProbeCounted

\* One more diagnosis that holds a reference, and one more reference.
LEMMA CountedOneMore ==
    ASSUME ProbeTyped, ProbeCounted, NEW d, Holding' \subseteq Holding \cup {d}, pReferences' = pReferences + 1,
           ~pExpired' => ~pExpired
    PROVE  ProbeCounted'
<1>1. PICK V \in SUBSET (Holding \cup {d}) : V = Holding'
  OBVIOUS
<1>2. /\ IsFiniteSet(Holding \cup {d}) /\ Cardinality(Holding) \in Nat
      /\ Cardinality(Holding \cup {d}) <= Cardinality(Holding) + 1
  <2>1. /\ IsFiniteSet(Holding \cup {d}) /\ Cardinality(Holding) \in Nat
        /\ Cardinality(Holding \cup {d}) = IF d \in Holding THEN Cardinality(Holding) ELSE Cardinality(Holding) + 1
    BY HoldingFinite, FS_AddElement, Zenon
  <2> QED
    BY <2>1
<1>3. Cardinality(V) <= Cardinality(Holding \cup {d}) /\ Cardinality(V) \in Nat /\ Cardinality(Holding \cup {d}) \in Nat
  BY <1>1, <1>2, FS_Subset, FS_CardinalityType
<1> QED
  BY <1>1, <1>2, <1>3 DEF ProbeTyped, ProbeCounted

\* One diagnosis less that holds a reference, and one reference less, if there was one.
LEMMA CountedOneLess ==
    ASSUME ProbeTyped, ProbeCounted, NEW d \in Holding, Holding' \subseteq Holding \ {d},
           pReferences' \in Nat, pReferences' >= pReferences - 1, ~pExpired' => ~pExpired
    PROVE  ProbeCounted'
<1>1. PICK V \in SUBSET (Holding \ {d}) : V = Holding'
  OBVIOUS
<1>2. /\ IsFiniteSet(Holding \ {d}) /\ Cardinality(Holding) \in Nat
      /\ Cardinality(Holding \ {d}) = Cardinality(Holding) - 1
  BY HoldingFinite, FS_RemoveElement
<1>3. Cardinality(V) <= Cardinality(Holding \ {d}) /\ Cardinality(V) \in Nat
  BY <1>1, <1>2, FS_Subset, FS_CardinalityType
<1> QED
  BY <1>1, <1>2, <1>3 DEF ProbeTyped, ProbeCounted

\* The panel's steps.
LEMMA ProbePanel ==
    ASSUME ProbeInv, NEW d \in Diagnoses, P!Diagnose(d) \/ P!GivesUp(d) \/ P!Pinged(d)
    PROVE  ProbeInv'
<1>t. ProbeTyped /\ ProbeEntry /\ P!NoStraySocket /\ ProbeOrder /\ ProbeCounted
  BY DEF ProbeInv
<1>u. UNCHANGED <<pCurrent, pReferences, pOpen, pExpired>>
  BY DEF P!Diagnose, P!GivesUp, P!Pinged
<1>1. PICK place \in {"idle", "starting", "stopping"} : pDiag' = [pDiag EXCEPT ![d] = place]
  BY DEF P!Diagnose, P!GivesUp, P!Pinged
<1>2. pDiag'[d] = place /\ \A e \in Diagnoses \ {d} : pDiag'[e] = pDiag[e]
  BY <1>t, <1>1 DEF ProbeTyped
<1>3. ProbeTyped' /\ ProbeEntry' /\ P!NoStraySocket'
  BY <1>t, <1>u, <1>1 DEF ProbeTyped, ProbeEntry, P!NoStraySocket
<1>4. \A e \in Diagnoses \ {d} : (StartOf(e) \in pInbox' <=> StartOf(e) \in pInbox) /\ (StopOf(e) \in pInbox' <=> StopOf(e) \in pInbox)
  <2>1. pInbox' = pInbox \/ pInbox' = pInbox \cup {StartOf(d)} \/ pInbox' = pInbox \cup {StopOf(d)}
    BY DEF P!Diagnose, P!GivesUp, P!Pinged, StartOf, StopOf
  <2> QED
    BY <2>1, CommandsDiffer
<1>5. /\ pDiag'[d] = "starting" => StopOf(d) \notin pInbox'
      /\ pDiag'[d] = "stopping" => StartOf(d) \notin pInbox'
      /\ ~(StartOf(d) \in pInbox' /\ StopOf(d) \in pInbox')
      /\ StopOf(d) \in pInbox' => d \in Holding
  <2>1. CASE P!Diagnose(d)
    <3>1. /\ StartOf(d) \notin pInbox /\ StopOf(d) \notin pInbox
      BY <2>1, CommandsDiffer DEF P!Diagnose
    <3>2. pDiag'[d] = "starting" /\ pInbox' = pInbox \cup {StartOf(d)}
      BY <1>t, <2>1 DEF P!Diagnose, StartOf, ProbeTyped
    <3> QED
      BY <3>1, <3>2, CommandsDiffer
  <2>2. CASE P!GivesUp(d)
    <3>1. pDiag'[d] = "idle" /\ pInbox' = pInbox
      BY <1>t, <2>2 DEF P!GivesUp, ProbeTyped
    <3> QED
      BY <1>t, <3>1 DEF ProbeOrder, Holding
  <2>3. CASE P!Pinged(d)
    <3>1. pDiag[d] = "pinging" /\ pDiag'[d] = "stopping" /\ pInbox' = pInbox \cup {StopOf(d)}
      BY <1>t, <2>3 DEF P!Pinged, StopOf, ProbeTyped
    <3> QED
      BY <1>t, <3>1, CommandsDiffer DEF ProbeOrder, Holding
  <2> QED
    BY <2>1, <2>2, <2>3
<1>6. ProbeOrder'
  BY <1>t, <1>2, <1>4, <1>5 DEF ProbeOrder
<1>7. Holding' \subseteq Holding
  BY <1>2, <1>4, <1>5 DEF Holding
<1> QED
  BY <1>t, <1>u, <1>3, <1>6, <1>7, CountedFewer DEF ProbeInv, ProbeTyped

\* A start takes one reference more, or none when the port is taken, and makes at most
\* its own diagnosis ping.
LEMMA ProbeStart ==
    ASSUME ProbeInv, NEW d \in Diagnoses, P!StartTcpProbeListener(d)
    PROVE  ProbeInv'
<1>t. ProbeTyped /\ ProbeEntry /\ P!NoStraySocket /\ ProbeOrder /\ ProbeCounted
  BY DEF ProbeInv
<1>u. StartOf(d) \in pInbox /\ pInbox' = pInbox \ {StartOf(d)} /\ pExpired' = pExpired
  BY DEF P!StartTcpProbeListener, StartOf
<1>1. pDiag[d] # "pinging" /\ pDiag[d] # "stopping" /\ StopOf(d) \notin pInbox
  BY <1>t, <1>u DEF ProbeOrder
<1>2. PICK place \in {"idle", "pinging"} : P!Answered(d, place)
  BY DEF P!StartTcpProbeListener
<1>3. /\ pDiag' \in [Diagnoses -> {"idle", "starting", "pinging", "stopping"}]
      /\ \A e \in Diagnoses \ {d} : pDiag'[e] = pDiag[e]
      /\ pDiag'[d] \in {"idle", place}
  BY <1>t, <1>1, <1>2 DEF P!Answered, ProbeTyped
<1>4. /\ \A e \in Diagnoses : StopOf(e) \in pInbox' <=> StopOf(e) \in pInbox
      /\ \A e \in Diagnoses \ {d} : StartOf(e) \in pInbox' <=> StartOf(e) \in pInbox
      /\ StartOf(d) \notin pInbox'
  BY <1>u, CommandsDiffer
<1>5. ProbeOrder'
  BY <1>t, <1>1, <1>3, <1>4 DEF ProbeOrder
<1>6. Holding' \subseteq Holding \cup {d}
  BY <1>3, <1>4 DEF Holding
<1>7. CASE pCurrent # None
  <2>1. pReferences' = pReferences + 1 /\ UNCHANGED <<pCurrent, pOpen>>
    BY <1>7 DEF P!StartTcpProbeListener
  <2>2. ProbeTyped' /\ ProbeEntry' /\ P!NoStraySocket'
    BY <1>t, <1>3, <1>7, <2>1 DEF ProbeTyped, ProbeEntry, P!NoStraySocket
  <2> QED
    BY <1>t, <1>u, <1>5, <1>6, <2>1, <2>2, CountedOneMore DEF ProbeInv
<1>8. CASE pCurrent = None /\ pOpen # None
  <2>1. P!Answered(d, "idle") /\ UNCHANGED <<pCurrent, pReferences, pOpen>>
    BY <1>8 DEF P!StartTcpProbeListener
  <2>2. ProbeTyped' /\ ProbeEntry' /\ P!NoStraySocket'
    BY <1>t, <1>3, <2>1 DEF ProbeTyped, ProbeEntry, P!NoStraySocket
  <2>3. pDiag'[d] = "idle"
    BY <1>t, <1>1, <2>1 DEF P!Answered, ProbeTyped
  <2>4. Holding' \subseteq Holding
    BY <1>1, <1>3, <1>4, <2>3 DEF Holding
  <2> QED
    BY <1>t, <1>u, <1>5, <2>1, <2>2, <2>4, CountedFewer DEF ProbeInv, ProbeTyped
<1>9. CASE pCurrent = None /\ pOpen = None
  <2>1. PICK l \in Listeners : pCurrent' = l /\ pOpen' = l /\ pReferences' = 1
    BY <1>9 DEF P!StartTcpProbeListener
  <2>2. ProbeTyped' /\ ProbeEntry' /\ P!NoStraySocket'
    BY <1>t, <1>3, <2>1, NoneAssumption DEF ProbeTyped, ProbeEntry, P!NoStraySocket
  <2>3. pReferences' = pReferences + 1
    BY <1>t, <1>9, <2>1 DEF ProbeEntry
  <2> QED
    BY <1>t, <1>u, <1>5, <1>6, <2>2, <2>3, CountedOneMore DEF ProbeInv
<1> QED
  BY <1>7, <1>8, <1>9

\* A stop gives its own reference back and no other.
LEMMA ProbeStop ==
    ASSUME ProbeInv, NEW d \in Diagnoses, P!StopTcpProbeListener(d)
    PROVE  ProbeInv'
<1>t. ProbeTyped /\ ProbeEntry /\ P!NoStraySocket /\ ProbeOrder /\ ProbeCounted
  BY DEF ProbeInv
<1>u. StopOf(d) \in pInbox /\ pInbox' = pInbox \ {StopOf(d)} /\ pExpired' = pExpired
  BY DEF P!StopTcpProbeListener, StopOf
<1>1. pDiag[d] # "pinging" /\ pDiag[d] # "starting" /\ StartOf(d) \notin pInbox /\ d \in Holding
  BY <1>t, <1>u DEF ProbeOrder, Holding
<1>2. P!Answered(d, "idle")
  BY DEF P!StopTcpProbeListener
<1>3. /\ pDiag' \in [Diagnoses -> {"idle", "starting", "pinging", "stopping"}]
      /\ \A e \in Diagnoses \ {d} : pDiag'[e] = pDiag[e]
      /\ pDiag'[d] = "idle"
  BY <1>t, <1>1, <1>2 DEF P!Answered, ProbeTyped
<1>4. /\ \A e \in Diagnoses : StartOf(e) \in pInbox' <=> StartOf(e) \in pInbox
      /\ \A e \in Diagnoses \ {d} : StopOf(e) \in pInbox' <=> StopOf(e) \in pInbox
      /\ StopOf(d) \notin pInbox'
  BY <1>u, CommandsDiffer
<1>5. ProbeOrder'
  BY <1>t, <1>1, <1>3, <1>4 DEF ProbeOrder
<1>6. Holding' \subseteq Holding \ {d}
  BY <1>3, <1>4 DEF Holding
<1>7. /\ pReferences' \in Nat /\ pReferences' >= pReferences - 1
      /\ ProbeTyped' /\ ProbeEntry' /\ P!NoStraySocket'
  <2>1. CASE pCurrent = None
    <3>1. UNCHANGED <<pCurrent, pReferences, pOpen>>
      BY <2>1 DEF P!StopTcpProbeListener
    <3> QED
      BY <1>t, <1>3, <3>1 DEF ProbeTyped, ProbeEntry, P!NoStraySocket
  <2>2. CASE pCurrent # None
    <3>1. P!Release
      BY <2>2 DEF P!StopTcpProbeListener
    <3> QED
      BY <1>t, <1>3, <2>2, <3>1 DEF P!Release, ProbeTyped, ProbeEntry, P!NoStraySocket
  <2> QED
    BY <2>1, <2>2
<1> QED
  BY <1>t, <1>u, <1>1, <1>5, <1>6, <1>7, CountedOneLess DEF ProbeInv

\* What closes the listener over the heads of the diagnoses, and the services of the port.
LEMMA ProbeOthers ==
    ASSUME ProbeInv,
           (\E l \in Listeners : P!ExpireTcpProbeListener(l)) \/ P!CloseTcpProbeListeners \/ P!ServiceBinds \/ P!ServiceEnds
    PROVE  ProbeInv'
<1>t. ProbeTyped /\ ProbeEntry /\ P!NoStraySocket /\ ProbeOrder /\ ProbeCounted
  BY DEF ProbeInv
<1>1. /\ UNCHANGED <<pDiag, pInbox>>
      /\ \/ pCurrent' = None /\ pOpen' = None /\ pReferences' = 0 /\ pExpired' = TRUE
         \/ UNCHANGED <<pCurrent, pReferences, pExpired>> /\ (pOpen' = pOpen \/ (pOpen = None /\ pOpen' = "service") \/ (pOpen = "service" /\ pOpen' = None))
  BY DEF P!ExpireTcpProbeListener, P!CloseTcpProbeListeners, P!ServiceBinds, P!ServiceEnds
<1>2. ProbeTyped' /\ ProbeEntry' /\ P!NoStraySocket'
  BY <1>t, <1>1, NoneAssumption DEF ProbeTyped, ProbeEntry, P!NoStraySocket
<1>3. ProbeOrder' /\ Holding' = Holding
  BY <1>t, <1>1 DEF ProbeOrder, Holding
<1>4. ProbeCounted'
  BY <1>t, <1>1, <1>3 DEF ProbeCounted
<1> QED
  BY <1>2, <1>3, <1>4 DEF ProbeInv

\* However many diagnoses share a port, and whatever calls the panel gave up on, a
\* socket is open exactly while it is in the table and, until one expires, none is
\* closed under a diagnosis that pings (websocket_reporter.go:1246, :1276-1280).
THEOREM ProbesHeldAlways == Spec => []ProbesHeld
<1>1. Init => ProbeInv
  <2> SUFFICES ASSUME P!Init PROVE ProbeInv
    BY DEF Init
  <2>1. Holding = {}
    BY DEF P!Init, Holding
  <2>2. Cardinality(Holding) = 0
    BY <2>1, FS_EmptySet
  <2> QED
    BY <2>2 DEF P!Init, ProbeInv, ProbeTyped, ProbeEntry, P!NoStraySocket, ProbeOrder, ProbeCounted
<1>2. ProbeInv /\ [Next]_vars => ProbeInv'
  <2> SUFFICES ASSUME ProbeInv, [P!Next]_pVars PROVE ProbeInv'
    BY Steps
  <2>1. CASE P!Next
    BY <2>1, ProbePanel, ProbeStart, ProbeStop, ProbeOthers DEF P!Next
  <2>2. CASE UNCHANGED pVars
    BY <2>2 DEF pVars, ProbeInv, ProbeTyped, ProbeEntry, P!NoStraySocket, ProbeOrder, ProbeCounted, Holding
  <2> QED
    BY <2>1, <2>2
<1>3. ProbeInv => ProbesHeld
  <2> SUFFICES ASSUME ProbeInv PROVE ProbesHeld
    OBVIOUS
  <2> DEFINE users == {d \in Diagnoses : pDiag[d] = "pinging"}
  <2>1. users \in SUBSET Holding
    BY DEF Holding
  <2>2. IsFiniteSet(users) /\ Cardinality(users) <= Cardinality(Holding) /\ Cardinality(users) \in Nat /\ Cardinality(Holding) \in Nat
    BY <2>1, HoldingFinite, FS_Subset, FS_CardinalityType
  <2>3. users # {} => Cardinality(users) # 0
    BY <2>2, FS_EmptySet
  <2>4. ~pExpired /\ users # {} => pCurrent # None /\ pReferences >= Cardinality(users)
    BY <2>2, <2>3 DEF ProbeInv, ProbeTyped, ProbeEntry, ProbeCounted
  <2> QED
    BY <2>4 DEF ProbeInv, ProbesHeld, P!HeldWhilePinging, P!Cardinality, Cardinality
<1> QED
  BY <1>1, <1>2, <1>3, PTL DEF Spec
=============================================================================
