--------------------------- MODULE TelegramClaims ---------------------------
(***************************************************************************)
(* Traffic notices of the panel (TelegramNotifier.cs): every flow report   *)
(* compares one resource's usage, as it read it, with the threshold and    *)
(* the limit.  Below a level the claim of its notice is deleted; at it the *)
(* report that inserts the claim sends the notice, and deletes the claim   *)
(* again if it cannot send.  Reports run concurrently, usage grows and is  *)
(* reset, the database may fail a report and the panel may stop.           *)
(***************************************************************************)
EXTENDS Integers, FiniteSets

CONSTANTS
    Reports,    \* reports under way at the same time
    MaxResets,  \* bound on the resets of usage
    MaxStops,   \* bound on the stops of the panel and the statements its database fails
    Thresholds  \* the threshold as a level of usage: 1, or 2 when it is 100 percent

VARIABLES
    usage,      \* level of usage: 0, 1 (threshold reached), 2 (limit reached)
    threshold,  \* ThresholdPercent of the settings
    claims,     \* rows of telegram_notification_state
    rep,        \* reports: where they stand, the usage they read, the notice,
                \* and (history) whether the claim they inserted is still there
    resets, stops,  \* (history) resets of usage, and stops and database faults, so far
    sent,       \* (history) notices delivered for the claim that is there
    orphans     \* (history) claims whose senders ended without sending or deleting them

vars == <<usage, threshold, claims, rep, resets, stops, sent, orphans>>

Keys == {"threshold", "limit"}
Idle == [at |-> "idle", u |-> 0, key |-> "threshold", own |-> FALSE]

TypeOK ==
    /\ usage \in 0..2 /\ threshold \in Thresholds
    /\ claims \subseteq Keys /\ orphans \subseteq Keys
    /\ rep \in [Reports -> [at : {"idle", "compare", "send", "failed"}, u : 0..2, key : Keys, own : BOOLEAN]]
    /\ resets \in 0..MaxResets /\ stops \in 0..MaxStops
    /\ sent \in [Keys -> 0..Cardinality(Reports)]

Init ==
    /\ usage = 0 /\ threshold \in Thresholds
    /\ claims = {} /\ orphans = {}
    /\ rep = [r \in Reports |-> Idle]
    /\ resets = 0 /\ stops = 0
    /\ sent = [k \in Keys |-> 0]

Grow  == usage < 2 /\ usage' = usage + 1 /\ UNCHANGED <<threshold, claims, rep, resets, stops, sent, orphans>>
Reset == /\ resets < MaxResets /\ usage > 0
         /\ usage' = 0 /\ resets' = resets + 1
         /\ UNCHANGED <<threshold, claims, rep, stops, sent, orphans>>

\* A flow report has read the row and the settings are enabled.
Report(r) ==
    /\ rep[r].at = "idle"
    /\ rep' = [rep EXCEPT ![r] = [at |-> "compare", u |-> usage, key |-> "threshold", own |-> FALSE]]
    /\ UNCHANGED <<usage, threshold, claims, resets, stops, sent, orphans>>

Level(k) == IF k = "threshold" THEN threshold ELSE 2
After(r) == IF rep[r].key = "threshold" THEN [rep[r] EXCEPT !.at = "compare", !.key = "limit", !.own = FALSE] ELSE Idle

\* DELETE by key, whoever inserted the claim; report r goes on to its next notice.
ClearClaim(r) ==
    LET k == rep[r].key
    IN  /\ claims' = claims \ {k}
        /\ sent' = [sent EXCEPT ![k] = 0]
        /\ orphans' = orphans \ {k}
        /\ rep' = [q \in Reports |-> IF q = r THEN After(r)
                     ELSE IF rep[q].at # "idle" /\ rep[q].key = k THEN [rep[q] EXCEPT !.own = FALSE] ELSE rep[q]]

\* NotifyQuotaAsync for one of its two notices: at 100 percent there is no
\* notice of the threshold.
Below(r) ==
    /\ rep[r].at = "compare" /\ rep[r].u < Level(rep[r].key)
    /\ ClearClaim(r)
    /\ UNCHANGED <<usage, threshold, resets, stops>>

\* Mutant: the claim is not looked at before it is written.
TryClaimAlways(r) ==
    LET k == rep[r].key
    IN  /\ rep[r].at = "compare" /\ rep[r].u >= Level(k)
        /\ claims' = claims \cup {k}
        /\ rep' = [rep EXCEPT ![r].at = "send", ![r].own = TRUE]
        /\ UNCHANGED <<usage, threshold, resets, stops, sent, orphans>>

\* INSERT IGNORE: exactly one report gets the claim.
TryClaim(r) ==
    LET k == rep[r].key
    IN  /\ rep[r].at = "compare" /\ rep[r].u >= Level(k)
        /\ IF (k = "threshold" /\ threshold = 2) \/ k \in claims
             THEN UNCHANGED claims /\ rep' = [rep EXCEPT ![r] = After(r)]
             ELSE claims' = claims \cup {k} /\ rep' = [rep EXCEPT ![r].at = "send", ![r].own = TRUE]
        /\ UNCHANGED <<usage, threshold, resets, stops, sent, orphans>>

Delivered(r) ==
    /\ rep[r].at = "send"
    /\ sent' = IF rep[r].own THEN [sent EXCEPT ![rep[r].key] = @ + 1] ELSE sent
    /\ rep' = [rep EXCEPT ![r] = After(r)]
    /\ UNCHANGED <<usage, threshold, claims, resets, stops, orphans>>

SendFails(r) ==
    /\ rep[r].at = "send"
    /\ rep' = [rep EXCEPT ![r].at = "failed"]
    /\ UNCHANGED <<usage, threshold, claims, resets, stops, sent, orphans>>

\* Mutant: the claim of a notice that was not sent stays.
ReleaseForgotten(r) ==
    /\ rep[r].at = "failed"
    /\ rep' = [rep EXCEPT ![r] = After(r)]
    /\ UNCHANGED <<usage, threshold, claims, resets, stops, sent, orphans>>

\* The claim is deleted by its key, whoever holds it by now.
Release(r) ==
    /\ rep[r].at = "failed"
    /\ ClearClaim(r)
    /\ UNCHANGED <<usage, threshold, resets, stops>>

\* The INSERT or the DELETE of a report fails: the exception ends it (NotifyFlowThresholdsAsync
\* logs it), and a claim whose notice could not be sent stays in the table.
StatementFails(r) ==
    /\ stops < MaxStops /\ rep[r].at \in {"compare", "failed"}
    /\ stops' = stops + 1
    /\ orphans' = IF rep[r].own THEN orphans \cup {rep[r].key} ELSE orphans
    /\ rep' = [rep EXCEPT ![r] = Idle]
    /\ UNCHANGED <<usage, threshold, claims, resets, sent>>

\* The panel stops: a claim whose notice was not sent yet stays in the table.
Stop ==
    /\ stops < MaxStops /\ rep # [r \in Reports |-> Idle]
    /\ stops' = stops + 1
    /\ orphans' = orphans \cup {k \in claims : \E r \in Reports : rep[r].own /\ rep[r].key = k}
    /\ rep' = [r \in Reports |-> Idle]
    /\ UNCHANGED <<usage, threshold, claims, resets, sent>>

\* A report under way goes on.
Step(r) == Below(r) \/ TryClaim(r) \/ Delivered(r) \/ Release(r)

Next == Grow \/ Reset \/ Stop \/ \E r \in Reports : Report(r) \/ Step(r) \/ SendFails(r) \/ StatementFails(r)

\* Reports under way are served, and a service that is reachable again and again takes the
\* message in the end.  Nothing makes reports come: there are none without traffic.
Deliver(k) == \E r \in Reports : rep[r].key = k /\ Delivered(r)
Fairness == (\A r \in Reports : WF_vars(Step(r))) /\ (\A k \in Keys : SF_vars(Deliver(k)))

Spec == Init /\ [][Next]_vars /\ Fairness

\* A claim stands for one notice: it was delivered once, or the report that
\* inserted the claim is about to send it, or ended in between without deleting it; never
\* two of these, so a level is told twice only if a report that had read lower
\* usage, or could not send, deleted the claim meanwhile (TelegramNotifier.cs:131, :146, :219).
ClaimIsOneNotice == \A k \in Keys :
    sent[k] + Cardinality({r \in Reports : rep[r].own /\ rep[r].key = k}) + (IF k \in orphans THEN 1 ELSE 0)
      = (IF k \in claims THEN 1 ELSE 0)

\* A level that was reached is told in the end, however often sending fails, if reports keep
\* coming: the claim of a notice that could not be sent is deleted for the next report to take.
\* A notice is lost, until usage falls, with a panel that stops or a database that fails between
\* its claim and the message or the deletion (TelegramNotifier.cs:145-146), and it is not told
\* before the next report, which a forward paused at its limit never makes (FlowOperations.cs:19, :34).
ToldInTheEnd == \A k \in Keys :
    <>[](usage = 2) /\ []<>(\E r \in Reports : rep[r].at # "idle")
        => <>(sent[k] > 0 \/ k \in orphans \/ (k = "threshold" /\ threshold = 2))
=============================================================================
