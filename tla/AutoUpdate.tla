----------------------------- MODULE AutoUpdate -----------------------------
(***************************************************************************)
(* The agent's self-update: the manifest, the download beside the          *)
(* executable, the check of its digest, and the replacement and restart,   *)
(* by two renames and an exec (auto_update_unix.go) or by a script that    *)
(* waits for the process to end (auto_update_windows.go).  Any step of the *)
(* file system may fail, and the process may be killed between any two of  *)
(* them; the service manager then starts what the executable's name holds. *)
(* A file is a version number, Partial (not verified) or None.             *)
(***************************************************************************)
EXTENDS Integers

CONSTANTS
    MaxVersion,  \* bound on the released versions
    Partial, None

VARIABLES
    windows,     \* the platform
    exe, prev, temp,  \* the files <exe>, <exe>.previous, <exe>.update.<pid>
    running,     \* version of the process, None when it is dead
    pc,          \* where the updater stands
    offered,     \* version of the download under way
    best         \* (history) highest version that ran

vars == <<windows, exe, prev, temp, running, pc, offered, best>>
files == <<exe, prev, temp>>

Versions == 1..MaxVersion
File     == Versions \cup {Partial, None}

TypeOK ==
    /\ windows \in BOOLEAN
    /\ exe \in File /\ prev \in File /\ temp \in File
    /\ running \in Versions \cup {None}
    /\ pc \in {"wait", "download", "verified", "renamed", "placed", "script", "stuck"}
    /\ offered \in Versions /\ best \in Versions

Init ==
    /\ windows \in BOOLEAN
    /\ exe = 1 /\ prev = None /\ temp = None
    /\ running = 1 /\ pc = "wait" /\ offered = 1 /\ best = 1

Accepted(v) == v > running

\* The manifest is fetched and names a higher version for this platform over
\* HTTPS with a digest; anything else, and every failure, ends the check.
CheckAndApplyUpdate ==
    /\ running # None /\ pc = "wait"
    /\ \E v \in Versions : Accepted(v) /\ offered' = v
    /\ pc' = "download"
    /\ UNCHANGED <<windows, exe, prev, temp, running>>

Abandon == pc' = "wait" /\ temp' = None

\* The temporary file is created; from here it holds an unverified part.
Download ==
    /\ pc = "download" /\ temp # Partial
    /\ \/ temp' = Partial /\ UNCHANGED pc
       \/ pc' = "wait" /\ UNCHANGED temp
    /\ UNCHANGED <<windows, exe, prev, running, offered>>

\* Complete, within the size limit and with the expected digest, or removed.
Verify ==
    /\ pc = "download" /\ temp = Partial
    /\ (pc' = "verified" /\ temp' = offered) \/ Abandon
    /\ UNCHANGED <<windows, exe, prev, running, offered>>

\* Mutant: the old executable is removed instead of renamed.
BackupRemoves ==
    /\ pc = "verified" /\ ~windows
    /\ exe' = None /\ prev' = None /\ pc' = "renamed" /\ UNCHANGED temp
    /\ UNCHANGED <<windows, running, offered>>

\* The previous backup is removed and the executable takes its name.
Backup ==
    /\ pc = "verified" /\ ~windows
    /\ \/ exe' = None /\ prev' = exe /\ pc' = "renamed" /\ UNCHANGED temp
       \/ prev' = None /\ Abandon /\ UNCHANGED exe
    /\ UNCHANGED <<windows, running, offered>>

\* The backup gets its name back, which may fail unnoticed; the updater's
\* next steps after such a failure are not modelled.
Rollback ==
    \/ exe' = prev /\ prev' = None /\ Abandon
    \/ exe' = None /\ UNCHANGED prev /\ pc' = "stuck" /\ temp' = None

Place ==
    /\ pc = "renamed"
    /\ (exe' = temp /\ temp' = None /\ pc' = "placed" /\ UNCHANGED prev) \/ Rollback
    /\ UNCHANGED <<windows, running, offered>>

\* syscall.Exec replaces the process, or fails and the old file is put back.
Exec ==
    /\ pc = "placed"
    /\ (running' = exe /\ pc' = "wait" /\ UNCHANGED files) \/ (Rollback /\ UNCHANGED running)
    /\ UNCHANGED <<windows, offered>>

\* The script is started and the process exits, or the script cannot be started.
StartScript ==
    /\ pc = "verified" /\ windows
    /\ (pc' = "script" /\ running' = None /\ UNCHANGED temp) \/ (Abandon /\ UNCHANGED running)
    /\ UNCHANGED <<windows, exe, prev, offered>>

\* The script moves the file, or fails to, and starts the agent in either case.
Script ==
    /\ pc = "script"
    /\ (exe' = temp /\ temp' = None) \/ UNCHANGED <<exe, temp>>
    /\ running' = exe'
    /\ pc' = "wait"
    /\ UNCHANGED <<windows, prev, offered>>

\* The process is killed; a file it was writing stays as it is.
Crash ==
    /\ running # None
    /\ running' = None /\ pc' = "wait"
    /\ UNCHANGED <<windows, exe, prev, temp, offered>>

\* The service manager starts the executable; the temporary file of another
\* process id is never looked at again.
Restart ==
    /\ running = None /\ pc = "wait" /\ exe # None
    /\ running' = exe /\ temp' = None
    /\ UNCHANGED <<windows, exe, prev, pc, offered>>

Note == best' = IF running' # None /\ running' > best THEN running' ELSE best

Step ==
    \/ CheckAndApplyUpdate \/ Download \/ Verify
    \/ Backup \/ Place \/ Exec \/ StartScript \/ Script
    \/ Crash \/ Restart

Next == Step /\ Note

\* The service manager restarts the agent and the script runs to its end.
Spec == Init /\ [][Next]_vars /\ WF_vars(Restart /\ Note) /\ WF_vars(Script /\ Note)

\* Whatever fails and whenever the process is killed, a file with a complete
\* verified agent is there, under its name or as its backup, and only a verified
\* one ever has the executable's name (auto_update.go:185, auto_update_unix.go:13-24).
AgentOnDisk == exe \in Versions \/ (exe = None /\ prev \in Versions)

\* The agent never runs an older version than it ran before, not even after a
\* failed installation or a crash in the middle of one (auto_update.go:91).
NoDowngrade == running # None => running = best

\* The agent comes back after a crash or an update unless it was killed between
\* the two renames or a failed rename could not be undone, when its name is free
\* and nothing puts it back (auto_update_unix.go:14-18).
ComesBack == []<>(running # None \/ exe = None)
=============================================================================
