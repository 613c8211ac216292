-------------------------- MODULE LoginRateLimiter --------------------------
(***************************************************************************)
(* The panel's limit on failed logins (RateLimiting.cs) for one key, and   *)
(* the login requests that use it (RelayForgeApi.cs).  A request asks      *)
(* TryAcquire, waits for the database and then registers its failure or    *)
(* its success, so requests overlap.  Each method reads the clock, runs    *)
(* the cleanup, takes the key's entry out of the dictionary and only then  *)
(* locks it: between two of these steps the entry may leave the            *)
(* dictionary, which is why entries are objects with an identity here.     *)
(* Time counts in steps of less than a minute.                             *)
(***************************************************************************)
EXTENDS Integers, FiniteSets

CONSTANTS
    Requests,     \* login requests under way at the same time
    Objects,      \* entry objects, reused once nobody refers to them
    MaxFailures, Window, Lockout,
    Lag,          \* the longest a call of a method may take
    MaxTime,      \* bound on the clock
    None

VARIABLES
    now,
    entry,        \* _entries[key]: an object or None
    obj,          \* objects: window start, failures, locked until
    nextCleanup,  \* _nextCleanupTicks
    req,          \* requests: where they stand, the clock they read, the object they took
    cleared       \* (history) objects that a success took out of the dictionary

vars == <<now, entry, obj, nextCleanup, req, cleared>>

Idle      == [at |-> "idle", t |-> 0, e |-> None]
Places    == {"idle", "clean", "get", "acquire", "verify", "failClean", "failGet", "fail"}
Blank(t)  == [started |-> t, failures |-> 0, until |-> 0]
FreeObject == CHOOSE o \in Objects : o # entry /\ \A r \in Requests : req[r].e # o
Locked(o) == obj[o].until > now

TypeOK ==
    /\ now \in 0..MaxTime
    /\ entry \in Objects \cup {None}
    /\ obj \in [Objects -> [started : 0..MaxTime, failures : 0..(MaxFailures + Cardinality(Requests)), until : 0..(MaxTime + Lockout)]]
    /\ nextCleanup \in 0..(MaxTime + Window)
    /\ req \in [Requests -> [at : Places, t : 0..MaxTime, e : Objects \cup {None}]]
    /\ cleared \subseteq Objects

Init ==
    /\ now = 1
    /\ entry = None
    /\ obj = [o \in Objects |-> Blank(0)]
    /\ nextCleanup = 0
    /\ req = [r \in Requests |-> Idle]
    /\ cleared = {}

\* The methods do not wait for anything: the clock they read is at most Lag old.
Tick ==
    /\ now < MaxTime
    /\ \A r \in Requests : req[r].at \notin {"idle", "verify"} => now < req[r].t + Lag
    /\ now' = now + 1
    /\ UNCHANGED <<entry, obj, nextCleanup, req, cleared>>

\* A login with a name and a password of acceptable length enters TryAcquire.
Login(r) ==
    /\ req[r].at = "idle"
    /\ req' = [req EXCEPT ![r] = [at |-> "clean", t |-> now, e |-> None]]
    /\ UNCHANGED <<now, entry, obj, nextCleanup, cleared>>

\* Mutant: the cleanup looks at the window only.
StaleForgetsLock(o, t) == t - obj[o].started > Window

Stale(o, t) == obj[o].until <= t /\ t - obj[o].started > Window

\* At most once a minute; an entry is examined and removed under its lock.
CleanupExpired(t) ==
    IF t < nextCleanup
      THEN UNCHANGED <<entry, nextCleanup>>
      ELSE /\ nextCleanup' = t + Window
           /\ entry' = IF entry # None /\ Stale(entry, t) THEN None ELSE entry

Clean(r) ==
    /\ req[r].at \in {"clean", "failClean"}
    /\ CleanupExpired(req[r].t)
    /\ req' = [req EXCEPT ![r].at = IF @ = "clean" THEN "get" ELSE "failGet"]
    /\ UNCHANGED <<now, obj, cleared>>

\* A request for another key runs the same cleanup.
CleanElsewhere == CleanupExpired(now) /\ UNCHANGED <<now, obj, req, cleared>>

GetOrAdd(r) ==
    /\ req[r].at \in {"get", "failGet"}
    /\ \E o \in Objects :
         /\ IF entry # None THEN o = entry /\ UNCHANGED obj
                            ELSE o = FreeObject /\ obj' = [obj EXCEPT ![o] = Blank(now)]
         /\ entry' = o
         /\ cleared' = IF entry = None THEN cleared \ {o} ELSE cleared
         /\ req' = [req EXCEPT ![r].e = o, ![r].at = IF @ = "get" THEN "acquire" ELSE "fail"]
    /\ UNCHANGED <<now, nextCleanup>>

Restarted(o, t) ==
    IF t - obj[o].started > Window THEN [started |-> t, failures |-> 0, until |-> obj[o].until] ELSE obj[o]

\* Mutant: a key that is locked out is let through.
TryAcquireLocked(r) ==
    /\ req[r].at = "acquire"
    /\ req' = [req EXCEPT ![r] = [at |-> "verify", t |-> 0, e |-> None]]
    /\ obj' = [obj EXCEPT ![req[r].e] = Restarted(req[r].e, req[r].t)]
    /\ UNCHANGED <<now, entry, nextCleanup, cleared>>

\* The locked part of TryAcquire: 429, or the password is looked at.
TryAcquire(r) ==
    LET o == req[r].e
        t == req[r].t
    IN  /\ req[r].at = "acquire"
        /\ IF obj[o].until > t
             THEN req' = [req EXCEPT ![r] = Idle] /\ UNCHANGED obj
             ELSE /\ req' = [req EXCEPT ![r] = [at |-> "verify", t |-> 0, e |-> None]]
                  /\ obj' = [obj EXCEPT ![o] = Restarted(o, t)]
        /\ UNCHANGED <<now, entry, nextCleanup, cleared>>

\* Wrong name, password or code, or a disabled account.
Rejected(r) ==
    /\ req[r].at = "verify"
    /\ req' = [req EXCEPT ![r] = [at |-> "failClean", t |-> now, e |-> None]]
    /\ UNCHANGED <<now, entry, obj, nextCleanup, cleared>>

\* The database fails or the second factor cannot be decrypted: nothing is registered.
GivesUp(r) ==
    /\ req[r].at = "verify"
    /\ req' = [req EXCEPT ![r] = Idle]
    /\ UNCHANGED <<now, entry, obj, nextCleanup, cleared>>

RegisterSuccess(r) ==
    /\ req[r].at = "verify"
    /\ entry' = None
    /\ cleared' = cleared \cup ({entry} \ {None})
    /\ req' = [req EXCEPT ![r] = Idle]
    /\ UNCHANGED <<now, obj, nextCleanup>>

RegisterFailure(r) ==
    LET o == req[r].e
        t == req[r].t
        e == Restarted(o, t)
        n == e.failures + 1
    IN  /\ req[r].at = "fail"
        /\ obj' = [obj EXCEPT ![o] = [started |-> e.started, failures |-> n,
                                       until |-> IF n >= MaxFailures THEN t + Lockout ELSE e.until]]
        /\ req' = [req EXCEPT ![r] = Idle]
        /\ UNCHANGED <<now, entry, nextCleanup, cleared>>

Next ==
    \/ Tick
    \/ CleanElsewhere
    \/ \E r \in Requests :
         Login(r) \/ Clean(r) \/ GetOrAdd(r) \/ TryAcquire(r) \/ Rejected(r) \/ GivesUp(r)
           \/ RegisterSuccess(r) \/ RegisterFailure(r)

Spec == Init /\ [][Next]_vars

\* Guesses in flight when the limit is reached are the only ones beyond it: no
\* entry ever counts more failures than the limit and one for each concurrent
\* request, for TryAcquire refuses the key until its window is over
\* (RateLimiting.cs:22, :48-55).
OverrunBounded == \A o \in Objects : obj[o].failures < MaxFailures + Cardinality(Requests)

\* A key that is locked out stays locked out: the cleanup of any request, with
\* however old a clock, never removes its entry; only a success that was
\* admitted before does (RateLimiting.cs:57-74).
LockKept ==
    [][entry # None /\ Locked(entry) /\ entry' # entry =>
         \E r \in Requests : req[r].at = "verify" /\ req'[r].at = "idle"]_vars

\* The failure that completes the limit locks the key, that is, the entry in the
\* dictionary, except when a success cleared the key in between, or when a cleanup
\* by a later clock removed the entry between GetOrAdd and the lock: a request
\* that is not overtaken loses nothing (RateLimiting.cs:41-43, :70).
LockoutSeen ==
    \A r \in Requests :
      LET o == req[r].e
          t == req[r].t
      IN  req[r].at = "fail" /\ Restarted(o, t).failures + 1 >= MaxFailures =>
            o = entry \/ o \in cleared \/ t < nextCleanup - Window
=============================================================================
