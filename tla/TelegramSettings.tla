-------------------------- MODULE TelegramSettings --------------------------
(***************************************************************************)
(* The notifier's cached settings (TelegramNotifier.cs): LoadSettingsAsync *)
(* answers from the cache for 30 seconds and otherwise reads the table     *)
(* under a semaphore; SaveAsync writes the settings one row at a time and  *)
(* then empties the cache, without the semaphore.  Two rows stand for the  *)
(* six: whether notices are on, and where they go.                         *)
(***************************************************************************)
EXTENDS Integers

CONSTANTS
    Loaders,   \* calls of LoadSettingsAsync under way
    MaxSaves,  \* bound on the number of saves
    None

VARIABLES
    table,     \* the rows of vite_config: the save that wrote each
    saving,    \* where SaveAsync stands
    cache,     \* _cachedSettings: the rows it was made from, or None
    fresh,     \* _cacheExpires is in the future
    holder,    \* who holds _settingsLock
    loader     \* loaders: where they stand and what they have read or return

vars == <<table, saving, cache, fresh, holder, loader>>

Rows     == {"enabled", "chat"}
Settings == [Rows -> 0..MaxSaves]
Idle     == [at |-> "idle", got |-> None]
\* Mutant: the cache does not expire.
HitForever == cache # None

Hit == cache # None /\ fresh

TypeOK ==
    /\ table \in Settings
    /\ saving \in {"idle", "enabled", "chat", "invalidate", "expire"}
    /\ cache \in Settings \cup {None}
    /\ fresh \in BOOLEAN
    /\ holder \in Loaders \cup {None}
    /\ loader \in [Loaders -> [at : {"idle", "hit", "wait", "locked", "query", "store", "return", "done"}, got : Settings \cup {None}]]

Init ==
    /\ table = [r \in Rows |-> 0]
    /\ saving = "idle"
    /\ cache = None /\ fresh = FALSE /\ holder = None
    /\ loader = [l \in Loaders |-> Idle]

(***************************************************************************)
(* SaveAsync, from its first UPSERT on.                                    *)
(***************************************************************************)
BeginSave ==
    /\ saving = "idle" /\ table["enabled"] < MaxSaves
    /\ saving' = "enabled"
    /\ UNCHANGED <<table, cache, fresh, holder, loader>>

Upsert(r) ==
    /\ saving = r
    /\ table' = [table EXCEPT ![r] = @ + 1]
    /\ saving' = IF r = "enabled" THEN "chat" ELSE "invalidate"
    /\ UNCHANGED <<cache, fresh, holder, loader>>

\* Two assignments without a lock.
InvalidateCache ==
    \/ /\ saving = "invalidate"
       /\ cache' = None /\ saving' = "expire"
       /\ UNCHANGED <<table, fresh, holder, loader>>
    \/ /\ saving = "expire"
       /\ fresh' = FALSE /\ saving' = "idle"
       /\ UNCHANGED <<table, cache, holder, loader>>

(***************************************************************************)
(* LoadSettingsAsync.  The field is read once for the test and again for   *)
(* the result, here and after the lock.                                    *)
(***************************************************************************)
Goto(l, place) == loader' = [loader EXCEPT ![l].at = place]

Load(l) ==
    /\ loader[l].at = "idle"
    /\ Goto(l, IF Hit THEN "hit" ELSE "wait")
    /\ UNCHANGED <<table, saving, cache, fresh, holder>>

ReturnCached(l) ==
    /\ loader[l].at \in {"hit", "return"}
    /\ loader' = [loader EXCEPT ![l] = [at |-> "done", got |-> cache]]
    /\ holder' = IF holder = l THEN None ELSE holder
    /\ UNCHANGED <<table, saving, cache, fresh>>

WaitAsync(l) ==
    /\ loader[l].at = "wait" /\ holder = None
    /\ holder' = l
    /\ Goto(l, "locked")
    /\ UNCHANGED <<table, saving, cache, fresh>>

Recheck(l) ==
    /\ loader[l].at = "locked"
    /\ Goto(l, IF Hit THEN "return" ELSE "query")
    /\ UNCHANGED <<table, saving, cache, fresh, holder>>

\* One SELECT; it may fail, and the semaphore is released in any case.
Query(l) ==
    /\ loader[l].at = "query"
    /\ \/ loader' = [loader EXCEPT ![l] = [at |-> "store", got |-> table]] /\ UNCHANGED holder
       \/ loader' = [loader EXCEPT ![l] = Idle] /\ holder' = None
    /\ UNCHANGED <<table, saving, cache, fresh>>

Store(l) ==
    /\ loader[l].at = "store"
    /\ cache' = loader[l].got /\ fresh' = TRUE
    /\ Goto(l, "return")
    /\ UNCHANGED <<table, saving, holder>>

\* The caller uses what it got and ends; it may call again.
Done(l) ==
    /\ loader[l].at = "done"
    /\ loader' = [loader EXCEPT ![l] = Idle]
    /\ UNCHANGED <<table, saving, cache, fresh, holder>>

Expire == fresh /\ fresh' = FALSE /\ UNCHANGED <<table, saving, cache, holder, loader>>

Save == BeginSave \/ InvalidateCache \/ \E r \in Rows : Upsert(r)
LoadStep(l) ==
    Load(l) \/ ReturnCached(l) \/ WaitAsync(l) \/ Recheck(l) \/ Query(l) \/ Store(l) \/ Done(l)

Next == Save \/ Expire \/ \E l \in Loaders : LoadStep(l)

\* Time passes; a save that has begun ends; reports keep coming and each is served.
Fairness ==
    /\ WF_vars(Expire)
    /\ WF_vars(InvalidateCache \/ \E r \in Rows : Upsert(r))
    /\ \A l \in Loaders : WF_vars(LoadStep(l))

Spec == Init /\ [][Next]_vars /\ Fairness

\* A settings object that mixes two saves, or one that a slow load stored after
\* the save had emptied the cache, is used for a while only: once nothing is
\* saved any more, every load comes to answer with the settings that are stored
\* (TelegramNotifier.cs:59, :201, :208).
SettlesOnStored ==
    <>[](saving = "idle" => \A l \in Loaders : loader[l].at = "done" => loader[l].got = table)
=============================================================================
