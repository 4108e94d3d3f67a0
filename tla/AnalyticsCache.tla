--------------------------- MODULE AnalyticsCache ---------------------------
(***************************************************************************)
(* The per-tenant cache of the analytics queries, one in the memory of     *)
(* every server process: backend/app/services/analytics_service.py.        *)
(*                                                                         *)
(* What an aggregate query returns is abstracted to the number of commits  *)
(* it has seen; a query of two statements (get_workflow_breakdown) may see *)
(* more in the second one, and its result is as old as the first.  One     *)
(* tenant and one query: entries of different keys do not meet, and an     *)
(* invalidation deletes all keys of its tenant at once.                    *)
(***************************************************************************)
EXTENDS Naturals

CONSTANTS
    Procs,      \* server processes
    Readers,    \* requests for the query, each to one of them
    ReaderProc, \* [Readers -> Procs]
    MaxCommits, \* bound on the commits
    NoEntry     \* the key is not in the cache

ASSUME CacheAssumption ==
    /\ ReaderProc \in [Readers -> Procs]
    /\ MaxCommits \in Nat

VARIABLES
    version,    \* commits to the tenant's executions so far
    owed,       \* commits of a process that it has not followed up yet
    settled,    \* what a process knew to be committed at its last invalidation
    entry,      \* the cache entry of each process
    reader      \* where each request stands

cacheVars == <<version, owed, settled, entry, reader>>

NewReader == [at |-> "idle", seen |-> 0, raced |-> FALSE]

CacheInit ==
    /\ version = 0
    /\ owed = [p \in Procs |-> 0]
    /\ settled = [p \in Procs |-> 0]
    /\ entry = [p \in Procs |-> NoEntry]
    /\ reader = [r \in Readers |-> NewReader]

(* create_execution, ingest_webhook, a run: the change is committed.       *)
Commit(p) ==
    /\ version < MaxCommits
    /\ version' = version + 1
    /\ owed' = [owed EXCEPT ![p] = @ + 1]
    /\ UNCHANGED <<settled, entry, reader>>

Raced(p) ==
    [r \in Readers |->
        IF ReaderProc[r] = p /\ reader[r].at # "idle"
        THEN [reader[r] EXCEPT !.raced = TRUE] ELSE reader[r]]

\* Mutant: the keys of the tenant are not found.
InvalidateNothing(p) ==
    /\ owed[p] > 0
    /\ owed' = [owed EXCEPT ![p] = @ - 1]
    /\ settled' = [settled EXCEPT ![p] = version]
    /\ reader' = Raced(p)
    /\ UNCHANGED <<version, entry>>

(* invalidate_tenant_cache, when the coroutine has resumed.  It reaches    *)
(* the process it runs in and no other, and no query that is under way.    *)
Invalidate(p) ==
    /\ owed[p] > 0
    /\ owed' = [owed EXCEPT ![p] = @ - 1]
    /\ settled' = [settled EXCEPT ![p] = version]
    /\ entry' = [entry EXCEPT ![p] = NoEntry]
    /\ reader' = Raced(p)
    /\ UNCHANGED version

(* _CACHE_TTL has passed: the next _get_cached deletes the entry.          *)
Outlive(p) ==
    /\ entry[p] # NoEntry
    /\ entry' = [entry EXCEPT ![p] = NoEntry]
    /\ UNCHANGED <<version, owed, settled, reader>>

(* A hit is answered at once; a miss begins the query.                     *)
Look(r) ==
    /\ reader[r].at = "idle" /\ entry[ReaderProc[r]] = NoEntry
    /\ reader' = [reader EXCEPT ![r].at = "ask"]
    /\ UNCHANGED <<version, owed, settled, entry>>

Query(r) ==
    /\ reader[r].at = "ask"
    /\ reader' = [reader EXCEPT ![r].at = "fill", ![r].seen = version]
    /\ UNCHANGED <<version, owed, settled, entry>>

(* _set_cached, whatever has happened since.                               *)
Fill(r) ==
    /\ reader[r].at = "fill"
    /\ entry' = [entry EXCEPT ![ReaderProc[r]] =
                    [seen |-> reader[r].seen, raced |-> reader[r].raced]]
    /\ reader' = [reader EXCEPT ![r] = NewReader]
    /\ UNCHANGED <<version, owed, settled>>

CacheNext ==
    \/ \E p \in Procs : Commit(p) \/ Invalidate(p) \/ Outlive(p)
    \/ \E r \in Readers : Look(r) \/ Query(r) \/ Fill(r)

CacheSpec == CacheInit /\ [][CacheNext]_cacheVars

----------------------------------------------------------------------------
Entries == [seen : 0..MaxCommits, raced : BOOLEAN]

CacheTypeOK ==
    /\ version \in 0..MaxCommits
    /\ owed \in [Procs -> 0..MaxCommits]
    /\ settled \in [Procs -> 0..MaxCommits]
    /\ entry \in [Procs -> Entries \cup {NoEntry}]
    /\ reader \in [Readers -> [at : {"idle", "ask", "fill"}, seen : 0..MaxCommits,
                               raced : BOOLEAN]]

(* What a process serves from its cache includes all it knew to be         *)
(* committed when it last invalidated; the one exception is a result whose *)
(* query was under way at that moment and was stored after it, which is    *)
(* then served for its whole time to live.                                 *)
StaleOnlyByRace ==
    \A p \in Procs :
        entry[p] # NoEntry => entry[p].raced \/ entry[p].seen >= settled[p]
=============================================================================
