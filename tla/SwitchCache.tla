----------------------------- MODULE SwitchCache -----------------------------
(***************************************************************************)
(* getKillSwitchState and invalidateKillSwitchCache, packages/controlplane/ *)
(* lib/kill-switch.ts: one cached copy of the armed set, a time to live,   *)
(* and a single shared query on a miss.  lib/trust-policy.ts and           *)
(* db/custom-capability.dao.ts hold their state in the same way.           *)
(*                                                                         *)
(* The stored set is a version number: every committed write makes a new   *)
(* one.  Time is discrete, and only ages are kept, each up to the age from *)
(* which it makes no difference.  A callback runs to its next await in one *)
(* step.                                                                   *)
(***************************************************************************)
EXTENDS Integers

CONSTANTS
  Reader,     \* callers of getKillSwitchState, one call each at a time
  Ttl,        \* CACHE_TTL_MS
  Latency,    \* bound of the environment: how long a query may take
  MaxWrites   \* bound of the model: committed writes

ASSUME CacheAssumption ==
  /\ Ttl \in Nat \ {0}
  /\ Latency \in Nat
  /\ MaxWrites \in Nat

VARIABLES
  db,       \* version committed in the KillSwitch table
  cache,    \* `cache`: whether it is set, the version, and its age
  query,    \* `inFlight`: none, sent, or read by the database; and its age
  waiting,  \* callers awaiting inFlight
  unsaid,   \* versions written by an action that has not invalidated yet
  gone,     \* history: how long ago each version below db was overwritten
  quiet,    \* history: newest version invalidated with no query outstanding
  shown     \* history: newest version a caller was answered with

cacheVars ==
  <<db, cache, query, waiting, unsaid, gone, quiet, shown>>

Version == 0..MaxWrites
Horizon == Ttl + Latency
NoEntry == [full |-> FALSE, v |-> 0, age |-> 0]
NoQuery == [pc |-> "none", v |-> 0, age |-> 0]
Sent    == [pc |-> "sent", v |-> 0, age |-> 0]
Larger(a, b)   == IF a < b THEN b ELSE a
Older(age, cap) == IF age < cap THEN age + 1 ELSE cap

CacheInit ==
  /\ db = 0 /\ cache = NoEntry /\ query = NoQuery
  /\ waiting = {} /\ unsaid = {}
  /\ gone = [v \in Version |-> 0]
  /\ quiet = 0 /\ shown = 0

-----------------------------------------------------------------------------
\* now - cache.at < CACHE_TTL_MS
Fresh_Forever == cache.full
Fresh == cache.full /\ cache.age < Ttl

\* Callers that have to wait join the query in flight or start one.
Wait(callers) ==
  /\ waiting' = waiting \cup callers
  /\ query' = IF callers # {} /\ query.pc = "none" THEN Sent ELSE query

\* A call answered from the cache.
Hit(r) ==
  /\ r \notin waiting
  /\ Fresh
  /\ shown' = Larger(shown, cache.v)
  /\ UNCHANGED <<db, cache, query, waiting, unsaid, gone, quiet>>

\* A call that has to wait.
Miss(r) ==
  /\ r \notin waiting
  /\ ~Fresh
  /\ Wait({r})
  /\ UNCHANGED <<db, cache, unsaid, gone, quiet, shown>>

\* The database evaluates KillSwitchDAO.list().
DbRead ==
  /\ query.pc = "sent"
  /\ query' = [query EXCEPT !.pc = "read", !.v = db]
  /\ UNCHANGED <<db, cache, waiting, unsaid, gone, quiet, shown>>

\* The rows arrive: fill the cache, clear inFlight, resume every caller.
Resolve ==
  /\ query.pc = "read"
  /\ cache' = [full |-> TRUE, v |-> query.v, age |-> 0]
  /\ query' = NoQuery
  /\ waiting' = {}
  /\ shown' = Larger(shown, query.v)
  /\ UNCHANGED <<db, unsaid, gone, quiet>>

\* A rejected promise left in inFlight; and one whose callers are forgotten.
Reject_Strands ==
  /\ query.pc = "sent"
  /\ query' = NoQuery
  /\ UNCHANGED <<db, cache, waiting, unsaid, gone, quiet, shown>>

\* The query is rejected: finally still clears inFlight, every caller throws.
Reject ==
  /\ query.pc = "sent"
  /\ query' = NoQuery
  /\ waiting' = {}
  /\ UNCHANGED <<db, cache, unsaid, gone, quiet, shown>>

\* A write commits.  `own`: by an action of this process, which will invalidate
\* once its await returns; otherwise out of band (another instance, psql).
Commit(own) ==
  /\ db < MaxWrites
  /\ db' = db + 1
  /\ gone' = [gone EXCEPT ![db] = 0]
  /\ unsaid' = IF own THEN unsaid \cup {db + 1} ELSE unsaid
  /\ UNCHANGED <<cache, query, waiting, quiet, shown>>

\* An invalidation that puts the written state in the cache, and one that only
\* makes its own caller wait.
Invalidate_Primes(v, callers) ==
  /\ v \in unsaid
  /\ unsaid' = unsaid \ {v}
  /\ cache' = [full |-> TRUE, v |-> v, age |-> 0]
  /\ UNCHANGED <<db, query, waiting, gone, quiet, shown>>

Invalidate_KeepsCache(v, callers) ==
  /\ v \in unsaid
  /\ callers \cap waiting = {}
  /\ unsaid' = unsaid \ {v}
  /\ Wait(callers)
  /\ quiet' = IF query.pc = "none" THEN Larger(quiet, v) ELSE quiet
  /\ UNCHANGED <<db, cache, gone, shown>>

\* invalidateKillSwitchCache drops `cache`, not `inFlight`.  The arm action's
\* push calls getKillSwitchState in the same turn (callers), disarm does not.
Invalidate(v, callers) ==
  /\ v \in unsaid
  /\ callers \cap waiting = {}
  /\ unsaid' = unsaid \ {v}
  /\ cache' = NoEntry
  /\ Wait(callers)
  /\ quiet' = IF query.pc = "none" THEN Larger(quiet, v) ELSE quiet
  /\ UNCHANGED <<db, gone, shown>>

\* Time passes; a query is answered or rejected within Latency.
Tick ==
  /\ query.pc # "none" => query.age < Latency
  /\ cache' = [cache EXCEPT !.age = Older(@, Ttl)]
  /\ query' = IF query.pc = "none" THEN query
              ELSE [query EXCEPT !.age = @ + 1]
  /\ gone' = [v \in Version |-> IF v < db THEN Older(gone[v], Horizon) ELSE 0]
  /\ UNCHANGED <<db, waiting, unsaid, quiet, shown>>

CacheNext ==
  \/ \E r \in Reader : Hit(r) \/ Miss(r)
  \/ DbRead \/ Resolve \/ Reject
  \/ \E own \in BOOLEAN : Commit(own)
  \/ \E v \in Version :
       Invalidate(v, {}) \/ \E r \in Reader : Invalidate(v, {r})
  \/ Tick

CacheSpec == CacheInit /\ [][CacheNext]_cacheVars

-----------------------------------------------------------------------------
CacheTypeOK ==
  /\ db \in Version
  /\ cache \in [full : BOOLEAN, v : Version, age : 0..Ttl]
  /\ query \in [pc : {"none", "sent", "read"}, v : Version, age : 0..Latency]
  /\ waiting \subseteq Reader
  /\ unsaid \subseteq Version
  /\ gone \in [Version -> 0..Horizon]
  /\ quiet \in Version /\ shown \in Version

\* The version a call made now is answered with, when nothing changes before
\* its answer: the cached one, or the one the outstanding query has read.
Served == (IF Fresh THEN {cache.v} ELSE {})
          \cup (IF query.pc = "read" THEN {query.v} ELSE {})

\* "the TTL only bounds out-of-band changes": an answer is never older than the
\* time to live plus one query.  A version that is served and is no longer the
\* stored one was overwritten less than Ttl + Latency ago.
BoundedStaleness == \A v \in Served : v < db => gone[v] < Horizon

\* Answers never go back in time: once a caller has acted on a version, no
\* caller is answered with an older one, because a query is only ever started
\* when nothing fresh is cached and there is never a second one in flight.
AnswersMoveForward == \A v \in Served : v >= shown

\* What invalidateKillSwitchCache does achieve: after the invalidation of a
\* write no caller is answered with the state from before the write, provided
\* no query was outstanding when the invalidation ran.
QuietInvalidationHonoured == \A v \in Served : v >= quiet

\* A caller is not left waiting: again and again everybody who awaits inFlight has
\* been resumed.
CallsReturn == []<>(waiting = {})
=============================================================================
