------------------------------ MODULE DbCache ------------------------------
(***************************************************************************)
(* The server's cache of the whole database: cachedFullDb, cachedDbHash    *)
(* and isDbCacheDirty of src/src/server/db/dbHelpers.js, while MySQL is    *)
(* active.  GET /api/db/full answers from it.                              *)
(*                                                                         *)
(* A handler that writes commits its transaction first and calls           *)
(* invalidateDbCache() in a later turn of the event loop.  A reader that   *)
(* finds the cache dirty queries every table separately, on connections of *)
(* its own, and installs what it gathered when the last query is answered. *)
(* Between any two of these steps other handlers run.                      *)
(***************************************************************************)
CONSTANTS
  Tables,   \* the tables readFullDatabase gathers
  Readers   \* the calls of readFullDatabase that can be under way at once

VARIABLES
  db,       \* db[x]: the committed contents of table x
  cache,    \* cachedFullDb, Nothing while isDbCacheDirty
  reads,    \* reads[r]: the tables a reader has gathered so far
  unnoted,  \* requests that have committed and not yet called invalidateDbCache()
  stale     \* history: the read that filled the cache straddled an invalidation

caching == <<db, cache, reads, unnoted, stale>>

Nothing == <<>>
NotReading == [on |-> FALSE, old |-> FALSE, got |-> Nothing]

\* The cache answers without a query.
Clean == cache # Nothing

\* The transaction of request q commits; what it wrote is the handler's to say.
Commit(q, new) ==
  /\ db' = new
  /\ unnoted' = unnoted \cup {q}
  /\ UNCHANGED <<cache, reads, stale>>

\* Faulty variant of InvalidateDbCache: a route marks the cache without dropping
\* what it holds.
InvalidateKeepingCache(q) ==
  /\ unnoted' = unnoted \ {q}
  /\ UNCHANGED <<db, cache, reads, stale>>

\* invalidateDbCache(), called by writeDbFile() or by the route of q itself.
InvalidateDbCache(q) ==
  /\ cache' = Nothing
  /\ stale' = FALSE
  /\ unnoted' = unnoted \ {q}
  /\ reads' = [r \in Readers |-> [reads[r] EXCEPT !.old = reads[r].on]]
  /\ UNCHANGED db

\* readFullDatabase() finds the cache dirty.
StartRead(r) ==
  /\ ~reads[r].on
  /\ ~Clean
  /\ reads' = [reads EXCEPT ![r] = [on |-> TRUE, old |-> FALSE, got |-> Nothing]]
  /\ UNCHANGED <<db, cache, unnoted, stale>>

\* One of the queries of Promise.allSettled is answered.
ReadTable(r, x) ==
  /\ reads[r].on
  /\ x \notin DOMAIN reads[r].got
  /\ reads' = [reads EXCEPT ![r].got =
       [y \in DOMAIN reads[r].got \cup {x} |->
          IF y = x THEN db[x] ELSE reads[r].got[y]]]
  /\ UNCHANGED <<db, cache, unnoted, stale>>

\* The last one was: the reader installs its result, whatever the cache holds.
FinishRead(r) ==
  /\ reads[r].on
  /\ DOMAIN reads[r].got = Tables
  /\ cache' = reads[r].got
  /\ stale' = reads[r].old
  /\ reads' = [reads EXCEPT ![r] = NotReading]
  /\ UNCHANGED <<db, unnoted>>

CacheInit ==
  /\ cache = Nothing
  /\ reads = [r \in Readers |-> NotReading]
  /\ unnoted = {}
  /\ stale = FALSE

-----------------------------------------------------------------------------
(* Properties *)

\* A cache that is not dirty agrees with the database in every table, although
\* the tables were read one by one between other handlers' commits.  Two windows
\* are left: between a commit and the invalidation that follows it, and after a
\* read that an invalidation overtook has installed its result.
CleanCacheIsFresh == Clean /\ ~stale /\ unnoted = {} => cache = db

\* So does whatever a reader has gathered that no invalidation has overtaken.
ReadsAreFresh ==
  \A r \in Readers :
    reads[r].on /\ ~reads[r].old /\ unnoted = {} =>
      \A x \in DOMAIN reads[r].got : reads[r].got[x] = db[x]

=============================================================================
