---------------------------- MODULE DurableQueue ----------------------------
(***************************************************************************)
(* What TilePoint promises of a queue that stands between a writer and a   *)
(* database: "no sale gets lost".  The outbox of the browser               *)
(* (src/src/services/transactionOutboxService.ts) and the degraded store   *)
(* of the server (src/src/server/db/degradedStore.js) both implement it.   *)
(***************************************************************************)
EXTENDS TLAPS

CONSTANT Entries  \* what can be entrusted to the queue

VARIABLES
  entrusted, \* entries the writer has been told are safe
  held,      \* entries the queue has
  done,      \* entries the database has executed
  excused,   \* entries their owner gave up or replaced
  sound      \* no fault has happened that the queue does not survive

vars == <<entrusted, held, done, excused, sound>>

Init ==
  /\ entrusted = {}
  /\ held = {}
  /\ done = {}
  /\ excused = {}
  /\ sound = TRUE

\* The writer hands over an entry, which may replace others; an entry that is
\* done already need not be held.
Entrust(e) ==
  /\ e \notin entrusted
  /\ entrusted' = entrusted \cup {e}
  /\ e \in held' \cup done
  /\ held' \ {e} \subseteq held
  /\ excused' = excused \cup (held \ held')
  /\ UNCHANGED <<done, sound>>

\* The database executes entries, again and again if need be, and the queue
\* forgets some of those that are done: by cleaning up, or by a restart.
Serve ==
  /\ done \subseteq done'
  /\ held' \subseteq held
  /\ held \ held' \subseteq done'
  /\ UNCHANGED <<entrusted, excused, sound>>

\* The owner gives up entries.
GiveUp ==
  /\ held' \subseteq held
  /\ excused' = excused \cup (held \ held')
  /\ UNCHANGED <<entrusted, done, sound>>

\* After a fault it does not survive the queue may lose entries, or find old
\* ones again, but invents none and undoes nothing.
Mishap ==
  /\ sound' = FALSE
  /\ held' \subseteq entrusted'
  /\ entrusted \subseteq entrusted'
  /\ done \subseteq done'
  /\ excused \subseteq excused'

Next ==
  \/ \E e \in Entries : Entrust(e)
  \/ Serve
  \/ GiveUp
  \/ Mishap

Spec == Init /\ [][Next]_vars

\* What the writer relies on: an entry is done, given up, or still waiting.
Kept == sound => entrusted \subseteq held \cup done \cup excused

\* The promise follows from the steps: no step takes an entry out of the queue
\* while the queue is sound, unless it is done or given up.
THEOREM KeepsItsPromise == Spec => []Kept
<1>1. Init => Kept
  BY DEF Init, Kept
<1>2. Kept /\ [Next]_vars => Kept'
  BY DEF Kept, Next, vars, Entrust, Serve, GiveUp, Mishap
<1> QED
  BY <1>1, <1>2, PTL DEF Spec

=============================================================================
