---------------------------- MODULE DegradedStore ----------------------------
(***************************************************************************)
(* The server's degraded mode: src/src/server/db/degradedStore.js, the     *)
(* replay handler of dbHelpers.js, and the routes that write to MySQL.     *)
(*                                                                         *)
(* While MySQL is away writes go to a queue in memory and to a write-ahead *)
(* log on disk; the first successful connection check replays the queue.   *)
(* The node process runs one handler at a time and yields at every await,  *)
(* so an action is the code between two awaits.  A replay in progress is   *)
(* the rest of its private copy of the queue: it ends in the same step as  *)
(* its last write, and several may run side by side, one per slot.         *)
(*                                                                         *)
(* MySQL is seen through what its clients observe.  An operation succeeds, *)
(* is refused (a query error) or meets a connection error, which may come  *)
(* after the commit.                                                       *)
(***************************************************************************)
EXTENDS Naturals, Sequences

CONSTANTS
  Ops,       \* the writes the clients issue
  NoOp,      \* not a write
  Rows,      \* the database rows they write
  Row,       \* Row[o]: the row o writes
  Packages,  \* the writes of type atomic_package
  Unhandled, \* the writes whose type replay does not know (sales_upsert, delta, audit_log)
  Cap,       \* MAX_DEGRADED_QUEUE_SIZE (10000 in the code)
  Slots,     \* bound: replays that run at the same time
  MaxDrops,  \* bound: connection errors
  MaxCrashes,\* bound: restarts of the process
  Faults     \* the other faults the environment may show, a subset of FaultKinds

FaultKinds == {"query", "disk"}

ASSUME StoreAssumption ==
  /\ NoOp \notin Ops
  /\ Row \in [Ops -> Rows]
  /\ Packages \subseteq Ops
  /\ Unhandled \subseteq Ops
  /\ Cap \in Nat \ {0}
  /\ MaxDrops \in Nat
  /\ MaxCrashes \in Nat
  /\ Faults \subseteq FaultKinds

VARIABLES
  active,    \* isMysqlActive
  queue,     \* degradedWriteQueue
  wal,       \* the lines of the write-ahead log file
  todo,      \* todo[s]: what the replay in slot s has left, <<>> if there is none
  direct,    \* writes a handler is executing against MySQL
  committed, \* those of them that MySQL has committed
  acked,     \* writes answered with success
  applied,   \* writes MySQL has committed at least once
  row,       \* row[k]: the last write of row k in MySQL
  newest,    \* history: the last write of row k that was committed or buffered
  mishaps,   \* history: what has gone wrong so far
  drops,     \* number of connection errors
  crashes    \* number of restarts

mysql == <<applied, row>>
vars == <<active, queue, wal, todo, direct, committed, acked, applied, row, newest,
          mishaps, drops, crashes>>

\* What can go wrong: a write is evicted at the cap; a write is queued, or a
\* replay starts, while a replay runs; a replay is cut off before its last
\* write; a write of an unknown type is replayed; MySQL refuses a write; MySQL
\* commits a write past a queued one of the same row; a file operation fails.
Mishaps == {"evicted", "overlap", "cutoff", "unhandled", "query", "overtaken", "disk"}

Elements(s) == {s[i] : i \in 1..Len(s)}
Replaying == \E s \in Slots : todo[s] # <<>>

-----------------------------------------------------------------------------
(* The queue and its write-ahead log *)

Note(S) == mishaps' = mishaps \cup S
When(c, m) == IF c THEN {m} ELSE {}

\* slice(-MAX_DEGRADED_QUEUE_SIZE)
Newest(s) == IF Len(s) <= Cap THEN s ELSE SubSeq(s, Len(s) - Cap + 1, Len(s))

\* Faulty variants of Buffer: the cap is checked too late; the newest write goes
\* first.
BufferPastCap(o, S) ==
  /\ queue' = Append(IF Len(queue) > Cap THEN Tail(queue) ELSE queue, o)
  /\ wal' = Append(wal, o)
  /\ newest' = [newest EXCEPT ![Row[o]] = o]
  /\ Note(S \cup When(Len(queue) > Cap, "evicted") \cup When(Replaying, "overlap"))

BufferFirst(o, S) ==
  /\ queue' = <<o>> \o (IF Len(queue) >= Cap THEN Tail(queue) ELSE queue)
  /\ wal' = <<o>> \o wal
  /\ newest' = [newest EXCEPT ![Row[o]] = o]
  /\ Note(S \cup When(Len(queue) >= Cap, "evicted") \cup When(Replaying, "overlap"))

\* queueDegradedWrite: evict the oldest write of a full queue, push, append to
\* the log.  An append that fails is reported on the console only.
Buffer(o, S) ==
  LET noted == S \cup When(Len(queue) >= Cap, "evicted") \cup When(Replaying, "overlap")
  IN  /\ queue' = Append(IF Len(queue) >= Cap THEN Tail(queue) ELSE queue, o)
      /\ newest' = [newest EXCEPT ![Row[o]] = o]
      /\ \/ wal' = Append(wal, o) /\ Note(noted)
         \/ "disk" \in Faults /\ wal' = wal /\ Note(noted \cup {"disk"})

\* syncQueueToWal for the new queue q: rewrite the log, or unlink it.  When it
\* fails, the old log stays, or a truncated one.
Sync(q, S) ==
  \/ wal' = q /\ Note(S)
  \/ "disk" \in Faults /\ wal' \in {wal, <<>>} /\ Note(S \cup {"disk"})

-----------------------------------------------------------------------------
(* The routes that write *)

\* A write arrives.  In degraded mode it is buffered and acknowledged at once.
Write(o) ==
  /\ o \in Ops \ (direct \cup acked)
  /\ \/ /\ active
        /\ direct' = direct \cup {o}
        /\ UNCHANGED <<queue, wal, acked, newest, mishaps>>
     \/ /\ ~active
        /\ Buffer(o, {})
        /\ acked' = acked \cup {o}
        /\ UNCHANGED direct
  /\ UNCHANGED <<active, todo, committed, mysql, drops, crashes>>

\* MySQL commits a direct write.
DirectCommits(o) ==
  /\ o \in direct \ committed
  /\ committed' = committed \cup {o}
  /\ applied' = applied \cup {o}
  /\ row' = [row EXCEPT ![Row[o]] = o]
  /\ newest' = [newest EXCEPT ![Row[o]] = o]
  /\ Note(When(\E p \in Elements(queue) : Row[p] = Row[o], "overtaken"))
  /\ UNCHANGED <<active, queue, wal, todo, direct, acked, drops, crashes>>

EndDirect(o) == direct' = direct \ {o} /\ committed' = committed \ {o}

\* The handler learns of the commit and answers.
DirectSucceeds(o) ==
  /\ o \in committed
  /\ EndDirect(o)
  /\ acked' = acked \cup {o}
  /\ UNCHANGED <<active, queue, wal, todo, mysql, newest, mishaps, drops, crashes>>

\* Faulty variant of DirectDrops: the write is answered but not buffered.
DirectDropsUnbuffered(o) ==
  /\ drops < MaxDrops
  /\ o \in direct
  /\ EndDirect(o)
  /\ active' = FALSE
  /\ acked' = acked \cup {o}
  /\ drops' = drops + 1
  /\ UNCHANGED <<queue, wal, todo, mysql, newest, mishaps, crashes>>

\* A connection error, before or after the commit: degrade, buffer, and answer
\* with success.
DirectDrops(o) ==
  /\ drops < MaxDrops
  /\ o \in direct
  /\ EndDirect(o)
  /\ active' = FALSE
  /\ Buffer(o, {})
  /\ acked' = acked \cup {o}
  /\ drops' = drops + 1
  /\ UNCHANGED <<todo, mysql, crashes>>

\* A query error.  A package is buffered although MySQL stays active; a delta is
\* acknowledged and forgotten; a sale is answered with 500.
DirectRefused(o) ==
  /\ "query" \in Faults
  /\ o \in direct \ committed
  /\ EndDirect(o)
  /\ \/ o \in Packages /\ Buffer(o, {"query"}) /\ acked' = acked \cup {o}
     \/ /\ o \notin Packages
        /\ acked' \in {acked, acked \cup {o}}
        /\ Note({"query"})
        /\ UNCHANGED <<queue, wal, newest>>
  /\ UNCHANGED <<active, todo, mysql, drops, crashes>>

-----------------------------------------------------------------------------
(* Recovery and replay *)

\* Faulty variant of CheckSucceeds: a recovery does not start the replay.
RecoverOnly ==
  /\ ~active
  /\ active' = TRUE
  /\ UNCHANGED <<queue, wal, todo, direct, committed, acked, mysql, newest, mishaps,
                 drops, crashes>>

\* checkMysqlConnection succeeds in degraded mode: markServerRecovered, which
\* starts a replay on a copy of the queue, or tidies the log when it is empty.
CheckSucceeds ==
  /\ ~active
  /\ active' = TRUE
  /\ \/ /\ queue = <<>>
        /\ Sync(queue, {})
        /\ UNCHANGED todo
     \/ /\ queue # <<>>
        /\ \E s \in Slots : todo[s] = <<>> /\ todo' = [todo EXCEPT ![s] = queue]
        /\ Note(When(Replaying, "overlap"))
        /\ UNCHANGED wal
  /\ UNCHANGED <<queue, direct, committed, acked, mysql, newest, drops, crashes>>

\* checkMysqlConnection meets a connection error: markServerDegraded.
CheckFails ==
  /\ drops < MaxDrops
  /\ active
  /\ active' = FALSE
  /\ drops' = drops + 1
  /\ UNCHANGED <<queue, wal, todo, direct, committed, acked, mysql, newest, mishaps,
                 crashes>>

\* One write of the replay in slot s is over.  After the last one the queue is
\* replaced by the empty list `remaining`, in memory and on disk.
Advance(s, S) ==
  /\ todo' = [todo EXCEPT ![s] = Tail(@)]
  /\ \/ Len(todo[s]) > 1 /\ UNCHANGED <<queue, wal>> /\ Note(S)
     \/ Len(todo[s]) = 1 /\ queue' = <<>> /\ Sync(<<>>, S)

Apply(o) == applied' = applied \cup {o} /\ row' = [row EXCEPT ![Row[o]] = o]

\* executeReplayOpHandler succeeds; a type it does not know falls through.
ReplaySucceeds(s) ==
  /\ todo[s] # <<>>
  /\ \/ Head(todo[s]) \notin Unhandled /\ Apply(Head(todo[s])) /\ Advance(s, {})
     \/ Head(todo[s]) \in Unhandled /\ UNCHANGED mysql /\ Advance(s, {"unhandled"})
  /\ UNCHANGED <<active, direct, committed, acked, newest, drops, crashes>>

\* A query error during replay: the write is skipped.
ReplayRefused(s) ==
  /\ "query" \in Faults
  /\ todo[s] # <<>>
  /\ Head(todo[s]) \notin Unhandled
  /\ Advance(s, {"query"})
  /\ UNCHANGED <<active, direct, committed, acked, mysql, newest, drops, crashes>>

\* Faulty variant of ReplayDrops: the interrupted write is not kept.
ReplayDropsAll(s) ==
  /\ drops < MaxDrops
  /\ todo[s] # <<>>
  /\ Head(todo[s]) \notin Unhandled
  /\ UNCHANGED mysql
  /\ todo' = [todo EXCEPT ![s] = <<>>]
  /\ queue' = <<>>
  /\ Sync(<<>>, When(Len(todo[s]) > 1, "cutoff"))
  /\ active' = FALSE
  /\ drops' = drops + 1
  /\ UNCHANGED <<direct, committed, acked, newest, crashes>>

\* A connection error during replay, before or after the commit: degrade and
\* stop.  `remaining`, the interrupted write alone, replaces the queue.
ReplayDrops(s) ==
  /\ drops < MaxDrops
  /\ todo[s] # <<>>
  /\ Head(todo[s]) \notin Unhandled
  /\ Apply(Head(todo[s])) \/ UNCHANGED mysql
  /\ todo' = [todo EXCEPT ![s] = <<>>]
  /\ queue' = <<Head(todo[s])>>
  /\ Sync(<<Head(todo[s])>>, When(Len(todo[s]) > 1, "cutoff"))
  /\ active' = FALSE
  /\ drops' = drops + 1
  /\ UNCHANGED <<direct, committed, acked, newest, crashes>>

-----------------------------------------------------------------------------
(* The process *)

\* Faulty variant of Restart: the oldest lines of the log are loaded.
RestartOldest ==
  /\ crashes < MaxCrashes
  /\ crashes' = crashes + 1
  /\ active' = FALSE
  /\ queue' = IF Len(wal) <= Cap THEN wal ELSE SubSeq(wal, 1, Cap)
  /\ todo' = [s \in Slots |-> <<>>]
  /\ direct' = {}
  /\ committed' = {}
  /\ UNCHANGED <<wal, acked, mysql, newest, mishaps, drops>>

\* The process ends and starts again: loadDegradedWritesFromWal on boot.
Restart ==
  /\ crashes < MaxCrashes
  /\ crashes' = crashes + 1
  /\ active' = FALSE
  /\ queue' = Newest(wal)
  /\ todo' = [s \in Slots |-> <<>>]
  /\ direct' = {}
  /\ committed' = {}
  /\ UNCHANGED <<wal, acked, mysql, newest, mishaps, drops>>

-----------------------------------------------------------------------------
(* The specification *)

Init ==
  /\ active = FALSE
  /\ queue = <<>>
  /\ wal = <<>>
  /\ todo = [s \in Slots |-> <<>>]
  /\ direct = {}
  /\ committed = {}
  /\ acked = {}
  /\ applied = {}
  /\ row = [k \in Rows |-> NoOp]
  /\ newest = [k \in Rows |-> NoOp]
  /\ mishaps = {}
  /\ drops = 0
  /\ crashes = 0

Direct(o) == DirectCommits(o) \/ DirectSucceeds(o) \/ DirectDrops(o) \/ DirectRefused(o)
Replay(s) == ReplaySucceeds(s) \/ ReplayRefused(s) \/ ReplayDrops(s)

Next ==
  \/ \E o \in Ops : Write(o) \/ Direct(o)
  \/ \E s \in Slots : Replay(s)
  \/ CheckSucceeds
  \/ CheckFails
  \/ Restart

Spec == Init /\ [][Next]_vars

\* The check runs every five seconds, and every await of a replay settles.
FairSpec == Spec /\ WF_vars(CheckSucceeds) /\ \A s \in Slots : WF_vars(Replay(s))

-----------------------------------------------------------------------------
(* Properties *)

\* Every variable has its type; the queue never exceeds its cap.
TypeOK ==
  /\ active \in BOOLEAN
  /\ queue \in Seq(Ops)
  /\ Len(queue) <= Cap
  /\ wal \in Seq(Ops)
  /\ todo \in [Slots -> Seq(Ops)]
  /\ direct \subseteq Ops
  /\ committed \subseteq direct
  /\ acked \subseteq Ops
  /\ applied \subseteq Ops
  /\ row \in [Rows -> Ops \cup {NoOp}]
  /\ newest \in [Rows -> Ops \cup {NoOp}]
  /\ mishaps \subseteq Mishaps
  /\ drops \in 0..MaxDrops
  /\ crashes \in 0..MaxCrashes

\* "DURABLE WRITE-AHEAD LOG": a restart at any await finds the queue the process
\* had, although the log keeps the lines that the queue evicts.
QueueIsInLog == "disk" \notin mishaps => queue = Newest(wal)

NothingLost == mishaps \subseteq {"overtaken"}

\* The only ways in which an acknowledged write can get lost are those that
\* Mishaps names: without one, restarts and connection errors at any await leave
\* it in MySQL or in the queue.
AckedIsKept == NothingLost => acked \subseteq applied \cup Elements(queue)

\* Without a mishap, MySQL holds the newest write of every row once the queue is
\* empty, although restarts and lost answers make replays repeat old writes.
RecoveredIsNewest == mishaps = {} /\ queue = <<>> => row = newest

\* With MySQL active a queue that is not empty is being replayed, however
\* recoveries and replays overlap.
ActiveIsReplaying ==
  active /\ queue # <<>> /\ "query" \notin mishaps => Replaying

\* Once connection errors stop, the queue is drained.
QueueDrains == queue # <<>> ~> queue = <<>>

\* "Transactions are buffered locally in temporary store and will auto-replay on
\* reconnect": an acknowledged write is in MySQL or waits in the queue.
BufferedIsReplayed == acked \subseteq applied \cup Elements(queue)

\* The same for a write that is buffered while a replay runs.
LateBufferedIsReplayed ==
  mishaps \subseteq {"overlap"} => acked \subseteq applied \cup Elements(queue)

-----------------------------------------------------------------------------
(* Refinement *)

Durable == INSTANCE DurableQueue WITH
  Entries <- Ops,
  entrusted <- acked,
  held <- Elements(queue),
  done <- applied,
  excused <- {},
  sound <- NothingLost

\* The degraded store is a durable queue whose entries nobody gives up: up to
\* the first mishap an acknowledged write leaves it only when MySQL has it,
\* through recoveries, restarts, connection errors and repeated replays.
ImplementsDurableQueue == Durable!Spec

-----------------------------------------------------------------------------
(* The inductive invariant *)

IsSuffix(t, s) ==
  /\ Len(t) <= Len(s)
  /\ \A i \in 1..Len(t) : t[i] = s[Len(s) - Len(t) + i]

Touched(s) == {Row[o] : o \in Elements(s)}

\* While nothing is lost there is one replay at most, it works on the end of the
\* queue, and what it has behind it is in MySQL.
ReplayIsSuffix ==
  NothingLost => \A s \in Slots : todo[s] # <<>> =>
    /\ \A t \in Slots : todo[t] # <<>> => t = s
    /\ IsSuffix(todo[s], queue)
    /\ Elements(queue) \subseteq applied \cup Elements(todo[s])

\* Rows that no queued write touches hold their newest write, and so do those
\* that a replay has behind it.
SettledRows ==
  mishaps = {} =>
    /\ \A k \in Rows \ Touched(queue) : row[k] = newest[k]
    /\ \A s \in Slots : todo[s] # <<>> =>
         \A k \in Rows \ Touched(todo[s]) : row[k] = newest[k]

\* The last queued write of a row is its newest write.
LastQueuedIsNewest ==
  mishaps = {} => \A i \in 1..Len(queue) :
    (\A j \in 1..Len(queue) : j > i => Row[queue[j]] # Row[queue[i]])
      => newest[Row[queue[i]]] = queue[i]

CommittedIsApplied == committed \subseteq applied

IInv ==
  /\ TypeOK
  /\ CommittedIsApplied
  /\ QueueIsInLog
  /\ AckedIsKept
  /\ ReplayIsSuffix
  /\ SettledRows
  /\ LastQueuedIsNewest

\* What is queued, logged or being replayed has been acknowledged, and what a
\* handler still executes has not.
QueuedIsAcked ==
  /\ Elements(queue) \subseteq acked
  /\ Elements(wal) \subseteq acked
  /\ \A s \in Slots : Elements(todo[s]) \subseteq acked
  /\ direct \cap acked = {}

=============================================================================
