------------------------------- MODULE Outbox -------------------------------
(***************************************************************************)
(* The client-side transaction outbox of TilePoint:                        *)
(* src/src/services/transactionOutboxService.ts, as DbContext wires it.    *)
(*                                                                         *)
(* A record is a position of `rec`, in order of creation: createdAt,       *)
(* queueId and the place in the array `items` all follow that order, so    *)
(* `items` is a set of positions and slice(-n) keeps its n largest.  A     *)
(* record that left `items` while a flush still holds it keeps its entry   *)
(* in `rec`: the flush goes on working on the orphaned object.             *)
(*                                                                         *)
(* JavaScript runs to completion between two awaits, so an action is the   *)
(* code from one await of flush() to the next, or one whole synchronous    *)
(* method.                                                                 *)
(***************************************************************************)
EXTENDS Naturals, Sequences, FiniteSets

CONSTANTS
  Txs,            \* the idempotency keys (OutboxRecord.id) the application uses
  Priority,       \* Priority[t]: 1 for checkouts and voids, 2 for the rest
  StorageCap,     \* records one save keeps (100 in the code)
  CompletedCap,   \* completed records kept in memory (50 in the code)
  MaxRetries,     \* OutboxRecord.maxRetries (20 in the code)
  MaxEnqueue,     \* bound: number of calls of enqueue()
  RetryBound,     \* bound: retryCount, which network errors raise without limit
  StorageMayFail, \* whether localStorage.setItem may throw
  Faults          \* the faults the environment may show, a subset of FaultKinds

FaultKinds == {"network", "server", "auth", "schema", "reload", "user"}

ASSUME OutboxAssumption ==
  /\ Priority \in [Txs -> 1..3]
  /\ StorageCap \in Nat \ {0}
  /\ CompletedCap \in Nat
  /\ MaxRetries \in Nat \ {0}
  /\ MaxEnqueue \in Nat
  /\ RetryBound \in Nat
  /\ RetryBound >= MaxRetries
  /\ StorageMayFail \in BOOLEAN
  /\ Faults \subseteq FaultKinds

VARIABLES
  rec,       \* every record ever created: [tx, status, retries]
  items,     \* this.items
  stored,    \* localStorage 'tp_transaction_outbox_queue'
  phase,     \* flush(): "idle" (isProcessing is false), at fetch or at the delay
  cur,       \* the record of the current iteration, 0 when there is none
  work,      \* the rest of flush's local snapshot `pending`
  timer,     \* flushTimer is armed
  online,    \* navigator.onLine
  auth,      \* a session token is at hand
  wire,      \* requests the server has not consumed yet
  accepted,  \* records whose transaction the server has executed
  discarded, \* history: records the user deleted or replaced
  lossy      \* history: some save threw or was cut off at StorageCap

client == <<rec, items, stored, phase, cur, work, timer>>
vars == <<rec, items, stored, phase, cur, work, timer,
          online, auth, wire, accepted, discarded, lossy>>

Statuses == {"pending", "processing", "completed", "failed", "dead_letter"}
Record == [tx : Txs, status : Statuses, retries : 0..(RetryBound + 1)]
Phases == {"idle", "fetch", "delay"}
Ids == 1..Len(rec)

-----------------------------------------------------------------------------
(* Storage *)

Unfinished(I, r) == {q \in I : r[q].status # "completed"}

\* What saveToStorage writes: the newest StorageCap unfinished records.
Persisted(I, r) ==
  [q \in {p \in Unfinished(I, r) :
            Cardinality({o \in Unfinished(I, r) : o > p}) < StorageCap} |-> r[q]]

\* saveToStorage, on the values `items` and `rec` have after the step.  A
\* setItem that throws leaves the old contents behind.
Save ==
  \/ /\ stored' = Persisted(items', rec')
     /\ lossy' = (lossy \/ DOMAIN stored' # Unfinished(items', rec'))
  \/ /\ StorageMayFail
     /\ stored' = stored
     /\ lossy' = TRUE

\* Faulty variant of Recovered: a record is taken over as it was saved.
RecoveredAsSaved(r) == r

\* loadFromStorage: an interrupted record is pending again.
Recovered(r) == [r EXCEPT !.status = IF @ = "processing" THEN "pending" ELSE @]

-----------------------------------------------------------------------------
(* enqueue and the user's operations on the queue *)

SetStatus(q, s) == rec' = [rec EXCEPT ![q].status = s]
Reset(r) == [r EXCEPT !.status = "pending", !.retries = 0]
Stuck == {"failed", "dead_letter"}

\* Faulty variant of Enqueue: the save precedes the push.
EnqueueSavingTooEarly(t) ==
  LET same == {q \in items : rec[q].tx = t}
  IN  /\ Len(rec) < MaxEnqueue
      /\ rec' = Append(rec, [tx |-> t, status |-> "pending", retries |-> 0])
      /\ items' = (items \ same) \cup {Len(rec) + 1}
      /\ discarded' = discarded \cup same
      /\ stored' = Persisted(items \ same, rec)
      /\ timer' = TRUE
      /\ UNCHANGED <<phase, cur, work, online, auth, wire, accepted, lossy>>

\* enqueue(): drop the records with the same id, push, save, arm the timer.
Enqueue(t) ==
  LET same == {q \in items : rec[q].tx = t}
  IN  /\ Len(rec) < MaxEnqueue
      /\ rec' = Append(rec, [tx |-> t, status |-> "pending", retries |-> 0])
      /\ items' = (items \ same) \cup {Len(rec) + 1}
      /\ discarded' = discarded \cup same
      /\ Save
      /\ timer' = TRUE
      /\ UNCHANGED <<phase, cur, work, online, auth, wire, accepted>>

\* retryItem(): the panels offer it for failed and dead-lettered records only.
RetryItem(q) ==
  /\ "user" \in Faults
  /\ q \in items
  /\ rec[q].status \in Stuck
  /\ rec' = [rec EXCEPT ![q] = Reset(@)]
  /\ timer' = TRUE
  /\ UNCHANGED <<items, phase, cur, work, online, auth, wire, accepted, discarded>>
  /\ Save

\* retryAll()
RetryAll ==
  /\ "user" \in Faults
  /\ rec' = [q \in Ids |->
               IF q \in items /\ rec[q].status \in Stuck THEN Reset(rec[q]) ELSE rec[q]]
  /\ timer' = TRUE
  /\ UNCHANGED <<items, phase, cur, work, online, auth, wire, accepted, discarded>>
  /\ Save

Drop(gone) ==
  /\ "user" \in Faults
  /\ gone # {}
  /\ items' = items \ gone
  /\ discarded' = discarded \cup gone
  /\ UNCHANGED <<rec, phase, cur, work, timer, online, auth, wire, accepted>>

\* removeItem(), clearCompleted() and clearDeadLetters().
RemoveItem(q) == q \in items /\ Drop({q}) /\ Save
ClearCompleted == Drop({q \in items : rec[q].status = "completed"}) /\ Save
ClearDeadLetters == Drop({q \in items : rec[q].status = "dead_letter"}) /\ Save

-----------------------------------------------------------------------------
(* flush() *)

\* Faulty variant of Eligible: dead letters are taken along.
EligibleWithDead(q) == q \in items /\ rec[q].status \in {"pending", "failed", "dead_letter"}

\* What a flush takes into its snapshot.
Eligible(q) == q \in items /\ rec[q].status \in {"pending", "failed"}

\* Faulty variant of Before: among equals the newest goes first.
BeforeNewestFirst(p, q) ==
  \/ Priority[rec[p].tx] < Priority[rec[q].tx]
  \/ Priority[rec[p].tx] = Priority[rec[q].tx] /\ p > q

\* The order in which a flush works: by priority, then by age.
Before(p, q) ==
  \/ Priority[rec[p].tx] < Priority[rec[q].tx]
  \/ Priority[rec[p].tx] = Priority[rec[q].tx] /\ p < q
First(q, S) == q \in S /\ \A p \in S \ {q} : Before(q, p)

\* The end of flush(): isProcessing = false.
Finish == phase' = "idle" /\ cur' = 0 /\ work' = {}

\* One turn of the loop from its head to fetch(): of the records S left to do,
\* the first is marked as processing, the mark is saved, the request leaves.  r
\* and w are the records and the wire as the step has left them so far.
SendFirst(S, r, w) ==
  \E q \in S :
    /\ First(q, S)
    /\ rec' = [r EXCEPT ![q].status = "processing"]
    /\ phase' = "fetch"
    /\ cur' = q
    /\ work' = S \ {q}
    /\ wire' = w \cup {q}

\* flush() past its four early returns, up to the first fetch().
StartFlush ==
  /\ phase = "idle"
  /\ online
  /\ auth
  /\ SendFirst({q \in items : Eligible(q)}, rec, wire)
  /\ UNCHANGED <<items, online, auth, accepted, discarded>>
  /\ Save

CanStart == phase = "idle" /\ online /\ auth /\ \E p \in items : Eligible(p)

\* The debounced timer of scheduleFlush fires.  When flush() returns early,
\* nothing arms the timer again.
TimerFires ==
  /\ timer
  /\ timer' = FALSE
  /\ \/ StartFlush
     \/ ~CanStart /\ UNCHANGED <<rec, items, stored, phase, cur, work,
                                 online, auth, wire, accepted, discarded, lossy>>

\* flush() called by a panel's button or, 100 ms after it, by login().
ManualFlush ==
  /\ "user" \in Faults
  /\ StartFlush
  /\ UNCHANGED timer

\* The server executes a request: at once, or after the client gave it up.
ServerExecutes(q) ==
  /\ q \in wire
  /\ wire' = wire \ {q}
  /\ accepted' = accepted \cup {q}
  /\ UNCHANGED <<client, online, auth, discarded, lossy>>

Waiting == phase = "fetch"

\* Faulty variants of OkReply: any answer counts as a success; the completion
\* is not saved; one completed record too many stays.
OkReplyUnchecked ==
  /\ Waiting
  /\ SetStatus(cur, "completed")
  /\ phase' = "delay"
  /\ UNCHANGED <<items, cur, work, timer, online, auth, wire, accepted, discarded>>
  /\ Save

OkReplyUnsaved ==
  /\ Waiting
  /\ cur \in accepted \ wire
  /\ SetStatus(cur, "completed")
  /\ phase' = "delay"
  /\ UNCHANGED <<items, stored, cur, work, timer, online, auth, wire, accepted,
                 discarded, lossy>>

OkReplyKeepingOneMore ==
  /\ Waiting
  /\ cur \in accepted \ wire
  /\ SetStatus(cur, "completed")
  /\ LET done == {q \in items : rec'[q].status = "completed"}
     IN  items' = items \ {q \in done : Cardinality({p \in done : p > q}) > CompletedCap}
  /\ phase' = "delay"
  /\ UNCHANGED <<cur, work, timer, online, auth, wire, accepted, discarded>>
  /\ Save

\* A 2xx answer: completed, the oldest completed records beyond CompletedCap
\* leave the memory, save, then the 60 ms delay.
OkReply ==
  /\ Waiting
  /\ cur \in accepted \ wire
  /\ SetStatus(cur, "completed")
  /\ LET done == {q \in items : rec'[q].status = "completed"}
     IN  items' = items \ {q \in done : Cardinality({p \in done : p > q}) >= CompletedCap}
  /\ phase' = "delay"
  /\ UNCHANGED <<cur, work, timer, online, auth, wire, accepted, discarded>>
  /\ Save

\* The loop goes on to its next record, or ends: no record is left, or
\* navigator.onLine is false.
NextRecord(r, w) ==
  \/ work # {} /\ online /\ SendFirst(work, r, w)
  \/ (work = {} \/ ~online) /\ Finish /\ rec' = r /\ wire' = w

AfterDelay ==
  /\ phase = "delay"
  /\ NextRecord(rec, wire)
  /\ UNCHANGED <<items, timer, online, auth, accepted, discarded>>
  /\ Save

\* Faulty variant of AuthReply: flush() returns without resetting isProcessing,
\* so that it is neither idle nor at an await.
AuthReplyNoReset ==
  /\ "auth" \in Faults
  /\ Waiting
  /\ cur \in wire
  /\ wire' = wire \ {cur}
  /\ phase' = "returned"
  /\ auth' = FALSE
  /\ UNCHANGED <<rec, items, cur, work, timer, online, accepted, discarded>>
  /\ Save

\* 401 or 403: the status of the record stays "processing", the flush ends.
\* safeApiFetch may have dropped the token, and then initialize() runs again.
AuthReply ==
  /\ "auth" \in Faults
  /\ Waiting
  /\ cur \in wire
  /\ wire' = wire \ {cur}
  /\ auth' \in {auth, FALSE}
  /\ timer' = (timer \/ (auth' # auth /\ items # {}))
  /\ Finish
  /\ UNCHANGED <<rec, items, online, accepted, discarded>>
  /\ Save

\* 400 or 422: dead letter, and the loop continues without a delay.
SchemaReply ==
  /\ "schema" \in Faults
  /\ Waiting
  /\ cur \in wire
  /\ NextRecord([rec EXCEPT ![cur].status = "dead_letter"], wire \ {cur})
  /\ UNCHANGED <<items, timer, online, auth, accepted, discarded>>
  /\ Save

\* A failed attempt: one more retry, and a new status.
Attempted(r, s) == [r EXCEPT !.status = s, !.retries = @ + 1]

\* safeApiFetch answers 503 itself when the network is down.
Transient == {"server", "network"} \cap Faults # {}

\* Faulty variants of TransientReply: the loop goes on; the retries are not
\* limited.
TransientContinue ==
  /\ Transient
  /\ Waiting
  /\ rec' = [rec EXCEPT ![cur] = Attempted(@, "failed")]
  /\ phase' = "delay"
  /\ UNCHANGED <<items, cur, work, timer, online, auth, wire, accepted, discarded>>
  /\ Save

TransientUnlimited ==
  /\ Transient
  /\ Waiting
  /\ rec' = [rec EXCEPT ![cur] = Attempted(@, "failed")]
  /\ Finish
  /\ UNCHANGED <<items, timer, online, auth, wire, accepted, discarded>>
  /\ Save

\* Any other answer: failed, or a dead letter once the retries are used up;
\* the flush ends.  A 5xx may follow an execution, or overtake it.
TransientReply ==
  /\ Transient
  /\ Waiting
  /\ rec[cur].retries <= RetryBound
  /\ LET s == IF rec[cur].retries + 1 >= MaxRetries THEN "dead_letter" ELSE "failed"
     IN  rec' = [rec EXCEPT ![cur] = Attempted(@, s)]
  /\ wire' \in {wire, wire \ {cur}}
  /\ Finish
  /\ UNCHANGED <<items, timer, online, auth, accepted, discarded>>
  /\ Save

\* fetch() throws: failed whatever the retry count, the flush ends.  window.fetch,
\* the service's default, does so when the network is down.
NetworkError ==
  /\ "network" \in Faults
  /\ Waiting
  /\ rec[cur].retries < RetryBound
  /\ rec' = [rec EXCEPT ![cur] = Attempted(@, "failed")]
  /\ wire' \in {wire, wire \ {cur}}
  /\ Finish
  /\ UNCHANGED <<items, timer, online, auth, accepted, discarded>>
  /\ Save

-----------------------------------------------------------------------------
(* The page and its environment *)

\* The page is reloaded, or the browser restarts: loadFromStorage, then the
\* mount effect calls initialize(), which arms the timer if anything is queued.
Reload ==
  /\ "reload" \in Faults
  /\ items' = DOMAIN stored
  /\ rec' = [q \in Ids |-> IF q \in DOMAIN stored THEN Recovered(stored[q]) ELSE rec[q]]
  /\ timer' = (DOMAIN stored # {})
  /\ Finish
  /\ UNCHANGED <<stored, online, auth, wire, accepted, discarded, lossy>>

\* initialize() runs again whenever getAuthHeaders changes: at login, and when
\* the token is dropped.
Initialize ==
  /\ timer' = (timer \/ items # {})
  /\ UNCHANGED <<rec, items, stored, phase, cur, work, online, wire, accepted,
                 discarded, lossy>>

Login == "auth" \in Faults /\ ~auth /\ auth' = TRUE /\ Initialize
Logout == "auth" \in Faults /\ auth /\ auth' = FALSE /\ Initialize

NetworkChange ==
  /\ "network" \in Faults
  /\ online' = ~online
  /\ UNCHANGED <<client, auth, wire, accepted, discarded, lossy>>

-----------------------------------------------------------------------------
(* The specification *)

Init ==
  /\ rec = <<>>
  /\ items = {}
  /\ stored = <<>>
  /\ phase = "idle"
  /\ cur = 0
  /\ work = {}
  /\ timer = FALSE
  /\ online = TRUE
  /\ auth = TRUE
  /\ wire = {}
  /\ accepted = {}
  /\ discarded = {}
  /\ lossy = FALSE

UserStep ==
  \/ \E t \in Txs : Enqueue(t)
  \/ \E q \in items : RetryItem(q) \/ RemoveItem(q)
  \/ RetryAll
  \/ ClearCompleted
  \/ ClearDeadLetters
  \/ ManualFlush

Reply == OkReply \/ AuthReply \/ SchemaReply \/ TransientReply \/ NetworkError

Next ==
  \/ UserStep
  \/ TimerFires
  \/ \E q \in wire : ServerExecutes(q)
  \/ Reply
  \/ AfterDelay
  \/ Reload
  \/ Login
  \/ Logout
  \/ NetworkChange

Spec == Init /\ [][Next]_vars

\* Timers fire, a request on the wire is executed or refused, and every
\* fetch() settles; nothing obliges the user, the network or the session.
Fairness ==
  /\ WF_vars(TimerFires)
  /\ WF_vars(\E q \in wire : ServerExecutes(q))
  /\ WF_vars(Reply)
  /\ WF_vars(AfterDelay)

FairSpec == Spec /\ Fairness

-----------------------------------------------------------------------------
(* Properties *)

\* Every variable has the values the TypeScript declarations give it, and a
\* flush holds a record exactly while it runs (isProcessing).
TypeOK ==
  /\ rec \in Seq(Record)
  /\ items \subseteq Ids
  /\ DOMAIN stored \subseteq Ids
  /\ \A q \in DOMAIN stored : stored[q] \in Record
  /\ phase \in Phases
  /\ cur \in Ids \cup {0}
  /\ cur = 0 <=> phase = "idle"
  /\ work \subseteq Ids
  /\ {timer, online, auth, lossy} \subseteq BOOLEAN
  /\ wire \subseteq Ids
  /\ accepted \subseteq Ids
  /\ discarded \subseteq Ids

\* Guarantee 1 of the service's header, at-least-once delivery, as safety: the
\* outbox counts a record as delivered only if the server executed it.
CompletedWasAccepted ==
  \A q \in Ids : rec[q].status = "completed" => q \in accepted

\* Guarantee 6, durable storage: however flushes, answers, reloads and the
\* user's operations interleave, a record the server has not executed and the
\* user has not given up is still in the outbox, unless a save failed or was
\* cut off at StorageCap.
NoSilentLoss ==
  ~lossy => \A q \in Ids : q \in items \cup accepted \cup discarded

\* As long as no save throws, a reload at any await of flush() finds what the
\* memory holds, up to the cap: every path through the code that changes the
\* queue saves it before it yields.
StorageMirrorsMemory ==
  LET kept == Persisted(items, rec)
  IN  ~(lossy /\ StorageMayFail) =>
        /\ DOMAIN stored = DOMAIN kept
        /\ \A q \in DOMAIN kept : Recovered(stored[q]) = Recovered(kept[q])

\* However saves fail, pages reload and the user interferes, localStorage holds
\* StorageCap records at most, and the memory CompletedCap completed ones.
QueuesAreBounded ==
  /\ Cardinality(DOMAIN stored) <= StorageCap
  /\ Cardinality({q \in items : rec[q].status = "completed"}) <= CompletedCap

Sends(q) == phase' = "fetch" /\ cur' = q /\ (phase # "fetch" \/ cur # q)

\* "Break loop to preserve FIFO ordering for subsequent transactions": a
\* request never leaves while a record that goes before it waits for its retry.
NoOvertakingAFailure ==
  [][\A q \in Ids : Sends(q) =>
       \A p \in items : p # q /\ Before(p, q) => rec[p].status # "failed"]_vars

\* "Flushes the Outbox sequentially by priority and timestamp": unless the user puts
\* records back during a flush, no request leaves while an older record of no lower
\* priority is open, whatever was enqueued, refused or reloaded in between.
SendsInOrder ==
  [][\A q \in Ids : "user" \notin Faults /\ Sends(q) =>
       \A p \in items : p < q /\ Priority[rec[p].tx] <= Priority[rec[q].tx]
                          => ~Eligible(p)]_vars

\* Neither a completed record nor a dead letter is sent (again) before the user
\* resets it, although the loop does not look at the status of a record it
\* took into its snapshot many awaits earlier.
SendsOnlyOpenRecords ==
  [][\A q \in Ids : Sends(q) => rec[q].status \in {"pending", "failed"}]_vars

\* isProcessing is always reset: no answer, error, loss of connection or user
\* operation leaves the outbox locked.
FlushEnds == phase # "idle" ~> phase = "idle"

\* The comment at the 401 branch: "retain items as pending and pause flush until
\* re-authenticated".  Outside a flush no record is marked as being processed.
NothingProcessingWhenIdle ==
  phase = "idle" => \A q \in items : rec[q].status # "processing"

\* The branch of the 401 and 403 is the only one that breaks it: where no answer is
\* one of these, a record is marked as being processed exactly while the flush waits
\* for its answer, whatever the user, other answers and reloads do meanwhile.
ProcessingIsInFlight ==
  "auth" \notin Faults =>
    \A q \in items : rec[q].status = "processing" => phase = "fetch" /\ cur = q

\* "Trigger near-instant flush attempt" and guarantee 1: with a session and a
\* connection, a record that is open is sent sooner or later.
OpenRecordIsSent ==
  \A q \in 1..MaxEnqueue :
    q \in items /\ rec[q].status = "pending"
      ~> ~(q \in items /\ rec[q].status = "pending" /\ online /\ auth)

-----------------------------------------------------------------------------
(* Refinement *)

Queue == INSTANCE DurableQueue WITH
  Entries <- 1..MaxEnqueue,
  entrusted <- Ids,
  held <- items,
  done <- accepted,
  excused <- discarded,
  sound <- ~lossy

\* The outbox is a durable queue: up to the first lossy save a record leaves it
\* only when the server has executed it or the user has given it up, reloads
\* included, and none that left ever comes back out of storage.
ImplementsDurableQueue == Queue!Spec

-----------------------------------------------------------------------------
(* The inductive invariant *)

\* No save writes a completed record.
StoredIsOpen == \A q \in DOMAIN stored : stored[q].status # "completed"

\* As long as no save was lossy, storage holds every unfinished record.
StoredIsComplete == ~lossy => DOMAIN stored = Unfinished(items, rec)

\* The rest of the snapshot still is what the filter let in.
WorkIsOpen ==
  /\ cur \notin work
  /\ \A q \in work : rec[q].status \in {"pending", "failed"}

\* A failure during a flush ends it, so what has failed was in the snapshot
\* and its turn is still to come.
FailedIsInWork == phase # "idle" => \A q \in items : rec[q].status = "failed" => q \in work

IInv ==
  /\ TypeOK
  /\ StoredIsOpen
  /\ StoredIsComplete
  /\ CompletedWasAccepted
  /\ NoSilentLoss
  /\ WorkIsOpen
  /\ FailedIsInWork

=============================================================================
