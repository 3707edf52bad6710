---------------------------- MODULE OutboxProofs ----------------------------
(***************************************************************************)
(* Theorems about Outbox, for any set of transactions, any capacity, any   *)
(* retry limit and any set of faults.                                      *)
(***************************************************************************)
EXTENDS Outbox, SequenceTheorems, FiniteSetTheorems, WellFoundedInduction, TLAPS

-----------------------------------------------------------------------------
(* Lemmas about the operators *)

\* A new status leaves a sequence of records a sequence of records, and
\* changes one of them only.
LEMMA StatusChange ==
  ASSUME NEW r \in Seq(Record), NEW q \in 1..Len(r), NEW s \in Statuses
  PROVE  LET t == [r EXCEPT ![q].status = s]
         IN  /\ t \in Seq(Record)
             /\ Len(t) = Len(r)
             /\ \A p \in 1..Len(r) : t[p] = IF p = q THEN [r[q] EXCEPT !.status = s] ELSE r[p]
<1> DEFINE e == [r[q] EXCEPT !.status = s]
<1>1. r[q] \in Record
  BY ElementOfSeq
<1>2. e \in Record
  BY <1>1 DEF Record
<1>3. [r EXCEPT ![q] = e] \in Seq(Record) /\ Len([r EXCEPT ![q] = e]) = Len(r)
  BY <1>2, ExceptSeq
<1>4. \A p \in 1..Len(r) : [r EXCEPT ![q] = e][p] = IF p = q THEN e ELSE r[p]
  BY <1>2, ExceptSeq
<1>5. [r EXCEPT ![q].status = s] = [r EXCEPT ![q] = e]
  OBVIOUS
<1> QED
  BY <1>3, <1>4, <1>5

\* What a retry by the user makes of a record.
LEMMA ResetRecord ==
  ASSUME NEW e \in Record
  PROVE  Reset(e) \in Record /\ Reset(e).status = "pending"
<1>1. 0 \in 0..(RetryBound + 1) /\ "pending" \in Statuses
  BY OutboxAssumption DEF OutboxAssumption, Statuses
<1> QED
  BY <1>1 DEF Reset, Record

\* What a save writes is a set of records of the outbox, none of them completed.
LEMMA SaveWrites ==
  ASSUME Save, items' \subseteq 1..Len(rec'), rec' \in Seq(Record),
         Len(rec') \in Nat, Len(rec) \in Nat, Len(rec) <= Len(rec'),
         DOMAIN stored \subseteq 1..Len(rec),
         \A q \in DOMAIN stored : stored[q] \in Record,
         \A q \in DOMAIN stored : stored[q].status # "completed",
         lossy \in BOOLEAN
  PROVE  /\ DOMAIN stored' \subseteq 1..Len(rec')
         /\ \A q \in DOMAIN stored' : stored'[q] \in Record
         /\ \A q \in DOMAIN stored' : stored'[q].status # "completed"
         /\ lossy' \in BOOLEAN
         /\ ~lossy' => DOMAIN stored' = Unfinished(items', rec')
<1>1. CASE /\ stored' = Persisted(items', rec')
           /\ lossy' = (lossy \/ DOMAIN stored' # Unfinished(items', rec'))
  <2>1. DOMAIN stored' \subseteq Unfinished(items', rec')
    BY <1>1 DEF Persisted
  <2>2. \A q \in DOMAIN stored' : stored'[q] = rec'[q]
    BY <1>1 DEF Persisted
  <2>3. \A q \in Unfinished(items', rec') :
          q \in 1..Len(rec') /\ rec'[q] \in Record /\ rec'[q].status # "completed"
    BY ElementOfSeq DEF Unfinished
  <2> QED
    BY <1>1, <2>1, <2>2, <2>3
<1>2. CASE StorageMayFail /\ stored' = stored /\ lossy' = TRUE
  BY <1>2
<1> QED
  BY <1>1, <1>2 DEF Save

\* The turn of the loop that sends a record: one record of S becomes
\* "processing", and no record of S goes before it.
Sent(q, S, r, w) ==
  /\ First(q, S)
  /\ rec' \in Seq(Record)
  /\ Len(rec') = Len(r)
  /\ \A p \in 1..Len(r) :
       rec'[p] = IF p = q THEN [r[q] EXCEPT !.status = "processing"] ELSE r[p]
  /\ phase' = "fetch"
  /\ cur' = q
  /\ work' = S \ {q}
  /\ wire' = w \cup {q}

LEMMA SendingStep ==
  ASSUME NEW r \in Seq(Record), NEW S, NEW w, S \subseteq 1..Len(r), SendFirst(S, r, w)
  PROVE  \E q \in S : Sent(q, S, r, w)
<1>1. PICK q \in S : /\ First(q, S)
                     /\ rec' = [r EXCEPT ![q].status = "processing"]
                     /\ phase' = "fetch"
                     /\ cur' = q
                     /\ work' = S \ {q}
                     /\ wire' = w \cup {q}
  BY DEF SendFirst
<1>2. "processing" \in Statuses
  BY DEF Statuses
<1>3. q \in 1..Len(r)
  OBVIOUS
<1>4. /\ rec' \in Seq(Record)
      /\ Len(rec') = Len(r)
      /\ \A p \in 1..Len(r) :
           rec'[p] = IF p = q THEN [r[q] EXCEPT !.status = "processing"] ELSE r[p]
  BY <1>1, <1>2, <1>3, StatusChange
<1> QED
  BY <1>1, <1>4 DEF Sent

\* Facts about the state that every step of the proof starts from.
LEMMA Basics ==
  ASSUME TypeOK
  PROVE  /\ rec \in Seq(Record)
         /\ Len(rec) \in Nat
         /\ \A q \in Ids : rec[q] \in Record
         /\ lossy \in BOOLEAN
BY ElementOfSeq, LenProperties DEF TypeOK, Ids

-----------------------------------------------------------------------------
(* Each action preserves the inductive invariant *)

LEMMA EnqueueInv == ASSUME IInv, NEW t \in Txs, Enqueue(t)  PROVE IInv'
<1> DEFINE new == [tx |-> t, status |-> "pending", retries |-> 0]
<1>1. /\ rec \in Seq(Record) /\ Len(rec) \in Nat /\ lossy \in BOOLEAN
      /\ \A q \in Ids : rec[q] \in Record
  BY Basics DEF IInv
<1>2. new \in Record
  BY OutboxAssumption DEF Record, Statuses, OutboxAssumption
<1>3. /\ rec' = Append(rec, new)
      /\ rec' \in Seq(Record)
      /\ Len(rec') = Len(rec) + 1
      /\ \A q \in Ids : rec'[q] = rec[q]
      /\ rec'[Len(rec) + 1] = new
  BY <1>1, <1>2 DEF Enqueue, Ids
<1>4. /\ items' \subseteq 1..Len(rec')
      /\ items' \subseteq items \cup {Len(rec) + 1}
      /\ Len(rec) + 1 \in items'
      /\ items \subseteq items' \cup discarded'
      /\ discarded \subseteq discarded'
      /\ discarded' \subseteq 1..Len(rec')
  <2> DEFINE same == {q \in items : rec[q].tx = t}
  <2>1. items' = (items \ same) \cup {Len(rec) + 1} /\ discarded' = discarded \cup same
    BY DEF Enqueue
  <2>2. items \subseteq 1..Len(rec) /\ discarded \subseteq 1..Len(rec) /\ same \subseteq items
    BY DEF IInv, TypeOK, Ids
  <2>3. 1..Len(rec) \subseteq 1..Len(rec') /\ Len(rec) + 1 \in 1..Len(rec')
    BY <1>1, <1>3
  <2> HIDE DEF same
  <2> QED
    BY <2>1, <2>2, <2>3
<1>5. Save
  BY DEF Enqueue
<1>6. /\ DOMAIN stored' \subseteq 1..Len(rec')
      /\ \A q \in DOMAIN stored' : stored'[q] \in Record
      /\ StoredIsOpen'
      /\ lossy' \in BOOLEAN
      /\ StoredIsComplete'
  BY <1>1, <1>3, <1>4, <1>5, SaveWrites DEF IInv, TypeOK, Ids, StoredIsOpen, StoredIsComplete
<1>7. UNCHANGED <<phase, cur, work, online, auth, wire, accepted>> /\ timer' = TRUE
  BY DEF Enqueue
<1>8. TypeOK'
  BY <1>1, <1>3, <1>4, <1>6, <1>7 DEF IInv, TypeOK, Ids
<1>9. CompletedWasAccepted'
  BY <1>1, <1>3, <1>7 DEF IInv, CompletedWasAccepted, Ids
<1>10. lossy' = FALSE => lossy = FALSE
  BY <1>1, <1>5 DEF Save
<1>11. NoSilentLoss'
  BY <1>1, <1>3, <1>4, <1>6, <1>7, <1>10 DEF IInv, NoSilentLoss, Ids
<1>12. WorkIsOpen'
  BY <1>1, <1>3, <1>7 DEF IInv, TypeOK, WorkIsOpen, Ids
<1>13. FailedIsInWork'
  BY <1>1, <1>3, <1>4, <1>7 DEF IInv, TypeOK, FailedIsInWork, Ids
<1> QED
  BY <1>6, <1>8, <1>9, <1>11, <1>12, <1>13 DEF IInv

\* A step that creates no record, saves, and neither forgets nor invents one,
\* preserves the invariant as soon as it preserves the two parts about flush().
LEMMA SavingStepInv ==
  ASSUME IInv, Save,
         rec' \in Seq(Record), Len(rec') = Len(rec),
         items' \subseteq items,
         items \subseteq items' \cup discarded' \cup accepted,
         UNCHANGED accepted,
         discarded \subseteq discarded', discarded' \subseteq Ids,
         wire' \subseteq Ids,
         \A q \in Ids : rec'[q].status = "completed"
                          => rec[q].status = "completed" \/ q \in accepted,
         {timer', online', auth'} \subseteq BOOLEAN,
         phase' \in Phases, cur' \in Ids \cup {0}, cur' = 0 <=> phase' = "idle",
         work' \subseteq Ids,
         WorkIsOpen', FailedIsInWork'
  PROVE  IInv'
<1>1. /\ rec \in Seq(Record) /\ Len(rec) \in Nat /\ lossy \in BOOLEAN
      /\ Ids' = Ids
  BY Basics DEF IInv, Ids
<1>2. items' \subseteq 1..Len(rec')
  BY <1>1 DEF IInv, TypeOK, Ids
<1>3. /\ DOMAIN stored' \subseteq 1..Len(rec')
      /\ \A q \in DOMAIN stored' : stored'[q] \in Record
      /\ StoredIsOpen'
      /\ lossy' \in BOOLEAN
      /\ StoredIsComplete'
  BY <1>1, <1>2, SaveWrites DEF IInv, TypeOK, Ids, StoredIsOpen, StoredIsComplete
<1>4. TypeOK'
  BY <1>1, <1>2, <1>3 DEF IInv, TypeOK, Ids
<1>5. CompletedWasAccepted'
  BY <1>1 DEF IInv, CompletedWasAccepted
<1>6. NoSilentLoss'
  <2>1. lossy' = FALSE => lossy = FALSE
    BY <1>1 DEF Save
  <2> QED
    BY <1>1, <1>3, <2>1 DEF IInv, NoSilentLoss
<1> QED
  BY <1>3, <1>4, <1>5, <1>6 DEF IInv

LEMMA RetryItemInv == ASSUME IInv, NEW q \in items, RetryItem(q)  PROVE IInv'
<1> DEFINE e == Reset(rec[q])
<1>1. rec \in Seq(Record) /\ q \in 1..Len(rec) /\ rec[q] \in Record
  BY Basics DEF IInv, TypeOK, Ids
<1>2. e \in Record /\ e.status = "pending"
  BY <1>1, ResetRecord
<1>3. rec' = [rec EXCEPT ![q] = e]
  BY DEF RetryItem
<1>4. /\ rec' \in Seq(Record)
      /\ Len(rec') = Len(rec)
      /\ \A p \in Ids : rec'[p].status = IF p = q THEN "pending" ELSE rec[p].status
  <2> HIDE DEF e
  <2> QED
    BY <1>1, <1>2, <1>3, ExceptSeq DEF Ids
<1>5. Save /\ timer' = TRUE
      /\ UNCHANGED <<items, phase, cur, work, online, auth, wire, accepted, discarded>>
  BY DEF RetryItem
<1>6. WorkIsOpen'
  BY <1>4, <1>5 DEF IInv, TypeOK, WorkIsOpen
<1>7. FailedIsInWork'
  BY <1>4, <1>5 DEF IInv, TypeOK, FailedIsInWork
<1> QED
  BY <1>4, <1>5, <1>6, <1>7, SavingStepInv DEF IInv, TypeOK

LEMMA RetryAllInv == ASSUME IInv, RetryAll  PROVE IInv'
<1> DEFINE new(q) == IF q \in items /\ rec[q].status \in Stuck THEN Reset(rec[q]) ELSE rec[q]
<1>1. /\ rec \in Seq(Record) /\ Len(rec) \in Nat
      /\ \A p \in Ids : rec[p] \in Record
  BY Basics DEF IInv
<1>2. \A p \in Ids : new(p) \in Record
  BY <1>1, ResetRecord
<1>3. rec' = [q \in 1..Len(rec) |-> new(q)]
  BY DEF RetryAll, Ids
<1>4. /\ rec' \in Seq(Record)
      /\ Len(rec') = Len(rec)
      /\ \A p \in Ids : rec'[p].status \in {"pending", rec[p].status}
  <2>1. rec' \in Seq(Record) /\ Len(rec') = Len(rec)
    BY <1>1, <1>2, <1>3 DEF Ids
  <2>2. \A p \in Ids : rec'[p] = new(p)
    BY <1>3 DEF Ids
  <2> QED
    BY <1>1, <2>1, <2>2, ResetRecord
<1>5. Save /\ timer' = TRUE
      /\ UNCHANGED <<items, phase, cur, work, online, auth, wire, accepted, discarded>>
  BY DEF RetryAll
<1>6. WorkIsOpen'
  BY <1>4, <1>5 DEF IInv, TypeOK, WorkIsOpen
<1>7. FailedIsInWork'
  BY <1>4, <1>5 DEF IInv, TypeOK, FailedIsInWork
<1> QED
  BY <1>4, <1>5, <1>6, <1>7, SavingStepInv DEF IInv, TypeOK

LEMMA DropInv == ASSUME IInv, NEW gone, gone \subseteq items, Drop(gone), Save  PROVE IInv'
<1>1. rec \in Seq(Record)
  BY Basics DEF IInv
<1>2. /\ items' = items \ gone
      /\ discarded' = discarded \cup gone
      /\ UNCHANGED <<rec, phase, cur, work, timer, online, auth, wire, accepted>>
  BY DEF Drop
<1>3. WorkIsOpen'
  BY <1>2 DEF IInv, WorkIsOpen
<1>4. FailedIsInWork'
  BY <1>2 DEF IInv, FailedIsInWork
<1>5. discarded' \subseteq Ids
  BY <1>2 DEF IInv, TypeOK
<1> QED
  BY <1>1, <1>2, <1>3, <1>4, <1>5, SavingStepInv DEF IInv, TypeOK

LEMMA StartFlushInv ==
  ASSUME IInv, StartFlush, timer' \in BOOLEAN
  PROVE  IInv'
<1> DEFINE S == {q \in items : Eligible(q)}
<1>1. /\ rec \in Seq(Record) /\ Len(rec) \in Nat
      /\ \A p \in Ids : rec[p] \in Record
      /\ S \subseteq 1..Len(rec)
  BY Basics DEF IInv, TypeOK, Ids
<1>2. SendFirst(S, rec, wire) /\ Save
      /\ UNCHANGED <<items, online, auth, accepted, discarded>>
  BY DEF StartFlush
<1> HIDE DEF S
<1>3. PICK q \in S : Sent(q, S, rec, wire)
  BY <1>1, <1>2, SendingStep
<1> USE DEF S, Sent
<1>4. \A p \in Ids : rec'[p].status = IF p = q THEN "processing" ELSE rec[p].status
  BY <1>1, <1>3 DEF Ids, Record
<1>5. WorkIsOpen'
  BY <1>1, <1>3, <1>4 DEF WorkIsOpen, Eligible, Ids
<1>6. FailedIsInWork'
  BY <1>1, <1>2, <1>3, <1>4 DEF FailedIsInWork, Eligible, Ids, IInv, TypeOK
<1>7. cur' \in Ids \cup {0} /\ (cur' = 0 <=> phase' = "idle")
  BY <1>1, <1>3 DEF Ids
<1>8. phase' \in Phases /\ work' \subseteq Ids /\ wire' \subseteq Ids
  BY <1>1, <1>3 DEF Phases, IInv, TypeOK, Ids
<1> QED
  BY <1>1, <1>2, <1>3, <1>4, <1>5, <1>6, <1>7, <1>8, SavingStepInv DEF IInv, TypeOK

\* The head of the loop, shared by the end of the delay and the 400 branch: r
\* is `rec`, except that the current record may have become a dead letter.
LEMMA NextRecordInv ==
  ASSUME IInv, phase # "idle", Save,
         UNCHANGED <<items, timer, online, auth, accepted, discarded>>,
         NEW r \in Seq(Record), Len(r) = Len(rec),
         \A p \in Ids : r[p].status \in {rec[p].status, "dead_letter"},
         \A p \in Ids \ {cur} : r[p].status = rec[p].status,
         NEW w, w \subseteq Ids,
         NextRecord(r, w)
  PROVE  IInv'
<1>1. /\ rec \in Seq(Record) /\ Len(rec) \in Nat
      /\ \A p \in Ids : rec[p] \in Record
      /\ \A p \in Ids : r[p] \in Record
      /\ work \subseteq 1..Len(r)
  BY Basics, ElementOfSeq DEF IInv, TypeOK, Ids
<1>2. CASE SendFirst(work, r, w)
  <2>1. PICK q \in work : Sent(q, work, r, w)
    BY <1>1, <1>2, SendingStep
  <2> USE DEF Sent
  <2>2. \A p \in Ids : rec'[p].status = IF p = q THEN "processing" ELSE r[p].status
    BY <1>1, <2>1 DEF Ids, Record
  <2>3. WorkIsOpen'
    BY <1>1, <2>1, <2>2 DEF WorkIsOpen, IInv, Ids
  <2>4. FailedIsInWork'
    BY <1>1, <2>1, <2>2 DEF FailedIsInWork, IInv, TypeOK, Ids
  <2>5. cur' \in Ids \cup {0} /\ (cur' = 0 <=> phase' = "idle")
    BY <1>1, <2>1 DEF Ids
  <2>6. phase' \in Phases /\ work' \subseteq Ids /\ wire' \subseteq Ids
    BY <1>1, <2>1 DEF Phases, Ids
  <2>7. \A p \in Ids : rec'[p].status = "completed"
                         => rec[p].status = "completed" \/ p \in accepted
    BY <2>2
  <2> QED
    BY <1>1, <2>1, <2>3, <2>4, <2>5, <2>6, <2>7, SavingStepInv DEF IInv, TypeOK
<1>3. CASE Finish /\ rec' = r /\ wire' = w
  <2>1. WorkIsOpen' /\ FailedIsInWork'
    BY <1>3 DEF Finish, WorkIsOpen, FailedIsInWork
  <2>2. cur' \in Ids \cup {0} /\ (cur' = 0 <=> phase' = "idle")
        /\ phase' \in Phases /\ work' \subseteq Ids
    BY <1>3 DEF Finish, Phases
  <2>3. \A p \in Ids : rec'[p].status = "completed"
                         => rec[p].status = "completed" \/ p \in accepted
    BY <1>3
  <2> QED
    BY <1>3, <2>1, <2>2, <2>3, SavingStepInv DEF IInv, TypeOK
<1> QED
  BY <1>2, <1>3 DEF NextRecord

LEMMA AfterDelayInv == ASSUME IInv, AfterDelay  PROVE IInv'
<1>1. rec \in Seq(Record)
  BY Basics DEF IInv
<1> QED
  BY <1>1, NextRecordInv DEF AfterDelay, IInv, TypeOK

LEMMA SchemaReplyInv == ASSUME IInv, SchemaReply  PROVE IInv'
<1> DEFINE r == [rec EXCEPT ![cur].status = "dead_letter"]
<1>1. /\ rec \in Seq(Record)
      /\ \A p \in Ids : rec[p] \in Record
      /\ cur \in 1..Len(rec)
      /\ phase # "idle"
  BY Basics DEF IInv, TypeOK, Ids, SchemaReply, Waiting
<1>2. "dead_letter" \in Statuses
  BY DEF Statuses
<1>3. /\ r \in Seq(Record) /\ Len(r) = Len(rec)
      /\ \A p \in Ids : r[p].status = IF p = cur THEN "dead_letter" ELSE rec[p].status
  BY SMTT(30), <1>1, <1>2, StatusChange DEF Ids, Record
<1>4. wire \ {cur} \subseteq Ids
  BY DEF IInv, TypeOK
<1> QED
  BY <1>1, <1>3, <1>4, NextRecordInv DEF SchemaReply

LEMMA OkReplyInv == ASSUME IInv, OkReply  PROVE IInv'
<1>1. /\ rec \in Seq(Record)
      /\ \A p \in Ids : rec[p] \in Record
      /\ cur \in 1..Len(rec)
  BY Basics DEF IInv, TypeOK, Ids, OkReply, Waiting
<1>2. "completed" \in Statuses
  BY DEF Statuses
<1>3. rec' = [rec EXCEPT ![cur].status = "completed"]
  BY DEF OkReply, SetStatus
<1>4. /\ rec' \in Seq(Record) /\ Len(rec') = Len(rec)
      /\ \A p \in Ids : rec'[p].status = IF p = cur THEN "completed" ELSE rec[p].status
  BY <1>1, <1>2, <1>3, StatusChange DEF Ids, Record
<1>5. /\ cur \in accepted
      /\ Save
      /\ phase = "fetch" /\ phase' = "delay"
      /\ UNCHANGED <<cur, work, timer, online, auth, wire, accepted, discarded>>
  BY DEF OkReply, Waiting
<1>6. items' \subseteq items /\ \A p \in items \ items' : rec'[p].status = "completed"
  BY DEF OkReply
<1>7. \A p \in Ids : rec'[p].status = "completed"
                       => rec[p].status = "completed" \/ p \in accepted
  BY <1>4, <1>5
<1>8. items \subseteq items' \cup accepted
  BY <1>6, <1>7 DEF IInv, TypeOK, CompletedWasAccepted
<1>9. WorkIsOpen'
  BY <1>4, <1>5 DEF IInv, TypeOK, WorkIsOpen
<1>10. FailedIsInWork'
  BY <1>4, <1>5, <1>6 DEF IInv, TypeOK, FailedIsInWork
<1>11. phase' \in Phases /\ (cur' = 0 <=> phase' = "idle")
  BY <1>5 DEF Phases, IInv, TypeOK
<1> QED
  BY <1>4, <1>5, <1>6, <1>7, <1>8, <1>9, <1>10, <1>11, SavingStepInv DEF IInv, TypeOK

\* The branches that end the flush with a break.
LEMMA BreakInv ==
  ASSUME IInv, Finish, Save,
         UNCHANGED <<items, online, accepted, discarded>>,
         timer' \in BOOLEAN, auth' \in BOOLEAN, wire' \subseteq wire,
         rec' \in Seq(Record), Len(rec') = Len(rec),
         \A p \in Ids : rec'[p].status = "completed" => rec[p].status = "completed"
  PROVE  IInv'
<1>1. WorkIsOpen' /\ FailedIsInWork'
  BY DEF Finish, WorkIsOpen, FailedIsInWork
<1>2. cur' \in Ids \cup {0} /\ (cur' = 0 <=> phase' = "idle")
      /\ phase' \in Phases /\ work' \subseteq Ids
  BY DEF Finish, Phases
<1> QED
  BY <1>1, <1>2, SavingStepInv DEF IInv, TypeOK

LEMMA AuthReplyInv == ASSUME IInv, AuthReply  PROVE IInv'
<1>1. rec \in Seq(Record)
  BY Basics DEF IInv
<1>2. auth' \in BOOLEAN /\ timer' \in BOOLEAN
  BY DEF AuthReply, IInv, TypeOK
<1> QED
  BY <1>1, <1>2, BreakInv DEF AuthReply

\* A failed attempt leaves a sequence of records, in which one status is new.
LEMMA AttemptChange ==
  ASSUME NEW r \in Seq(Record), NEW q \in 1..Len(r), NEW s \in Statuses,
         r[q].retries <= RetryBound
  PROVE  LET t == [r EXCEPT ![q] = Attempted(@, s)]
         IN  /\ t \in Seq(Record)
             /\ Len(t) = Len(r)
             /\ \A p \in 1..Len(r) : t[p].status = IF p = q THEN s ELSE r[p].status
<1> DEFINE e == Attempted(r[q], s)
<1>1. r[q] \in Record
  BY ElementOfSeq
<1>2. r[q].retries + 1 \in 0..(RetryBound + 1)
  BY <1>1, OutboxAssumption DEF OutboxAssumption, Record
<1>3. e \in Record /\ e.status = s
  BY <1>1, <1>2 DEF Attempted, Record
<1>4. /\ [r EXCEPT ![q] = e] \in Seq(Record)
      /\ Len([r EXCEPT ![q] = e]) = Len(r)
      /\ \A p \in 1..Len(r) : [r EXCEPT ![q] = e][p] = IF p = q THEN e ELSE r[p]
  <2> HIDE DEF e
  <2> QED
    BY <1>3, ExceptSeq
<1> QED
  BY <1>3, <1>4

LEMMA TransientReplyInv == ASSUME IInv, TransientReply  PROVE IInv'
<1> DEFINE s == IF rec[cur].retries + 1 >= MaxRetries THEN "dead_letter" ELSE "failed"
<1>1. rec \in Seq(Record) /\ cur \in 1..Len(rec) /\ rec[cur].retries <= RetryBound
  BY Basics DEF IInv, TypeOK, Ids, TransientReply, Waiting
<1>2. s \in Statuses /\ s # "completed"
  BY DEF Statuses
<1>3. rec' = [rec EXCEPT ![cur] = Attempted(@, s)]
  BY DEF TransientReply
<1>4. /\ rec' \in Seq(Record) /\ Len(rec') = Len(rec)
      /\ \A p \in Ids : rec'[p].status = IF p = cur THEN s ELSE rec[p].status
  <2> HIDE DEF s
  <2> QED
    BY <1>1, <1>2, <1>3, AttemptChange DEF Ids
<1>5. timer' \in BOOLEAN /\ auth' \in BOOLEAN /\ wire' \subseteq wire
  BY DEF TransientReply, IInv, TypeOK
<1>6. \A p \in Ids : rec'[p].status = "completed" => rec[p].status = "completed"
  BY <1>2, <1>4
<1> QED
  BY <1>4, <1>5, <1>6, BreakInv DEF TransientReply

LEMMA NetworkErrorInv == ASSUME IInv, NetworkError  PROVE IInv'
<1>1. rec \in Seq(Record) /\ cur \in 1..Len(rec) /\ rec[cur] \in Record
  BY Basics DEF IInv, TypeOK, Ids, NetworkError, Waiting
<1>2. "failed" \in Statuses /\ rec[cur].retries <= RetryBound
  BY <1>1, OutboxAssumption DEF OutboxAssumption, Record, Statuses, NetworkError
<1>3. rec' = [rec EXCEPT ![cur] = Attempted(@, "failed")]
  BY DEF NetworkError
<1>4. /\ rec' \in Seq(Record) /\ Len(rec') = Len(rec)
      /\ \A p \in Ids : rec'[p].status = IF p = cur THEN "failed" ELSE rec[p].status
  BY <1>1, <1>2, <1>3, AttemptChange DEF Ids
<1>5. timer' \in BOOLEAN /\ auth' \in BOOLEAN /\ wire' \subseteq wire
  BY DEF NetworkError, IInv, TypeOK
<1>6. \A p \in Ids : rec'[p].status = "completed" => rec[p].status = "completed"
  BY <1>4
<1> QED
  BY <1>4, <1>5, <1>6, BreakInv DEF NetworkError

LEMMA ReloadInv == ASSUME IInv, Reload  PROVE IInv'
<1> DEFINE new(q) == IF q \in DOMAIN stored THEN Recovered(stored[q]) ELSE rec[q]
<1>1. /\ rec \in Seq(Record) /\ Len(rec) \in Nat
      /\ \A q \in Ids : rec[q] \in Record
      /\ \A q \in DOMAIN stored : stored[q] \in Record
      /\ DOMAIN stored \subseteq Ids
  BY Basics DEF IInv, TypeOK
<1>2. \A q \in Ids : new(q) \in Record
  BY <1>1 DEF Recovered, Record, Statuses
<1>3. rec' = [q \in 1..Len(rec) |-> new(q)]
  BY DEF Reload, Ids
<1>4. rec' \in Seq(Record) /\ Len(rec') = Len(rec)
  BY <1>1, <1>2, <1>3 DEF Ids
<1>5. /\ \A q \in DOMAIN stored : rec'[q] = Recovered(stored[q])
      /\ \A q \in Ids \ DOMAIN stored : rec'[q] = rec[q]
  BY <1>1, <1>3 DEF Ids
<1>6. \A q \in DOMAIN stored : rec'[q].status # "completed"
  BY <1>1, <1>5 DEF Recovered, Record, IInv, StoredIsOpen
<1>7. /\ items' = DOMAIN stored
      /\ timer' \in BOOLEAN
      /\ Finish
      /\ UNCHANGED <<stored, online, auth, wire, accepted, discarded, lossy>>
  BY DEF Reload
<1>8. TypeOK'
  BY <1>1, <1>4, <1>7 DEF IInv, TypeOK, Ids, Finish, Phases
<1>9. StoredIsOpen' /\ StoredIsComplete'
  BY <1>1, <1>6, <1>7 DEF IInv, StoredIsOpen, StoredIsComplete, Unfinished
<1>10. CompletedWasAccepted'
  BY <1>1, <1>4, <1>5, <1>6, <1>7 DEF IInv, CompletedWasAccepted, Ids
<1>11. NoSilentLoss'
  <2> SUFFICES ASSUME ~lossy, NEW q \in Ids
               PROVE  q \in DOMAIN stored \cup accepted \cup discarded
    BY <1>4, <1>7 DEF NoSilentLoss, Ids
  <2>1. q \in items \cup accepted \cup discarded
    BY DEF IInv, NoSilentLoss
  <2>2. CASE q \in items /\ rec[q].status = "completed"
    BY <2>2 DEF IInv, CompletedWasAccepted
  <2>3. CASE q \in items /\ rec[q].status # "completed"
    BY <2>3 DEF IInv, StoredIsComplete, Unfinished
  <2> QED
    BY <2>1, <2>2, <2>3
<1>12. WorkIsOpen' /\ FailedIsInWork'
  BY <1>7 DEF Finish, WorkIsOpen, FailedIsInWork
<1> QED
  BY <1>8, <1>9, <1>10, <1>11, <1>12 DEF IInv

\* The steps that leave the queue and the flush alone.
LEMMA OutsideInv ==
  ASSUME IInv,
         UNCHANGED <<rec, items, stored, phase, cur, work, discarded, lossy>>,
         timer' \in BOOLEAN, online' \in BOOLEAN, auth' \in BOOLEAN,
         wire' \subseteq wire, accepted \subseteq accepted', accepted' \subseteq Ids
  PROVE  IInv'
<1>1. TypeOK'
  BY DEF IInv, TypeOK, Ids
<1>2. StoredIsOpen' /\ StoredIsComplete' /\ WorkIsOpen' /\ FailedIsInWork'
  BY DEF IInv, StoredIsOpen, StoredIsComplete, WorkIsOpen, FailedIsInWork, Unfinished
<1>3. CompletedWasAccepted' /\ NoSilentLoss'
  BY DEF IInv, CompletedWasAccepted, NoSilentLoss, Ids
<1> QED
  BY <1>1, <1>2, <1>3 DEF IInv

-----------------------------------------------------------------------------
(* The theorems *)

LEMMA InitInv == Init => IInv
<1> SUFFICES ASSUME Init PROVE IInv
  OBVIOUS
<1>1. rec \in Seq(Record) /\ Len(rec) = 0 /\ Ids = {}
  BY EmptySeq DEF Init, Ids
<1>2. DOMAIN stored = {}
  BY DEF Init
<1>3. TypeOK
  BY <1>1, <1>2 DEF Init, TypeOK, Phases
<1> QED
  BY <1>1, <1>2, <1>3 DEF Init, IInv, StoredIsOpen, StoredIsComplete, Unfinished,
       CompletedWasAccepted, NoSilentLoss, WorkIsOpen, FailedIsInWork

LEMMA NextInv == IInv /\ [Next]_vars => IInv'
<1> SUFFICES ASSUME IInv, [Next]_vars PROVE IInv'
  OBVIOUS
<1>1. ASSUME NEW t \in Txs, Enqueue(t) PROVE IInv'
  BY <1>1, EnqueueInv
<1>2. ASSUME NEW q \in items, RetryItem(q) PROVE IInv'
  BY <1>2, RetryItemInv
<1>3. ASSUME NEW q \in items, RemoveItem(q) PROVE IInv'
  BY <1>3, DropInv DEF RemoveItem
<1>4. CASE RetryAll
  BY <1>4, RetryAllInv
<1>5. CASE ClearCompleted
  BY <1>5, DropInv DEF ClearCompleted
<1>6. CASE ClearDeadLetters
  BY <1>6, DropInv DEF ClearDeadLetters
<1>7. CASE ManualFlush
  BY <1>7, StartFlushInv DEF ManualFlush, IInv, TypeOK
<1>8. CASE TimerFires
  <2>1. CASE StartFlush
    BY <1>8, <2>1, StartFlushInv DEF TimerFires
  <2>2. CASE UNCHANGED <<rec, items, stored, phase, cur, work,
                         online, auth, wire, accepted, discarded, lossy>>
    BY <1>8, <2>2, OutsideInv DEF TimerFires, IInv, TypeOK
  <2> QED
    BY <1>8, <2>1, <2>2 DEF TimerFires
<1>9. ASSUME NEW q \in wire, ServerExecutes(q) PROVE IInv'
  BY <1>9, OutsideInv DEF ServerExecutes, client, IInv, TypeOK
<1>10. CASE OkReply
  BY <1>10, OkReplyInv
<1>11. CASE AuthReply
  BY <1>11, AuthReplyInv
<1>12. CASE SchemaReply
  BY <1>12, SchemaReplyInv
<1>13. CASE TransientReply
  BY <1>13, TransientReplyInv
<1>14. CASE NetworkError
  BY <1>14, NetworkErrorInv
<1>15. CASE AfterDelay
  BY <1>15, AfterDelayInv
<1>16. CASE Reload
  BY <1>16, ReloadInv
<1>17. CASE Login \/ Logout
  <2>1. timer' \in BOOLEAN /\ auth' \in BOOLEAN
    BY <1>17 DEF Login, Logout, Initialize
  <2> QED
    BY <1>17, <2>1, OutsideInv DEF Login, Logout, Initialize, IInv, TypeOK
<1>18. CASE NetworkChange
  <2>1. online' \in BOOLEAN
    BY <1>18 DEF NetworkChange
  <2> QED
    BY <1>18, <2>1, OutsideInv DEF NetworkChange, client, IInv, TypeOK
<1>19. CASE UNCHANGED vars
  BY <1>19, OutsideInv DEF vars, IInv, TypeOK
<1> QED
  BY <1>1, <1>2, <1>3, <1>4, <1>5, <1>6, <1>7, <1>8, <1>9, <1>10, <1>11, <1>12, <1>13,
     <1>14, <1>15, <1>16, <1>17, <1>18, <1>19 DEF Next, UserStep, Reply

\* The inductive invariant holds in every state of the outbox.
THEOREM Invariant == Spec => []IInv
  BY InitInv, NextInv, PTL DEF Spec

\* Every variable keeps its type.
THEOREM TypeCorrect == Spec => []TypeOK
  BY Invariant, PTL DEF IInv

\* Only what the server executed is ever counted as delivered.
THEOREM DeliveredMeansAccepted == Spec => []CompletedWasAccepted
  BY Invariant, PTL DEF IInv

\* While saves succeed and fit, no interleaving loses a record silently.
THEOREM Durable == Spec => []NoSilentLoss
  BY Invariant, PTL DEF IInv

-----------------------------------------------------------------------------
(* The order in which records are sent *)

\* Of two records of the outbox at most one goes before the other.
LEMMA BeforeIsStrict ==
  ASSUME TypeOK, NEW p \in Ids, NEW q \in Ids, Before(p, q)
  PROVE  ~Before(q, p)
<1>1. rec[p].tx \in Txs /\ rec[q].tx \in Txs /\ p \in Nat /\ q \in Nat
  BY Basics DEF Record, Ids
<1>2. Priority[rec[p].tx] \in 1..3 /\ Priority[rec[q].tx] \in 1..3
  BY <1>1, OutboxAssumption DEF OutboxAssumption
<1> QED
  BY <1>1, <1>2 DEF Before

\* A record leaves at the start of a flush or at the head of its loop.
LEMMA SendsFrom ==
  ASSUME [Next]_vars, NEW q, Sends(q)
  PROVE  \/ StartFlush
         \/ phase # "idle" /\ \E r, w : SendFirst(work, r, w) /\ UNCHANGED items
<1>1. ASSUME UNCHANGED <<phase, cur>> PROVE FALSE
  BY <1>1 DEF Sends
<1>2. ASSUME phase' # "fetch" PROVE FALSE
  BY <1>2 DEF Sends
<1>3. CASE UserStep
  BY <1>1, <1>3 DEF UserStep, Enqueue, RetryItem, RetryAll, RemoveItem,
       ClearCompleted, ClearDeadLetters, Drop, ManualFlush
<1>4. CASE TimerFires
  BY <1>1, <1>4 DEF TimerFires
<1>5. CASE \E p \in wire : ServerExecutes(p)
  BY <1>1, <1>5 DEF ServerExecutes, client
<1>6. CASE OkReply \/ AuthReply \/ TransientReply \/ NetworkError
  BY <1>2, <1>6 DEF OkReply, AuthReply, TransientReply, NetworkError, Finish
<1>7. CASE SchemaReply
  BY <1>2, <1>7 DEF SchemaReply, NextRecord, Finish, Waiting
<1>8. CASE AfterDelay
  BY <1>2, <1>8 DEF AfterDelay, NextRecord, Finish
<1>9. CASE Reload
  BY <1>2, <1>9 DEF Reload, Finish
<1>10. CASE Login \/ Logout \/ NetworkChange \/ UNCHANGED vars
  BY <1>1, <1>10 DEF Login, Logout, Initialize, NetworkChange, client, vars
<1> QED
  BY <1>3, <1>4, <1>5, <1>6, <1>7, <1>8, <1>9, <1>10 DEF Next, Reply

\* In both cases it is the first of the records left to do, which include every
\* record of the outbox that waits for its retry.
LEMMA SendIsFirst ==
  ASSUME IInv, [Next]_vars, NEW q \in Ids, Sends(q)
  PROVE  /\ rec[q].status \in {"pending", "failed"}
         /\ \A p \in items : p # q /\ Before(p, q) => rec[p].status # "failed"
<1>1. CASE StartFlush
  <2> DEFINE S == {p \in items : Eligible(p)}
  <2>1. q \in S /\ First(q, S)
    BY <1>1 DEF StartFlush, SendFirst, Sends
  <2>2. \A p \in items : rec[p].status = "failed" => p \in S
    BY DEF Eligible
  <2> QED
    BY <2>1, <2>2, BeforeIsStrict DEF First, Eligible, IInv, TypeOK
<1>2. CASE phase # "idle" /\ \E r, w : SendFirst(work, r, w) /\ UNCHANGED items
  <2>1. q \in work /\ First(q, work)
    BY <1>2 DEF SendFirst, Sends
  <2>2. \A p \in items : rec[p].status = "failed" => p \in work
    BY <1>2 DEF IInv, FailedIsInWork
  <2>3. rec[q].status \in {"pending", "failed"}
    BY <2>1 DEF IInv, WorkIsOpen
  <2> QED
    BY <2>1, <2>2, <2>3, BeforeIsStrict DEF First, IInv, TypeOK
<1> QED
  BY <1>1, <1>2, SendsFrom

\* No step sends a record past one that waits for its retry.
THEOREM FifoPreserved == Spec => NoOvertakingAFailure
<1>1. IInv /\ [Next]_vars =>
        [\A q \in Ids : Sends(q) =>
           \A p \in items : p # q /\ Before(p, q) => rec[p].status # "failed"]_vars
  BY SendIsFirst
<1> QED
  BY <1>1, Invariant, PTL DEF Spec, NoOvertakingAFailure

\* No step sends a completed record or a dead letter.
THEOREM OnlyOpenRecordsSent == Spec => SendsOnlyOpenRecords
<1>1. IInv /\ [Next]_vars =>
        [\A q \in Ids : Sends(q) => rec[q].status \in {"pending", "failed"}]_vars
  BY SendIsFirst
<1> QED
  BY <1>1, Invariant, PTL DEF Spec, SendsOnlyOpenRecords

\* What is open and older than a record of the snapshot is in the snapshot: the
\* others were enqueued later, and only the user puts records back.
OpenIsInWork == \A q \in work : \A p \in items : p < q /\ Eligible(p) => p \in work

LEMMA SendingKeepsOrder ==
  ASSUME IInv, UNCHANGED items, NEW r \in Seq(Record), Len(r) = Len(rec),
         NEW S, S \subseteq Ids, NEW w, SendFirst(S, r, w),
         \A q \in S : \A p \in items :
           p < q /\ r[p].status \in {"pending", "failed"} => p \in S
  PROVE  OpenIsInWork'
<1>1. /\ items \subseteq 1..Len(r) /\ S \subseteq 1..Len(r)
      /\ \A p \in 1..Len(r) : r[p] \in Record
  BY ElementOfSeq DEF IInv, TypeOK, Ids
<1>2. PICK q \in S : Sent(q, S, r, w)
  BY <1>1, SendingStep
<1>3. \A p \in 1..Len(r) : rec'[p].status = IF p = q THEN "processing" ELSE r[p].status
  BY <1>1, <1>2 DEF Sent, Record
<1>4. work' = S \ {q}
  BY <1>2 DEF Sent
<1> QED
  BY <1>1, <1>3, <1>4 DEF OpenIsInWork, Eligible

LEMMA OrderStep ==
  ASSUME IInv, OpenIsInWork, "user" \notin Faults, [Next]_vars
  PROVE  OpenIsInWork'
<1>1. /\ rec \in Seq(Record) /\ Len(rec) \in Nat /\ items \subseteq Ids
      /\ \A q \in Ids : rec[q] \in Record
      /\ cur \in Ids \cup {0} /\ (cur = 0 <=> phase = "idle") /\ work \subseteq Ids
  BY Basics DEF IInv, TypeOK
<1>2. ASSUME work' = {} PROVE OpenIsInWork'
  BY <1>2 DEF OpenIsInWork
<1>3. ASSUME work' = work, items' \subseteq items,
             \A q \in Ids : rec'[q].status \in {"pending", "failed"}
                              => rec[q].status \in {"pending", "failed"}
      PROVE  OpenIsInWork'
  BY <1>1, <1>3 DEF OpenIsInWork, Eligible
<1>4. ASSUME NEW t \in Txs, Enqueue(t) PROVE OpenIsInWork'
  <2> DEFINE new == [tx |-> t, status |-> "pending", retries |-> 0]
  <2>1. new \in Record
    BY OutboxAssumption DEF Record, Statuses, OutboxAssumption
  <2>2. /\ rec' = Append(rec, new) /\ work' = work
        /\ items' \subseteq items \cup {Len(rec) + 1}
    BY <1>4 DEF Enqueue
  <2>3. \A q \in Ids : rec'[q] = rec[q]
    BY <1>1, <2>1, <2>2 DEF Ids
  <2>4. \A q \in work : ~(Len(rec) + 1 < q)
    BY <1>1 DEF Ids
  <2> QED
    BY <1>1, <2>2, <2>3, <2>4 DEF OpenIsInWork, Eligible
<1>5. CASE StartFlush
  <2> DEFINE S == {q \in items : Eligible(q)}
  <2>1. SendFirst(S, rec, wire) /\ UNCHANGED items
    BY <1>5 DEF StartFlush
  <2>2. S \subseteq Ids
    BY <1>1
  <2>3. \A p \in items : rec[p].status \in {"pending", "failed"} => p \in S
    BY DEF Eligible
  <2> HIDE DEF S
  <2> QED
    BY <1>1, <2>1, <2>2, <2>3, SendingKeepsOrder
<1>6. ASSUME NEW r \in Seq(Record), Len(r) = Len(rec), NEW w, NextRecord(r, w),
             UNCHANGED items,
             \A p \in Ids : r[p].status \in {rec[p].status, "dead_letter"}
      PROVE  OpenIsInWork'
  <2>1. CASE SendFirst(work, r, w)
    <3>1. \A q \in work : \A p \in items :
            p < q /\ r[p].status \in {"pending", "failed"} => p \in work
      BY <1>1, <1>6 DEF OpenIsInWork, Eligible
    <3> QED
      BY <1>1, <1>6, <2>1, <3>1, SendingKeepsOrder
  <2>2. CASE Finish
    BY <1>2, <2>2 DEF Finish
  <2> QED
    BY <1>6, <2>1, <2>2 DEF NextRecord
<1>7. CASE AfterDelay
  BY <1>1, <1>6, <1>7 DEF AfterDelay
<1>8. CASE SchemaReply
  <2> DEFINE r == [rec EXCEPT ![cur].status = "dead_letter"]
  <2>1. cur \in 1..Len(rec) /\ "dead_letter" \in Statuses
    BY <1>1, <1>8 DEF SchemaReply, Waiting, Ids, Statuses
  <2>2. /\ r \in Seq(Record) /\ Len(r) = Len(rec)
        /\ \A q \in Ids : r[q].status = IF q = cur THEN "dead_letter" ELSE rec[q].status
    BY <1>1, <2>1, StatusChange DEF Ids, Record
  <2>3. NextRecord(r, wire \ {cur}) /\ UNCHANGED items
    BY <1>8 DEF SchemaReply
  <2> HIDE DEF r
  <2> QED
    BY <1>6, <2>2, <2>3
<1>9. CASE OkReply
  <2>1. /\ rec' = [rec EXCEPT ![cur].status = "completed"]
        /\ items' \subseteq items /\ work' = work /\ cur \in 1..Len(rec)
    BY <1>1, <1>9 DEF OkReply, SetStatus, Waiting, Ids
  <2>2. "completed" \in Statuses
    BY DEF Statuses
  <2>3. \A q \in Ids : rec'[q].status = IF q = cur THEN "completed" ELSE rec[q].status
    BY <1>1, <2>1, <2>2, StatusChange DEF Ids, Record
  <2> QED
    BY <1>3, <2>1, <2>3
<1>10. CASE AuthReply \/ TransientReply \/ NetworkError \/ Reload
  BY <1>2, <1>10 DEF AuthReply, TransientReply, NetworkError, Reload, Finish
<1>11. CASE UNCHANGED <<rec, items, work>>
  BY <1>3, <1>11
<1>12. CASE UserStep
  BY <1>4, <1>12 DEF UserStep, RetryItem, RetryAll, RemoveItem, ClearCompleted,
       ClearDeadLetters, Drop, ManualFlush
<1>13. CASE TimerFires
  BY <1>5, <1>11, <1>13 DEF TimerFires
<1>14. CASE (\E q \in wire : ServerExecutes(q)) \/ Login \/ Logout \/ NetworkChange
            \/ UNCHANGED vars
  BY <1>11, <1>14 DEF ServerExecutes, Login, Logout, Initialize, NetworkChange, client, vars
<1> QED
  BY <1>7, <1>8, <1>9, <1>10, <1>12, <1>13, <1>14 DEF Next, Reply

\* The first of the records left to do goes before the older ones of its priority,
\* and before those of a lower one.
LEMMA SendsTheOldest ==
  ASSUME IInv, OpenIsInWork, [Next]_vars, NEW q \in Ids, Sends(q),
         NEW p \in items, p < q, Priority[rec[p].tx] <= Priority[rec[q].tx]
  PROVE  ~Eligible(p)
<1>1. /\ items \subseteq Ids /\ \A i \in Ids : rec[i] \in Record
      /\ p \in Int /\ q \in Int
  BY Basics DEF IInv, TypeOK, Ids
<1>2. /\ Priority[rec[p].tx] \in Int /\ Priority[rec[q].tx] \in Int
  BY <1>1, OutboxAssumption DEF Record, OutboxAssumption
<1>3. ~Before(q, p) /\ p # q
  BY <1>1, <1>2 DEF Before
<1>4. CASE StartFlush
  BY <1>3, <1>4 DEF StartFlush, SendFirst, Sends, First
<1>5. CASE phase # "idle" /\ \E r, w : SendFirst(work, r, w) /\ UNCHANGED items
  <2>1. q \in work /\ First(q, work)
    BY <1>5 DEF SendFirst, Sends
  <2>2. p \notin work
    BY <1>3, <2>1 DEF First
  <2> QED
    BY <2>1, <2>2 DEF OpenIsInWork
<1> QED
  BY <1>4, <1>5, SendsFrom

\* Packages leave in the order of their creation within a priority, retries included,
\* as long as the user puts none back: what Terminals takes for granted.
THEOREM OldestGoesFirst == Spec => SendsInOrder
<1>1. Init => ("user" \notin Faults => OpenIsInWork)
  BY DEF Init, OpenIsInWork
<1>2. IInv /\ ("user" \notin Faults => OpenIsInWork) /\ [Next]_vars
        => ("user" \notin Faults => OpenIsInWork)'
  BY OrderStep
<1>3. IInv /\ ("user" \notin Faults => OpenIsInWork) /\ [Next]_vars =>
        [\A q \in Ids : "user" \notin Faults /\ Sends(q) =>
           \A p \in items : p < q /\ Priority[rec[p].tx] <= Priority[rec[q].tx]
                              => ~Eligible(p)]_vars
  BY SendsTheOldest
<1> QED
  BY <1>1, <1>2, <1>3, Invariant, PTL DEF Spec, SendsInOrder

-----------------------------------------------------------------------------
(* The outbox implements DurableQueue *)

\* Most steps leave the queue's contents alone; a save may turn out lossy.
LEMMA QuietStep ==
  ASSUME IInv, UNCHANGED <<items, discarded>>, Len(rec') = Len(rec),
         accepted \subseteq accepted', lossy' \in {lossy, TRUE}
  PROVE  Queue!Next
<1>1. Ids' = Ids /\ items \subseteq Ids
  BY DEF Ids, IInv, TypeOK
<1>2. CASE lossy' = lossy
  BY <1>1, <1>2 DEF Queue!Next, Queue!Serve
<1>3. CASE lossy' = TRUE
  BY <1>1, <1>3 DEF Queue!Next, Queue!Mishap
<1> QED
  BY <1>2, <1>3

\* A record is entrusted by enqueue, which gives up those of the same id.
LEMMA EnqueueRefines == ASSUME IInv, NEW t \in Txs, Enqueue(t)  PROVE Queue!Next
<1> DEFINE same == {q \in items : rec[q].tx = t}
           new == [tx |-> t, status |-> "pending", retries |-> 0]
<1>1. /\ rec \in Seq(Record) /\ Len(rec) \in Nat /\ lossy \in BOOLEAN
      /\ items \subseteq Ids
  BY Basics DEF IInv, TypeOK
<1>2. new \in Record
  BY OutboxAssumption DEF Record, Statuses, OutboxAssumption
<1>3. /\ Len(rec) < MaxEnqueue
      /\ rec' = Append(rec, new)
      /\ items' = (items \ same) \cup {Len(rec) + 1}
      /\ discarded' = discarded \cup same
      /\ accepted' = accepted
      /\ lossy' \in {lossy, TRUE}
  BY <1>1 DEF Enqueue, Save
<1>4. Len(rec') = Len(rec) + 1
  BY <1>1, <1>2, <1>3, AppendProperties
<1>5. /\ Ids' = Ids \cup {Len(rec) + 1}
      /\ Len(rec) + 1 \notin Ids
      /\ Len(rec) + 1 \in 1..MaxEnqueue
  BY <1>1, <1>3, <1>4, OutboxAssumption DEF Ids, OutboxAssumption
<1>6. items \ items' = same
  BY <1>1, <1>3, <1>5
<1>7. CASE lossy' = lossy
  <2>1. Queue!Entrust(Len(rec) + 1)
    BY <1>3, <1>5, <1>6, <1>7 DEF Queue!Entrust
  <2> QED
    BY <2>1, <1>5 DEF Queue!Next
<1>8. CASE lossy' = TRUE
  BY <1>1, <1>3, <1>5, <1>8 DEF Queue!Next, Queue!Mishap
<1> QED
  BY <1>3, <1>7, <1>8

\* The user gives records up.
LEMMA DropRefines ==
  ASSUME IInv, NEW gone, gone \subseteq items, Drop(gone), Save
  PROVE  Queue!Next
<1>1. /\ items' = items \ gone
      /\ discarded' = discarded \cup gone
      /\ UNCHANGED <<rec, accepted>>
      /\ lossy' \in {lossy, TRUE}
  BY DEF Drop, Save, IInv, TypeOK
<1>2. Ids' = Ids /\ items \subseteq Ids
  BY <1>1 DEF Ids, IInv, TypeOK
<1>3. CASE lossy' = lossy
  BY <1>1, <1>2, <1>3 DEF Queue!Next, Queue!GiveUp
<1>4. CASE lossy' = TRUE
  BY <1>1, <1>2, <1>4 DEF Queue!Next, Queue!Mishap
<1> QED
  BY <1>1, <1>3, <1>4

\* What a success prunes was completed, and thus executed.
LEMMA OkReplyRefines == ASSUME IInv, OkReply  PROVE Queue!Next
<1>1. /\ rec \in Seq(Record)
      /\ cur \in 1..Len(rec)
      /\ items \subseteq Ids
  BY Basics DEF IInv, TypeOK, Ids, OkReply, Waiting
<1>2. "completed" \in Statuses
  BY DEF Statuses
<1>3. rec' = [rec EXCEPT ![cur].status = "completed"]
  BY DEF OkReply, SetStatus
<1>4. /\ Len(rec') = Len(rec)
      /\ \A p \in Ids : rec'[p].status = IF p = cur THEN "completed" ELSE rec[p].status
  BY <1>1, <1>2, <1>3, StatusChange DEF Record, Ids
<1>5. \A q \in items : rec'[q].status = "completed" => q \in accepted
  BY <1>1, <1>4 DEF OkReply, IInv, CompletedWasAccepted
<1>6. /\ items' \subseteq items
      /\ items \ items' \subseteq accepted
      /\ UNCHANGED <<accepted, discarded>>
      /\ lossy' \in {lossy, TRUE}
  BY <1>5 DEF OkReply, Save, IInv, TypeOK
<1>7. Ids' = Ids
  BY <1>4 DEF Ids
<1>8. CASE lossy' = lossy
  BY <1>6, <1>7, <1>8 DEF Queue!Next, Queue!Serve
<1>9. CASE lossy' = TRUE
  BY <1>1, <1>6, <1>7, <1>9 DEF Queue!Next, Queue!Mishap
<1> QED
  BY <1>6, <1>8, <1>9

\* A reload finds every unfinished record, and nothing that had left.
LEMMA ReloadRefines == ASSUME IInv, Reload  PROVE Queue!Next
<1> DEFINE new(q) == IF q \in DOMAIN stored THEN Recovered(stored[q]) ELSE rec[q]
<1>1. /\ rec \in Seq(Record) /\ Len(rec) \in Nat /\ lossy \in BOOLEAN
      /\ items \subseteq Ids /\ DOMAIN stored \subseteq Ids
  BY Basics DEF IInv, TypeOK
<1>2. /\ rec' = [q \in Ids |-> new(q)]
      /\ items' = DOMAIN stored
      /\ UNCHANGED <<accepted, discarded, lossy>>
  BY DEF Reload
<1>3. Len(rec') = Len(rec)
  <2>1. rec' \in Seq(Record) /\ DOMAIN rec' = 1..Len(rec)
    BY <1>2, ReloadInv DEF IInv, TypeOK, Ids
  <2> QED
    BY <1>1, <2>1, LenProperties
<1>4. Ids' = Ids
  BY <1>3 DEF Ids
<1>5. CASE ~lossy
  <2>1. DOMAIN stored = Unfinished(items, rec)
    BY <1>5 DEF IInv, StoredIsComplete
  <2>2. items \ items' \subseteq accepted /\ items' \subseteq items
    BY <1>1, <1>2, <2>1 DEF Unfinished, IInv, CompletedWasAccepted
  <2> QED
    BY <1>2, <1>4, <2>2 DEF Queue!Next, Queue!Serve
<1>6. CASE lossy
  BY <1>1, <1>2, <1>4, <1>6 DEF Queue!Next, Queue!Mishap
<1> QED
  BY <1>5, <1>6

\* Every step of the outbox is a step of the durable queue, or a stutter.
LEMMA StepRefines == ASSUME IInv, [Next]_vars  PROVE [Queue!Next]_(Queue!vars)
<1>1. /\ rec \in Seq(Record) /\ rec' \in Seq(Record)
      /\ lossy \in BOOLEAN
  BY NextInv DEF IInv, TypeOK
<1>2. ASSUME UNCHANGED <<items, discarded>>, DOMAIN rec' = DOMAIN rec,
             accepted \subseteq accepted', lossy' \in {lossy, TRUE}
      PROVE  Queue!Next
  <2>1. Len(rec') = Len(rec)
    BY <1>1, <1>2, LenProperties
  <2> QED
    BY <1>2, <2>1, QuietStep
<1>3. ASSUME Save PROVE lossy' \in {lossy, TRUE}
  BY <1>1, <1>3 DEF Save
<1>4. CASE \E t \in Txs : Enqueue(t)
  BY <1>4, EnqueueRefines
<1>5. CASE (\E q \in items : RemoveItem(q)) \/ ClearCompleted \/ ClearDeadLetters
  <2>1. ASSUME NEW q \in items, RemoveItem(q) PROVE Queue!Next
    BY <2>1, DropRefines DEF RemoveItem
  <2>2. CASE ClearCompleted
    BY <2>2, DropRefines DEF ClearCompleted
  <2>3. CASE ClearDeadLetters
    BY <2>3, DropRefines DEF ClearDeadLetters
  <2> QED
    BY <1>5, <2>1, <2>2, <2>3
<1>6. CASE (\E q \in items : RetryItem(q)) \/ RetryAll
  <2>1. DOMAIN rec' = DOMAIN rec
    BY <1>1, <1>6, LenProperties DEF RetryItem, RetryAll, Ids
  <2> QED
    BY <1>2, <1>3, <1>6, <2>1 DEF RetryItem, RetryAll
<1>7. CASE StartFlush \/ AfterDelay \/ SchemaReply
  <2>1. DOMAIN rec' = DOMAIN rec
    BY <1>7 DEF StartFlush, AfterDelay, SchemaReply, NextRecord, SendFirst
  <2> QED
    BY <1>2, <1>3, <1>7, <2>1 DEF StartFlush, AfterDelay, SchemaReply
<1>8. CASE AuthReply \/ TransientReply \/ NetworkError
  <2>1. DOMAIN rec' = DOMAIN rec
    BY <1>8 DEF AuthReply, TransientReply, NetworkError
  <2> QED
    BY <1>2, <1>3, <1>8, <2>1 DEF AuthReply, TransientReply, NetworkError
<1>9. CASE \E q \in wire : ServerExecutes(q)
  BY <1>2, <1>9 DEF ServerExecutes, client
<1>10. CASE OkReply
  BY <1>10, OkReplyRefines
<1>11. CASE Reload
  BY <1>11, ReloadRefines
<1>12. CASE UNCHANGED <<rec, items, accepted, discarded, lossy>>
  BY <1>2, <1>12
<1>13. CASE UserStep
  BY <1>4, <1>5, <1>6, <1>7, <1>13 DEF UserStep, ManualFlush
<1>14. CASE TimerFires
  BY <1>7, <1>12, <1>14 DEF TimerFires
<1>15. CASE Login \/ Logout \/ NetworkChange \/ UNCHANGED vars
  BY <1>12, <1>15 DEF Login, Logout, Initialize, NetworkChange, client, vars
<1> QED
  BY <1>7, <1>8, <1>9, <1>10, <1>11, <1>13, <1>14, <1>15 DEF Next, Reply

\* The outbox implements the durable queue, for every set of transactions, every
\* limit and every combination of faults.
THEOREM OutboxIsDurableQueue == Spec => ImplementsDurableQueue
<1>1. Init => Queue!Init
  <2> SUFFICES ASSUME Init PROVE Queue!Init
    OBVIOUS
  <2>1. Ids = {}
    BY EmptySeq DEF Init, Ids
  <2> QED
    BY <2>1 DEF Init, Queue!Init
<1>2. IInv /\ [Next]_vars => [Queue!Next]_(Queue!vars)
  BY StepRefines
<1> QED
  BY <1>1, <1>2, Invariant, PTL DEF Spec, ImplementsDurableQueue, Queue!Spec

-----------------------------------------------------------------------------
(* Storage and memory *)

\* Every set of records is finite.
LEMMA RecordsAreFinite ==
  ASSUME TypeOK, NEW S \in SUBSET Ids
  PROVE  IsFiniteSet(S) /\ Cardinality(S) \in Nat /\ S \subseteq Nat
<1>1. IsFiniteSet(Ids) /\ Ids \subseteq Nat
  BY Basics, FS_Interval DEF Ids
<1>2. IsFiniteSet(S)
  BY <1>1, FS_Subset
<1> QED
  BY <1>1, <1>2, FS_CardinalityType

\* A reload installs what storage holds, so that the two agree again, although
\* what the cap cut off is gone from both.
LEMMA ReloadMirrors ==
  ASSUME IInv, StorageMirrorsMemory, Reload, ~(lossy /\ StorageMayFail)
  PROVE  LET kept == Persisted(items', rec')
         IN  /\ DOMAIN stored = DOMAIN kept
             /\ \A q \in DOMAIN kept : Recovered(stored[q]) = Recovered(kept[q])
<1> DEFINE D == DOMAIN stored
           U == Unfinished(items, rec)
           After(S, p) == {o \in S : o > p}
<1>1. /\ TypeOK /\ D \subseteq Ids
      /\ \A q \in D : stored[q] \in Record /\ stored[q].status # "completed"
  BY DEF IInv, TypeOK, StoredIsOpen
<1>2. D = {p \in U : Cardinality(After(U, p)) < StorageCap}
  BY DEF StorageMirrorsMemory, Persisted
<1>3. ASSUME NEW p \in D
      PROVE  Cardinality(After(D, p)) < StorageCap
  <2>1. After(U, p) \in SUBSET Ids /\ After(D, p) \in SUBSET After(U, p)
    BY <1>1, <1>2 DEF Unfinished, TypeOK
  <2>2. After(D, p) \in SUBSET Ids
    BY <1>1
  <2>3. /\ IsFiniteSet(After(U, p)) /\ Cardinality(After(U, p)) \in Nat
        /\ Cardinality(After(D, p)) \in Nat
    <3> HIDE DEF After, U, D
    <3> QED
      BY <1>1, <2>1, <2>2, RecordsAreFinite
  <2>4. Cardinality(After(D, p)) <= Cardinality(After(U, p))
    <3> HIDE DEF After, U, D
    <3> QED
      BY <2>1, <2>3, FS_Subset
  <2>5. Cardinality(After(U, p)) < StorageCap
    BY <1>2
  <2> HIDE DEF After, U, D
  <2> QED
    BY <2>3, <2>4, <2>5, OutboxAssumption DEF OutboxAssumption
<1>4. D = {p \in D : Cardinality({o \in D : o > p}) < StorageCap}
  BY <1>3
<1>5. items' = D /\ \A q \in D : rec'[q] = Recovered(stored[q])
  BY <1>1 DEF Reload
<1>6. \A q \in D : /\ Recovered(stored[q]).status # "completed"
                   /\ Recovered(Recovered(stored[q])) = Recovered(stored[q])
  BY <1>1 DEF Recovered, Record
<1>7. Unfinished(items', rec') = D
  BY <1>5, <1>6 DEF Unfinished
<1>8. Persisted(items', rec') = [q \in D |-> rec'[q]]
  BY <1>4, <1>7 DEF Persisted
<1> QED
  BY <1>5, <1>6, <1>8

LEMMA MirrorStep ==
  ASSUME IInv, StorageMirrorsMemory, [Next]_vars
  PROVE  StorageMirrorsMemory'
<1>1. ASSUME Save PROVE StorageMirrorsMemory'
  <2> SUFFICES ASSUME ~(lossy' /\ StorageMayFail) PROVE stored' = Persisted(items', rec')
    BY DEF StorageMirrorsMemory, Persisted, Unfinished
  <2> QED
    BY <1>1 DEF Save
<1>2. CASE UNCHANGED <<rec, items, stored, lossy>>
  BY <1>2 DEF StorageMirrorsMemory, Persisted, Unfinished
<1>3. CASE Reload
  <2>1. stored' = stored /\ lossy' = lossy
    BY <1>3 DEF Reload
  <2>2. CASE lossy /\ StorageMayFail
    BY <2>1, <2>2 DEF StorageMirrorsMemory
  <2>3. CASE ~(lossy /\ StorageMayFail)
    BY <1>3, <2>1, <2>3, ReloadMirrors DEF StorageMirrorsMemory, Persisted, Unfinished
  <2> QED
    BY <2>2, <2>3
<1>4. CASE UserStep
  BY <1>1, <1>4 DEF UserStep, Enqueue, RetryItem, RetryAll, RemoveItem, ClearCompleted,
       ClearDeadLetters, ManualFlush, StartFlush
<1>5. CASE TimerFires
  BY <1>1, <1>2, <1>5 DEF TimerFires, StartFlush
<1>6. CASE Reply \/ AfterDelay
  BY <1>1, <1>6 DEF Reply, OkReply, AuthReply, SchemaReply, TransientReply, NetworkError,
       AfterDelay
<1>7. CASE (\E q \in wire : ServerExecutes(q)) \/ Login \/ Logout \/ NetworkChange
           \/ UNCHANGED vars
  BY <1>2, <1>7 DEF ServerExecutes, Login, Logout, Initialize, NetworkChange, client, vars
<1> QED
  BY <1>3, <1>4, <1>5, <1>6, <1>7 DEF Next

\* While saves succeed, a reload at any await finds what memory holds, and of more
\* than StorageCap records the newest.
THEOREM StorageIsMemory == Spec => []StorageMirrorsMemory
<1>1. Init => StorageMirrorsMemory
  BY DEF Init, StorageMirrorsMemory, Persisted, Unfinished
<1>2. IInv /\ StorageMirrorsMemory /\ [Next]_vars => StorageMirrorsMemory'
  BY MirrorStep
<1> QED
  BY <1>1, <1>2, Invariant, PTL DEF Spec

-----------------------------------------------------------------------------
(* The bounds of the queue *)

\* A set of naturals that is not empty has a smallest element.
LEMMA SmallestOf ==
  ASSUME NEW S \in SUBSET Nat, S # {}
  PROVE  \E m \in S : \A n \in S : m <= n
<1>1. PICK m \in S : \A n \in S : <<n, m>> \notin OpToRel(<, Nat)
  BY NatLessThanWellFounded, WFMin
<1>2. \A n \in S : ~(n < m)
  BY <1>1 DEF OpToRel
<1> QED
  BY <1>2

\* slice(-c): of the elements of S, c at most have fewer than c after them.
LEMMA NewestAreFew ==
  ASSUME NEW S \in SUBSET Nat, IsFiniteSet(S), NEW c \in Nat
  PROVE  LET T == {p \in S : Cardinality({o \in S : o > p}) < c}
         IN  IsFiniteSet(T) /\ Cardinality(T) <= c
<1> DEFINE T == {p \in S : Cardinality({o \in S : o > p}) < c}
<1> SUFFICES IsFiniteSet(T) /\ Cardinality(T) <= c
  OBVIOUS
<1>1. T \in SUBSET S
  OBVIOUS
<1> HIDE DEF T
<1>2. IsFiniteSet(T)
  BY <1>1, FS_Subset
<1>3. CASE T = {}
  <2>1. Cardinality(T) = 0
    BY <1>3, FS_EmptySet
  <2> QED
    BY <1>2, <2>1
<1>4. CASE T # {}
  <2>1. PICK m \in T : \A n \in T : m <= n
    <3>1. T \in SUBSET Nat
      BY <1>1
    <3> QED
      BY <1>4, <3>1, SmallestOf
  <2> DEFINE R == {o \in T : o > m}
             A == {o \in S : o > m}
  <2>2. R \in SUBSET A /\ A \in SUBSET S /\ Cardinality(A) < c
    <3>1. Cardinality({o \in S : o > m}) < c
      BY <2>1 DEF T
    <3> QED
      BY <1>1, <3>1
  <2>3. T = R \cup {m} /\ m \notin R
    <3>1. m \in Nat /\ T \subseteq Nat
      BY <1>1, <2>1
    <3>2. \A n \in T : n > m \/ n = m
      BY <2>1, <3>1
    <3>3. ~(m > m)
      BY <3>1
    <3> HIDE DEF A
    <3> QED
      BY <2>1, <3>2, <3>3
  <2> HIDE DEF R, A
  <2>4. IsFiniteSet(A)
    BY <2>2, FS_Subset
  <2>5. IsFiniteSet(R) /\ Cardinality(R) <= Cardinality(A)
    BY <2>2, <2>4, FS_Subset
  <2>6. Cardinality(A) \in Nat /\ Cardinality(R) \in Nat
    BY <2>4, <2>5, FS_CardinalityType
  <2>7. Cardinality(T) = Cardinality(R) + 1
    BY <2>3, <2>5, FS_AddElement
  <2> QED
    BY <1>2, <2>2, <2>6, <2>7, <2>5
<1> QED
  BY <1>3, <1>4

Completed == {q \in items : rec[q].status = "completed"}

\* No step but a success completes a record, and a reload brings none back.
LEMMA CompletedStay ==
  ASSUME IInv, [Next]_vars, ~OkReply
  PROVE  Completed' \subseteq Completed
<1>1. /\ rec \in Seq(Record) /\ Len(rec) \in Nat /\ items \subseteq Ids
      /\ \A q \in Ids : rec[q] \in Record
      /\ cur \in Ids \cup {0} /\ (cur = 0 <=> phase = "idle") /\ work \subseteq Ids
  BY Basics DEF IInv, TypeOK
<1>2. ASSUME items' \subseteq items,
             \A q \in Ids : rec'[q].status = "completed" => rec[q].status = "completed"
      PROVE  Completed' \subseteq Completed
  BY <1>1, <1>2 DEF Completed
<1>3. ASSUME NEW t \in Txs, Enqueue(t) PROVE Completed' \subseteq Completed
  <2> DEFINE new == [tx |-> t, status |-> "pending", retries |-> 0]
  <2>1. new \in Record
    BY OutboxAssumption DEF Record, Statuses, OutboxAssumption
  <2>2. /\ rec' = Append(rec, new)
        /\ items' \subseteq items \cup {Len(rec) + 1}
    BY <1>3 DEF Enqueue
  <2>3. /\ \A q \in Ids : rec'[q] = rec[q]
        /\ rec'[Len(rec) + 1].status = "pending"
    BY <1>1, <2>1, <2>2 DEF Ids
  <2> QED
    BY <1>1, <2>2, <2>3 DEF Completed
<1>4. CASE Reload
  <2>1. \A q \in items' : q \in DOMAIN stored /\ q \in Ids
    BY <1>4 DEF Reload, IInv, TypeOK
  <2>2. \A q \in items' : rec'[q] = Recovered(stored[q])
    BY <1>4, <2>1 DEF Reload
  <2>3. \A q \in items' : Recovered(stored[q]).status # "completed"
    BY <2>1 DEF Recovered, Record, IInv, TypeOK, StoredIsOpen
  <2> QED
    BY <2>2, <2>3 DEF Completed
<1>5. ASSUME NEW q \in items, RetryItem(q) PROVE Completed' \subseteq Completed
  <2>1. rec' = [rec EXCEPT ![q] = Reset(@)] /\ items' = items
    BY <1>5 DEF RetryItem
  <2>2. Reset(rec[q]) \in Record /\ Reset(rec[q]).status = "pending"
    BY <1>1, ResetRecord
  <2> QED
    BY <1>1, <1>2, <2>1, <2>2 DEF Ids
<1>6. CASE RetryAll
  <2>1. \A q \in Ids : rec'[q] = rec[q] \/ rec'[q] = Reset(rec[q])
    BY <1>6 DEF RetryAll
  <2>2. \A q \in Ids : Reset(rec[q]).status = "pending"
    BY <1>1, ResetRecord
  <2> QED
    BY <1>2, <1>6, <2>1, <2>2 DEF RetryAll
<1>7. ASSUME NEW gone, Drop(gone) PROVE Completed' \subseteq Completed
  BY <1>7 DEF Drop, Completed
<1>8. ASSUME NEW r \in Seq(Record), Len(r) = Len(rec), NEW S, S \subseteq Ids, NEW w,
             \A q \in Ids : r[q].status = "completed" => rec[q].status = "completed",
             items' = items,
             SendFirst(S, r, w) \/ rec' = r
      PROVE  Completed' \subseteq Completed
  <2>1. CASE SendFirst(S, r, w)
    <3>1. PICK q \in S : Sent(q, S, r, w)
      BY <1>8, <2>1, SendingStep DEF Ids
    <3>2. \A p \in Ids : r[p] \in Record
      BY <1>8, ElementOfSeq DEF Ids
    <3>3. \A p \in Ids : rec'[p].status = IF p = q THEN "processing" ELSE r[p].status
      BY <1>8, <3>1, <3>2 DEF Sent, Ids, Record
    <3> QED
      BY <1>2, <1>8, <3>3
  <2>2. CASE rec' = r
    BY <1>2, <1>8, <2>2
  <2> QED
    BY <1>8, <2>1, <2>2
<1>9. CASE StartFlush
  <2>1. SendFirst({q \in items : Eligible(q)}, rec, wire) /\ items' = items
    BY <1>9 DEF StartFlush
  <2> QED
    BY <1>1, <1>8, <2>1
<1>10. CASE AfterDelay
  <2>1. (SendFirst(work, rec, wire) \/ rec' = rec) /\ items' = items
    BY <1>10 DEF AfterDelay, NextRecord
  <2> QED
    BY <1>1, <1>8, <2>1
<1>11. CASE SchemaReply
  <2> DEFINE r == [rec EXCEPT ![cur].status = "dead_letter"]
  <2>1. cur \in 1..Len(rec) /\ "dead_letter" \in Statuses
    BY <1>1, <1>11 DEF SchemaReply, Waiting, Ids, Statuses
  <2>2. /\ r \in Seq(Record) /\ Len(r) = Len(rec)
        /\ \A q \in Ids : r[q].status = IF q = cur THEN "dead_letter" ELSE rec[q].status
    BY SMTT(30), <1>1, <2>1, StatusChange DEF Ids, Record
  <2>3. (SendFirst(work, r, wire \ {cur}) \/ rec' = r) /\ items' = items
    BY <1>11 DEF SchemaReply, NextRecord
  <2> HIDE DEF r
  <2> QED
    BY <1>1, <1>8, <2>2, <2>3
<1>12. CASE TransientReply \/ NetworkError
  <2> DEFINE s == IF rec[cur].retries + 1 >= MaxRetries THEN "dead_letter" ELSE "failed"
  <2>1. /\ cur \in 1..Len(rec) /\ items' = items /\ rec[cur].retries <= RetryBound
        /\ \/ rec' = [rec EXCEPT ![cur] = Attempted(@, s)]
           \/ rec' = [rec EXCEPT ![cur] = Attempted(@, "failed")]
    <3>1. cur \in 1..Len(rec)
      BY <1>1, <1>12 DEF TransientReply, NetworkError, Waiting, Ids
    <3>2. rec[cur].retries <= RetryBound
      BY <1>1, <1>12, <3>1, OutboxAssumption
         DEF TransientReply, NetworkError, OutboxAssumption, Record, Ids
    <3> QED
      BY <1>12, <3>1, <3>2 DEF TransientReply, NetworkError
  <2>2. s \in Statuses /\ s # "completed" /\ "failed" \in Statuses
    BY DEF Statuses
  <2> HIDE DEF s
  <2>3. \A p \in Ids : rec'[p].status = "completed" => rec[p].status = "completed"
    BY <1>1, <2>1, <2>2, AttemptChange DEF Ids
  <2> QED
    BY <1>2, <2>1, <2>3
<1>13. CASE UNCHANGED <<rec, items>>
  BY <1>13 DEF Completed
<1>14. CASE UserStep
  BY <1>3, <1>5, <1>6, <1>7, <1>9, <1>14
     DEF UserStep, RemoveItem, ClearCompleted, ClearDeadLetters, ManualFlush
<1>15. CASE TimerFires
  BY <1>9, <1>13, <1>15 DEF TimerFires
<1>16. CASE (\E q \in wire : ServerExecutes(q)) \/ Login \/ Logout \/ NetworkChange
            \/ AuthReply \/ UNCHANGED vars
  BY <1>13, <1>16 DEF ServerExecutes, Login, Logout, Initialize, NetworkChange, AuthReply,
       client, vars
<1> QED
  BY <1>4, <1>10, <1>11, <1>12, <1>14, <1>15, <1>16 DEF Next, Reply

\* A success leaves CompletedCap completed records at most.
LEMMA OkReplyTrims ==
  ASSUME IInv, OkReply
  PROVE  Cardinality(Completed') <= CompletedCap
<1> DEFINE done == {q \in items : rec'[q].status = "completed"}
<1>1. items' = items \ {q \in done : Cardinality({p \in done : p > q}) >= CompletedCap}
  BY DEF OkReply
<1>2. TypeOK /\ done \in SUBSET Ids
  BY DEF IInv, TypeOK
<1>3. Completed' = {q \in done : ~(Cardinality({p \in done : p > q}) >= CompletedCap)}
  BY <1>1 DEF Completed
<1> HIDE DEF done
<1>4. IsFiniteSet(done) /\ done \in SUBSET Nat /\ CompletedCap \in Nat
  BY <1>2, RecordsAreFinite, OutboxAssumption DEF OutboxAssumption
<1>5. ASSUME NEW q \in done
      PROVE  Cardinality({p \in done : p > q}) \in Nat
  <2> DEFINE A == {p \in done : p > q}
  <2>1. A \in SUBSET Ids
    BY <1>2
  <2> HIDE DEF A
  <2>2. Cardinality(A) \in Nat
    BY <1>2, <2>1, RecordsAreFinite
  <2> QED
    BY <2>2 DEF A
<1>6. Completed' = {q \in done : Cardinality({p \in done : p > q}) < CompletedCap}
  <2>1. \A n \in Nat : ~(n >= CompletedCap) <=> n < CompletedCap
    BY <1>4
  <2>2. \A q \in done : ~(Cardinality({p \in done : p > q}) >= CompletedCap)
                          <=> Cardinality({p \in done : p > q}) < CompletedCap
    BY <1>5, <2>1
  <2> QED
    BY <1>3, <2>2
<1> QED
  BY <1>4, <1>6, NewestAreFew

\* A save writes StorageCap records at most.
LEMMA SaveTrims ==
  ASSUME TypeOK', Save, Cardinality(DOMAIN stored) <= StorageCap
  PROVE  Cardinality(DOMAIN stored') <= StorageCap
<1>1. CASE stored' = Persisted(items', rec')
  <2> DEFINE U == Unfinished(items', rec')
  <2>1. DOMAIN stored' = {p \in U : Cardinality({o \in U : o > p}) < StorageCap}
    BY <1>1 DEF Persisted
  <2>2. U \in SUBSET (1..Len(rec')) /\ Len(rec') \in Nat
    BY LenProperties DEF TypeOK, Ids, Unfinished
  <2> HIDE DEF U
  <2>3. IsFiniteSet(U) /\ U \in SUBSET Nat /\ StorageCap \in Nat
    <3>1. IsFiniteSet(1..Len(rec'))
      BY <2>2, FS_Interval
    <3>2. IsFiniteSet(U)
      BY <2>2, <3>1, FS_Subset
    <3>3. U \in SUBSET Nat
      BY <2>2
    <3> QED
      BY <3>2, <3>3, OutboxAssumption DEF OutboxAssumption
  <2> QED
    BY <2>1, <2>3, NewestAreFew
<1>2. CASE stored' = stored
  BY <1>2
<1> QED
  BY <1>1, <1>2 DEF Save

\* Every step saves, or leaves the storage alone.
LEMMA SavesOrNot == [Next]_vars => Save \/ stored' = stored
BY DEF Next, vars, UserStep, Enqueue, RetryItem, RetryAll, RemoveItem, ClearCompleted,
   ClearDeadLetters, ManualFlush, StartFlush, TimerFires, ServerExecutes, client, Reply,
   OkReply, AuthReply, SchemaReply, TransientReply, NetworkError, AfterDelay, Reload, Login,
   Logout, Initialize, NetworkChange

LEMMA BoundedStep ==
  ASSUME IInv, IInv', QueuesAreBounded, [Next]_vars
  PROVE  QueuesAreBounded'
<1>1. Cardinality(DOMAIN stored') <= StorageCap
  BY SavesOrNot, SaveTrims DEF QueuesAreBounded, IInv
<1>2. Cardinality(Completed') <= CompletedCap
  <2>1. CASE OkReply
    BY <2>1, OkReplyTrims
  <2>2. CASE ~OkReply
    <3>1. Completed' \subseteq Completed /\ Completed \in SUBSET Ids
      BY <2>2, CompletedStay DEF Completed, IInv, TypeOK
    <3>2. IsFiniteSet(Completed) /\ Completed' \in SUBSET Completed
      BY <3>1, RecordsAreFinite DEF IInv
    <3>3. Cardinality(Completed') <= Cardinality(Completed) /\ IsFiniteSet(Completed')
      BY <3>2, FS_Subset
    <3>4. Cardinality(Completed') \in Nat /\ Cardinality(Completed) \in Nat
      BY <3>2, <3>3, FS_CardinalityType
    <3>5. Cardinality(Completed) <= CompletedCap /\ CompletedCap \in Nat
      BY OutboxAssumption DEF QueuesAreBounded, Completed, OutboxAssumption
    <3> QED
      BY <3>3, <3>4, <3>5
  <2> QED
    BY <2>1, <2>2
<1> QED
  BY <1>1, <1>2 DEF QueuesAreBounded, Completed

\* localStorage and the list of completed records stay within their caps, at
\* every length of the queue and whatever fails.
THEOREM CapsAreKept == Spec => []QueuesAreBounded
<1>1. Init => QueuesAreBounded
  <2> SUFFICES ASSUME Init PROVE QueuesAreBounded
    OBVIOUS
  <2>1. DOMAIN stored = {} /\ items = {}
    BY DEF Init
  <2> QED
    BY <2>1, FS_EmptySet, OutboxAssumption DEF QueuesAreBounded, OutboxAssumption
<1>2. IInv /\ IInv' /\ QueuesAreBounded /\ [Next]_vars => QueuesAreBounded'
  BY BoundedStep
<1> QED
  BY <1>1, <1>2, Invariant, PTL DEF Spec

-----------------------------------------------------------------------------
(* The mark of the record under way *)

InFlight ==
  \A q \in items : rec[q].status = "processing" => phase = "fetch" /\ cur = q

\* The turn of the loop that sends a record makes it the one that is marked.
LEMMA SendingMarks ==
  ASSUME IInv, UNCHANGED items, NEW r \in Seq(Record), Len(r) = Len(rec),
         NEW S, S \subseteq Ids, NEW w, SendFirst(S, r, w),
         \A q \in items : r[q].status # "processing"
  PROVE  InFlight'
<1>1. /\ items \subseteq 1..Len(r) /\ S \subseteq 1..Len(r)
      /\ \A p \in 1..Len(r) : r[p] \in Record
  BY ElementOfSeq DEF IInv, TypeOK, Ids
<1>2. PICK q \in S : Sent(q, S, r, w)
  BY <1>1, SendingStep
<1>3. \A p \in 1..Len(r) : p # q => rec'[p].status = r[p].status
  BY <1>2 DEF Sent
<1>4. phase' = "fetch" /\ cur' = q
  BY <1>2 DEF Sent
<1> QED
  BY <1>1, <1>3, <1>4 DEF InFlight

\* The head of the loop: the record behind it is no longer marked.
LEMMA NextRecordMarks ==
  ASSUME IInv, UNCHANGED items, NEW r \in Seq(Record), Len(r) = Len(rec), NEW w,
         NextRecord(r, w), \A q \in items : r[q].status # "processing"
  PROVE  InFlight'
<1>1. CASE SendFirst(work, r, w)
  BY <1>1, SendingMarks DEF IInv, TypeOK
<1>2. CASE rec' = r
  BY <1>2 DEF InFlight
<1> QED
  BY <1>1, <1>2 DEF NextRecord

LEMMA InFlightStep ==
  ASSUME IInv, InFlight, "auth" \notin Faults, [Next]_vars
  PROVE  InFlight'
<1>1. /\ rec \in Seq(Record) /\ Len(rec) \in Nat /\ items \subseteq Ids
      /\ \A q \in Ids : rec[q] \in Record
      /\ cur \in Ids \cup {0} /\ (cur = 0 <=> phase = "idle") /\ work \subseteq Ids
  BY Basics DEF IInv, TypeOK
<1>2. ASSUME UNCHANGED <<phase, cur>>, items' \subseteq items,
             \A q \in Ids : rec'[q].status = "processing" => rec[q].status = "processing"
      PROVE  InFlight'
  BY <1>1, <1>2 DEF InFlight
<1>3. ASSUME Waiting, items' \subseteq items, NEW s \in Statuses, s # "processing",
             \A q \in Ids : rec'[q].status = IF q = cur THEN s ELSE rec[q].status
      PROVE  \A q \in items' : rec'[q].status # "processing"
  BY <1>1, <1>3 DEF InFlight
<1>4. ASSUME NEW t \in Txs, Enqueue(t) PROVE InFlight'
  <2> DEFINE new == [tx |-> t, status |-> "pending", retries |-> 0]
  <2>1. new \in Record
    BY OutboxAssumption DEF Record, Statuses, OutboxAssumption
  <2>2. /\ rec' = Append(rec, new) /\ UNCHANGED <<phase, cur>>
        /\ items' \subseteq items \cup {Len(rec) + 1}
    BY <1>4 DEF Enqueue
  <2>3. /\ \A q \in Ids : rec'[q] = rec[q]
        /\ rec'[Len(rec) + 1].status = "pending"
    BY <1>1, <2>1, <2>2 DEF Ids
  <2> QED
    BY <1>1, <2>2, <2>3 DEF InFlight
<1>5. CASE Reload
  <2>1. \A q \in items' : q \in DOMAIN stored /\ q \in Ids /\ stored[q] \in Record
    BY <1>5 DEF Reload, IInv, TypeOK
  <2>2. \A q \in items' : rec'[q] = Recovered(stored[q])
    BY <1>5, <2>1 DEF Reload
  <2>3. \A q \in items' : Recovered(stored[q]).status # "processing"
    BY <2>1 DEF Recovered, Record
  <2> QED
    BY <2>2, <2>3 DEF InFlight
<1>6. ASSUME NEW q \in items, RetryItem(q) PROVE InFlight'
  <2>1. rec' = [rec EXCEPT ![q] = Reset(@)] /\ items' = items /\ UNCHANGED <<phase, cur>>
    BY <1>6 DEF RetryItem
  <2>2. Reset(rec[q]) \in Record /\ Reset(rec[q]).status = "pending"
    BY <1>1, ResetRecord
  <2> QED
    BY <1>1, <1>2, <2>1, <2>2 DEF Ids
<1>7. CASE RetryAll
  <2>1. \A q \in Ids : rec'[q] = rec[q] \/ rec'[q] = Reset(rec[q])
    BY <1>7 DEF RetryAll
  <2>2. \A q \in Ids : Reset(rec[q]).status = "pending"
    BY <1>1, ResetRecord
  <2> QED
    BY <1>2, <1>7, <2>1, <2>2 DEF RetryAll
<1>8. CASE StartFlush
  <2> DEFINE S == {q \in items : Eligible(q)}
  <2>1. SendFirst(S, rec, wire) /\ UNCHANGED items /\ phase = "idle"
    BY <1>8 DEF StartFlush
  <2>2. S \subseteq Ids /\ \A q \in items : rec[q].status # "processing"
    BY <1>1, <2>1 DEF InFlight
  <2> HIDE DEF S
  <2> QED
    BY <1>1, <2>1, <2>2, SendingMarks
<1>9. CASE AfterDelay
  <2>1. NextRecord(rec, wire) /\ UNCHANGED items /\ phase = "delay"
    BY <1>9 DEF AfterDelay
  <2>2. \A q \in items : rec[q].status # "processing"
    BY <2>1 DEF InFlight
  <2> QED
    BY <1>1, <2>1, <2>2, NextRecordMarks
<1>10. CASE OkReply
  <2>1. /\ rec' = [rec EXCEPT ![cur].status = "completed"]
        /\ items' \subseteq items /\ Waiting /\ cur \in 1..Len(rec)
    BY <1>1, <1>10 DEF OkReply, SetStatus, Waiting, Ids
  <2>2. "completed" \in Statuses
    BY DEF Statuses
  <2>3. \A q \in Ids : rec'[q].status = IF q = cur THEN "completed" ELSE rec[q].status
    BY <1>1, <2>1, <2>2, StatusChange DEF Ids, Record
  <2>4. \A q \in items' : rec'[q].status # "processing"
    BY <1>3, <2>1, <2>2, <2>3
  <2> QED
    BY <2>4 DEF InFlight
<1>11. CASE SchemaReply
  <2> DEFINE r == [rec EXCEPT ![cur].status = "dead_letter"]
  <2>1. cur \in 1..Len(rec) /\ "dead_letter" \in Statuses /\ phase = "fetch"
    BY <1>1, <1>11 DEF SchemaReply, Waiting, Ids, Statuses
  <2>2. /\ r \in Seq(Record) /\ Len(r) = Len(rec)
        /\ \A q \in Ids : r[q].status = IF q = cur THEN "dead_letter" ELSE rec[q].status
    BY <1>1, <2>1, StatusChange DEF Ids, Record
  <2>3. \A q \in items : r[q].status # "processing"
    BY <1>1, <2>2 DEF InFlight
  <2>4. NextRecord(r, wire \ {cur}) /\ UNCHANGED items
    BY <1>11 DEF SchemaReply
  <2> HIDE DEF r
  <2> QED
    BY <2>2, <2>3, <2>4, NextRecordMarks
<1>12. CASE TransientReply \/ NetworkError
  <2> DEFINE s == IF rec[cur].retries + 1 >= MaxRetries THEN "dead_letter" ELSE "failed"
  <2>1. cur \in 1..Len(rec) /\ Waiting /\ items' = items
    BY <1>1, <1>12 DEF TransientReply, NetworkError, Waiting, Ids
  <2>2. rec[cur].retries <= RetryBound
    BY <1>1, <1>12, <2>1, OutboxAssumption
       DEF TransientReply, NetworkError, OutboxAssumption, Record, Ids
  <2>3. PICK e \in {s, "failed"} : rec' = [rec EXCEPT ![cur] = Attempted(@, e)]
    BY <1>12 DEF TransientReply, NetworkError
  <2>4. e \in Statuses /\ e # "processing"
    BY DEF Statuses
  <2> HIDE DEF s
  <2>5. \A q \in Ids : rec'[q].status = IF q = cur THEN e ELSE rec[q].status
    BY <1>1, <2>1, <2>2, <2>3, <2>4, AttemptChange DEF Ids
  <2>6. \A q \in items' : rec'[q].status # "processing"
    BY <1>3, <2>1, <2>4, <2>5
  <2> QED
    BY <2>6 DEF InFlight
<1>13. ASSUME NEW gone, Drop(gone) PROVE InFlight'
  BY <1>2, <1>13 DEF Drop
<1>14. CASE UNCHANGED <<phase, cur, rec, items>>
  BY <1>2, <1>14
<1>15. CASE UserStep
  BY <1>4, <1>6, <1>7, <1>8, <1>13, <1>15
     DEF UserStep, RemoveItem, ClearCompleted, ClearDeadLetters, ManualFlush
<1>16. CASE TimerFires
  BY <1>8, <1>14, <1>16 DEF TimerFires
<1>17. CASE (\E q \in wire : ServerExecutes(q)) \/ Login \/ Logout \/ NetworkChange
            \/ UNCHANGED vars
  BY <1>14, <1>17 DEF ServerExecutes, Login, Logout, Initialize, NetworkChange, client, vars
<1>18. ~AuthReply
  BY DEF AuthReply
<1> QED
  BY <1>5, <1>9, <1>10, <1>11, <1>12, <1>15, <1>16, <1>17, <1>18 DEF Next, Reply

\* Only a 401 or 403 leaves the mark on a record nobody is waiting for: without one
\* the comment of that branch is true of every history of every length.
THEOREM OnlyAuthStrands == Spec => []ProcessingIsInFlight
<1>1. ProcessingIsInFlight <=> ("auth" \notin Faults => InFlight)
  BY DEF ProcessingIsInFlight, InFlight
<1>2. Init => InFlight
  BY DEF Init, InFlight
<1>3. IInv /\ ("auth" \notin Faults => InFlight) /\ [Next]_vars
        => ("auth" \notin Faults => InFlight)'
  BY InFlightStep
<1> QED
  BY <1>1, <1>2, <1>3, Invariant, PTL DEF Spec

=============================================================================
