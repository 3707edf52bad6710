------------------------- MODULE DegradedStoreProofs -------------------------
(***************************************************************************)
(* Theorems about DegradedStore, for any set of writes, any capacity, any  *)
(* number of replays, connection errors and restarts, and any faults.      *)
(***************************************************************************)
EXTENDS DegradedStore, SequenceTheorems, TLAPS

-----------------------------------------------------------------------------
(* Lemmas about sequences *)

\* slice(-n) keeps the end of a sequence.
LEMMA NewestFacts ==
  ASSUME NEW s \in Seq(Ops)
  PROVE  /\ Newest(s) \in Seq(Ops)
         /\ Len(Newest(s)) = IF Len(s) <= Cap THEN Len(s) ELSE Cap
         /\ \A i \in 1..Len(Newest(s)) : Newest(s)[i] = s[Len(s) - Len(Newest(s)) + i]
<1>1. Cap \in Nat \ {0} /\ Len(s) \in Nat
  BY StoreAssumption, LenProperties DEF StoreAssumption
<1>2. CASE Len(s) <= Cap
  BY <1>1, <1>2 DEF Newest
<1>3. CASE Len(s) > Cap
  <2> DEFINE m == Len(s) - Cap + 1
  <2>1. m \in Int /\ Len(s) \in Int /\ m <= Len(s) /\ \A i \in m..Len(s) : s[i] \in Ops
    BY <1>1, <1>3, ElementOfSeq
  <2>2. Newest(s) = SubSeq(s, m, Len(s))
    BY <1>1, <1>3 DEF Newest
  <2>3. /\ SubSeq(s, m, Len(s)) \in Seq(Ops)
        /\ Len(SubSeq(s, m, Len(s))) = Len(s) - m + 1
        /\ \A i \in 1..(Len(s) - m + 1) : SubSeq(s, m, Len(s))[i] = s[m + i - 1]
    BY <2>1, SubSeqProperties
  <2>4. Len(s) - m + 1 = Cap /\ \A i \in 1..Cap : m + i - 1 = Len(s) - Cap + i
    BY <1>1, <1>3
  <2> HIDE DEF m
  <2> QED
    BY <1>1, <1>3, <2>2, <2>3, <2>4
<1> QED
  BY <1>1, <1>2, <1>3

\* A full queue that evicts its oldest write and appends another stays the end
\* of the log.
LEMMA NewestAppend ==
  ASSUME NEW s \in Seq(Ops), NEW o \in Ops
  PROVE  Newest(Append(s, o)) =
           Append(IF Len(Newest(s)) >= Cap THEN Tail(Newest(s)) ELSE Newest(s), o)
<1> DEFINE n == Newest(s)
           a == Append(s, o)
           m == IF Len(n) >= Cap THEN Tail(n) ELSE n
<1>1. Cap \in Nat \ {0} /\ Len(s) \in Nat
  BY StoreAssumption, LenProperties DEF StoreAssumption
<1>2. /\ n \in Seq(Ops)
      /\ Len(n) = IF Len(s) <= Cap THEN Len(s) ELSE Cap
      /\ \A i \in 1..Len(n) : n[i] = s[Len(s) - Len(n) + i]
  BY NewestFacts
<1>3. /\ a \in Seq(Ops)
      /\ Len(a) = Len(s) + 1
      /\ \A i \in 1..Len(s) : a[i] = s[i]
      /\ a[Len(s) + 1] = o
  BY AppendProperties
<1>4. /\ Newest(a) \in Seq(Ops)
      /\ Len(Newest(a)) = IF Len(a) <= Cap THEN Len(a) ELSE Cap
      /\ \A i \in 1..Len(Newest(a)) : Newest(a)[i] = a[Len(a) - Len(Newest(a)) + i]
  BY <1>3, NewestFacts
<1>5. /\ m \in Seq(Ops)
      /\ Len(m) = IF Len(s) >= Cap THEN Cap - 1 ELSE Len(s)
      /\ \A i \in 1..Len(m) : m[i] = s[Len(s) - Len(m) + i]
  <2>1. CASE Len(s) >= Cap
    <3>1. Len(n) = Cap /\ n # <<>>
      BY <1>1, <1>2, <2>1, EmptySeq
    <3>2. /\ Tail(n) \in Seq(Ops)
          /\ Len(Tail(n)) = Cap - 1
          /\ \A i \in 1..Len(Tail(n)) : Tail(n)[i] = n[i + 1]
      BY <1>2, <3>1, HeadTailProperties
    <3>3. m = Tail(n)
      BY <1>1, <3>1
    <3>4. \A i \in 1..(Cap - 1) : Tail(n)[i] = s[Len(s) - (Cap - 1) + i]
      <4> TAKE i \in 1..(Cap - 1)
      <4>1. Tail(n)[i] = n[i + 1] /\ i + 1 \in 1..Len(n)
        BY <1>1, <3>1, <3>2
      <4>2. n[i + 1] = s[Len(s) - Cap + (i + 1)]
        BY <1>2, <3>1, <4>1
      <4>3. Len(s) - Cap + (i + 1) = Len(s) - (Cap - 1) + i
        BY <1>1
      <4> QED
        BY <4>1, <4>2, <4>3
    <3> HIDE DEF m, n
    <3> QED
      BY <2>1, <3>2, <3>3, <3>4
  <2>2. CASE Len(s) < Cap
    <3> HIDE DEF n
    <3>1. Len(n) = Len(s) /\ ~(Len(n) >= Cap) /\ ~(Len(s) >= Cap)
      BY <1>1, <1>2, <2>2
    <3>2. m = n
      BY <3>1
    <3> HIDE DEF m
    <3> QED
      BY <1>2, <3>1, <3>2
  <2> HIDE DEF m, n
  <2> QED
    BY <1>1, <2>1, <2>2
<1>6. /\ Append(m, o) \in Seq(Ops)
      /\ Len(Append(m, o)) = Len(m) + 1
      /\ \A i \in 1..Len(m) : Append(m, o)[i] = m[i]
      /\ Append(m, o)[Len(m) + 1] = o
  <2> HIDE DEF m
  <2> QED
    BY <1>5, AppendProperties
<1>7. Len(Newest(a)) = Len(Append(m, o)) /\ Len(m) \in Nat /\ Len(m) <= Len(s)
  <2> HIDE DEF m, a, n
  <2> QED
    BY <1>1, <1>3, <1>4, <1>5, <1>6
<1>8. \A i \in 1..Len(Newest(a)) : Newest(a)[i] = Append(m, o)[i]
  <2> HIDE DEF m, a, n
  <2> TAKE i \in 1..Len(Newest(a))
  <2>1. Newest(a)[i] = a[Len(s) - Len(m) + i]
    <3>1. Len(a) - Len(Newest(a)) + i = Len(s) - Len(m) + i
      BY <1>1, <1>3, <1>6, <1>7
    <3> QED
      BY <1>4, <3>1
  <2>2. CASE i = Len(m) + 1
    BY <1>1, <1>3, <1>6, <1>7, <2>1, <2>2
  <2>3. CASE i \in 1..Len(m)
    <3>1. Len(s) - Len(m) + i \in 1..Len(s)
      BY <1>1, <1>7, <2>3
    <3> QED
      BY <1>3, <1>5, <1>6, <2>1, <2>3, <3>1
  <2> QED
    BY <1>6, <1>7, <2>2, <2>3
<1> QED
  <2> HIDE DEF m, a, n
  <2>1. Newest(a) = Append(m, o)
    BY <1>4, <1>6, <1>7, <1>8, SeqEqual
  <2> QED
    BY <2>1 DEF m, a, n

\* What a sequence holds after an append, and after its head is taken off.
LEMMA ElementsAppend ==
  ASSUME NEW s \in Seq(Ops), NEW o \in Ops
  PROVE  Elements(Append(s, o)) = Elements(s) \cup {o}
<1>1. /\ Len(s) \in Nat
      /\ Len(Append(s, o)) = Len(s) + 1
      /\ \A i \in 1..Len(s) : Append(s, o)[i] = s[i]
      /\ Append(s, o)[Len(s) + 1] = o
  BY AppendProperties, LenProperties
<1> QED
  BY <1>1 DEF Elements

LEMMA ElementsTail ==
  ASSUME NEW s \in Seq(Ops), s # <<>>
  PROVE  /\ Head(s) = s[1] /\ Head(s) \in Ops
         /\ Elements(s) = {Head(s)} \cup Elements(Tail(s))
         /\ Elements(s) \subseteq Ops
<1>1. /\ Len(s) \in Nat \ {0}
      /\ Tail(s) \in Seq(Ops)
      /\ Len(Tail(s)) = Len(s) - 1
      /\ \A i \in 1..Len(Tail(s)) : Tail(s)[i] = s[i + 1]
      /\ Head(s) = s[1]
  BY HeadTailProperties, LenProperties, EmptySeq
<1>2. \A i \in 1..Len(s) : i = 1 \/ i - 1 \in 1..Len(Tail(s))
  BY <1>1
<1>3. \A i \in 1..Len(s) : s[i] = Head(s) \/ s[i] \in Elements(Tail(s))
  <2> TAKE i \in 1..Len(s)
  <2>1. CASE i = 1
    BY <1>1, <2>1
  <2>2. CASE i - 1 \in 1..Len(Tail(s))
    <3>1. Tail(s)[i - 1] = s[i]
      BY <1>1, <2>2
    <3> QED
      BY <2>2, <3>1 DEF Elements
  <2> QED
    BY <1>2, <2>1, <2>2
<1>4. Elements(Tail(s)) \subseteq Elements(s)
  BY <1>1 DEF Elements
<1>5. Head(s) \in Elements(s) /\ Elements(s) \subseteq Ops
  BY <1>1, ElementOfSeq DEF Elements
<1> QED
  BY <1>1, <1>3, <1>4, <1>5 DEF Elements

LEMMA ElementsOfNone ==
  ASSUME NEW s, Len(s) = 0
  PROVE  Elements(s) = {}
<1>1. 1..Len(s) = {}
  OBVIOUS
<1> QED
  BY <1>1 DEF Elements

LEMMA ElementsOfFew ==
  ASSUME NEW o \in Ops
  PROVE  /\ Elements(<<>>) = {}
         /\ <<o>> \in Seq(Ops) /\ Len(<<o>>) = 1 /\ <<o>>[1] = o
         /\ Elements(<<o>>) = {o}
BY DEF Elements

\* The rest of a suffix is a suffix.
LEMMA SuffixTail ==
  ASSUME NEW s \in Seq(Ops), NEW t \in Seq(Ops), t # <<>>, IsSuffix(t, s)
  PROVE  IsSuffix(Tail(t), s)
<1>1. /\ Len(s) \in Nat /\ Len(t) \in Nat \ {0}
      /\ Len(Tail(t)) = Len(t) - 1
      /\ \A i \in 1..Len(Tail(t)) : Tail(t)[i] = t[i + 1]
  BY HeadTailProperties, LenProperties, EmptySeq
<1>2. \A i \in 1..Len(Tail(t)) : Tail(t)[i] = s[Len(s) - Len(Tail(t)) + i]
  <2> TAKE i \in 1..Len(Tail(t))
  <2>1. i + 1 \in 1..Len(t) /\ Len(s) - Len(t) + (i + 1) = Len(s) - Len(Tail(t)) + i
    BY <1>1
  <2> QED
    BY <1>1, <2>1 DEF IsSuffix
<1> QED
  BY <1>1, <1>2 DEF IsSuffix

\* A suffix holds nothing new.
LEMMA SuffixElements ==
  ASSUME NEW s \in Seq(Ops), NEW t \in Seq(Ops), IsSuffix(t, s)
  PROVE  Elements(t) \subseteq Elements(s)
<1>1. Len(s) \in Nat /\ Len(t) \in Nat
  BY LenProperties
<1>2. \A i \in 1..Len(t) : t[i] \in Elements(s)
  <2> TAKE i \in 1..Len(t)
  <2>1. Len(s) - Len(t) + i \in 1..Len(s) /\ t[i] = s[Len(s) - Len(t) + i]
    BY <1>1 DEF IsSuffix
  <2> QED
    BY <2>1 DEF Elements
<1> QED
  BY <1>2 DEF Elements

-----------------------------------------------------------------------------
(* Facts every step starts from *)

LEMMA Basics ==
  ASSUME TypeOK
  PROVE  /\ Cap \in Nat \ {0}
         /\ queue \in Seq(Ops) /\ Len(queue) \in Nat /\ Elements(queue) \subseteq Ops
         /\ wal \in Seq(Ops)
         /\ \A s \in Slots : todo[s] \in Seq(Ops) /\ Len(todo[s]) \in Nat
         /\ \A o \in Ops : Row[o] \in Rows
<1>1. /\ queue \in Seq(Ops) /\ wal \in Seq(Ops)
      /\ \A s \in Slots : todo[s] \in Seq(Ops)
  BY DEF TypeOK
<1>2. Len(queue) \in Nat /\ \A s \in Slots : Len(todo[s]) \in Nat
  BY <1>1, LenProperties
<1>3. Elements(queue) \subseteq Ops
  BY <1>1, ElementOfSeq DEF Elements
<1> QED
  BY <1>1, <1>2, <1>3, StoreAssumption DEF StoreAssumption

\* A queue that fits is what is left of a log that equals it.
LEMMA NewestOfFew ==
  ASSUME NEW s \in Seq(Ops), Len(s) <= Cap
  PROVE  Newest(s) = s
BY DEF Newest

-----------------------------------------------------------------------------
(* Each action preserves the inductive invariant *)

\* A step that leaves the queue, the log, MySQL and the replays alone.
LEMMA QuietStep ==
  ASSUME IInv, TypeOK', CommittedIsApplied',
         UNCHANGED <<queue, wal, todo, applied, row, newest, mishaps>>,
         acked' \subseteq acked \cup applied
  PROVE  IInv'
<1>1. QueueIsInLog' /\ AckedIsKept'
  BY DEF IInv, QueueIsInLog, AckedIsKept, NothingLost, Elements
<1>2. ReplayIsSuffix'
  BY DEF IInv, ReplayIsSuffix, NothingLost, Elements
<1>3. SettledRows' /\ LastQueuedIsNewest'
  BY DEF IInv, SettledRows, LastQueuedIsNewest
<1> QED
  BY <1>1, <1>2, <1>3 DEF IInv

\* What Buffer does to the types of what it changes.
LEMMA BufferType ==
  ASSUME TypeOK, NEW o \in Ops, NEW S, S \subseteq Mishaps, Buffer(o, S)
  PROVE  /\ queue' \in Seq(Ops) /\ Len(queue') <= Cap
         /\ wal' \in Seq(Ops)
         /\ newest' \in [Rows -> Ops \cup {NoOp}]
         /\ mishaps' \subseteq Mishaps
         /\ mishaps \cup S \subseteq mishaps'
<1> DEFINE m == IF Len(queue) >= Cap THEN Tail(queue) ELSE queue
<1>1. Cap \in Nat \ {0} /\ queue \in Seq(Ops) /\ Len(queue) \in Nat /\ Len(queue) <= Cap
      /\ wal \in Seq(Ops) /\ Row[o] \in Rows
  BY Basics DEF TypeOK
<1>2. m \in Seq(Ops) /\ Len(m) < Cap
  <2>1. CASE Len(queue) >= Cap
    <3>1. queue # <<>>
      BY <1>1, <2>1, EmptySeq
    <3>2. Tail(queue) \in Seq(Ops) /\ Len(Tail(queue)) = Len(queue) - 1
      BY <1>1, <3>1, HeadTailProperties
    <3> QED
      BY <1>1, <2>1, <3>2
  <2>2. CASE ~(Len(queue) >= Cap)
    BY <1>1, <2>2
  <2> QED
    BY <2>1, <2>2
<1>3. queue' = Append(m, o)
  BY DEF Buffer
<1>4. queue' \in Seq(Ops) /\ Len(queue') = Len(m) + 1 /\ Len(m) \in Nat
  <2> HIDE DEF m
  <2> QED
    BY <1>2, <1>3, AppendProperties, LenProperties
<1>5. wal' \in Seq(Ops)
  BY SMTT(30), <1>1, AppendProperties DEF Buffer
<1>6. newest' \in [Rows -> Ops \cup {NoOp}]
  BY <1>1 DEF Buffer, TypeOK
<1>7. mishaps' \subseteq Mishaps /\ mishaps \cup S \subseteq mishaps'
  <2>1. \A c \in BOOLEAN : When(c, "evicted") \subseteq Mishaps
                           /\ When(c, "overlap") \subseteq Mishaps
    BY DEF When, Mishaps
  <2>2. {"disk"} \subseteq Mishaps /\ mishaps \subseteq Mishaps
    BY DEF Mishaps, TypeOK
  <2>3. (Len(queue) >= Cap) \in BOOLEAN /\ Replaying \in BOOLEAN
    BY DEF Replaying
  <2> QED
    BY <2>1, <2>2, <2>3 DEF Buffer, Note
<1> HIDE DEF m
<1> QED
  BY <1>1, <1>2, <1>4, <1>5, <1>6, <1>7

\* Buffering a write: the log gets it too, and unless that is noted as a mishap
\* the queue is not full and nothing is being replayed.
LEMMA BufferStep ==
  ASSUME IInv, NEW o \in Ops, NEW S, S \subseteq Mishaps, Buffer(o, S),
         TypeOK', CommittedIsApplied',
         UNCHANGED <<todo, applied, row>>,
         acked' \subseteq acked \cup {o}
  PROVE  IInv'
<1>1. /\ Cap \in Nat \ {0}
      /\ queue \in Seq(Ops) /\ Len(queue) \in Nat /\ wal \in Seq(Ops)
      /\ Row[o] \in Rows
  BY Basics DEF IInv
<1>2. mishaps \cup S \subseteq mishaps'
  BY BufferType DEF IInv
<1>3. QueueIsInLog'
  <2> SUFFICES ASSUME "disk" \notin mishaps' PROVE queue' = Newest(wal')
    BY DEF QueueIsInLog
  <2>1. wal' = Append(wal, o)
    BY DEF Buffer, Note
  <2>2. queue = Newest(wal)
    BY <1>2 DEF IInv, QueueIsInLog
  <2>3. queue' = Append(IF Len(queue) >= Cap THEN Tail(queue) ELSE queue, o)
    BY DEF Buffer
  <2> QED
    BY <1>1, <2>1, <2>2, <2>3, NewestAppend
<1>4. ASSUME NothingLost'
      PROVE  /\ NothingLost
             /\ queue' = Append(queue, o)
             /\ \A s \in Slots : todo[s] = <<>>
  <2>1. NothingLost
    BY <1>2, <1>4 DEF NothingLost
  <2>2. "evicted" \notin mishaps' /\ "overlap" \notin mishaps'
    BY <1>4 DEF NothingLost
  <2>3. ~(Len(queue) >= Cap) /\ ~Replaying
    BY <2>2 DEF Buffer, Note, When
  <2> QED
    BY <2>1, <2>3 DEF Buffer, Replaying
<1>5. AckedIsKept'
  <2> SUFFICES ASSUME NothingLost' PROVE acked' \subseteq applied' \cup Elements(queue')
    BY DEF AckedIsKept
  <2>1. Elements(queue') = Elements(queue) \cup {o}
    <3>1. Elements(Append(queue, o)) = Elements(queue) \cup {o}
      BY <1>1, ElementsAppend
    <3> QED
      BY <1>4, <3>1
  <2> QED
    BY <1>4, <2>1 DEF IInv, AckedIsKept
<1>6. ReplayIsSuffix'
  BY <1>4 DEF ReplayIsSuffix
<1>7. ASSUME mishaps' = {}
      PROVE  /\ mishaps = {} /\ NothingLost'
             /\ newest' = [newest EXCEPT ![Row[o]] = o]
             /\ queue' = Append(queue, o)
  BY <1>2, <1>4, <1>7 DEF NothingLost, Buffer
<1>8. SettledRows'
  <2> SUFFICES ASSUME mishaps' = {} PROVE SettledRows'
    BY DEF SettledRows
  <2>1. Elements(queue') = Elements(queue) \cup {o}
    <3>1. Elements(Append(queue, o)) = Elements(queue) \cup {o}
      BY <1>1, ElementsAppend
    <3> QED
      BY <1>7, <3>1
  <2>2. Touched(queue') = Touched(queue) \cup {Row[o]}
    BY <2>1 DEF Touched
  <2>3. \A k \in Rows \ Touched(queue') : row'[k] = newest'[k]
    BY <1>7, <2>2 DEF IInv, SettledRows, TypeOK
  <2> QED
    BY <1>4, <1>7, <2>3 DEF SettledRows
<1>9. LastQueuedIsNewest'
  <2> SUFFICES ASSUME mishaps' = {},
                      NEW i \in 1..Len(queue'),
                      \A j \in 1..Len(queue') : j > i => Row[queue'[j]] # Row[queue'[i]]
               PROVE  newest'[Row[queue'[i]]] = queue'[i]
    BY DEF LastQueuedIsNewest
  <2>1. /\ Len(queue') = Len(queue) + 1
        /\ \A j \in 1..Len(queue) : queue'[j] = queue[j]
        /\ queue'[Len(queue) + 1] = o
    BY SMTT(30), <1>1, <1>7, AppendProperties
  <2>2. CASE i = Len(queue) + 1
    BY <1>1, <1>7, <2>1, <2>2 DEF IInv, TypeOK
  <2>3. CASE i \in 1..Len(queue)
    <3>1. Row[queue[i]] # Row[o]
      BY <1>1, <2>1, <2>3
    <3>2. \A j \in 1..Len(queue) : j > i => Row[queue[j]] # Row[queue[i]]
      BY <1>1, <2>1, <2>3
    <3>3. newest[Row[queue[i]]] = queue[i]
      BY <1>7, <2>3, <3>2 DEF IInv, LastQueuedIsNewest
    <3>4. newest'[Row[queue[i]]] = newest[Row[queue[i]]]
      <4>1. Row[queue[i]] \in Rows
        BY <1>1, <2>3, Basics, ElementOfSeq DEF IInv
      <4> QED
        BY <1>7, <3>1, <4>1 DEF IInv, TypeOK
    <3> QED
      BY <2>1, <2>3, <3>3, <3>4
  <2> QED
    BY <1>1, <2>1, <2>2, <2>3
<1> QED
  BY <1>3, <1>5, <1>6, <1>8, <1>9 DEF IInv

LEMMA DirectCommitsInv == ASSUME IInv, NEW o \in Ops, DirectCommits(o)  PROVE IInv'
<1>1. /\ queue \in Seq(Ops) /\ Row[o] \in Rows /\ Elements(queue) \subseteq Ops
      /\ \A p \in Ops : Row[p] \in Rows
  BY Basics DEF IInv
<1>2. /\ UNCHANGED <<active, queue, wal, todo, direct, acked, drops, crashes>>
      /\ o \in direct /\ committed' = committed \cup {o}
      /\ applied' = applied \cup {o}
      /\ row' = [row EXCEPT ![Row[o]] = o]
      /\ newest' = [newest EXCEPT ![Row[o]] = o]
      /\ mishaps' = mishaps \cup When(\E p \in Elements(queue) : Row[p] = Row[o], "overtaken")
  BY DEF DirectCommits, Note
<1>3. mishaps \subseteq mishaps' /\ mishaps' \subseteq Mishaps
  BY <1>2 DEF IInv, TypeOK, When, Mishaps
<1>4. row' \in [Rows -> Ops \cup {NoOp}] /\ newest' \in [Rows -> Ops \cup {NoOp}]
  BY <1>1, <1>2 DEF IInv, TypeOK
<1>5. TypeOK' /\ CommittedIsApplied'
  BY <1>2, <1>3, <1>4 DEF IInv, TypeOK, CommittedIsApplied
<1>6. Elements(queue') = Elements(queue)
  BY <1>2
<1>7. QueueIsInLog' /\ AckedIsKept'
  BY <1>2, <1>3, <1>6 DEF IInv, QueueIsInLog, AckedIsKept, NothingLost
<1>8. ReplayIsSuffix'
  BY <1>2, <1>3, <1>6 DEF IInv, ReplayIsSuffix, NothingLost
<1>9. ASSUME mishaps' = {} PROVE mishaps = {} /\ Row[o] \notin Touched(queue)
  BY <1>2, <1>9 DEF When, Touched
<1>10. \A k \in Rows : row[k] = newest[k] => row'[k] = newest'[k]
  BY <1>1, <1>2 DEF IInv, TypeOK
<1>11. SettledRows'
  BY <1>2, <1>9, <1>10 DEF IInv, SettledRows
<1>12. LastQueuedIsNewest'
  <2> SUFFICES ASSUME mishaps' = {},
                      NEW i \in 1..Len(queue),
                      \A j \in 1..Len(queue) : j > i => Row[queue[j]] # Row[queue[i]]
               PROVE  newest'[Row[queue[i]]] = queue[i]
    BY <1>2 DEF LastQueuedIsNewest
  <2>1. queue[i] \in Elements(queue)
    BY DEF Elements
  <2>2. Row[queue[i]] # Row[o] /\ Row[queue[i]] \in Rows
    BY <1>1, <1>9, <2>1 DEF Touched
  <2>3. newest[Row[queue[i]]] = queue[i]
    BY <1>9 DEF IInv, LastQueuedIsNewest
  <2> QED
    BY <1>2, <2>2, <2>3 DEF IInv, TypeOK
<1> QED
  BY <1>5, <1>7, <1>8, <1>11, <1>12 DEF IInv

\* What Sync leaves behind.
LEMMA SyncFacts ==
  ASSUME TypeOK, NEW q \in Seq(Ops), NEW S, S \subseteq Mishaps, Sync(q, S)
  PROVE  /\ wal' \in Seq(Ops)
         /\ mishaps \cup S \subseteq mishaps'
         /\ mishaps' \subseteq Mishaps
         /\ "disk" \notin mishaps' => wal' = q
BY EmptySeq DEF Sync, Note, TypeOK, Mishaps

LEMMA CheckSucceedsInv == ASSUME IInv, CheckSucceeds  PROVE IInv'
<1>1. /\ queue \in Seq(Ops) /\ wal \in Seq(Ops) /\ Cap \in Nat \ {0}
      /\ \A s \in Slots : todo[s] \in Seq(Ops)
      /\ TypeOK
  BY Basics DEF IInv
<1>2. /\ active' = TRUE
      /\ UNCHANGED <<queue, direct, committed, acked, applied, row, newest, drops, crashes>>
  BY DEF CheckSucceeds, mysql
<1>3. CASE queue = <<>> /\ Sync(queue, {}) /\ UNCHANGED todo
  <2>1. /\ wal' \in Seq(Ops)
        /\ mishaps \subseteq mishaps'
        /\ mishaps' \subseteq Mishaps
        /\ "disk" \notin mishaps' => wal' = queue
    BY <1>1, <1>3, SyncFacts DEF IInv
  <2>2. TypeOK' /\ CommittedIsApplied'
    BY <1>2, <1>3, <2>1 DEF IInv, TypeOK, CommittedIsApplied
  <2>3. Newest(queue) = queue
    BY <1>1, NewestOfFew DEF TypeOK
  <2>4. QueueIsInLog'
    BY <1>2, <2>1, <2>3 DEF QueueIsInLog
  <2>5. Elements(queue') = Elements(queue)
    BY <1>2
  <2>6. AckedIsKept' /\ ReplayIsSuffix'
    BY <1>2, <1>3, <2>1, <2>5 DEF IInv, AckedIsKept, ReplayIsSuffix, NothingLost
  <2>7. SettledRows' /\ LastQueuedIsNewest'
    BY <1>2, <1>3, <2>1 DEF IInv, SettledRows, LastQueuedIsNewest
  <2> QED
    BY <2>2, <2>4, <2>6, <2>7 DEF IInv
<1>4. CASE /\ queue # <<>>
           /\ \E s \in Slots : todo[s] = <<>> /\ todo' = [todo EXCEPT ![s] = queue]
           /\ Note(When(Replaying, "overlap"))
           /\ UNCHANGED wal
  <2>1. PICK s \in Slots : todo[s] = <<>> /\ todo' = [todo EXCEPT ![s] = queue]
    BY <1>4
  <2>2. mishaps \subseteq mishaps' /\ mishaps' \subseteq Mishaps
    BY <1>1, <1>4 DEF Note, When, Mishaps, TypeOK
  <2>3. TypeOK' /\ CommittedIsApplied'
    BY <1>1, <1>2, <1>4, <2>1, <2>2 DEF IInv, TypeOK, CommittedIsApplied
  <2>4. Elements(queue') = Elements(queue)
    BY <1>2
  <2>5. QueueIsInLog' /\ AckedIsKept'
    BY <1>2, <1>4, <2>2, <2>4 DEF IInv, QueueIsInLog, AckedIsKept, NothingLost
  <2>6. ASSUME NothingLost' PROVE NothingLost /\ \A t \in Slots : todo[t] = <<>>
    BY <1>4, <2>2, <2>6 DEF NothingLost, Note, When, Replaying
  <2>7. \A t \in Slots : todo'[t] = IF t = s THEN queue ELSE todo[t]
    BY <2>1 DEF IInv, TypeOK
  <2>8. IsSuffix(queue, queue)
    BY <1>1, LenProperties DEF IsSuffix
  <2>9. ReplayIsSuffix'
    BY <1>2, <2>4, <2>6, <2>7, <2>8 DEF ReplayIsSuffix
  <2>10. SettledRows'
    <3> SUFFICES ASSUME mishaps' = {} PROVE SettledRows'
      BY DEF SettledRows
    <3>1. mishaps = {} /\ NothingLost'
      BY <2>2 DEF NothingLost
    <3> QED
      BY <1>2, <2>6, <2>7, <3>1 DEF IInv, SettledRows
  <2>11. LastQueuedIsNewest'
    BY <1>2, <2>2 DEF IInv, LastQueuedIsNewest
  <2> QED
    BY <2>3, <2>5, <2>9, <2>10, <2>11 DEF IInv
<1> QED
  BY <1>3, <1>4 DEF CheckSucceeds

\* What a restart finds in the log is the queue the process had.
LEMMA RestartInv == ASSUME IInv, Restart  PROVE IInv'
<1>1. /\ wal \in Seq(Ops) /\ Cap \in Nat \ {0} /\ queue \in Seq(Ops) /\ Len(wal) \in Nat
  BY Basics, LenProperties DEF IInv
<1>2. /\ active' = FALSE
      /\ queue' = Newest(wal)
      /\ todo' = [s \in Slots |-> <<>>]
      /\ direct' = {} /\ committed' = {}
      /\ UNCHANGED <<wal, acked, applied, row, newest, mishaps, drops>>
      /\ crashes' = crashes + 1 /\ crashes < MaxCrashes
  BY DEF Restart, mysql
<1>3. queue' \in Seq(Ops) /\ Len(queue') <= Cap
  BY <1>1, <1>2, NewestFacts
<1>4. todo' \in [Slots -> Seq(Ops)] /\ \A s \in Slots : todo'[s] = <<>>
  BY <1>2, EmptySeq
<1>5. crashes' \in 0..MaxCrashes
  BY <1>2, StoreAssumption DEF StoreAssumption, IInv, TypeOK
<1>6. TypeOK' /\ CommittedIsApplied'
  BY <1>2, <1>3, <1>4, <1>5 DEF IInv, TypeOK, CommittedIsApplied
<1>7. QueueIsInLog'
  BY <1>2 DEF QueueIsInLog
<1>8. ASSUME "disk" \notin mishaps PROVE queue' = queue
  BY <1>2, <1>8 DEF IInv, QueueIsInLog
<1>9. AckedIsKept'
  <2> SUFFICES ASSUME NothingLost PROVE acked \subseteq applied \cup Elements(queue')
    BY <1>2 DEF AckedIsKept, NothingLost
  <2>1. queue' = queue
    BY <1>8 DEF NothingLost
  <2> QED
    BY <2>1 DEF IInv, AckedIsKept
<1>10. ReplayIsSuffix'
  BY <1>4 DEF ReplayIsSuffix
<1>11. SettledRows' /\ LastQueuedIsNewest'
  BY <1>2, <1>4, <1>8 DEF IInv, SettledRows, LastQueuedIsNewest
<1> QED
  BY <1>6, <1>7, <1>9, <1>10, <1>11 DEF IInv

\* What the end of one replayed write leaves behind, whatever became of it.
LEMMA AdvanceFacts ==
  ASSUME IInv, NEW s \in Slots, todo[s] # <<>>, NEW S, S \subseteq Mishaps, Advance(s, S)
  PROVE  /\ todo' \in [Slots -> Seq(Ops)]
         /\ \A t \in Slots : todo'[t] = IF t = s THEN Tail(todo[s]) ELSE todo[t]
         /\ queue' \in Seq(Ops) /\ Len(queue') <= Cap
         /\ wal' \in Seq(Ops)
         /\ mishaps \cup S \subseteq mishaps' /\ mishaps' \subseteq Mishaps
         /\ QueueIsInLog'
         /\ \/ Len(todo[s]) > 1 /\ queue' = queue
            \/ Len(todo[s]) = 1 /\ queue' = <<>>
<1>1. /\ TypeOK /\ Cap \in Nat \ {0} /\ <<>> \in Seq(Ops) /\ Len(<<>>) = 0
      /\ todo[s] \in Seq(Ops) /\ Tail(todo[s]) \in Seq(Ops)
  BY Basics, HeadTailProperties, EmptySeq DEF IInv
<1>2. /\ todo' \in [Slots -> Seq(Ops)]
      /\ \A t \in Slots : todo'[t] = IF t = s THEN Tail(todo[s]) ELSE todo[t]
  BY <1>1 DEF Advance, TypeOK
<1>3. CASE Len(todo[s]) > 1 /\ UNCHANGED <<queue, wal>> /\ Note(S)
  <2>1. mishaps' = mishaps \cup S
    BY <1>3 DEF Note
  <2> QED
    BY <1>1, <1>2, <1>3, <2>1 DEF IInv, TypeOK, QueueIsInLog
<1>4. CASE Len(todo[s]) = 1 /\ queue' = <<>> /\ Sync(<<>>, S)
  <2>1. /\ wal' \in Seq(Ops)
        /\ mishaps \cup S \subseteq mishaps'
        /\ mishaps' \subseteq Mishaps
        /\ "disk" \notin mishaps' => wal' = <<>>
    BY <1>1, <1>4, SyncFacts
  <2>2. Newest(<<>>) = <<>>
    BY <1>1 DEF Newest
  <2> QED
    BY <1>1, <1>2, <1>4, <2>1, <2>2 DEF QueueIsInLog
<1> QED
  BY <1>3, <1>4 DEF Advance

\* A replayed write that reached MySQL.
LEMMA AdvanceApplied ==
  ASSUME IInv, NEW s \in Slots, todo[s] # <<>>, Apply(Head(todo[s])), Advance(s, {}),
         UNCHANGED <<active, direct, committed, acked, newest, drops, crashes>>
  PROVE  IInv'
<1> DEFINE t == todo[s]
           h == Head(t)
<1>1. /\ TypeOK /\ t \in Seq(Ops) /\ t # <<>> /\ Len(t) \in Nat
      /\ queue \in Seq(Ops) /\ Len(queue) \in Nat
      /\ \A o \in Ops : Row[o] \in Rows
  BY Basics DEF IInv
<1>2. /\ h = t[1] /\ h \in Ops /\ Elements(t) \subseteq Ops
      /\ Elements(t) = {h} \cup Elements(Tail(t))
  BY <1>1, ElementsTail
<1>3. Tail(t) \in Seq(Ops) /\ Len(Tail(t)) = Len(t) - 1
      /\ \A i \in 1..Len(Tail(t)) : Tail(t)[i] = t[i + 1]
  BY <1>1, HeadTailProperties
<1>4. /\ todo' \in [Slots -> Seq(Ops)]
      /\ \A u \in Slots : todo'[u] = IF u = s THEN Tail(t) ELSE todo[u]
      /\ queue' \in Seq(Ops) /\ Len(queue') <= Cap
      /\ wal' \in Seq(Ops)
      /\ mishaps \subseteq mishaps' /\ mishaps' \subseteq Mishaps
      /\ QueueIsInLog'
      /\ \/ Len(t) > 1 /\ queue' = queue
         \/ Len(t) = 1 /\ queue' = <<>>
  BY AdvanceFacts
<1>5. applied' = applied \cup {h} /\ row' = [row EXCEPT ![Row[h]] = h]
  BY DEF Apply
<1> HIDE DEF h, t
<1>6. TypeOK' /\ CommittedIsApplied'
  BY <1>1, <1>2, <1>4, <1>5 DEF IInv, TypeOK, CommittedIsApplied
<1>7. NothingLost' => NothingLost
  BY <1>4 DEF NothingLost
<1>8. ASSUME NothingLost'
      PROVE  /\ \A u \in Slots : todo[u] # <<>> => u = s
             /\ IsSuffix(t, queue)
             /\ Elements(queue) \subseteq applied' \cup Elements(Tail(t))
  BY <1>1, <1>2, <1>5, <1>7, <1>8 DEF IInv, ReplayIsSuffix, t
<1>9. Len(t) = 1 => Tail(t) = <<>> /\ Elements(Tail(t)) = {}
  <2>1. Len(t) = 1 => Len(Tail(t)) = 0
    BY <1>1, <1>3
  <2>2. Len(t) = 1 => Tail(t) = <<>>
    BY <1>3, <2>1, EmptySeq
  <2> HIDE DEF t
  <2>3. Len(t) = 1 => Elements(Tail(t)) = {}
    BY <2>1, ElementsOfNone
  <2> QED
    BY <2>2, <2>3
<1>10. AckedIsKept'
  <2> SUFFICES ASSUME NothingLost' PROVE acked \subseteq applied' \cup Elements(queue')
    BY DEF AckedIsKept
  <2>1. acked \subseteq applied \cup Elements(queue)
    BY <1>7 DEF IInv, AckedIsKept
  <2>2. CASE queue' = queue
    BY <1>5, <2>1, <2>2
  <2>3. CASE Len(t) = 1
    BY <1>5, <1>8, <1>9, <2>1, <2>3
  <2> QED
    BY <1>4, <2>2, <2>3
<1>11. ReplayIsSuffix'
  <2> SUFFICES ASSUME NothingLost', NEW u \in Slots, todo'[u] # <<>>
               PROVE  /\ \A v \in Slots : todo'[v] # <<>> => v = u
                      /\ IsSuffix(todo'[u], queue')
                      /\ Elements(queue') \subseteq applied' \cup Elements(todo'[u])
    BY DEF ReplayIsSuffix
  <2>1. u = s /\ todo'[u] = Tail(t) /\ \A v \in Slots : todo'[v] # <<>> => v = s
    BY <1>4, <1>8
  <2>2. Len(t) > 1 /\ queue' = queue
    BY <1>4, <1>9, <2>1
  <2>3. IsSuffix(Tail(t), queue)
    BY <1>1, <1>8, SuffixTail
  <2> QED
    BY <1>8, <2>1, <2>2, <2>3
<1>12. ASSUME mishaps' = {}
       PROVE  /\ mishaps = {} /\ NothingLost'
              /\ \A k \in Rows \ Touched(Tail(t)) : row'[k] = newest[k]
  <2>1. mishaps = {} /\ NothingLost'
    BY <1>4, <1>12 DEF NothingLost
  <2>2. \A k \in Rows \ Touched(t) : row[k] = newest[k]
    BY <1>1, <2>1 DEF IInv, SettledRows, t
  <2> SUFFICES ASSUME NEW k \in Rows \ Touched(Tail(t)) PROVE row'[k] = newest[k]
    BY <2>1
  <2>3. CASE k # Row[h]
    <3>1. k \notin Touched(t)
      BY <1>2, <2>3 DEF Touched
    <3> QED
      BY <1>5, <2>2, <2>3, <3>1 DEF IInv, TypeOK
  <2>4. CASE k = Row[h]
    <3> DEFINE d == Len(queue) - Len(t) + 1
    <3>1. /\ d \in 1..Len(queue) /\ queue[d] = h
          /\ \A j \in 2..Len(t) : queue[Len(queue) - Len(t) + j] = t[j]
      <4>1. Len(t) <= Len(queue) /\ \A i \in 1..Len(t) : t[i] = queue[Len(queue) - Len(t) + i]
        BY <1>8, <2>1 DEF IsSuffix
      <4>2. Len(t) >= 1
        BY <1>1, EmptySeq
      <4> QED
        BY <1>1, <1>2, <4>1, <4>2
    <3>2. \A j \in 1..Len(queue) : j > d => Row[queue[j]] # k
      <4> TAKE j \in 1..Len(queue)
      <4> HAVE j > d
      <4> DEFINE i == j - (Len(queue) - Len(t))
      <4>1. i \in 2..Len(t) /\ Len(queue) - Len(t) + i = j
        BY <1>1, <3>1
      <4>2. i - 1 \in 1..Len(Tail(t)) /\ (i - 1) + 1 = i
        BY <1>1, <1>3, <4>1
      <4>3. queue[j] = t[i] /\ Tail(t)[i - 1] = t[i]
        BY <1>3, <3>1, <4>1, <4>2
      <4>4. queue[j] \in Elements(Tail(t))
        BY <4>2, <4>3 DEF Elements
      <4> QED
        BY <4>4 DEF Touched
    <3>3. newest[k] = h
      BY <2>1, <2>4, <3>1, <3>2 DEF IInv, LastQueuedIsNewest
    <3> QED
      BY <1>5, <2>4, <3>3 DEF IInv, TypeOK
  <2> QED
    BY <2>3, <2>4
<1>13. SettledRows'
  <2> SUFFICES ASSUME mishaps' = {}
               PROVE  /\ \A k \in Rows \ Touched(queue') : row'[k] = newest[k]
                      /\ \A u \in Slots : todo'[u] # <<>> =>
                           \A k \in Rows \ Touched(todo'[u]) : row'[k] = newest[k]
    BY DEF SettledRows
  <2>1. \A u \in Slots : todo'[u] # <<>> => todo'[u] = Tail(t)
    BY <1>4, <1>8, <1>12
  <2>2. Touched(Tail(t)) \subseteq Touched(queue')
    <3>1. CASE Len(t) = 1
      BY <1>9, <3>1 DEF Touched
    <3>2. CASE queue' = queue
      <4>1. IsSuffix(t, queue)
        BY <1>8, <1>12
      <4>2. IsSuffix(Tail(t), queue)
        BY <1>1, <4>1, SuffixTail
      <4>3. Elements(Tail(t)) \subseteq Elements(queue)
        BY <1>1, <1>3, <4>2, SuffixElements
      <4> QED
        BY <3>2, <4>3 DEF Touched
    <3> QED
      BY <1>4, <3>1, <3>2
  <2> QED
    BY <1>12, <2>1, <2>2
<1>14. LastQueuedIsNewest'
  <2>1. CASE queue' = queue
    BY <1>12, <2>1 DEF IInv, LastQueuedIsNewest
  <2>2. CASE queue' = <<>>
    BY <2>2 DEF LastQueuedIsNewest
  <2> QED
    BY <1>4, <2>1, <2>2
<1> QED
  BY <1>4, <1>6, <1>10, <1>11, <1>13, <1>14 DEF IInv

\* A replayed write that MySQL did not get: that is a mishap which loses writes.
LEMMA AdvanceSkipped ==
  ASSUME IInv, NEW s \in Slots, todo[s] # <<>>, NEW m \in {"unhandled", "query"},
         Advance(s, {m}),
         UNCHANGED <<active, direct, committed, acked, applied, row, newest, drops, crashes>>
  PROVE  IInv'
<1>1. {m} \subseteq Mishaps
  BY DEF Mishaps
<1>2. /\ todo' \in [Slots -> Seq(Ops)]
      /\ queue' \in Seq(Ops) /\ Len(queue') <= Cap
      /\ wal' \in Seq(Ops)
      /\ m \in mishaps' /\ mishaps' \subseteq Mishaps
      /\ QueueIsInLog'
  BY <1>1, AdvanceFacts
<1>3. TypeOK' /\ CommittedIsApplied'
  BY <1>2 DEF IInv, TypeOK, CommittedIsApplied
<1>4. ~NothingLost' /\ mishaps' # {}
  BY <1>2 DEF NothingLost
<1> QED
  BY <1>2, <1>3, <1>4 DEF IInv, AckedIsKept, ReplayIsSuffix, SettledRows, LastQueuedIsNewest

LEMMA ReplaySucceedsInv ==
  ASSUME IInv, NEW s \in Slots, ReplaySucceeds(s)
  PROVE  IInv'
<1>1. CASE Apply(Head(todo[s])) /\ Advance(s, {})
  BY <1>1, AdvanceApplied DEF ReplaySucceeds
<1>2. CASE UNCHANGED mysql /\ Advance(s, {"unhandled"})
  BY <1>2, AdvanceSkipped DEF ReplaySucceeds, mysql
<1> QED
  BY <1>1, <1>2 DEF ReplaySucceeds

LEMMA ReplayRefusedInv ==
  ASSUME IInv, NEW s \in Slots, ReplayRefused(s)
  PROVE  IInv'
BY AdvanceSkipped DEF ReplayRefused, mysql

\* A replay that is cut off keeps one write: without a mishap that was the last
\* one it had to do.
LEMMA ReplayDropsInv ==
  ASSUME IInv, NEW s \in Slots, ReplayDrops(s)
  PROVE  IInv'
<1> DEFINE t == todo[s]
           h == Head(t)
           S == When(Len(t) > 1, "cutoff")
<1>1. /\ TypeOK /\ t \in Seq(Ops) /\ t # <<>> /\ Len(t) \in Nat \ {0}
      /\ queue \in Seq(Ops) /\ Len(queue) \in Nat /\ Cap \in Nat \ {0}
      /\ \A o \in Ops : Row[o] \in Rows
  BY Basics, EmptySeq DEF IInv, ReplayDrops
<1>2. /\ h = t[1] /\ h \in Ops
      /\ Elements(t) = {h} \cup Elements(Tail(t))
  BY <1>1, ElementsTail
<1>3. /\ UNCHANGED <<direct, committed, acked, newest, crashes>>
      /\ todo' = [todo EXCEPT ![s] = <<>>]
      /\ queue' = <<h>>
      /\ Sync(<<h>>, S)
      /\ active' = FALSE
      /\ drops < MaxDrops /\ drops' = drops + 1
      /\ \/ applied' = applied \cup {h} /\ row' = [row EXCEPT ![Row[h]] = h]
         \/ applied' = applied /\ row' = row
  BY DEF ReplayDrops, Apply, mysql
<1>4. <<h>> \in Seq(Ops) /\ Len(<<h>>) = 1 /\ <<h>>[1] = h /\ Elements(<<h>>) = {h}
  <2> HIDE DEF h
  <2> QED
    BY <1>2, ElementsOfFew
<1>5. S \subseteq Mishaps
  BY DEF When, Mishaps
<1>6. /\ wal' \in Seq(Ops)
      /\ mishaps \cup S \subseteq mishaps' /\ mishaps' \subseteq Mishaps
      /\ "disk" \notin mishaps' => wal' = <<h>>
  <2> HIDE DEF S, h
  <2> QED
    BY <1>1, <1>3, <1>4, <1>5, SyncFacts
<1>7. \A u \in Slots : todo'[u] = IF u = s THEN <<>> ELSE todo[u]
  BY <1>3 DEF IInv, TypeOK
<1>8. ASSUME NothingLost' PROVE NothingLost /\ Len(t) = 1
  <2>1. NothingLost /\ "cutoff" \notin S
    BY <1>6, <1>8 DEF NothingLost
  <2> HIDE DEF t
  <2>2. ~(Len(t) > 1)
    BY <2>1 DEF When
  <2> QED
    BY SMTT(30), <1>1, <2>1, <2>2
<1> HIDE DEF S
<1>9. TypeOK'
  <2> HIDE DEF h
  <2>1. drops' \in 0..MaxDrops
    BY <1>3, StoreAssumption DEF StoreAssumption, IInv, TypeOK
  <2>2. todo' \in [Slots -> Seq(Ops)]
    BY <1>3, EmptySeq DEF IInv, TypeOK
  <2>3. row' \in [Rows -> Ops \cup {NoOp}] /\ applied' \subseteq Ops
    BY <1>1, <1>2, <1>3 DEF IInv, TypeOK
  <2>4. queue' \in Seq(Ops) /\ Len(queue') <= Cap
    BY <1>1, <1>3, <1>4
  <2> QED
    BY <1>3, <1>6, <2>1, <2>2, <2>3, <2>4 DEF IInv, TypeOK
<1>10. CommittedIsApplied'
  BY <1>3 DEF IInv, CommittedIsApplied
<1>11. QueueIsInLog'
  <2> HIDE DEF h
  <2>1. Newest(<<h>>) = <<h>>
    BY <1>1, <1>4 DEF Newest
  <2> QED
    BY <1>3, <1>6, <2>1 DEF QueueIsInLog
<1>12. (Tail(t) = <<>> /\ Elements(t) = {h}) \/ Len(t) # 1
  <2>1. Tail(t) \in Seq(Ops) /\ Len(Tail(t)) = Len(t) - 1
    BY <1>1, HeadTailProperties
  <2> HIDE DEF t, h
  <2>2. Len(t) = 1 => Len(Tail(t)) = 0
    BY <1>1, <2>1
  <2>3. Len(t) = 1 => Tail(t) = <<>>
    BY <2>1, <2>2, EmptySeq
  <2>4. Len(t) = 1 => Elements(Tail(t)) = {}
    BY <2>2, ElementsOfNone
  <2> QED
    BY <1>2, <2>3, <2>4
<1>13. ASSUME NothingLost'
       PROVE  /\ \A u \in Slots : todo[u] # <<>> => u = s
              /\ IsSuffix(t, queue)
              /\ Elements(queue) \subseteq applied \cup {h}
  BY <1>1, <1>8, <1>12, <1>13 DEF IInv, ReplayIsSuffix
<1>14. AckedIsKept'
  <2> SUFFICES ASSUME NothingLost' PROVE acked' \subseteq applied' \cup Elements(queue')
    BY DEF AckedIsKept
  <2>1. acked \subseteq applied \cup Elements(queue)
    BY <1>8 DEF IInv, AckedIsKept
  <2> HIDE DEF h, t
  <2>2. Elements(queue') = {h}
    BY <1>3, <1>4
  <2> QED
    BY <1>3, <1>13, <2>1, <2>2
<1>15. ReplayIsSuffix'
  BY <1>7, <1>13 DEF ReplayIsSuffix
<1>16. ASSUME mishaps' = {}
       PROVE  /\ mishaps = {} /\ NothingLost' /\ Len(t) = 1
              /\ \A k \in Rows : k # Row[h] => row[k] = newest[k]
              /\ newest[Row[h]] = h
  <2>1. mishaps = {} /\ NothingLost' /\ Len(t) = 1
    BY <1>6, <1>8, <1>16 DEF NothingLost
  <2>2. \A k \in Rows \ Touched(t) : row[k] = newest[k]
    BY <1>1, <2>1 DEF IInv, SettledRows
  <2>3. Touched(t) = {Row[h]}
    BY <1>12, <2>1 DEF Touched
  <2>4. Len(queue) \in 1..Len(queue) /\ queue[Len(queue)] = h
    <3>1. 1 <= Len(queue) /\ t[1] = queue[Len(queue) - 1 + 1]
      BY <1>13, <2>1 DEF IsSuffix
    <3> QED
      BY <1>1, <1>2, <3>1
  <2>5. newest[Row[h]] = h
    <3> HIDE DEF h, t
    <3>1. \A j \in 1..Len(queue) : ~(j > Len(queue))
      BY <1>1
    <3> QED
      BY <2>1, <2>4, <3>1 DEF IInv, LastQueuedIsNewest
  <2> QED
    BY <2>1, <2>2, <2>3, <2>5
<1>17. SettledRows'
  <2> HIDE DEF h, t
  <2> SUFFICES ASSUME mishaps' = {} PROVE SettledRows'
    BY DEF SettledRows
  <2>1. Touched(queue') = {Row[h]}
    BY <1>3, <1>4 DEF Touched
  <2>2. \A k \in Rows : k # Row[h] => row'[k] = newest'[k]
    BY <1>3, <1>16 DEF IInv, TypeOK
  <2>3. \A u \in Slots : todo'[u] = <<>>
    BY <1>7, <1>13, <1>16
  <2> QED
    BY <2>1, <2>2, <2>3 DEF SettledRows
<1>18. LastQueuedIsNewest'
  <2> HIDE DEF h, t
  <2>1. Len(queue') = 1 /\ queue'[1] = h
    BY <1>3, <1>4
  <2> QED
    BY <1>3, <1>16, <2>1 DEF LastQueuedIsNewest
<1> QED
  BY <1>9, <1>10, <1>11, <1>14, <1>15, <1>17, <1>18 DEF IInv

-----------------------------------------------------------------------------
(* The theorems *)

LEMMA InitInv == Init => IInv
<1> SUFFICES ASSUME Init PROVE IInv
  OBVIOUS
<1>1. Cap \in Nat \ {0} /\ <<>> \in Seq(Ops) /\ Len(<<>>) = 0
  BY EmptySeq, StoreAssumption DEF StoreAssumption
<1>2. TypeOK /\ CommittedIsApplied
  <2>1. queue \in Seq(Ops) /\ Len(queue) <= Cap /\ wal \in Seq(Ops)
    BY <1>1 DEF Init
  <2>2. todo \in [Slots -> Seq(Ops)]
    BY <1>1 DEF Init
  <2>3. row \in [Rows -> Ops \cup {NoOp}] /\ newest \in [Rows -> Ops \cup {NoOp}]
    BY DEF Init
  <2>4. drops \in 0..MaxDrops /\ crashes \in 0..MaxCrashes
    BY StoreAssumption DEF Init, StoreAssumption
  <2> QED
    BY <2>1, <2>2, <2>3, <2>4 DEF Init, TypeOK, CommittedIsApplied
<1>3. QueueIsInLog /\ AckedIsKept
  BY <1>1 DEF Init, QueueIsInLog, AckedIsKept, Newest
<1>4. ReplayIsSuffix /\ SettledRows /\ LastQueuedIsNewest
  BY <1>1 DEF Init, ReplayIsSuffix, SettledRows, LastQueuedIsNewest
<1> QED
  BY <1>2, <1>3, <1>4 DEF IInv

LEMMA NextInv == IInv /\ [Next]_vars => IInv'
<1> SUFFICES ASSUME IInv, [Next]_vars PROVE IInv'
  OBVIOUS
<1>1. ASSUME NEW o \in Ops, Write(o) PROVE IInv'
  <2>1. CASE active /\ UNCHANGED <<queue, wal, acked, newest, mishaps>>
             /\ direct' = direct \cup {o}
    <3>1. TypeOK' /\ CommittedIsApplied'
      BY <1>1, <2>1 DEF Write, mysql, IInv, TypeOK, CommittedIsApplied
    <3> QED
      BY <1>1, <2>1, <3>1, QuietStep DEF Write, mysql
  <2>2. CASE Buffer(o, {}) /\ acked' = acked \cup {o} /\ UNCHANGED direct
    <3>1. TypeOK' /\ CommittedIsApplied'
      BY <1>1, <2>2, BufferType DEF Write, mysql, IInv, TypeOK, CommittedIsApplied
    <3> QED
      BY <1>1, <2>2, <3>1, BufferStep DEF Write, mysql
  <2> QED
    BY <1>1, <2>1, <2>2 DEF Write
<1>2. ASSUME NEW o \in Ops, DirectCommits(o) PROVE IInv'
  BY <1>2, DirectCommitsInv
<1>3. ASSUME NEW o \in Ops, DirectSucceeds(o) PROVE IInv'
  <2>1. TypeOK' /\ CommittedIsApplied'
    BY <1>3 DEF DirectSucceeds, EndDirect, mysql, IInv, TypeOK, CommittedIsApplied
  <2>2. acked' \subseteq acked \cup applied
    BY <1>3 DEF DirectSucceeds, IInv, CommittedIsApplied
  <2> QED
    BY <1>3, <2>1, <2>2, QuietStep DEF DirectSucceeds, mysql
<1>4. ASSUME NEW o \in Ops, DirectDrops(o) PROVE IInv'
  <2>1. drops' \in 0..MaxDrops
    BY <1>4, StoreAssumption DEF DirectDrops, StoreAssumption, IInv, TypeOK
  <2>2. TypeOK' /\ CommittedIsApplied'
    BY <1>4, <2>1, BufferType
       DEF DirectDrops, EndDirect, mysql, IInv, TypeOK, CommittedIsApplied
  <2> QED
    BY <1>4, <2>2, BufferStep DEF DirectDrops, mysql
<1>5. ASSUME NEW o \in Ops, DirectRefused(o) PROVE IInv'
  <2>1. {"query"} \subseteq Mishaps
    BY DEF Mishaps
  <2>2. CASE Buffer(o, {"query"}) /\ acked' = acked \cup {o}
    <3>1. TypeOK' /\ CommittedIsApplied'
      BY <1>5, <2>1, <2>2, BufferType
         DEF DirectRefused, EndDirect, mysql, IInv, TypeOK, CommittedIsApplied
    <3> QED
      BY <1>5, <2>1, <2>2, <3>1, BufferStep DEF DirectRefused, mysql
  <2>3. CASE /\ acked' \in {acked, acked \cup {o}}
             /\ Note({"query"})
             /\ UNCHANGED <<queue, wal, newest>>
    <3>1. mishaps' = mishaps \cup {"query"}
      BY <2>3 DEF Note
    <3>2. TypeOK' /\ CommittedIsApplied'
      BY <1>5, <2>1, <2>3, <3>1
         DEF DirectRefused, EndDirect, mysql, IInv, TypeOK, CommittedIsApplied
    <3>3. ~NothingLost' /\ mishaps' # {}
      BY <3>1 DEF NothingLost
    <3>4. QueueIsInLog'
      BY <2>3, <3>1 DEF IInv, QueueIsInLog
    <3> QED
      BY <3>2, <3>3, <3>4
         DEF IInv, AckedIsKept, ReplayIsSuffix, SettledRows, LastQueuedIsNewest
  <2> QED
    BY <1>5, <2>2, <2>3 DEF DirectRefused
<1>6. ASSUME NEW s \in Slots, ReplaySucceeds(s) PROVE IInv'
  BY <1>6, ReplaySucceedsInv
<1>7. ASSUME NEW s \in Slots, ReplayRefused(s) PROVE IInv'
  BY <1>7, ReplayRefusedInv
<1>8. ASSUME NEW s \in Slots, ReplayDrops(s) PROVE IInv'
  BY <1>8, ReplayDropsInv
<1>9. CASE CheckSucceeds
  BY <1>9, CheckSucceedsInv
<1>10. CASE CheckFails
  <2>1. drops' \in 0..MaxDrops
    BY <1>10, StoreAssumption DEF CheckFails, StoreAssumption, IInv, TypeOK
  <2>2. TypeOK' /\ CommittedIsApplied'
    BY <1>10, <2>1 DEF CheckFails, mysql, IInv, TypeOK, CommittedIsApplied
  <2> QED
    BY <1>10, <2>2, QuietStep DEF CheckFails, mysql
<1>11. CASE Restart
  BY <1>11, RestartInv
<1>12. CASE UNCHANGED vars
  <2>1. TypeOK' /\ CommittedIsApplied'
    BY <1>12 DEF vars, mysql, IInv, TypeOK, CommittedIsApplied
  <2> QED
    BY <1>12, <2>1, QuietStep DEF vars, mysql
<1> QED
  BY <1>1, <1>2, <1>3, <1>4, <1>5, <1>6, <1>7, <1>8, <1>9, <1>10, <1>11, <1>12
     DEF Next, Direct, Replay

\* The inductive invariant holds in every state of the server.
THEOREM Invariant == Spec => []IInv
  BY InitInv, NextInv, PTL DEF Spec

\* Every variable keeps its type, and the queue its cap.
THEOREM TypeCorrect == Spec => []TypeOK
  BY Invariant, PTL DEF IInv

\* While the disk works, a restart at any await finds the queue in the log.
THEOREM LogHoldsQueue == Spec => []QueueIsInLog
  BY Invariant, PTL DEF IInv

\* No acknowledged write is lost but through one of the listed mishaps.
THEOREM AckedSurvives == Spec => []AckedIsKept
  BY Invariant, PTL DEF IInv

\* Without a mishap, a drained queue leaves the newest write in every row.
THEOREM RecoveryIsFaithful == Spec => []RecoveredIsNewest
<1>1. IInv => RecoveredIsNewest
  <2> SUFFICES ASSUME IInv, mishaps = {}, queue = <<>> PROVE row = newest
    BY DEF RecoveredIsNewest
  <2>1. Touched(queue) = {}
    BY ElementsOfNone, EmptySeq DEF Touched
  <2>2. \A k \in Rows : row[k] = newest[k]
    BY <2>1 DEF IInv, SettledRows
  <2> QED
    BY <2>2 DEF IInv, TypeOK
<1> QED
  BY <1>1, Invariant, PTL

\* With MySQL active, a queue that is not empty is being replayed.
THEOREM ActiveReplays == Spec => []ActiveIsReplaying
<1>1. Init => ActiveIsReplaying
  BY DEF Init, ActiveIsReplaying
<1>2. IInv /\ ActiveIsReplaying /\ [Next]_vars => ActiveIsReplaying'
  <2> SUFFICES ASSUME IInv, ActiveIsReplaying, [Next]_vars,
                      active', queue' # <<>>, "query" \notin mishaps'
               PROVE  Replaying'
    BY DEF ActiveIsReplaying
  <2>1. ASSUME NEW o \in Ops, Write(o) PROVE Replaying'
    BY <2>1 DEF Write, ActiveIsReplaying, Replaying
  <2>2. ASSUME NEW o \in Ops, Direct(o) PROVE Replaying'
    BY <2>2 DEF Direct, DirectCommits, DirectSucceeds, DirectDrops, DirectRefused,
         Buffer, Note, ActiveIsReplaying, Replaying, When
  <2>3. ASSUME NEW s \in Slots, ReplaySucceeds(s) \/ ReplayRefused(s) PROVE Replaying'
    <3>1. PICK S : Advance(s, S)
      BY <2>3 DEF ReplaySucceeds, ReplayRefused
    <3>2. todo[s] # <<>> /\ Len(todo[s]) > 1 /\ todo' = [todo EXCEPT ![s] = Tail(@)]
      BY <2>3, <3>1 DEF ReplaySucceeds, ReplayRefused, Advance
    <3>3. todo[s] \in Seq(Ops)
      BY Basics DEF IInv
    <3>4. Tail(todo[s]) # <<>>
      <4> DEFINE n == Len(todo[s])
                 k == Len(Tail(todo[s]))
      <4>1. k = n - 1 /\ n \in Nat /\ n > 1
        BY <3>2, <3>3, HeadTailProperties, LenProperties
      <4>2. k # 0
        <5> HIDE DEF n, k
        <5> QED
          BY <4>1
      <4>3. Len(<<>>) = 0
        BY EmptySeq
      <4> QED
        BY <4>2, <4>3
    <3> QED
      BY <3>2, <3>4 DEF Replaying, IInv, TypeOK
  <2>4. ASSUME NEW s \in Slots, ReplayDrops(s) PROVE FALSE
    BY <2>4 DEF ReplayDrops
  <2>5. CASE CheckSucceeds
    BY <2>5 DEF CheckSucceeds, Replaying, IInv, TypeOK
  <2>6. CASE CheckFails \/ Restart
    BY <2>6 DEF CheckFails, Restart
  <2>7. CASE UNCHANGED vars
    BY <2>7 DEF vars, ActiveIsReplaying, Replaying
  <2> QED
    BY <2>1, <2>2, <2>3, <2>4, <2>5, <2>6, <2>7 DEF Next, Replay
<1> QED
  BY <1>1, <1>2, Invariant, PTL DEF Spec

-----------------------------------------------------------------------------
(* The degraded store implements DurableQueue *)

\* What the log keeps of itself are lines of it.
LEMMA NewestElements ==
  ASSUME NEW s \in Seq(Ops)
  PROVE  Elements(Newest(s)) \subseteq Elements(s)
<1>1. /\ Len(s) \in Nat /\ Cap \in Nat \ {0}
      /\ Len(Newest(s)) = IF Len(s) <= Cap THEN Len(s) ELSE Cap
      /\ \A i \in 1..Len(Newest(s)) : Newest(s)[i] = s[Len(s) - Len(Newest(s)) + i]
  BY NewestFacts, LenProperties, StoreAssumption DEF StoreAssumption
<1>2. \A i \in 1..Len(Newest(s)) : Len(s) - Len(Newest(s)) + i \in 1..Len(s)
  BY <1>1
<1> QED
  BY <1>1, <1>2 DEF Elements

\* Buffering a write adds it to queue and log; the queue may lose its oldest.
LEMMA BufferElements ==
  ASSUME TypeOK, NEW o \in Ops, NEW S, Buffer(o, S)
  PROVE  /\ Elements(queue') \subseteq Elements(queue) \cup {o}
         /\ Elements(wal') \subseteq Elements(wal) \cup {o}
         /\ mishaps \cup S \subseteq mishaps'
         /\ o \in Elements(queue')
         /\ "evicted" \notin mishaps' => Elements(queue') = Elements(queue) \cup {o}
<1>1. queue \in Seq(Ops) /\ wal \in Seq(Ops) /\ Len(queue) \in Nat /\ Cap \in Nat \ {0}
  BY Basics
<1>2. Elements(wal') \subseteq Elements(wal) \cup {o} /\ mishaps \cup S \subseteq mishaps'
  BY <1>1, ElementsAppend DEF Buffer, Note
<1>3. CASE Len(queue) >= Cap
  <2>1. queue # <<>>
    BY <1>1, <1>3, EmptySeq
  <2>2. Tail(queue) \in Seq(Ops) /\ Elements(Tail(queue)) \subseteq Elements(queue)
    BY <1>1, <2>1, ElementsTail, HeadTailProperties
  <2>3. queue' = Append(Tail(queue), o) /\ "evicted" \in mishaps'
    BY <1>3 DEF Buffer, Note, When
  <2> QED
    BY ZenonT(40), <1>2, <2>2, <2>3, ElementsAppend
<1>4. CASE ~(Len(queue) >= Cap)
  <2>1. queue' = Append(queue, o)
    BY <1>4 DEF Buffer
  <2> QED
    BY <1>1, <1>2, <2>1, ElementsAppend
<1> QED
  BY <1>3, <1>4

\* No replay takes up, and no restart finds, what was never acknowledged.
LEMMA QueuedStep == ASSUME IInv, QueuedIsAcked, [Next]_vars  PROVE QueuedIsAcked'
<1>1. /\ TypeOK
      /\ queue \in Seq(Ops) /\ wal \in Seq(Ops)
      /\ \A s \in Slots : todo[s] \in Seq(Ops)
      /\ Elements(<<>>) = {}
  BY Basics, ElementsOfNone, EmptySeq DEF IInv
<1>2. ASSUME NEW o \in Ops, Write(o) PROVE QueuedIsAcked'
  <2>1. CASE Buffer(o, {}) /\ acked' = acked \cup {o} /\ UNCHANGED direct
    BY <1>1, <1>2, <2>1, BufferElements DEF Write, QueuedIsAcked
  <2>2. CASE direct' = direct \cup {o} /\ UNCHANGED <<queue, wal, acked>>
    BY <1>2, <2>2 DEF Write, QueuedIsAcked
  <2> QED
    BY <1>2, <2>1, <2>2 DEF Write
<1>3. ASSUME NEW o \in Ops, Direct(o) PROVE QueuedIsAcked'
  <2>1. CASE DirectCommits(o)
    BY <2>1 DEF DirectCommits, QueuedIsAcked
  <2>2. CASE DirectSucceeds(o)
    BY <2>2 DEF DirectSucceeds, EndDirect, QueuedIsAcked, mysql
  <2>3. CASE \E S : Buffer(o, S) /\ acked' = acked \cup {o} /\ EndDirect(o) /\ UNCHANGED todo
    BY <1>1, <2>3, BufferElements DEF EndDirect, QueuedIsAcked
  <2>4. CASE /\ acked' \in {acked, acked \cup {o}}
             /\ UNCHANGED <<queue, wal, todo>>
             /\ EndDirect(o)
    BY <2>4 DEF EndDirect, QueuedIsAcked
  <2> QED
    BY <1>3, <2>1, <2>2, <2>3, <2>4 DEF Direct, DirectDrops, DirectRefused
<1>4. ASSUME NEW s \in Slots, NEW S, todo[s] # <<>>, Advance(s, S), UNCHANGED <<direct, acked>>
      PROVE  QueuedIsAcked'
  <2>1. Elements(Tail(todo[s])) \subseteq Elements(todo[s])
    BY <1>1, <1>4, ElementsTail
  <2>2. todo' = [todo EXCEPT ![s] = Tail(@)] /\ todo \in [Slots -> Seq(Ops)]
    BY <1>1, <1>4 DEF Advance, TypeOK
  <2>3. /\ queue' \in {queue, <<>>}
        /\ wal' \in {wal, <<>>}
    BY <1>4 DEF Advance, Sync
  <2> QED
    BY <1>1, <1>4, <2>1, <2>2, <2>3 DEF QueuedIsAcked
<1>5. ASSUME NEW s \in Slots, ReplayDrops(s) PROVE QueuedIsAcked'
  <2> DEFINE h == Head(todo[s])
  <2>1. h \in Ops /\ h \in Elements(todo[s])
    BY <1>1, <1>5, ElementsTail DEF ReplayDrops
  <2>2. Elements(<<h>>) = {h}
    BY <2>1, ElementsOfFew
  <2>3. /\ queue' = <<h>>
        /\ wal' \in {wal, <<h>>, <<>>}
        /\ todo' = [todo EXCEPT ![s] = <<>>]
        /\ UNCHANGED <<direct, acked>>
    BY <1>5 DEF ReplayDrops, Sync
  <2> QED
    BY <1>1, <2>1, <2>2, <2>3 DEF QueuedIsAcked, TypeOK
<1>6. CASE CheckSucceeds
  <2>1. /\ wal' \in {wal, queue, <<>>}
        /\ UNCHANGED <<queue, direct, acked>>
        /\ \/ UNCHANGED todo
           \/ \E s \in Slots : todo' = [todo EXCEPT ![s] = queue]
    BY <1>6 DEF CheckSucceeds, Sync
  <2> QED
    BY <1>1, <2>1 DEF QueuedIsAcked, TypeOK
<1>7. CASE Restart
  <2>1. Elements(queue') \subseteq Elements(wal)
    BY <1>1, <1>7, NewestElements DEF Restart
  <2> QED
    BY <1>1, <1>7, <2>1 DEF Restart, QueuedIsAcked
<1>8. CASE CheckFails \/ UNCHANGED vars
  BY <1>8 DEF CheckFails, vars, QueuedIsAcked
<1>9. ASSUME NEW s \in Slots, Replay(s) PROVE QueuedIsAcked'
  BY <1>4, <1>5, <1>9 DEF Replay, ReplaySucceeds, ReplayRefused
<1> QED
  BY <1>2, <1>3, <1>6, <1>7, <1>8, <1>9 DEF Next

\* Everything in queue, log and replays was acknowledged, in every state.
THEOREM OnlyAckedIsQueued == Spec => []QueuedIsAcked
<1>1. Init => QueuedIsAcked
  <2> SUFFICES ASSUME Init PROVE QueuedIsAcked
    OBVIOUS
  <2>1. Elements(<<>>) = {}
    BY ElementsOfNone, EmptySeq
  <2> QED
    BY <2>1 DEF Init, QueuedIsAcked
<1>2. IInv /\ QueuedIsAcked /\ [Next]_vars => QueuedIsAcked'
  BY QueuedStep
<1> QED
  BY <1>1, <1>2, Invariant, PTL DEF Spec

\* A sound step does what a durable queue may do.
LEMMA SoundStep ==
  ASSUME IInv, QueuedIsAcked, [Next]_vars, NothingLost, NothingLost'
  PROVE  [Durable!Next]_(Durable!vars)
<1>1. /\ TypeOK
      /\ queue \in Seq(Ops) /\ wal \in Seq(Ops) /\ Len(queue) \in Nat
      /\ \A s \in Slots : todo[s] \in Seq(Ops) /\ Len(todo[s]) \in Nat
      /\ Elements(<<>>) = {}
  BY Basics, ElementsOfNone, EmptySeq DEF IInv
<1>2. /\ "evicted" \notin mishaps' /\ "cutoff" \notin mishaps'
      /\ "unhandled" \notin mishaps' /\ "query" \notin mishaps'
      /\ "disk" \notin mishaps
  BY DEF NothingLost
<1>3. ASSUME UNCHANGED acked, applied \subseteq applied',
             Elements(queue') \subseteq Elements(queue),
             Elements(queue) \subseteq applied' \cup Elements(queue')
      PROVE  Durable!Next
  BY <1>3 DEF Durable!Next, Durable!Serve
<1>4. ASSUME NEW o \in Ops, o \notin acked, acked' = acked \cup {o}, UNCHANGED applied,
             \/ UNCHANGED queue /\ o \in applied
             \/ Elements(queue') = Elements(queue) \cup {o}
      PROVE  Durable!Next
  <2>1. /\ o \in Elements(queue') \cup applied
        /\ Elements(queue') \ {o} \subseteq Elements(queue)
        /\ Elements(queue) \ Elements(queue') = {}
    BY <1>4
  <2>2. Durable!Entrust(o)
    BY <1>4, <2>1 DEF Durable!Entrust
  <2> QED
    BY <2>2 DEF Durable!Next
<1>5. ASSUME NEW o \in Ops, Write(o) PROVE Durable!Next
  <2>1. CASE Buffer(o, {}) /\ acked' = acked \cup {o}
    BY <1>1, <1>2, <1>4, <1>5, <2>1, BufferElements DEF Write, mysql
  <2>2. CASE UNCHANGED <<queue, acked>>
    BY <1>3, <1>5, <2>2 DEF Write, mysql
  <2> QED
    BY <1>5, <2>1, <2>2 DEF Write
<1>6. ASSUME NEW o \in Ops, Direct(o) PROVE Durable!Next
  <2>1. CASE DirectCommits(o)
    BY <1>3, <2>1 DEF DirectCommits
  <2>2. CASE DirectSucceeds(o)
    <3>1. o \in direct /\ o \in applied /\ o \notin acked
      BY <2>2 DEF DirectSucceeds, IInv, CommittedIsApplied, TypeOK, QueuedIsAcked
    <3> QED
      BY <1>4, <2>2, <3>1 DEF DirectSucceeds, mysql
  <2>3. CASE DirectDrops(o)
    <3>1. o \notin acked
      BY <2>3 DEF DirectDrops, QueuedIsAcked
    <3> QED
      BY <1>1, <1>2, <1>4, <2>3, <3>1, BufferElements DEF DirectDrops, mysql
  <2>4. CASE DirectRefused(o)
    <3>1. "query" \in mishaps'
      BY <1>1, <2>4, BufferElements DEF DirectRefused, Note
    <3> QED
      BY <1>2, <3>1
  <2> QED
    BY <1>6, <2>1, <2>2, <2>3, <2>4 DEF Direct
<1>7. ASSUME NEW s \in Slots, todo[s] # <<>>
      PROVE  /\ Head(todo[s]) \in Ops
             /\ Head(todo[s]) \in Elements(queue)
             /\ Len(todo[s]) = 1 => Elements(queue) \subseteq applied \cup {Head(todo[s])}
  <2> DEFINE t == todo[s]
  <2>1. /\ IsSuffix(t, queue)
        /\ Elements(queue) \subseteq applied \cup Elements(t)
    BY <1>7 DEF IInv, ReplayIsSuffix
  <2>2. /\ Head(t) = t[1] /\ Head(t) \in Ops
        /\ Elements(t) = {Head(t)} \cup Elements(Tail(t))
    BY <1>1, <1>7, ElementsTail
  <2>3. Elements(t) \subseteq Elements(queue)
    BY <1>1, <2>1, SuffixElements
  <2>4. Len(t) = 1 => Elements(t) = {Head(t)}
    BY <2>2 DEF Elements
  <2> QED
    BY <2>1, <2>2, <2>3, <2>4
<1>8. ASSUME NEW s \in Slots, Replay(s) PROVE Durable!Next
  <2> DEFINE h == Head(todo[s])
  <2>1. CASE Apply(h) /\ Advance(s, {}) /\ todo[s] # <<>> /\ UNCHANGED acked
    <3>1. applied' = applied \cup {h}
      BY <2>1 DEF Apply
    <3>2. CASE UNCHANGED queue
      BY <1>3, <2>1, <3>1, <3>2
    <3>3. CASE Len(todo[s]) = 1 /\ queue' = <<>>
      BY <1>1, <1>3, <1>7, <2>1, <3>1, <3>3
    <3> QED
      BY <2>1, <3>2, <3>3 DEF Advance
  <2>2. CASE Advance(s, {"unhandled"}) \/ Advance(s, {"query"})
    BY <1>2, <2>2 DEF Advance, Note, Sync
  <2>3. CASE ReplayDrops(s)
    <3>1. Len(todo[s]) \in Nat \ {0}
      BY <1>1, <2>3, EmptySeq, LenProperties DEF ReplayDrops
    <3>2. Len(todo[s]) = 1
      <4> DEFINE n == Len(todo[s])
      <4>1. ~(n > 1) /\ n \in Nat \ {0}
        BY <1>2, <2>3, <3>1 DEF ReplayDrops, Sync, Note, When
      <4> HIDE DEF n
      <4>2. n = 1
        BY <4>1
      <4> QED
        BY <4>2 DEF n
    <3>3. /\ queue' = <<h>> /\ todo[s] # <<>>
          /\ applied' \in {applied, applied \cup {h}}
          /\ UNCHANGED acked
      BY <2>3 DEF ReplayDrops, Apply, mysql
    <3>4. Elements(queue') = {h}
      BY <1>7, <3>3, ElementsOfFew
    <3> QED
      BY <1>3, <1>7, <3>2, <3>3, <3>4
  <2> QED
    BY <1>8, <2>1, <2>2, <2>3 DEF Replay, ReplaySucceeds, ReplayRefused
<1>9. CASE CheckSucceeds \/ CheckFails \/ UNCHANGED vars
  BY <1>3, <1>9 DEF CheckSucceeds, CheckFails, vars, mysql
<1>10. CASE Restart
  <2>1. queue' = queue
    BY <1>2, <1>10 DEF Restart, IInv, QueueIsInLog
  <2> QED
    BY <1>3, <1>10, <2>1 DEF Restart, mysql
<1> QED
  BY <1>5, <1>6, <1>8, <1>9, <1>10 DEF Next

\* No step takes a mishap back, an acknowledgement or a commit.
LEMMA Monotone ==
  ASSUME TypeOK, [Next]_vars
  PROVE  acked \subseteq acked' /\ applied \subseteq applied' /\ mishaps \subseteq mishaps'
<1>1. ASSUME NEW o \in Ops, Write(o) \/ Direct(o)
      PROVE  acked \subseteq acked' /\ applied \subseteq applied' /\ mishaps \subseteq mishaps'
  BY <1>1 DEF Write, Direct, DirectCommits, DirectSucceeds, DirectDrops, DirectRefused,
       Buffer, Note, mysql
<1>2. ASSUME NEW s \in Slots, Replay(s)
      PROVE  acked \subseteq acked' /\ applied \subseteq applied' /\ mishaps \subseteq mishaps'
  BY <1>2 DEF Replay, ReplaySucceeds, ReplayRefused, ReplayDrops, Advance, Apply, Sync,
       Note, mysql
<1>3. CASE CheckSucceeds \/ CheckFails \/ Restart \/ UNCHANGED vars
  BY <1>3 DEF CheckSucceeds, CheckFails, Restart, vars, Sync, Note, mysql
<1> QED
  BY <1>1, <1>2, <1>3 DEF Next

\* The degraded store implements the durable queue, for all writes, rows, limits
\* and faults.
THEOREM StoreIsDurableQueue == Spec => ImplementsDurableQueue
<1>1. Init => Durable!Init
  <2> SUFFICES ASSUME Init PROVE Durable!Init
    OBVIOUS
  <2>1. Elements(<<>>) = {}
    BY ElementsOfNone, EmptySeq
  <2> QED
    BY <2>1 DEF Init, Durable!Init, NothingLost
<1>2. IInv /\ QueuedIsAcked /\ QueuedIsAcked' /\ [Next]_vars => [Durable!Next]_(Durable!vars)
  <2> SUFFICES ASSUME IInv, QueuedIsAcked, QueuedIsAcked', [Next]_vars
               PROVE  [Durable!Next]_(Durable!vars)
    OBVIOUS
  <2>1. acked \subseteq acked' /\ applied \subseteq applied' /\ mishaps \subseteq mishaps'
    BY Monotone DEF IInv
  <2>2. CASE ~NothingLost'
    <3>1. Durable!Mishap
      BY <2>1, <2>2 DEF Durable!Mishap, QueuedIsAcked
    <3> QED
      BY <3>1 DEF Durable!Next
  <2>3. CASE NothingLost'
    <3>1. NothingLost
      BY <2>1, <2>3 DEF NothingLost
    <3> QED
      BY <2>3, <3>1, SoundStep
  <2> QED
    BY <2>2, <2>3
<1> QED
  BY <1>1, <1>2, Invariant, OnlyAckedIsQueued, PTL DEF Spec, ImplementsDurableQueue, Durable!Spec

=============================================================================
