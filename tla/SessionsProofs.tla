--------------------------- MODULE SessionsProofs ---------------------------
(***************************************************************************)
(* Theorems about Sessions, for any set of requests and any number of      *)
(* logins, seconds and outages.                                            *)
(***************************************************************************)
EXTENDS Sessions, TLAPS

\* The parts of the invariant that are about more than types.
Rest ==
  /\ RenewHasRow
  /\ LoginIsNew
  /\ PruneHolds
  /\ LoginPrunes
  /\ EndedStaysEnded
  /\ OneSessionPerUser
  /\ NewestLoginWins

\* Every save of next is idle or the one that was under way, no further than it
\* was.
NothingBegins(next) ==
  \A q \in Requests :
    \/ next[q].step = "idle"
    \/ /\ next[q].s = saving[q].s
       /\ next[q].login = saving[q].login
       /\ next[q].late = saving[q].late
       /\ Busy(q)
       /\ next[q].step \in {"look", "put"} => Past(q)

-----------------------------------------------------------------------------
(* Lemmas about the operators *)

LEMMA NoSaveType == NoSave \in Save
BY SessionsAssumption DEF NoSave, Save, Steps, Sessions, SessionsAssumption

LEMMA BeginType ==
  ASSUME TypeOK, NEW s \in Sessions, NEW login \in BOOLEAN
  PROVE  /\ Begin(s, login) \in Save
         /\ Begin(s, login).s = s
         /\ Begin(s, login).login = login
         /\ Begin(s, login).step = "prune"
         /\ Begin(s, login).stamp = clock
         /\ ~Begin(s, login).late
<1>1. clock \in 0..MaxClock
  BY SessionsAssumption DEF SessionsAssumption, TypeOK
<1>2. "prune" \in Steps
  BY DEF Steps
<1>3. Begin(s, login) \in Save
  BY <1>1, <1>2, Zenon DEF Begin, Save
<1>4. Begin(s, login).login = login /\ Begin(s, login).late = FALSE
  BY Zenon DEF Begin
<1>5. Begin(s, login).s = s /\ Begin(s, login).step = "prune" /\ Begin(s, login).stamp = clock
  BY DEF Begin
<1> QED
  BY <1>3, <1>4, <1>5

LEMMA MovedType ==
  ASSUME TypeOK, NEW q \in Requests, NEW step \in Steps
  PROVE  /\ Moved(q, step) \in [Requests -> Save]
         /\ \A r \in Requests \ {q} : Moved(q, step)[r] = saving[r]
         /\ Moved(q, step)[q].s = saving[q].s
         /\ Moved(q, step)[q].login = saving[q].login
         /\ Moved(q, step)[q].late = saving[q].late
         /\ Moved(q, step)[q].step = step
         /\ Moved(q, step)[q].stamp = saving[q].stamp
<1>1. saving[q] \in Save
  BY DEF TypeOK
<1>2. Moved(q, step) = [saving EXCEPT ![q] = [saving[q] EXCEPT !.step = step]]
  BY DEF Moved
<1>3. [saving[q] EXCEPT !.step = step] \in Save
  BY <1>1 DEF Save
<1> QED
  BY <1>1, <1>2, <1>3 DEF TypeOK, Save

LEMMA AnsweredType ==
  ASSUME TypeOK, NEW q \in Requests
  PROVE  /\ Answered(q) \in [Requests -> Save]
         /\ \A r \in Requests \ {q} : Answered(q)[r] = saving[r]
         /\ Answered(q)[q].step = "idle"
BY NoSaveType DEF Answered, NoSave, TypeOK

\* What a DELETE does to the rows.
LEMMA DeleteRows ==
  ASSUME TypeOK, NEW S \in SUBSET Sessions, NEW next, Delete(S, next)
  PROVE  /\ lastActive' \in [Sessions -> 0..clock]
         /\ Rows' = Rows \ S
         /\ ended' = ended \cup (S \cap Rows)
         /\ revived' = revived \ S
BY DEF Delete, Rows, NoRow, TypeOK

\* And to the saves under way.
LEMMA DeleteSaves ==
  ASSUME NEW S \in SUBSET Sessions, NEW next \in [Requests -> Save], Delete(S, next)
  PROVE  /\ saving' \in [Requests -> Save]
         /\ \A q \in Requests : /\ saving'[q].s = next[q].s
                                /\ saving'[q].step = next[q].step
                                /\ saving'[q].stamp = next[q].stamp
<1>1. \A q \in Requests : next[q] \in Save /\ [next[q] EXCEPT !.late = TRUE] \in Save
  BY DEF Save
<1>2. saving' \in [Requests -> Save]
  BY <1>1 DEF Delete
<1>3. ASSUME NEW q \in Requests
      PROVE  /\ saving'[q].s = next[q].s
             /\ saving'[q].step = next[q].step
             /\ saving'[q].stamp = next[q].stamp
  BY <1>1 DEF Delete, Save
<1> QED
  BY <1>2, <1>3

LEMMA DeleteLates ==
  ASSUME NEW S \in SUBSET Sessions, NEW next \in [Requests -> Save], Delete(S, next),
         NEW q \in Requests
  PROVE  /\ saving'[q].login <=> next[q].login
         /\ saving'[q].late <=> next[q].late \/ (next[q].step # "idle" /\ next[q].s \in S)
<1>1. next[q] \in Save
  OBVIOUS
<1>2. saving'[q] = IF next[q].step # "idle" /\ next[q].s \in S
                   THEN [next[q] EXCEPT !.late = TRUE] ELSE next[q]
  BY DEF Delete
<1> QED
  BY <1>1, <1>2 DEF Save

\* The row of a save is written, and its request answered.
LEMMA StoreFacts ==
  ASSUME TypeOK, NEW q \in Requests, Busy(q), Store(q)
  PROVE  /\ saving[q].s \in Sessions
         /\ lastActive' \in [Sessions -> 0..clock]
         /\ Rows' = Rows \cup {saving[q].s}
         /\ revived' = IF saving[q].late THEN revived \cup {saving[q].s} ELSE revived
         /\ stored' = IF saving[q].login THEN stored \cup {saving[q].s} ELSE stored
         /\ lapsed' \subseteq lapsed
         /\ saving' = Answered(q)
<1>1. saving[q] \in Save /\ saving[q].s \in Sessions
  BY DEF TypeOK, Save
<1>2. saving[q].stamp \in 1..clock
  BY DEF TypeOK
<1>3. lastActive' = [lastActive EXCEPT ![saving[q].s] = saving[q].stamp]
  BY DEF Store
<1>4. lastActive' \in [Sessions -> 0..clock]
  BY <1>1, <1>2, <1>3 DEF TypeOK
<1>5. Rows' = Rows \cup {saving[q].s}
  BY <1>1, <1>2, <1>3 DEF TypeOK, Rows, NoRow
<1>6. saving[q].late \in BOOLEAN /\ saving[q].login \in BOOLEAN
  BY <1>1 DEF Save
<1> QED
  BY <1>1, <1>4, <1>5, <1>6 DEF Store

-----------------------------------------------------------------------------
(* Type correctness *)

LEMMA TypeInit == Init => TypeOK
<1> SUFFICES ASSUME Init PROVE TypeOK
  OBVIOUS
<1>1. saving \in [Requests -> Save] /\ \A q \in Requests : ~Busy(q)
  BY NoSaveType DEF Init, Busy, NoSave
<1>2. /\ opened = 0 /\ clock = 1 /\ outages = 0 /\ lapsed = {} /\ stored = {} /\ ended = {}
      /\ revived = {} /\ up \in BOOLEAN /\ booting \in BOOLEAN
  BY DEF Init
<1>3. lastActive \in [Sessions -> 0..clock] /\ Rows = {}
  BY DEF Init, Rows, NoRow
<1>4. /\ opened \in 0..MaxSessions /\ clock \in 1..MaxClock /\ outages \in 0..MaxOutages
  BY <1>2, SessionsAssumption DEF SessionsAssumption
<1> QED
  BY <1>1, <1>2, <1>3, <1>4 DEF TypeOK

LEMMA TypeStep == TypeOK /\ [Next]_vars => TypeOK'
<1> SUFFICES ASSUME TypeOK, [Next]_vars PROVE TypeOK'
  OBVIOUS
<1>0. /\ opened \in 0..MaxSessions /\ clock \in 1..MaxClock /\ outages \in 0..MaxOutages
      /\ MaxSessions \in Nat /\ MaxClock \in Nat /\ MaxOutages \in Nat
  BY SessionsAssumption DEF SessionsAssumption, TypeOK
<1>1. ASSUME NEW q \in Requests, Login(q) PROVE TypeOK'
  <2>1. opened + 1 \in Sessions /\ opened' = opened + 1
    BY <1>0, <1>1 DEF Login, Sessions
  <2> DEFINE b == Begin(opened + 1, TRUE)
  <2>2. b \in Save /\ b.s = opened + 1 /\ b.step = "prune" /\ b.stamp = clock
    BY <2>1, BeginType
  <2> HIDE DEF b
  <2> DEFINE next == [saving EXCEPT ![q] = b]
  <2>3. next \in [Requests -> Save] /\ next[q] = b /\ \A r \in Requests \ {q} : next[r] = saving[r]
    BY <2>2 DEF TypeOK
  <2> HIDE DEF next
  <2> DEFINE S == IF up THEN lapsed ELSE {}
  <2>4. S \in SUBSET Sessions
    BY <1>0 DEF TypeOK, Sessions
  <2>5. Delete(S, next)
    BY <1>1 DEF Login, b, next
  <2> HIDE DEF S
  <2>6. /\ lastActive' \in [Sessions -> 0..clock] /\ saving' \in [Requests -> Save]
        /\ Rows' \subseteq Rows /\ ended' \subseteq ended \cup Rows /\ revived' \subseteq revived
        /\ \A r \in Requests : /\ saving'[r].s = next[r].s
                               /\ saving'[r].step = next[r].step
                               /\ saving'[r].stamp = next[r].stamp
    <3>1. Rows' = Rows \ S /\ ended' = ended \cup (S \cap Rows) /\ revived' = revived \ S
      BY <2>4, <2>5, DeleteRows
    <3>2. lastActive' \in [Sessions -> 0..clock]
      BY <2>4, <2>5, DeleteRows
    <3>3. /\ saving' \in [Requests -> Save]
          /\ \A r \in Requests : /\ saving'[r].s = next[r].s
                                /\ saving'[r].step = next[r].step
                                /\ saving'[r].stamp = next[r].stamp
      BY <2>3, <2>4, <2>5, DeleteSaves
    <3> QED
      BY <2>3, <2>4, <2>5, <3>1, <3>2, <3>3
  <2>7. ASSUME NEW r \in Requests, Busy(r)'
        PROVE  saving'[r].s <= opened' /\ saving'[r].stamp \in 1..clock
    <3>1. CASE r = q
      BY <1>0, <2>1, <2>2, <2>3, <2>6, <3>1
    <3>2. CASE r # q
      <4>1. next[r] = saving[r] /\ saving'[r].step # "idle" /\ saving[r] \in Save
        BY <2>3, <2>7, <3>2 DEF Busy, TypeOK
      <4>2. Busy(r)
        BY <2>6, <4>1 DEF Busy
      <4>3. saving[r].s \in Int
        BY <4>1 DEF Save, Sessions
      <4>4. saving[r].s <= opened /\ saving[r].stamp \in 1..clock
        BY <4>2 DEF TypeOK
      <4> QED
        BY <1>0, <2>1, <2>6, <4>1, <4>3, <4>4
    <3> QED
      BY <3>1, <3>2
  <2> QED
    BY <1>0, <1>1, <2>1, <2>6, <2>7 DEF TypeOK, Login
<1>2. ASSUME NEW q \in Requests, NEW s \in Sessions, Renew(q, s) \/ Refresh(q, s)
      PROVE  TypeOK'
  <2> DEFINE b == Begin(s, FALSE)
  <2>1. b \in Save /\ b.s = s /\ b.step = "prune" /\ b.stamp = clock
    BY BeginType
  <2>2. saving' = [saving EXCEPT ![q] = b]
    BY <1>2 DEF Renew, Refresh
  <2>3. s \in Rows
    BY <1>2 DEF Renew, Refresh, Admits, IsFirst
  <2> HIDE DEF b
  <2>4. saving' \in [Requests -> Save] /\ saving'[q] = b /\ \A r \in Requests \ {q} : saving'[r] = saving[r]
    BY <2>1, <2>2 DEF TypeOK
  <2>5. \A r \in Requests : Busy(r)' => saving'[r].s <= opened /\ saving'[r].stamp \in 1..clock
    BY <1>0, <2>1, <2>3, <2>4 DEF TypeOK, Busy
  <2> QED
    BY <1>2, <2>4, <2>5 DEF TypeOK, Renew, Refresh, Rows
<1>3. ASSUME NEW S \in SUBSET Sessions, Delete(S, saving),
             UNCHANGED <<opened, lapsed, clock, up, outages, stored>>, booting' \in BOOLEAN
      PROVE  TypeOK'
  <2>1. saving \in [Requests -> Save]
    BY DEF TypeOK
  <2>2. /\ lastActive' \in [Sessions -> 0..clock] /\ saving' \in [Requests -> Save]
        /\ Rows' \subseteq Rows /\ ended' \subseteq ended \cup Rows /\ revived' \subseteq revived
        /\ \A r \in Requests : /\ saving'[r].s = saving[r].s
                               /\ saving'[r].step = saving[r].step
                               /\ saving'[r].stamp = saving[r].stamp
    <3>1. Rows' = Rows \ S /\ ended' = ended \cup (S \cap Rows) /\ revived' = revived \ S
      BY <1>3, DeleteRows
    <3>2. lastActive' \in [Sessions -> 0..clock]
      BY <1>3, DeleteRows
    <3>3. /\ saving' \in [Requests -> Save]
          /\ \A r \in Requests : /\ saving'[r].s = saving[r].s
                                /\ saving'[r].step = saving[r].step
                                /\ saving'[r].stamp = saving[r].stamp
      BY <1>3, <2>1, DeleteSaves
    <3> QED
      BY <3>1, <3>2, <3>3
  <2> QED
    BY <1>3, <2>2 DEF TypeOK, Busy
<1>4. ASSUME NEW q \in Requests, Prune(q) PROVE TypeOK'
  <2>1. CASE up
    <3>1. "look" \in Steps /\ Sessions \ {saving[q].s} \in SUBSET Sessions
      BY DEF Steps
    <3>2. Moved(q, "look") \in [Requests -> Save]
          /\ \A r \in Requests : /\ Moved(q, "look")[r].s = saving[r].s
                                 /\ Moved(q, "look")[r].stamp = saving[r].stamp
                                 /\ Moved(q, "look")[r].step # "idle" => Busy(r)
      BY <1>4, <3>1, MovedType DEF Prune, Busy
    <3>3. Delete(Sessions \ {saving[q].s}, Moved(q, "look"))
      BY <1>4, <2>1 DEF Prune
    <3>4. /\ lastActive' \in [Sessions -> 0..clock] /\ saving' \in [Requests -> Save]
          /\ Rows' \subseteq Rows /\ ended' \subseteq ended \cup Rows /\ revived' \subseteq revived
          /\ \A r \in Requests : /\ saving'[r].s = saving[r].s
                                 /\ saving'[r].stamp = saving[r].stamp
                                 /\ saving'[r].step # "idle" => Busy(r)
      <4> DEFINE S == Sessions \ {saving[q].s}
                 next == Moved(q, "look")
      <4>1. S \in SUBSET Sessions /\ Delete(S, next) /\ next \in [Requests -> Save]
        BY <3>1, <3>2, <3>3
      <4>3. \A r \in Requests : /\ next[r].s = saving[r].s
                                /\ next[r].stamp = saving[r].stamp
                                /\ next[r].step # "idle" => Busy(r)
        BY <3>2
      <4> HIDE DEF S, next
      <4>2. Rows' = Rows \ S /\ ended' = ended \cup (S \cap Rows) /\ revived' = revived \ S
        BY <4>1, DeleteRows
      <4>4. lastActive' \in [Sessions -> 0..clock]
        BY <4>1, DeleteRows
      <4>5. /\ saving' \in [Requests -> Save]
            /\ \A r \in Requests : /\ saving'[r].s = next[r].s
                                  /\ saving'[r].step = next[r].step
                                  /\ saving'[r].stamp = next[r].stamp
        BY <4>1, DeleteSaves
      <4> QED
        BY <4>2, <4>3, <4>4, <4>5
    <3>5. ASSUME NEW r \in Requests, Busy(r)'
          PROVE  saving'[r].s <= opened /\ saving'[r].stamp \in 1..clock
      <4>1. saving'[r].step # "idle"
        BY <3>5 DEF Busy
      <4>2. Busy(r) /\ saving'[r].s = saving[r].s /\ saving'[r].stamp = saving[r].stamp
        BY <3>4, <4>1, Zenon
      <4>3. saving[r].s <= opened /\ saving[r].stamp \in 1..clock
        BY <4>2 DEF TypeOK
      <4> QED
        BY <4>2, <4>3
    <3> QED
      BY <1>4, <3>4, <3>5 DEF TypeOK, Prune
  <2>2. CASE ~up
    BY <1>4, <2>2, AnsweredType DEF Prune, TypeOK, Busy, Rows
  <2> QED
    BY <2>1, <2>2
<1>5. ASSUME NEW q \in Requests, Look(q) PROVE TypeOK'
  <2> DEFINE f == up /\ saving[q].s \in Rows
  <2>1. saving[q] \in Save /\ f \in BOOLEAN
    BY DEF TypeOK
  <2>2. saving' = [saving EXCEPT ![q] = [saving[q] EXCEPT !.step = "put", !.found = f]]
    BY <1>5 DEF Look
  <2> HIDE DEF f
  <2> DEFINE b == [saving[q] EXCEPT !.step = "put", !.found = f]
  <2>3. b \in Save /\ b.s = saving[q].s /\ b.stamp = saving[q].stamp
    BY <2>1 DEF Save, Steps
  <2>4. saving' = [saving EXCEPT ![q] = b]
    BY <2>2
  <2> HIDE DEF b
  <2>5. saving' \in [Requests -> Save] /\ saving'[q] = b /\ \A r \in Requests \ {q} : saving'[r] = saving[r]
    BY <2>3, <2>4 DEF TypeOK
  <2> QED
    BY <1>5, <2>3, <2>5 DEF TypeOK, Busy, Rows, Look
<1>6. ASSUME NEW q \in Requests, Busy(q), Store(q), UNCHANGED <<opened, clock, up, outages, booting, ended>>
      PROVE  TypeOK'
  <2>1. /\ lastActive' \in [Sessions -> 0..clock] /\ saving' = Answered(q)
        /\ Rows' = Rows \cup {saving[q].s}
        /\ revived' \subseteq revived \cup {saving[q].s} /\ stored' \subseteq stored \cup {saving[q].s}
        /\ saving[q].s \in Sessions /\ lapsed' \subseteq lapsed
    BY <1>6, StoreFacts
  <2>2. saving[q].s \in 1..opened
    BY <1>0, <1>6, <2>1 DEF TypeOK, Sessions
  <2> QED
    BY <1>6, <2>1, <2>2, AnsweredType DEF TypeOK, Busy
<1>7. ASSUME NEW q \in Requests, Update(q) PROVE TypeOK'
  <2>1. CASE saving[q].s \in Rows
    BY <1>6, <1>7, <2>1 DEF Update, Busy
  <2>2. CASE saving[q].s \notin Rows
    BY <1>7, <2>2, AnsweredType DEF Update, TypeOK, Busy, Rows
  <2> QED
    BY <2>1, <2>2
<1>8. ASSUME NEW q \in Requests, Insert(q) PROVE TypeOK'
  BY <1>6, <1>8 DEF Insert, Busy
<1>9. ASSUME NEW q \in Requests, PutFails(q) PROVE TypeOK'
  <2>1. CASE saving[q].found
    <3> DEFINE b == [saving[q] EXCEPT !.found = FALSE]
    <3>1. saving[q] \in Save
      BY DEF TypeOK
    <3>2. b \in Save /\ b.s = saving[q].s /\ b.stamp = saving[q].stamp
      BY <3>1 DEF Save
    <3>3. saving' = [saving EXCEPT ![q] = b]
      BY <1>9, <2>1 DEF PutFails
    <3> HIDE DEF b
    <3>4. saving' \in [Requests -> Save] /\ saving'[q] = b /\ \A r \in Requests \ {q} : saving'[r] = saving[r]
      BY <3>2, <3>3 DEF TypeOK
    <3> QED
      BY <1>9, <3>2, <3>4 DEF TypeOK, Busy, Rows, PutFails
  <2>2. CASE ~saving[q].found
    BY <1>9, <2>2, AnsweredType DEF PutFails, TypeOK, Busy, Rows
  <2> QED
    BY <2>1, <2>2
<1>10. ASSUME NEW s \in Sessions, Terminate(s) PROVE TypeOK'
  BY <1>3, <1>10 DEF Terminate, TypeOK
<1>11. ASSUME NEW s \in Sessions, Lapse(s) PROVE TypeOK'
  BY <1>0, <1>11 DEF Lapse, TypeOK, Busy, Rows, Sessions
<1>12. ASSUME Release PROVE TypeOK'
  BY <1>3, <1>12 DEF Release, TypeOK
<1>13. ASSUME Tick PROVE TypeOK'
  <2>1. clock' = clock + 1 /\ clock' \in 1..MaxClock
    BY <1>0, <1>13 DEF Tick
  <2>2. lastActive \in [Sessions -> 0..clock']
    BY <1>0, <2>1 DEF TypeOK
  <2> QED
    BY <1>0, <1>13, <2>1, <2>2 DEF Tick, TypeOK, Busy, Rows
<1>14. ASSUME PruneExpired PROVE TypeOK'
  <2>1. lapsed \in SUBSET Sessions
    BY <1>0 DEF TypeOK, Sessions
  <2> QED
    BY <1>3, <1>14, <2>1 DEF PruneExpired, TypeOK
<1>15. ASSUME Outage PROVE TypeOK'
  <2>1. outages' \in 0..MaxOutages
    BY <1>0, <1>15 DEF Outage
  <2>2. up' \in BOOLEAN
    BY <1>15 DEF Outage
  <2> QED
    BY <1>15, <2>1, <2>2 DEF Outage, TypeOK, Busy, Rows
<1>16. ASSUME Recovery PROVE TypeOK'
  BY <1>16 DEF Recovery, TypeOK, Busy, Rows
<1>17. ASSUME Restart PROVE TypeOK'
  BY <1>17, NoSaveType DEF Restart, TypeOK, Busy, Rows, NoSave
<1>18. ASSUME UNCHANGED vars PROVE TypeOK'
  BY <1>18 DEF vars, TypeOK, Busy, Rows
<1>19. ASSUME Purge PROVE TypeOK'
  <2>1. CASE up
    BY <1>3, <1>19, <2>1 DEF Purge, Sessions
  <2>2. CASE ~up
    BY <1>19, <2>2 DEF Purge, TypeOK, Busy, Rows
  <2> QED
    BY <2>1, <2>2
<1> QED
  BY <1>1, <1>2, <1>4, <1>5, <1>7, <1>8, <1>9, <1>10, <1>11, <1>12, <1>13, <1>14, <1>15,
     <1>16, <1>17, <1>18, <1>19 DEF Next

-----------------------------------------------------------------------------
(* The other parts of the invariant *)

\* A step that writes no row and begins no save.
LEMMA QuietStep ==
  ASSUME IInv, saving' \in [Requests -> Save], NothingBegins(saving'),
         UNCHANGED <<lastActive, ended, revived, stored>>
  PROVE  Rest'
<1>1. Rows' = Rows
  BY DEF Rows
<1>2. ASSUME NEW q \in Requests, Busy(q)'
      PROVE  /\ Busy(q)
             /\ saving'[q].s = saving[q].s
             /\ saving'[q].login = saving[q].login
             /\ saving'[q].late = saving[q].late
             /\ Past(q)' => Past(q)
  BY <1>2 DEF NothingBegins, Busy, Past
<1>3. \A q \in Requests : Past(q)' => Busy(q)'
  BY DEF Past, Busy
<1>4. RenewHasRow'
  BY <1>1, <1>2 DEF IInv, RenewHasRow
<1>5. LoginIsNew'
  BY <1>2, <1>3 DEF IInv, LoginIsNew
<1>6. PruneHolds'
  BY <1>1, <1>2, <1>3 DEF IInv, PruneHolds
<1>7. LoginPrunes'
  BY <1>1, <1>2, <1>3 DEF IInv, LoginPrunes
<1>8. EndedStaysEnded' /\ OneSessionPerUser' /\ NewestLoginWins'
  BY <1>1 DEF IInv, EndedStaysEnded, OneSessionPerUser, NewestLoginWins
<1> QED
  BY <1>4, <1>5, <1>6, <1>7, <1>8 DEF Rest

\* A DELETE between other steps: what it removes it makes late.
LEMMA DeleteStep ==
  ASSUME IInv, NEW S \in SUBSET Sessions, Delete(S, saving), UNCHANGED stored
  PROVE  Rest'
<1>1. saving \in [Requests -> Save]
  BY DEF IInv, TypeOK
<1>2. Rows' = Rows \ S /\ ended' = ended \cup (S \cap Rows) /\ revived' = revived \ S
  BY DeleteRows DEF IInv
<1>3. ASSUME NEW q \in Requests
      PROVE  /\ saving'[q].s = saving[q].s
             /\ saving'[q].login <=> saving[q].login
             /\ Busy(q)' <=> Busy(q)
             /\ Past(q)' <=> Past(q)
             /\ ~saving'[q].late /\ Busy(q) => ~saving[q].late /\ saving[q].s \notin S
  BY <1>1, DeleteSaves, DeleteLates DEF Busy, Past
<1>4. \A q \in Requests : Past(q) => Busy(q)
  BY DEF Past, Busy
<1>5. RenewHasRow'
  BY <1>2, <1>3 DEF IInv, RenewHasRow
<1>6. LoginIsNew'
  BY <1>2, <1>3 DEF IInv, LoginIsNew
<1>7. PruneHolds'
  BY <1>2, <1>3, <1>4 DEF IInv, PruneHolds
<1>8. LoginPrunes'
  BY <1>2, <1>3 DEF IInv, LoginPrunes
<1>9. EndedStaysEnded' /\ OneSessionPerUser' /\ NewestLoginWins'
  BY <1>2 DEF IInv, EndedStaysEnded, OneSessionPerUser, NewestLoginWins
<1> QED
  BY <1>5, <1>6, <1>7, <1>8, <1>9 DEF Rest

\* A request that is let in, or refreshes, has its session's row.
LEMMA RenewStep ==
  ASSUME IInv, NEW q \in Requests, NEW s \in Sessions, Renew(q, s) \/ Refresh(q, s)
  PROVE  Rest'
<1> DEFINE b == Begin(s, FALSE)
<1>1. b.s = s /\ b.step = "prune" /\ ~b.login /\ ~b.late /\ b \in Save
  BY BeginType DEF IInv
<1>2. saving' = [saving EXCEPT ![q] = b] /\ UNCHANGED <<lastActive, ended, revived, stored>>
  BY DEF Renew, Refresh
<1> HIDE DEF b
<1>3. saving'[q] = b /\ \A r \in Requests \ {q} : saving'[r] = saving[r]
  BY <1>1, <1>2 DEF IInv, TypeOK
<1>4. Rows' = Rows /\ s \in Rows
  BY <1>2 DEF Rows, Renew, Refresh, Admits, IsFirst
<1>5. \A r \in Requests : Past(r)' => r # q /\ Past(r)
  BY <1>1, <1>3 DEF Past
<1>6. RenewHasRow'
  BY <1>1, <1>3, <1>4 DEF IInv, RenewHasRow, Busy
<1>7. LoginIsNew'
  <2> SUFFICES ASSUME NEW r \in Requests, Busy(r)', ~saving'[r].late, saving'[r].login
               PROVE  /\ saving[r].s = saving'[r].s
                      /\ saving[r].s \notin ended
                      /\ \A x \in stored : x <= saving[r].s
                      /\ \A p \in Requests : Past(p)' => saving'[p].s <= saving[r].s
    BY <1>2 DEF LoginIsNew
  <2>1. r # q /\ saving'[r] = saving[r]
    BY <1>1, <1>3
  <2> QED
    BY <1>3, <1>5, <2>1 DEF IInv, LoginIsNew, Busy
<1>8. PruneHolds'
  BY <1>2, <1>3, <1>4, <1>5 DEF IInv, PruneHolds
<1>9. LoginPrunes'
  BY <1>2, <1>3, <1>4, <1>5 DEF IInv, LoginPrunes
<1>10. EndedStaysEnded' /\ OneSessionPerUser' /\ NewestLoginWins'
  BY <1>2, <1>4 DEF IInv, EndedStaysEnded, OneSessionPerUser, NewestLoginWins
<1> QED
  BY <1>6, <1>7, <1>8, <1>9, <1>10 DEF Rest

\* A new login is newer than everything, and no row of its own exists.
LEMMA LoginStep ==
  ASSUME IInv, NEW q \in Requests, Login(q)
  PROVE  Rest'
<1> DEFINE n == opened + 1
           b == Begin(n, TRUE)
           next == [saving EXCEPT ![q] = b]
           S == IF up THEN lapsed ELSE {}
<1>1. n \in Sessions /\ n \in Int /\ opened \in Nat /\ S \in SUBSET Sessions /\ n \notin S
  BY SessionsAssumption DEF Login, IInv, TypeOK, Sessions, SessionsAssumption
<1>2. b.s = n /\ b.step = "prune" /\ b.login /\ ~b.late /\ b \in Save
  BY <1>1, BeginType DEF IInv
<1>3. Delete(S, next) /\ UNCHANGED stored
  BY DEF Login
<1>4. stored \cup ended \subseteq 1..opened
  BY DEF IInv, TypeOK
<1>5. \A r \in Requests : Busy(r) => saving[r].s <= opened
  BY DEF IInv, TypeOK
<1> HIDE DEF b
<1>6. /\ next \in [Requests -> Save]
      /\ next[q] = b
      /\ \A r \in Requests \ {q} : next[r] = saving[r]
  BY <1>2 DEF IInv, TypeOK
<1> HIDE DEF next, S
<1>7. Rows' = Rows \ S /\ ended' = ended \cup (S \cap Rows) /\ revived' = revived \ S
  BY <1>1, <1>3, DeleteRows DEF IInv
<1>8. ASSUME NEW r \in Requests
      PROVE  /\ saving'[r].s = next[r].s
             /\ saving'[r].login <=> next[r].login
             /\ saving'[r].step = next[r].step
             /\ saving'[r].late <=> next[r].late \/ (next[r].step # "idle" /\ next[r].s \in S)
  BY <1>1, <1>3, <1>6, DeleteSaves, DeleteLates
<1>9. saving'[q].s = n /\ saving'[q].step = "prune" /\ saving'[q].login
  BY <1>2, <1>6, <1>8
<1>10. ASSUME NEW r \in Requests \ {q}
       PROVE  /\ saving'[r].s = saving[r].s
              /\ saving'[r].login <=> saving[r].login
              /\ Busy(r)' <=> Busy(r)
              /\ Past(r)' <=> Past(r)
              /\ ~saving'[r].late /\ Busy(r) => ~saving[r].late /\ saving[r].s \notin S
  BY <1>6, <1>8 DEF Busy, Past
<1>11. ~Past(q)'
  BY <1>9 DEF Past
<1>12. \A r \in Requests : Past(r) => Busy(r)
  BY DEF Past, Busy
<1>13. RenewHasRow'
  BY <1>7, <1>9, <1>10 DEF IInv, RenewHasRow
<1>14. LoginIsNew'
  <2> SUFFICES ASSUME NEW r \in Requests, Busy(r)', ~saving'[r].late, saving'[r].login
               PROVE  /\ saving'[r].s \notin ended'
                      /\ \A x \in stored : x <= saving'[r].s
                      /\ \A p \in Requests : Past(p)' => saving'[p].s <= saving'[r].s
    BY <1>3 DEF LoginIsNew
  <2>1. CASE r = q
    <3>1. n \notin ended'
      BY <1>1, <1>4, <1>7
    <3>2. \A x \in stored : x <= n
      BY <1>1, <1>4
    <3>3. ASSUME NEW p \in Requests, Past(p)' PROVE saving'[p].s <= n
      <4>1. p # q /\ Busy(p) /\ saving'[p].s = saving[p].s
        BY <1>10, <1>11, <1>12, <3>3
      <4>2. saving[p].s \in Int
        BY DEF IInv, TypeOK, Save, Sessions
      <4> QED
        BY <1>1, <1>5, <4>1, <4>2
    <3> QED
      BY <1>9, <2>1, <3>1, <3>2, <3>3
  <2>2. CASE r # q
    BY <1>7, <1>10, <1>11, <2>2 DEF IInv, LoginIsNew
  <2> QED
    BY <2>1, <2>2
<1>15. PruneHolds'
  BY <1>7, <1>10, <1>11, <1>12 DEF IInv, PruneHolds
<1>16. LoginPrunes'
  BY <1>7, <1>10, <1>11 DEF IInv, LoginPrunes
<1>17. EndedStaysEnded' /\ OneSessionPerUser' /\ NewestLoginWins'
  BY <1>3, <1>7 DEF IInv, EndedStaysEnded, OneSessionPerUser, NewestLoginWins
<1> QED
  BY <1>13, <1>14, <1>15, <1>16, <1>17 DEF Rest

\* The DELETE of a save makes the saves of all other sessions late.
LEMMA PruneStep ==
  ASSUME IInv, NEW q \in Requests, Prune(q), up
  PROVE  Rest'
<1> DEFINE s == saving[q].s
           next == Moved(q, "look")
           S == Sessions \ {s}
<1>1. S \in SUBSET Sessions /\ Rows \subseteq Sessions /\ s \in Int /\ Busy(q)
  BY DEF IInv, TypeOK, Save, Sessions, Rows, Prune, Busy
<1>2. /\ next \in [Requests -> Save]
      /\ \A r \in Requests \ {q} : next[r] = saving[r]
      /\ next[q].s = s
      /\ next[q].login = saving[q].login
      /\ next[q].late = saving[q].late
      /\ next[q].step = "look"
  BY MovedType DEF IInv, Steps
<1>3. Delete(S, next) /\ UNCHANGED stored
  BY DEF Prune
<1> HIDE DEF next
<1>4. Rows' = Rows \ S /\ ended' = ended \cup (S \cap Rows) /\ revived' = revived \ S
  BY <1>1, <1>3, DeleteRows DEF IInv
<1>5. ASSUME NEW r \in Requests
      PROVE  /\ saving'[r].s = next[r].s
             /\ saving'[r].login <=> next[r].login
             /\ saving'[r].step = next[r].step
             /\ saving'[r].late <=> next[r].late \/ (next[r].step # "idle" /\ next[r].s \in S)
  BY <1>1, <1>2, <1>3, DeleteSaves, DeleteLates
<1>6. \A r \in Requests : saving[r].s \in Sessions
  BY DEF IInv, TypeOK, Save
<1>7. ASSUME NEW r \in Requests
      PROVE  /\ saving'[r].s = saving[r].s
             /\ saving'[r].login <=> saving[r].login
             /\ Busy(r)' <=> Busy(r)
             /\ Past(r)' => Past(r) \/ r = q
             /\ ~saving'[r].late /\ Busy(r) => ~saving[r].late /\ saving[r].s = s
  BY <1>1, <1>2, <1>5, <1>6 DEF Busy, Past
<1>8. \A r \in Requests : Past(r)' => Busy(r)
  BY <1>7 DEF Past, Busy
<1>9. Rows' \subseteq {s}
  BY <1>1, <1>4
<1>10. RenewHasRow'
  BY <1>4, <1>7 DEF IInv, RenewHasRow
<1>11. LoginIsNew'
  <2> SUFFICES ASSUME NEW r \in Requests, Busy(r)', ~saving'[r].late, saving'[r].login
               PROVE  /\ saving'[r].s \notin ended'
                      /\ \A x \in stored : x <= saving'[r].s
                      /\ \A p \in Requests : Past(p)' => saving'[p].s <= saving'[r].s
    BY <1>3 DEF LoginIsNew
  <2>1. Busy(r) /\ ~saving[r].late /\ saving[r].login /\ saving[r].s = s /\ saving'[r].s = s
    BY <1>7
  <2>2. s \notin ended /\ (\A x \in stored : x <= s) /\ (\A p \in Requests : Past(p) => saving[p].s <= s)
    BY <2>1 DEF IInv, LoginIsNew
  <2>3. \A p \in Requests : Past(p)' => saving'[p].s <= s
    BY <1>1, <1>7, <2>2
  <2> QED
    BY <1>4, <2>1, <2>2, <2>3
<1>12. PruneHolds'
  BY <1>7, <1>8, <1>9 DEF PruneHolds
<1>13. LoginPrunes'
  <2> SUFFICES ASSUME NEW r \in Requests, Past(r)', saving'[r].login,
                      NEW x \in Rows', x < saving'[r].s
               PROVE  x \in revived'
    BY DEF LoginPrunes
  <2>1. x = s /\ r # q /\ Past(r) /\ saving[r].login /\ x < saving[r].s /\ x \in Rows
    BY <1>1, <1>4, <1>7, <1>9
  <2> QED
    BY <1>4, <2>1 DEF IInv, LoginPrunes
<1>14. EndedStaysEnded' /\ OneSessionPerUser' /\ NewestLoginWins'
  BY <1>3, <1>4 DEF IInv, EndedStaysEnded, OneSessionPerUser, NewestLoginWins
<1> QED
  BY <1>10, <1>11, <1>12, <1>13, <1>14 DEF Rest

\* A row is written: by a late save, by the session that has it, or by a login
\* behind whose DELETE no other session is on time.
LEMMA StoreStep ==
  ASSUME IInv, NEW q \in Requests, Past(q), Store(q), UNCHANGED ended
  PROVE  Rest'
<1> DEFINE s == saving[q].s
<1>1. /\ s \in Sessions
      /\ Rows' = Rows \cup {s}
      /\ revived' = IF saving[q].late THEN revived \cup {s} ELSE revived
      /\ stored' = IF saving[q].login THEN stored \cup {s} ELSE stored
      /\ saving' = Answered(q)
  BY StoreFacts DEF IInv, Past, Busy
<1>2. ASSUME NEW r \in Requests, Busy(r)' PROVE r # q /\ saving'[r] = saving[r] /\ Busy(r)
  BY <1>1, <1>2, AnsweredType DEF IInv, Busy
<1>3. ASSUME NEW r \in Requests, Past(r)' PROVE Busy(r)' /\ Past(r)
  <2>1. Busy(r)'
    BY <1>3 DEF Past, Busy
  <2> QED
    BY <1>2, <1>3, <2>1 DEF Past
<1>4. s \in Int /\ stored \subseteq Int /\ \A r \in Requests : saving[r].s \in Int
  BY DEF IInv, TypeOK, Save, Sessions
<1>5. revived \subseteq revived' /\ (saving[q].late => s \in revived')
  BY <1>1
<1>6. Busy(q)
  BY DEF Past, Busy
<1>7. RenewHasRow'
  BY <1>1, <1>2 DEF IInv, RenewHasRow
<1>8. LoginIsNew'
  <2> SUFFICES ASSUME NEW r \in Requests, Busy(r)', ~saving'[r].late, saving'[r].login
               PROVE  /\ saving'[r].s \notin ended
                      /\ \A x \in stored' : x <= saving'[r].s
                      /\ \A p \in Requests : Past(p)' => saving'[p].s <= saving'[r].s
    BY DEF LoginIsNew
  <2>1. saving'[r] = saving[r] /\ Busy(r)
    BY <1>2
  <2>2. /\ saving[r].s \notin ended
        /\ \A x \in stored : x <= saving[r].s
        /\ \A p \in Requests : Past(p) => saving[p].s <= saving[r].s
    BY <2>1 DEF IInv, LoginIsNew
  <2> QED
    BY <1>1, <1>2, <1>3, <2>1, <2>2
\* The rows the step adds are those of late saves and of the session itself.
<1>9. s \in Rows \/ saving[q].late \/ saving[q].login
  BY <1>6 DEF IInv, RenewHasRow
<1>10. PruneHolds'
  <2> SUFFICES ASSUME NEW r \in Requests, Past(r)', ~saving'[r].late
               PROVE  /\ Rows' \subseteq {saving'[r].s} \cup revived'
                      /\ \A p \in Requests : Past(p)' /\ ~saving'[p].late => saving'[p].s = saving'[r].s
    BY DEF PruneHolds
  <2>1. Past(r) /\ saving'[r] = saving[r]
    BY <1>2, <1>3
  <2>2. /\ Rows \subseteq {saving[r].s} \cup revived
        /\ \A p \in Requests : Past(p) /\ ~saving[p].late => saving[p].s = saving[r].s
    BY <2>1 DEF IInv, PruneHolds
  <2>3. s \in {saving[r].s} \cup revived'
    BY <1>5, <2>2
  <2>4. \A p \in Requests : Past(p)' /\ ~saving'[p].late => saving'[p].s = saving[r].s
    BY <1>2, <1>3, <2>2
  <2> QED
    BY <1>1, <1>5, <2>1, <2>2, <2>3, <2>4
<1>11. LoginPrunes'
  <2> SUFFICES ASSUME NEW r \in Requests, Past(r)', saving'[r].login,
                      NEW x \in Rows', x < saving'[r].s
               PROVE  x \in revived'
    BY DEF LoginPrunes
  <2>1. Past(r) /\ Busy(r) /\ saving'[r] = saving[r]
    BY <1>2, <1>3
  <2>2. CASE x \in Rows
    BY <1>5, <2>1, <2>2 DEF IInv, LoginPrunes
  <2>3. CASE x = s /\ x \notin Rows /\ ~saving[q].late
    <3>1. saving[q].login /\ s < saving[r].s
      BY <1>9, <2>1, <2>3
    <3>2. saving[r].s <= s
      BY <1>6, <2>1, <2>3, <3>1 DEF IInv, LoginIsNew
    <3> QED
      BY <1>4, <3>1, <3>2
  <2> QED
    BY <1>1, <1>5, <2>2, <2>3
<1>12. EndedStaysEnded'
  <2>1. s \in Rows \/ saving[q].late \/ s \notin ended
    BY <1>6, <1>9 DEF IInv, LoginIsNew
  <2> QED
    BY <1>1, <1>5, <2>1 DEF IInv, EndedStaysEnded
<1>13. OneSessionPerUser'
  <2>1. saving[q].late \/ Rows \subseteq {s} \cup revived
    BY DEF IInv, PruneHolds
  <2>2. ASSUME NEW x \in Rows', NEW y \in Rows' PROVE x = y \/ x \in revived' \/ y \in revived'
    <3>1. CASE x \in Rows /\ y \in Rows
      BY <1>5, <3>1 DEF IInv, OneSessionPerUser
    <3>2. CASE x = s \/ y = s
      BY <1>1, <1>5, <2>1, <3>2
    <3> QED
      BY <1>1, <3>1, <3>2
  <2> QED
    BY <2>2 DEF OneSessionPerUser
<1>14. NewestLoginWins'
  <2> SUFFICES ASSUME NEW x \in Rows', NEW y \in stored', y > x PROVE x \in revived'
    BY DEF NewestLoginWins
  <2>1. CASE x \in Rows /\ y \in stored
    BY <1>5, <2>1 DEF IInv, NewestLoginWins
  <2>2. CASE x = s /\ x \notin Rows /\ y \in stored
    <3>1. saving[q].late \/ (saving[q].login /\ y <= s)
      BY <1>6, <1>9, <2>2 DEF IInv, LoginIsNew
    <3> QED
      BY <1>4, <1>5, <2>2, <3>1
  <2>3. CASE x \in Rows /\ y = s /\ saving[q].login
    BY <1>5, <2>3 DEF IInv, LoginPrunes
  <2>4. CASE x = s /\ y = s
    BY <1>4, <2>4
  <2> QED
    BY <1>1, <2>1, <2>2, <2>3, <2>4
<1> QED
  BY <1>7, <1>8, <1>10, <1>11, <1>12, <1>13, <1>14 DEF Rest

-----------------------------------------------------------------------------
(* The inductive invariant *)

LEMMA InvInit == Init => IInv
<1>1. Init => TypeOK
  BY TypeInit
<1>2. Init => \A q \in Requests : ~Busy(q) /\ ~Past(q)
  <2> SUFFICES ASSUME Init, NEW q \in Requests PROVE ~Busy(q) /\ ~Past(q)
    OBVIOUS
  <2>1. saving[q].step = "idle"
    BY DEF Init, NoSave
  <2> QED
    BY <2>1 DEF Busy, Past
<1>3. Init => Rows = {}
  BY DEF Init, Rows
<1> QED
  BY <1>1, <1>2, <1>3 DEF IInv, RenewHasRow, LoginIsNew, PruneHolds, LoginPrunes,
     EndedStaysEnded, OneSessionPerUser, NewestLoginWins

LEMMA RestStep == IInv /\ [Next]_vars => Rest'
<1> SUFFICES ASSUME IInv, [Next]_vars PROVE Rest'
  OBVIOUS
<1>1. TypeOK /\ saving \in [Requests -> Save]
  BY DEF IInv, TypeOK
<1>2. ASSUME saving' = saving, UNCHANGED <<lastActive, ended, revived, stored>> PROVE Rest'
  <2>1. NothingBegins(saving)
    BY DEF NothingBegins, Busy, Past
  <2> QED
    BY <1>1, <1>2, <2>1, QuietStep
<1>3. ASSUME NEW q \in Requests, saving' = Answered(q),
             UNCHANGED <<lastActive, ended, revived, stored>>
      PROVE  Rest'
  <2>1. NothingBegins(Answered(q)) /\ Answered(q) \in [Requests -> Save]
    BY <1>1, AnsweredType DEF NothingBegins, Busy, Past
  <2> QED
    BY <1>3, <2>1, QuietStep
<1>4. ASSUME NEW q \in Requests, Prune(q) PROVE Rest'
  <2>1. CASE up
    BY <1>4, <2>1, PruneStep
  <2>2. CASE ~up
    BY <1>3, <1>4, <2>2 DEF Prune
  <2> QED
    BY <2>1, <2>2
<1>5. ASSUME NEW q \in Requests, Look(q) PROVE Rest'
  <2>1. \A r \in Requests \ {q} : saving'[r] = saving[r]
    BY <1>1, <1>5 DEF Look
  <2>2. /\ saving'[q].s = saving[q].s
        /\ saving'[q].login = saving[q].login
        /\ saving'[q].late = saving[q].late
        /\ Busy(q) /\ Past(q)
    BY <1>1, <1>5 DEF Look, Save, Busy, Past
  <2>3. NothingBegins(saving')
    BY <2>1, <2>2 DEF NothingBegins, Busy, Past
  <2>4. saving' \in [Requests -> Save]
    BY <1>1, <1>5, TypeStep DEF TypeOK
  <2> QED
    BY <1>5, <2>3, <2>4, QuietStep DEF Look
<1>6. ASSUME NEW q \in Requests, Update(q) PROVE Rest'
  <2>1. CASE saving[q].s \in Rows
    BY <1>6, <2>1, StoreStep DEF Update, Past
  <2>2. CASE saving[q].s \notin Rows
    BY <1>3, <1>6, <2>2 DEF Update
  <2> QED
    BY <2>1, <2>2
<1>7. ASSUME NEW q \in Requests, Insert(q) PROVE Rest'
  BY <1>7, StoreStep DEF Insert, Past
<1>8. ASSUME NEW q \in Requests, PutFails(q) PROVE Rest'
  <2>1. CASE saving[q].found
    <3>1. \A r \in Requests \ {q} : saving'[r] = saving[r]
      BY <1>1, <1>8, <2>1 DEF PutFails
    <3>2. saving'[q] = [saving[q] EXCEPT !.found = FALSE]
      BY <1>1, <1>8, <2>1 DEF PutFails
    <3>3. /\ saving'[q].s = saving[q].s
          /\ saving'[q].login = saving[q].login
          /\ saving'[q].late = saving[q].late
          /\ Busy(q) /\ Past(q)
      BY <1>1, <1>8, <3>2 DEF PutFails, Save, Busy, Past
    <3>4. NothingBegins(saving')
      BY <3>1, <3>3 DEF NothingBegins, Busy, Past
    <3>5. saving' \in [Requests -> Save]
      BY <1>1, <1>8, TypeStep DEF TypeOK
    <3> QED
      BY <1>8, <3>4, <3>5, QuietStep DEF PutFails
  <2>2. CASE ~saving[q].found
    BY <1>3, <1>8, <2>2 DEF PutFails
  <2> QED
    BY <2>1, <2>2
<1>9. ASSUME NEW q \in Requests, Login(q) PROVE Rest'
  BY <1>9, LoginStep
<1>10. ASSUME NEW q \in Requests, NEW s \in Sessions, Renew(q, s) \/ Refresh(q, s)
       PROVE  Rest'
  BY <1>10, RenewStep
<1>11. ASSUME NEW s \in Sessions, Terminate(s) PROVE Rest'
  BY <1>11, DeleteStep DEF Terminate
<1>12. ASSUME NEW s \in Sessions, Lapse(s) PROVE Rest'
  BY <1>2, <1>12 DEF Lapse
<1>13. ASSUME Release PROVE Rest'
  BY <1>13, DeleteStep DEF Release
<1>14. ASSUME Tick PROVE Rest'
  BY <1>2, <1>14 DEF Tick
<1>15. ASSUME PruneExpired PROVE Rest'
  <2>1. lapsed \in SUBSET Sessions
    BY <1>1, SessionsAssumption DEF TypeOK, Sessions, SessionsAssumption
  <2> QED
    BY <1>15, <2>1, DeleteStep DEF PruneExpired
<1>16. ASSUME Outage PROVE Rest'
  BY <1>2, <1>16 DEF Outage
<1>17. ASSUME Recovery PROVE Rest'
  BY <1>2, <1>17 DEF Recovery
<1>18. ASSUME Restart PROVE Rest'
  <2>1. saving' \in [Requests -> Save] /\ NothingBegins(saving')
    BY <1>18, NoSaveType DEF Restart, NothingBegins, NoSave
  <2> QED
    BY <1>18, <2>1, QuietStep DEF Restart
<1>19. ASSUME UNCHANGED vars PROVE Rest'
  BY <1>2, <1>19 DEF vars
<1>20. ASSUME Purge PROVE Rest'
  <2>1. CASE up
    BY <1>20, <2>1, DeleteStep DEF Purge
  <2>2. CASE ~up
    BY <1>2, <1>20, <2>2 DEF Purge
  <2> QED
    BY <2>1, <2>2
<1> QED
  BY <1>4, <1>5, <1>6, <1>7, <1>8, <1>9, <1>10, <1>11, <1>12, <1>13, <1>14, <1>15,
     <1>16, <1>17, <1>18, <1>19, <1>20 DEF Next

LEMMA InvStep == IInv /\ [Next]_vars => IInv'
BY TypeStep, RestStep DEF IInv, Rest

LEMMA Invariant == Spec => []IInv
BY InvInit, InvStep, PTL DEF Spec

-----------------------------------------------------------------------------
(* Theorems *)

\* Every variable has the values the code gives it, and no row is from the future.
THEOREM TypeCorrect == Spec => []TypeOK
<1>1. IInv => TypeOK
  BY DEF IInv
<1> QED
  BY <1>1, Invariant, PTL

\* However many requests interleave with its end, a session comes back only by a
\* save that had read its row before.
THEOREM EndedSessionsStayEnded == Spec => []EndedStaysEnded
<1>1. IInv => EndedStaysEnded
  BY DEF IInv
<1> QED
  BY <1>1, Invariant, PTL

\* A user has one session, but for those that a save overtaken by a delete wrote.
THEOREM SessionsAreSingle == Spec => []OneSessionPerUser
<1>1. IInv => OneSessionPerUser
  BY DEF IInv
<1> QED
  BY <1>1, Invariant, PTL

\* And it is the newest that has reached the table, with the same exception.
THEOREM NewestSessionWins == Spec => []NewestLoginWins
<1>1. IInv => NewestLoginWins
  BY DEF IInv
<1> QED
  BY <1>1, Invariant, PTL

=============================================================================
