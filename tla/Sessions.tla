------------------------------ MODULE Sessions ------------------------------
(***************************************************************************)
(* The active_sessions table of the server, as far as it is about one user *)
(* who is not an administrator: src/src/server/services/authService.js,    *)
(* verifySessionAndCheckConcurrency of middleware/authMiddleware.js and    *)
(* the routes of routes/authRoutes.js.  Every statement names a session or *)
(* a user, so users do not meet; an administrator's rows are independent.  *)
(*                                                                         *)
(* A request reads the list of sessions, decides, and saves what it read:  *)
(* saveActiveSessionRecord() deletes the user's other rows, looks whether  *)
(* its own row exists, and updates or inserts it.  These are four queries  *)
(* with an await each, and other requests run between any two of them.     *)
(*                                                                         *)
(* Sessions are numbered in the order in which their logins began.         *)
(***************************************************************************)
EXTENDS Integers

CONSTANTS
  Requests,     \* the requests that can be saving a session at once
  MaxSessions,  \* bound: logins
  MaxClock,     \* bound: values of lastActive, a DATETIME in seconds
  MaxOutages    \* bound: times MySQL goes away

ASSUME SessionsAssumption ==
  /\ MaxSessions \in Nat \ {0}
  /\ MaxClock \in Nat \ {0}
  /\ MaxOutages \in Nat

VARIABLES
  lastActive, \* lastActive[s] of the row of s, NoRow if it has none
  saving,     \* saving[q]: what request q is about to do
  opened,     \* logins begun
  lapsed,     \* sessions whose expiresAt has passed
  clock,      \* the time, as lastActive tells it
  up,         \* MySQL answers, and isMysqlActive says so
  outages,    \* how often it went away
  booting,    \* the server has started, and not yet emptied the table
  stored,     \* history: sessions whose login reached the table
  ended,      \* history: sessions whose row was deleted
  revived     \* history: rows written by a save that another one's delete overtook

vars == <<lastActive, saving, opened, lapsed, clock, up, outages, booting,
          stored, ended, revived>>

Sessions == 1..MaxSessions
NoRow == 0
Rows == {s \in Sessions : lastActive[s] # NoRow}

\* The steps of saveActiveSessionRecord(); "put" still has to write the row.
Steps == {"idle", "prune", "look", "put"}
Save == [s : Sessions, login : BOOLEAN, step : Steps, found : BOOLEAN,
         stamp : 0..MaxClock, late : BOOLEAN]
Busy(q) == saving[q].step # "idle"

Past(q) == saving[q].step \in {"look", "put"}
NoSave == [s |-> 1, login |-> FALSE, step |-> "idle", found |-> FALSE, stamp |-> 0,
           late |-> FALSE]

\* Faulty variant of Begin: the fraction of the second is rounded, as MySQL does.
BeginRounded(s, login) ==
  [s |-> s, login |-> login, step |-> "prune", found |-> FALSE, stamp |-> clock + 1,
   late |-> FALSE]

\* A request that has decided to save the session s, active as of now: the
\* fraction of the second is cut off.
Begin(s, login) ==
  [s |-> s, login |-> login, step |-> "prune", found |-> FALSE, stamp |-> clock,
   late |-> FALSE]

Moved(q, step) == [saving EXCEPT ![q].step = step]
Answered(q) == [saving EXCEPT ![q] = NoSave]

\* A DELETE that covers the sessions S: their rows go, and saves of them that are
\* under way are late.
Delete(S, next) ==
  /\ lastActive' = [s \in Sessions |-> IF s \in S THEN NoRow ELSE lastActive[s]]
  /\ ended' = ended \cup (S \cap Rows)
  /\ revived' = revived \ S
  /\ saving' = [q \in Requests |->
       IF next[q].step # "idle" /\ next[q].s \in S THEN [next[q] EXCEPT !.late = TRUE]
       ELSE next[q]]

-----------------------------------------------------------------------------
(* Requests *)

\* POST /login, past the password: expired sessions are pruned, the new session
\* gets an id of its own, and its save begins.
Login(q) ==
  /\ ~Busy(q)
  /\ opened < MaxSessions
  /\ opened' = opened + 1
  /\ Delete(IF up THEN lapsed ELSE {}, [saving EXCEPT ![q] = Begin(opened + 1, TRUE)])
  /\ UNCHANGED <<lapsed, clock, up, outages, booting, stored>>

\* The first row of "ORDER BY lastActive DESC"; equal ones come in any order.
IsFirst(s) == s \in Rows /\ \A t \in Rows : lastActive[t] <= lastActive[s]

\* Faulty variant of Admits: a session without a row is let in by its token.
AdmitsByToken(s) == s \in stored /\ s \notin lapsed /\ (IsFirst(s) \/ Rows = {})

\* verifySessionAndCheckConcurrency(): no row, another session's row first, or an
\* expired session: refused, nothing is saved.
Admits(s) == IsFirst(s) /\ s \notin lapsed

\* A request of session s is let in, and renews the session.
Renew(q, s) ==
  /\ ~Busy(q)
  /\ up
  /\ Admits(s)
  /\ saving' = [saving EXCEPT ![q] = Begin(s, FALSE)]
  /\ UNCHANGED <<lastActive, opened, lapsed, clock, up, outages, booting,
                 stored, ended, revived>>

\* POST /refresh: whoever holds a token of the user that has not expired, of whichever
\* session, has the user's first row saved, lapsed or not.
Refresh(q, s) ==
  /\ ~Busy(q)
  /\ up
  /\ IsFirst(s)
  /\ saving' = [saving EXCEPT ![q] = Begin(s, FALSE)]
  /\ UNCHANGED <<lastActive, opened, lapsed, clock, up, outages, booting,
                 stored, ended, revived>>

\* Faulty variant of Prune: the other rows are left alone.
PruneNothing(q) ==
  /\ saving[q].step = "prune"
  /\ saving' = Moved(q, "look")
  /\ UNCHANGED <<lastActive, opened, lapsed, clock, up, outages, booting,
                 stored, ended, revived>>

\* DELETE ... WHERE userId = ? AND id != ?.  If it fails, so does the save, and
\* the request is answered as if it had been done.
Prune(q) ==
  /\ saving[q].step = "prune"
  /\ IF up THEN Delete(Sessions \ {saving[q].s}, Moved(q, "look"))
     ELSE /\ saving' = Answered(q)
          /\ UNCHANGED <<lastActive, ended, revived>>
  /\ UNCHANGED <<opened, lapsed, clock, up, outages, booting, stored>>

\* upsertRecordMysql(): SELECT 1; an error counts as "not found".
Look(q) ==
  /\ saving[q].step = "look"
  /\ saving' = [saving EXCEPT ![q].step = "put",
                              ![q].found = up /\ saving[q].s \in Rows]
  /\ UNCHANGED <<lastActive, opened, lapsed, clock, up, outages, booting,
                 stored, ended, revived>>

\* The row is written, and the request is answered.  The save carries the expiry it
\* read, or the later one of POST /refresh: a lapsed session may be valid again.
Store(q) ==
  LET s == saving[q].s
  IN  /\ lastActive' = [lastActive EXCEPT ![s] = saving[q].stamp]
      /\ revived' = revived \cup (IF saving[q].late THEN {s} ELSE {})
      /\ stored' = stored \cup (IF saving[q].login THEN {s} ELSE {})
      /\ lapsed' \in {lapsed, lapsed \ {s}}
      /\ saving' = Answered(q)

\* UPDATE of the row that was found: it may be gone by now.
Update(q) ==
  /\ saving[q].step = "put"
  /\ saving[q].found
  /\ up
  /\ IF saving[q].s \in Rows THEN Store(q)
     ELSE saving' = Answered(q) /\ UNCHANGED <<lastActive, revived, stored, lapsed>>
  /\ UNCHANGED <<opened, clock, up, outages, booting, ended>>

\* INSERT ... ON DUPLICATE KEY UPDATE of a row that was not found.
Insert(q) ==
  /\ saving[q].step = "put"
  /\ ~saving[q].found
  /\ up
  /\ Store(q)
  /\ UNCHANGED <<opened, clock, up, outages, booting, ended>>

\* Without MySQL an UPDATE falls back to the INSERT, and that ends the save.
PutFails(q) ==
  /\ saving[q].step = "put"
  /\ ~up
  /\ saving' = IF saving[q].found THEN [saving EXCEPT ![q].found = FALSE]
               ELSE Answered(q)
  /\ UNCHANGED <<lastActive, opened, lapsed, clock, up, outages, booting,
                 stored, ended, revived>>

\* DELETE or POST /api/auth/session: the rows of the session and of its user go.
\* logout() sends it, from a superseded terminal as well, and so does
\* extendSession(), whose POST the server takes for a logout.
Release ==
  /\ up
  /\ Rows # {}
  /\ Delete(Sessions, saving)
  /\ UNCHANGED <<opened, lapsed, clock, up, outages, booting, stored>>

\* An administrator terminates one session.
Terminate(s) ==
  /\ up
  /\ s \in Rows
  /\ Delete({s}, saving)
  /\ UNCHANGED <<opened, lapsed, clock, up, outages, booting, stored>>

-----------------------------------------------------------------------------
(* Time and faults *)

Tick ==
  /\ clock < MaxClock
  /\ clock' = clock + 1
  /\ UNCHANGED <<lastActive, saving, opened, lapsed, up, outages, booting,
                 stored, ended, revived>>

\* expiresAt passes, at midnight at the latest.
Lapse(s) ==
  /\ s <= opened
  /\ s \notin lapsed
  /\ lapsed' = lapsed \cup {s}
  /\ UNCHANGED <<lastActive, saving, opened, clock, up, outages, booting,
                 stored, ended, revived>>

\* pruneExpiredSessions() every minute.  (A row is idle for 24 hours, or of an
\* earlier day, only after its expiry.)
PruneExpired ==
  /\ up
  /\ lapsed \cap Rows # {}
  /\ Delete(lapsed, saving)
  /\ UNCHANGED <<opened, lapsed, clock, up, outages, booting, stored>>

\* MySQL goes away, and comes back.
Outage ==
  /\ up
  /\ outages < MaxOutages
  /\ up' = FALSE
  /\ outages' = outages + 1
  /\ UNCHANGED <<lastActive, saving, opened, lapsed, clock, booting,
                 stored, ended, revived>>

Recovery ==
  /\ ~up
  /\ up' = TRUE
  /\ UNCHANGED <<lastActive, saving, opened, lapsed, clock, outages, booting,
                 stored, ended, revived>>

\* The server restarts, and answers requests again.
Restart ==
  /\ booting' = TRUE
  /\ saving' = [q \in Requests |-> NoSave]
  /\ UNCHANGED <<lastActive, opened, lapsed, clock, up, outages, stored, ended, revived>>

\* invalidateAllSessionsOnBoot(), some awaits after the server listens: the table is
\* emptied, unless MySQL does not answer; then the old sessions go on.
Purge ==
  /\ booting
  /\ booting' = FALSE
  /\ IF up THEN Delete(Sessions, saving)
     ELSE UNCHANGED <<lastActive, saving, ended, revived>>
  /\ UNCHANGED <<opened, lapsed, clock, up, outages, stored>>

-----------------------------------------------------------------------------
(* The specification *)

Init ==
  /\ lastActive = [s \in Sessions |-> NoRow]
  /\ saving = [q \in Requests |-> NoSave]
  /\ opened = 0
  /\ lapsed = {}
  /\ clock = 1
  /\ up = TRUE
  /\ outages = 0
  /\ booting = FALSE
  /\ stored = {}
  /\ ended = {}
  /\ revived = {}

Next ==
  \/ \E q \in Requests :
       \/ Login(q)
       \/ \E s \in Sessions : Renew(q, s) \/ Refresh(q, s)
       \/ Prune(q)
       \/ Look(q)
       \/ Update(q)
       \/ Insert(q)
       \/ PutFails(q)
  \/ \E s \in Sessions : Terminate(s) \/ Lapse(s)
  \/ Release
  \/ Tick
  \/ PruneExpired
  \/ Outage
  \/ Recovery
  \/ Restart
  \/ Purge

Spec == Init /\ [][Next]_vars

-----------------------------------------------------------------------------
(* Properties *)

\* The sessions spoken of have begun, and no row is from the future.
TypeOK ==
  /\ opened \in 0..MaxSessions
  /\ clock \in 1..MaxClock
  /\ lastActive \in [Sessions -> 0..clock]
  /\ saving \in [Requests -> Save]
  /\ \A q \in Requests :
       Busy(q) => saving[q].s <= opened /\ saving[q].stamp \in 1..clock
  /\ lapsed \cup stored \cup ended \subseteq 1..opened
  /\ Rows \cup revived \subseteq 1..opened
  /\ up \in BOOLEAN
  /\ outages \in 0..MaxOutages
  /\ booting \in BOOLEAN

\* A session that was logged out, terminated, superseded or pruned does not come
\* back: its token alone never makes a row again.  The exception is a save that
\* read the row before it was deleted and inserts it after.
EndedStaysEnded == Rows \cap ended \subseteq revived

\* Two sessions of one user exist only where one of them was written by a save
\* that a delete had overtaken, however logins and requests interleave
\* (saveActiveSessionRecord: "Enforce strict single-device concurrency").
OneSessionPerUser ==
  \A s, t \in Rows : s = t \/ s \in revived \/ t \in revived

\* Once a login has reached the table, an earlier session is there only if its
\* save was overtaken: what refuses a request as superseded is a newer login.
NewestLoginWins ==
  \A s \in Rows, t \in stored : t > s => s \in revived

-----------------------------------------------------------------------------
(* The inductive invariant *)

\* A save on time that is no login has its row still.
RenewHasRow ==
  \A q \in Requests :
    Busy(q) /\ ~saving[q].late /\ ~saving[q].login => saving[q].s \in Rows

\* A login on time is the first of its session, and newer than every login that
\* has pruned or reached the table.
LoginIsNew ==
  \A q \in Requests : Busy(q) /\ ~saving[q].late /\ saving[q].login =>
    /\ saving[q].s \notin ended
    /\ \A t \in stored : t <= saving[q].s
    /\ \A r \in Requests : Past(r) => saving[r].s <= saving[q].s

\* Behind the DELETE of a save on time no other session has a row, and no save of
\* another session is past its own DELETE, unless it is late.
PruneHolds ==
  \A q \in Requests : Past(q) /\ ~saving[q].late =>
    /\ Rows \subseteq {saving[q].s} \cup revived
    /\ \A r \in Requests : Past(r) /\ ~saving[r].late => saving[r].s = saving[q].s

\* Behind the DELETE of a login no older session has a row.
LoginPrunes ==
  \A q \in Requests : Past(q) /\ saving[q].login =>
    \A s \in Rows : s < saving[q].s => s \in revived

IInv ==
  /\ TypeOK
  /\ RenewHasRow
  /\ LoginIsNew
  /\ PruneHolds
  /\ LoginPrunes
  /\ EndedStaysEnded
  /\ OneSessionPerUser
  /\ NewestLoginWins

=============================================================================
