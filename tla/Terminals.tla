----------------------------- MODULE Terminals -----------------------------
(***************************************************************************)
(* Several terminals of one branch and the server they share: checkouts    *)
(* and voids (useDbOperationsModule.ts), the packages they put into the    *)
(* outbox, the handlers that execute them (dbRoutes.js, salesDbRoutes.js), *)
(* the database cache, and the polls by which a terminal replaces its own  *)
(* state with the server's (useDbSyncModule.ts).                           *)
(*                                                                         *)
(* One product is followed, and every sale is of one unit.  Of the outbox  *)
(* (transactionOutboxService.ts) every status is kept, with the answers,   *)
(* the user's retries and the reloads that lead from one to another;       *)
(* Outbox has its timers, its storage and its bounds.  MySQL is up:        *)
(* DegradedStore models the outages.                                       *)
(***************************************************************************)
EXTENDS DbCache, Integers, Sequences

CONSTANTS
  Terminals,  \* the browsers, each with its own state and its own outbox
  Opening,    \* the stock of the product when the day starts
  MaxSales,   \* bound: sales made
  MaxTries    \* bound: times one package is sent

ASSUME TerminalsAssumption ==
  /\ Opening \in Nat
  /\ MaxSales \in Nat
  /\ MaxTries \in Nat \ {0}
  /\ Tables = {"sales", "stock"}

VARIABLES
  mine,      \* mine[t][s]: the sale as terminal t has it
  qty,       \* qty[t]: the branch's stock row as terminal t has it
  entry,     \* entry[t]: optimisticStockCacheRef, for 60 s after a sale of t
  click,     \* click[t]: the stock row that the checkout under way closes over
  saved,     \* saved[t]: sales and stock row as the last poll left them in storage
  box,       \* box[t]: the packages of t's outbox, oldest first
  cur,       \* cur[t]: the package whose answer flush() awaits, 0 without one
  wire,      \* requests that write, up to the end of their handlers
  sold,      \* sold[s]: the terminal that made sale s
  voided,    \* history: sales somebody voided
  aside,     \* history: sales whose checkout was refused, or reached the retry limit
  standing   \* history: sales whose void the server has executed, see VoidStands

client == <<mine, qty, entry, click, saved, box, cur>>
history == <<sold, voided, aside, standing>>
vars == <<caching, client, wire, history>>

SaleIds == 1..Len(sold)
AllSales == 1..MaxSales
States == {"none", "live", "void"}
None == -1
Floor(n) == IF n > 0 THEN n ELSE 0
Least(m, n) == IF m < n THEN m ELSE n

\* The statuses of a package, and "again" for one that is pending since the user
\* retried a dead letter: a flush that runs does not have it in its list.
Statuses == {"pending", "processing", "failed", "dead_letter", "again", "completed"}
Waiting == {"pending", "failed"}

Package == [kind : {"checkout", "void"}, sale : AllSales, qty : Nat,
            st : Statuses, try : 0..MaxTries]
Request == [t : Terminals, kind : {"checkout", "void", "log"}, sale : AllSales,
            qty : Nat, try : 0..MaxTries]

-----------------------------------------------------------------------------
(* A terminal's own operations *)

\* clientCheckout() starts: the callback it will call closes over this render.
Click(t) ==
  /\ click[t] = None
  /\ Len(sold) < MaxSales
  /\ click' = [click EXCEPT ![t] = qty[t]]
  /\ UNCHANGED <<caching, mine, qty, entry, saved, box, cur, wire, history>>

\* The checkout ends without a sale: the server's stock, the guard or the user
\* refuses.
GiveUp(t) ==
  /\ click[t] # None
  /\ click' = [click EXCEPT ![t] = None]
  /\ UNCHANGED <<caching, mine, qty, entry, saved, box, cur, wire, history>>

New(kind, s, n) == [kind |-> kind, sale |-> s, qty |-> n, st |-> "pending", try |-> 0]
Log(t, s) == [t |-> t, kind |-> "log", sale |-> s, qty |-> 0, try |-> 0]

\* checkoutSale(): the list and the stock row are updated from their values now,
\* the package carries the quantity computed from the render of the click.  The
\* request of saveSaleLog leaves at once.  (The question to the server that
\* precedes it is skipped when it fails, so it guards nothing for certain.)
CheckoutSale(t) ==
  LET s == Len(sold) + 1
  IN  /\ click[t] # None
      /\ Len(sold) < MaxSales
      /\ (IF entry[t] # None THEN entry[t] ELSE click[t]) >= 1
      /\ sold' = Append(sold, t)
      /\ mine' = [mine EXCEPT ![t][s] = "live"]
      /\ qty' = [qty EXCEPT ![t] = Floor(@ - 1)]
      /\ entry' = [entry EXCEPT ![t] = Floor(qty[t] - 1)]
      /\ click' = [click EXCEPT ![t] = None]
      /\ box' = [box EXCEPT ![t] = Append(@, New("checkout", s, Floor(click[t] - 1)))]
      /\ wire' = wire \cup {Log(t, s)}
      /\ UNCHANGED <<caching, saved, cur, voided, aside, standing>>

\* voidSale(): the package has the sale marked as deleted, and no stock.  (Bound: a
\* sale is voided once, although a reload or a poll may show it live again.)
VoidSale(t, s) ==
  /\ s \notin voided
  /\ mine[t][s] = "live"
  /\ voided' = voided \cup {s}
  /\ mine' = [mine EXCEPT ![t][s] = "void"]
  /\ qty' = [qty EXCEPT ![t] = @ + 1]
  /\ box' = [box EXCEPT ![t] = Append(@, New("void", s, 0))]
  /\ UNCHANGED <<caching, entry, click, saved, cur, wire, sold, aside, standing>>

\* The optimistic entry is 60 seconds old.
Expire(t) ==
  /\ entry[t] # None
  /\ entry' = [entry EXCEPT ![t] = None]
  /\ UNCHANGED <<caching, mine, qty, click, saved, box, cur, wire, history>>

-----------------------------------------------------------------------------
(* The outbox *)

Open == Waiting \cup {"again"}
Marked(t, i, st) == [box EXCEPT ![t][i].st = st]
Asided(t, i) == IF box[t][i].kind = "checkout" THEN aside \cup {box[t][i].sale} ELSE aside

\* flush() sends a package and awaits the answer.  It takes those that wait in order
\* of creation; the others, left processing by a refusal, dead or completed, are
\* not in its list, and one put back from the dead letters may be too late for it.
Send(t, i) ==
  /\ cur[t] = 0
  /\ box[t][i].st \in Open
  /\ \A j \in 1..(i - 1) : box[t][j].st \notin Waiting
  /\ box[t][i].try < MaxTries
  /\ cur' = [cur EXCEPT ![t] = i]
  /\ box' = [box EXCEPT ![t][i].st = "processing", ![t][i].try = @ + 1]
  /\ wire' = wire \cup {[t |-> t, kind |-> box[t][i].kind, sale |-> box[t][i].sale,
                          qty |-> box[t][i].qty, try |-> box[t][i].try + 1]}
  /\ UNCHANGED <<caching, mine, qty, entry, click, saved, history>>

\* Faulty variant of Fail: the flush goes on to the next package.
FailMovingOn(t, st) ==
  /\ cur[t] # 0
  /\ box' = Marked(t, cur[t], "again")
  /\ cur' = [cur EXCEPT ![t] = 0]
  /\ UNCHANGED <<caching, mine, qty, entry, click, saved, wire, history>>

\* The attempt fails, by an answer 5xx or without any, and ends the flush: the
\* client stops waiting, the request may still arrive.  An answer that comes when
\* the retry limit is reached makes the package a dead letter.  (The limit of 20
\* is any number of failures here.)
Fail(t, st) ==
  /\ cur[t] # 0
  /\ box' = Marked(t, cur[t], st)
  /\ cur' = [cur EXCEPT ![t] = 0]
  /\ aside' = IF st = "dead_letter" THEN Asided(t, cur[t]) ELSE aside
  /\ UNCHANGED <<caching, mine, qty, entry, click, saved, wire, sold, voided, standing>>

\* retryItem(), and retryAll() one package at a time.  A failed package is in the
\* list of every flush that runs, a dead letter perhaps not.
Retry(t, i) ==
  /\ box[t][i].st \in {"failed", "dead_letter"}
  /\ box' = Marked(t, i, IF box[t][i].st = "failed" THEN "pending" ELSE "again")
  /\ UNCHANGED <<caching, mine, qty, entry, click, saved, cur, wire, history>>

\* The page is reloaded.  A package that was processing is pending again, whether
\* its request is under way or was refused; list and row are those that the last
\* poll stored; the callbacks and the optimistic entries of the page are gone.
Reload(t) ==
  /\ box' = [box EXCEPT ![t] = [i \in DOMAIN @ |->
       IF @[i].st = "processing" THEN [@[i] EXCEPT !.st = "pending"] ELSE @[i]]]
  /\ cur' = [cur EXCEPT ![t] = 0]
  /\ mine' = [mine EXCEPT ![t] = saved[t].sales]
  /\ qty' = [qty EXCEPT ![t] = saved[t].stock]
  /\ entry' = [entry EXCEPT ![t] = None]
  /\ click' = [click EXCEPT ![t] = None]
  /\ UNCHANGED <<caching, saved, wire, history>>

-----------------------------------------------------------------------------
(* The server's handlers *)

\* The client still waits for the answer to this request.
Awaited(r) ==
  /\ cur[r.t] # 0
  /\ LET p == box[r.t][cur[r.t]]
     IN  r.kind = p.kind /\ r.sale = p.sale /\ r.try = p.try

\* Faulty variant of Written: the stock row is decremented, not replaced.
WrittenDecrementing(r) ==
  [x \in Tables |->
     IF x = "sales"
     THEN [db["sales"] EXCEPT ![r.sale] = IF r.kind = "void" THEN "void" ELSE "live"]
     ELSE IF r.kind = "checkout" THEN db["stock"] - 1 ELSE db["stock"]]

\* executeAtomicPackageMysql() and POST /sales replace the row of the sale by the
\* one they were sent; a checkout replaces the stock row too.  The list of
\* processed ids is read from an empty file, so nothing recognises a repetition.
Written(r) ==
  [x \in Tables |->
     IF x = "sales"
     THEN [db["sales"] EXCEPT ![r.sale] = IF r.kind = "void" THEN "void" ELSE "live"]
     ELSE IF r.kind = "checkout" THEN r.qty ELSE db["stock"]]

\* What VoidStands is about: a void of the terminal that made the sale, whose
\* checkout was never set aside, stands until a request that nobody waits for, a
\* sale log or a given-up attempt, is executed after it.
Standing(r) ==
  CASE r.kind = "void" /\ sold[r.sale] = r.t /\ r.sale \notin aside ->
         standing \cup {r.sale}
    [] r.kind # "void" /\ ~Awaited(r)        -> standing \ {r.sale}
    [] OTHER                                 -> standing

\* The transaction commits.
Execute(r) ==
  /\ r \in wire
  /\ r \notin unnoted
  /\ Commit(r, Written(r))
  /\ standing' = Standing(r)
  /\ UNCHANGED <<client, wire, sold, voided, aside>>

\* writeDbFile() or invalidateDbCache(), and the answer.  It completes the package
\* it is awaited for, unless it is lost; nobody takes any other.
Note(r) ==
  /\ r \in wire
  /\ r \in unnoted
  /\ InvalidateDbCache(r)
  /\ wire' = wire \ {r}
  /\ \/ /\ Awaited(r)
        /\ box' = Marked(r.t, cur[r.t], "completed")
        /\ cur' = [cur EXCEPT ![r.t] = 0]
     \/ UNCHANGED <<box, cur>>
  /\ UNCHANGED <<mine, qty, entry, click, saved, history>>

\* The server refuses the request that is awaited, before it executes any of it:
\* with 400 or 422 the package is a dead letter and the flush goes on; with 401 or
\* 403 the flush ends and the package stays processing, for no flush to take.
Refuse(r, st) ==
  /\ r \in wire
  /\ r \notin unnoted
  /\ Awaited(r)
  /\ wire' = wire \ {r}
  /\ box' = Marked(r.t, cur[r.t], st)
  /\ cur' = [cur EXCEPT ![r.t] = 0]
  /\ aside' = Asided(r.t, cur[r.t])
  /\ UNCHANGED <<caching, mine, qty, entry, click, saved, sold, voided, standing>>

-----------------------------------------------------------------------------
(* Polling *)

\* The sales of the checkouts with one of these statuses.
SalesOf(t, sts) ==
  {box[t][i].sale : i \in {j \in DOMAIN box[t] :
     box[t][j].kind = "checkout" /\ box[t][j].st \in sts}}

\* Faulty variant of PendingSales: only those that are not being sent.
PendingSalesUnsent(t) == SalesOf(t, {"pending", "again"})

\* Sales of the packages that are pending or processing, not of a failed one.
PendingSales(t) == SalesOf(t, {"pending", "again", "processing"})

\* The server's sales, completed by pending ones the server does not have.
Merged(t, got) ==
  [s \in AllSales |->
     IF got["sales"][s] = "none" /\ s \in PendingSales(t) THEN "live" ELSE got["sales"][s]]

\* What a poll makes of the list and the row is shown, and stored.
Takes(t, sales, stock) ==
  /\ mine' = [mine EXCEPT ![t] = sales]
  /\ qty' = [qty EXCEPT ![t] = stock]
  /\ saved' = [saved EXCEPT ![t] = [sales |-> sales, stock |-> stock]]
  /\ UNCHANGED <<entry, click, box, cur>>

Lower(t, got) == IF entry[t] # None THEN Least(got["stock"], entry[t]) ELSE got["stock"]

\* Faulty variants of Hydrate: an entry that is not there is not recognised; only
\* sales the terminal does not know are taken over.
HydrateUnguarded(t, got) == Takes(t, Merged(t, got), Least(got["stock"], entry[t]))

HydrateAddingOnly(t, got) ==
  LET sales == [s \in AllSales |->
                  IF mine[t][s] = "none" THEN Merged(t, got)[s] ELSE mine[t][s]]
  IN  Takes(t, sales, Lower(t, got))

\* A response of GET /full arrives: the merged list replaces the terminal's; the
\* stock row is the server's, or the optimistic entry if that is lower.
Hydrate(t, got) == Takes(t, Merged(t, got), Lower(t, got))

\* syncFromSharedServer() while the cache is clean.
PollCached(t) ==
  /\ Clean
  /\ Hydrate(t, cache)
  /\ UNCHANGED <<caching, wire, history>>

\* Otherwise the request becomes a reader; so does a handler that answers a
\* write with readFullDatabase().
Poll(r) == StartRead(r) /\ UNCHANGED <<client, wire, history>>
Gather(r, x) == ReadTable(r, x) /\ UNCHANGED <<client, wire, history>>

\* The reader ends.  A terminal applies the response, unless it is lost.  (What
\* may delay the response is followed as a delay of the reader.)
Respond(r) ==
  /\ FinishRead(r)
  /\ UNCHANGED client \/ \E t \in Terminals : Hydrate(t, reads[r].got)
  /\ UNCHANGED <<wire, history>>

-----------------------------------------------------------------------------
(* The specification *)

NoSales == [s \in AllSales |-> "none"]

Init ==
  /\ db = [x \in Tables |-> IF x = "sales" THEN NoSales ELSE Opening]
  /\ CacheInit
  /\ mine = [t \in Terminals |-> NoSales]
  /\ qty = [t \in Terminals |-> Opening]
  /\ entry = [t \in Terminals |-> None]
  /\ click = [t \in Terminals |-> None]
  /\ box = [t \in Terminals |-> <<>>]
  /\ saved = [t \in Terminals |-> [sales |-> NoSales, stock |-> Opening]]
  /\ cur = [t \in Terminals |-> 0]
  /\ wire = {}
  /\ sold = <<>>
  /\ voided = {}
  /\ aside = {}
  /\ standing = {}

TerminalStep(t) ==
  \/ Click(t)
  \/ GiveUp(t)
  \/ CheckoutSale(t)
  \/ \E s \in SaleIds : VoidSale(t, s)
  \/ Expire(t)
  \/ \E i \in DOMAIN box[t] : Send(t, i) \/ Retry(t, i)
  \/ Fail(t, "failed") \/ Fail(t, "dead_letter")
  \/ Reload(t)
  \/ PollCached(t)

ServerStep ==
  \/ \E r \in wire : \/ Execute(r) \/ Note(r)
                      \/ Refuse(r, "processing") \/ Refuse(r, "dead_letter")
  \/ \E r \in Readers : Poll(r) \/ Respond(r) \/ \E x \in Tables : Gather(r, x)

Next == ServerStep \/ \E t \in Terminals : TerminalStep(t)

Spec == Init /\ [][Next]_vars

\* The intervals keep polling, and handlers and reads run to their end.  Nothing
\* obliges the user, nor the outbox, which sends again only when woken.
Fairness ==
  /\ \A t \in Terminals : WF_vars(PollCached(t))
  /\ WF_vars(\E r \in wire : Note(r))
  /\ \A r \in Readers : WF_vars(Poll(r) \/ Respond(r) \/ \E x \in Tables : Gather(r, x))

FairSpec == Spec /\ Fairness

-----------------------------------------------------------------------------
(* Properties *)

\* Contents of some of the tables.
IsSnapshot(f) ==
  /\ DOMAIN f \subseteq Tables
  /\ f = [x \in DOMAIN f |-> f[x]]
  /\ "sales" \in DOMAIN f => f["sales"] \in [AllSales -> States]
  /\ "stock" \in DOMAIN f => f["stock"] \in Nat

\* Every variable has the values the code gives it.
TypeOK ==
  /\ IsSnapshot(db) /\ DOMAIN db = Tables
  /\ Clean => IsSnapshot(cache) /\ DOMAIN cache = Tables
  /\ reads \in [Readers -> [on : BOOLEAN, old : BOOLEAN, got : {reads[r].got : r \in Readers}]]
  /\ \A r \in Readers : IsSnapshot(reads[r].got)
  /\ mine \in [Terminals -> [AllSales -> States]]
  /\ qty \in [Terminals -> Nat]
  /\ entry \in [Terminals -> Nat \cup {None}]
  /\ click \in [Terminals -> Nat \cup {None}]
  /\ saved \in [Terminals -> [sales : [AllSales -> States], stock : Nat]]
  /\ box \in [Terminals -> Seq(Package)]
  /\ cur \in [Terminals -> Nat]
  /\ wire \subseteq Request
  /\ unnoted \subseteq wire
  /\ stale \in BOOLEAN
  /\ sold \in Seq(Terminals)
  /\ Len(sold) <= MaxSales
  /\ voided \subseteq SaleIds
  /\ aside \subseteq SaleIds
  /\ standing \subseteq SaleIds

\* Requests are repeated and executed late, responses overtake sales, and still
\* no copy of the stock row, on a terminal, under way or on the server, has lost
\* more than what was sold.
NoSaleCountedTwice ==
  LET least == Opening - Len(sold)
  IN  /\ db["stock"] >= least
      /\ \A t \in Terminals :
           /\ qty[t] >= least
           /\ entry[t] # None => entry[t] >= least
      /\ \A r \in wire : r.kind = "checkout" => r.qty >= least

\* The server executes a void of the selling terminal: from then on the sale is
\* void there, whatever attempts failed before and however often the page was
\* reloaded, until one that was given up or the sale log is executed late.  A
\* checkout that was set aside is excepted: its void overtakes it, and the
\* checkout revives the sale when a reload or the user sends it again.
VoidStands == \A s \in standing : db["sales"][s] = "void"

\* A poll was answered, from the cache or by a reader.
Answered(t) == PollCached(t) \/ \E r \in Readers : FinishRead(r)

\* No poll takes a sale off the list of the terminal that made it while the
\* checkout is pending or processing, for the first time or again, whichever
\* snapshot of the server's arrives.  (A reload may, until the next poll.)
OwnSaleStaysVisible ==
  [][\A t \in Terminals : \A i \in DOMAIN box[t] :
       /\ box[t][i].kind = "checkout"
       /\ box[t][i].st \in {"pending", "again", "processing"}
       /\ mine[t][box[t][i].sale] # "none"
       => mine'[t][box[t][i].sale] # "none" \/ ~Answered(t)]_vars

\* The answer to a poll changes a terminal's copy.  When no commit waits for its
\* invalidation, and none overtook the read, the terminal has now every sale and
\* every void the server has, in the server's state, and no more stock than it.
PollsCatchUp ==
  [][\A t \in Terminals :
       /\ <<mine[t], qty[t]>>' # <<mine[t], qty[t]>>
       /\ unnoted = {} /\ ~stale'
       /\ Answered(t)
       => /\ \A s \in AllSales : db["sales"][s] # "none" => mine'[t][s] = db["sales"][s]
          /\ qty'[t] <= db["stock"]]_vars

\* Every sale and every void the server has executed reaches every terminal in
\* the end, unless the cache was filled by a read that an invalidation overtook.
EverySaleReachesEveryTerminal ==
  <>[](stale \/ \A t \in Terminals : \A s \in AllSales :
         db["sales"][s] # "none" => mine[t][s] = db["sales"][s])

-----------------------------------------------------------------------------
(* The inductive invariant *)

\* No copy of the stock row is too low: those of NoSaleCountedTwice, those that
\* become one of them, in the cache, with a reader, in a package, a click, storage.
StockKept ==
  LET least == Opening - Len(sold)
  IN  /\ db["stock"] >= least
      /\ Clean => cache["stock"] >= least
      /\ \A r \in Readers :
           "stock" \in DOMAIN reads[r].got => reads[r].got["stock"] >= least
      /\ \A t \in Terminals :
           /\ qty[t] >= least
           /\ entry[t] # None => entry[t] >= least
           /\ click[t] # None => click[t] >= least
           /\ saved[t].stock >= least
           /\ \A i \in 1..Len(box[t]) :
                box[t][i].kind = "checkout" => box[t][i].qty >= least
      /\ \A r \in wire : r.kind = "checkout" => r.qty >= least

\* Packages and requests are about sales that were made, checkouts about those
\* of their own terminal, and nothing about a sale precedes its checkout.
Ordered ==
  /\ \A t \in Terminals : \A i \in 1..Len(box[t]) :
       /\ box[t][i].sale \in SaleIds
       /\ box[t][i].kind = "checkout" =>
            /\ sold[box[t][i].sale] = t
            /\ \A j \in 1..(i - 1) : box[t][j].sale # box[t][i].sale
  /\ \A r \in wire : r.sale \in SaleIds

\* The checkout of sale s is delivered: no flush takes it any more.
Delivered(s) ==
  \A t \in Terminals : \A i \in 1..Len(box[t]) :
    box[t][i].kind = "checkout" /\ box[t][i].sale = s => box[t][i].st = "completed"

\* The package that is awaited is processing.
AwaitedIsProcessing ==
  \A t \in Terminals : cur[t] # 0 =>
    cur[t] \in 1..Len(box[t]) /\ box[t][cur[t]].st = "processing"

\* A checkout that a flush may pass by was set aside.
PassedByIsAside ==
  \A t \in Terminals : \A i \in 1..Len(box[t]) :
    /\ box[t][i].kind = "checkout"
    /\ \/ box[t][i].st \in {"dead_letter", "again"}
       \/ box[t][i].st = "processing" /\ i # cur[t]
    => box[t][i].sale \in aside

\* A void that the selling terminal has sent follows the checkout's delivery,
\* unless the checkout was set aside.
VoidsFollow ==
  /\ \A r \in wire : r.kind = "void" /\ sold[r.sale] = r.t /\ r.sale \notin aside =>
       Delivered(r.sale)
  /\ \A s \in standing : Delivered(s)

IInv ==
  /\ TypeOK
  /\ CleanCacheIsFresh
  /\ ReadsAreFresh
  /\ StockKept
  /\ Ordered
  /\ AwaitedIsProcessing
  /\ PassedByIsAside
  /\ VoidsFollow
  /\ VoidStands

=============================================================================
