--------------------------- MODULE TerminalsProofs ---------------------------
(***************************************************************************)
(* Theorems about Terminals, for any set of terminals and readers, any     *)
(* opening stock and any number of sales and attempts.                     *)
(***************************************************************************)
EXTENDS Terminals, SequenceTheorems, TLAPS

-----------------------------------------------------------------------------
(* Lemmas about sequences and snapshots *)

\* A package put at the end of a terminal's outbox leaves the others in place.
LEMMA BoxAppend ==
  ASSUME TypeOK, NEW t \in Terminals, NEW p \in Package,
         box' = [box EXCEPT ![t] = Append(@, p)]
  PROVE  /\ box' \in [Terminals -> Seq(Package)]
         /\ \A u \in Terminals \ {t} : box'[u] = box[u]
         /\ Len(box[t]) \in Nat
         /\ Len(box'[t]) = Len(box[t]) + 1
         /\ \A i \in 1..Len(box[t]) : box'[t][i] = box[t][i]
         /\ box'[t][Len(box[t]) + 1] = p
<1>1. box[t] \in Seq(Package)
  BY DEF TypeOK
<1>2. box'[t] = Append(box[t], p)
  BY DEF TypeOK
<1> QED
  BY <1>1, <1>2, AppendProperties DEF TypeOK

\* What is in an outbox is a package.
LEMMA PackageOf ==
  ASSUME TypeOK, NEW t \in Terminals, NEW i \in 1..Len(box[t])
  PROVE  box[t][i] \in Package
<1>1. box[t] \in Seq(Package)
  BY DEF TypeOK
<1> QED
  BY <1>1, ElementOfSeq

\* The positions of an outbox.
LEMMA BoxDomain ==
  ASSUME TypeOK, NEW t \in Terminals
  PROVE  Len(box[t]) \in Nat /\ DOMAIN box[t] = 1..Len(box[t])
<1>1. box[t] \in Seq(Package)
  BY DEF TypeOK
<1> QED
  BY <1>1

\* What two packages share that differ in their status and tries.
SameOrder(a, b) == a.kind = b.kind /\ a.sale = b.sale /\ a.qty = b.qty

\* Packages change their statuses and tries; a completed one stays completed.
Restated ==
  /\ box' \in [Terminals -> Seq(Package)]
  /\ \A t \in Terminals :
       /\ Len(box[t]) \in Nat
       /\ Len(box'[t]) = Len(box[t])
       /\ \A i \in 1..Len(box[t]) :
            /\ SameOrder(box'[t][i], box[t][i])
            /\ box[t][i].st = "completed" => box'[t][i].st = "completed"

\* One package of a terminal, which is not completed, changes status or tries.
One(t, i, p) ==
  /\ t \in Terminals
  /\ i \in 1..Len(box[t])
  /\ p \in Package
  /\ SameOrder(p, box[t][i])
  /\ box[t][i].st # "completed"
  /\ box' = [box EXCEPT ![t] = [box[t] EXCEPT ![i] = p]]

LEMMA OneRestates ==
  ASSUME TypeOK, NEW t, NEW i, NEW p, One(t, i, p)
  PROVE  /\ Restated
         /\ \A u \in Terminals \ {t} : box'[u] = box[u]
         /\ box'[t][i] = p
         /\ \A j \in 1..Len(box[t]) : j # i => box'[t][j] = box[t][j]
<1>1. /\ box' \in [Terminals -> Seq(Package)]
      /\ \A u \in Terminals \ {t} : box'[u] = box[u]
      /\ Len(box'[t]) = Len(box[t])
      /\ box'[t][i] = p
      /\ \A j \in 1..Len(box[t]) : j # i => box'[t][j] = box[t][j]
  <2>1. /\ t \in Terminals /\ i \in 1..Len(box[t]) /\ p \in Package
        /\ box' = [box EXCEPT ![t] = [box[t] EXCEPT ![i] = p]]
    BY DEF One
  <2>2. box[t] \in Seq(Package)
    BY <2>1 DEF TypeOK
  <2>3. /\ [box[t] EXCEPT ![i] = p] \in Seq(Package)
        /\ Len([box[t] EXCEPT ![i] = p]) = Len(box[t])
        /\ [box[t] EXCEPT ![i] = p][i] = p
        /\ \A j \in 1..Len(box[t]) : j # i => [box[t] EXCEPT ![i] = p][j] = box[t][j]
    BY <2>1, <2>2, ExceptSeq
  <2>4. box \in [Terminals -> Seq(Package)]
    BY DEF TypeOK
  <2> QED
    BY <2>1, <2>3, <2>4
<1>2. \A u \in Terminals : Len(box[u]) \in Nat
  BY BoxDomain
<1>3. ASSUME NEW u \in Terminals, NEW j \in 1..Len(box[u])
      PROVE  /\ SameOrder(box'[u][j], box[u][j])
             /\ box[u][j].st = "completed" => box'[u][j].st = "completed"
  <2>1. CASE u = t /\ j = i
    BY <1>1, <2>1 DEF One
  <2>2. CASE ~(u = t /\ j = i)
    BY <1>1, <2>2 DEF SameOrder
  <2> QED
    BY <2>1, <2>2
<1>4. \A u \in Terminals : Len(box'[u]) = Len(box[u])
  BY <1>1
<1>5. Restated
  BY <1>1, <1>2, <1>3, <1>4 DEF Restated
<1> QED
  BY <1>1, <1>5

LEMMA MarkedIsOne ==
  ASSUME TypeOK, NEW t \in Terminals, NEW i \in 1..Len(box[t]), NEW st \in Statuses,
         box[t][i].st # "completed", box' = Marked(t, i, st)
  PROVE  /\ One(t, i, [box[t][i] EXCEPT !.st = st])
         /\ [box[t][i] EXCEPT !.st = st].st = st
<1>1. box[t][i] \in Package
  BY PackageOf
<1>2. /\ [box[t][i] EXCEPT !.st = st] \in Package
      /\ [box[t][i] EXCEPT !.st = st].st = st
      /\ SameOrder([box[t][i] EXCEPT !.st = st], box[t][i])
  BY <1>1 DEF Package, SameOrder
<1> QED
  BY <1>2 DEF One, Marked

\* The page is reloaded: a package is either as it was or pending again.
LEMMA ReloadRestates ==
  ASSUME TypeOK, NEW t \in Terminals, Reload(t)
  PROVE  /\ Restated
         /\ \A u \in Terminals \ {t} : box'[u] = box[u]
         /\ \A i \in 1..Len(box[t]) :
              box'[t][i].st = IF box[t][i].st = "processing" THEN "pending" ELSE box[t][i].st
<1> DEFINE again(i) == [box[t][i] EXCEPT !.st = "pending"]
           new(i) == IF box[t][i].st = "processing" THEN again(i) ELSE box[t][i]
           news == [i \in 1..Len(box[t]) |-> new(i)]
<1>1. Len(box[t]) \in Nat /\ DOMAIN box[t] = 1..Len(box[t])
  BY BoxDomain
<1>2. ASSUME NEW i \in 1..Len(box[t])
      PROVE  /\ new(i) \in Package
             /\ SameOrder(new(i), box[t][i])
             /\ new(i).st = IF box[t][i].st = "processing" THEN "pending" ELSE box[t][i].st
  <2>1. box[t][i] \in Package
    BY PackageOf
  <2>2. again(i) \in Package /\ SameOrder(again(i), box[t][i]) /\ again(i).st = "pending"
    BY <2>1 DEF Package, SameOrder, Statuses
  <2>3. SameOrder(box[t][i], box[t][i])
    BY DEF SameOrder
  <2> HIDE DEF again
  <2> QED
    BY <2>1, <2>2, <2>3
<1> HIDE DEF new
<1>3. news \in [1..Len(box[t]) -> Package]
  BY <1>2
<1>4. news \in Seq(Package) /\ Len(news) = Len(box[t])
  <2> HIDE DEF news
  <2>1. DOMAIN news = 1..Len(box[t])
    BY <1>3
  <2>2. news \in Seq(Package)
    BY <1>1, <1>3, SeqDef
  <2> QED
    BY <1>1, <2>1, <2>2
<1>5. box' = [box EXCEPT ![t] = news]
  BY <1>1 DEF Reload, new
<1>6. \A i \in 1..Len(box[t]) : news[i] = new(i)
  OBVIOUS
<1> HIDE DEF news
<1>7. /\ box' \in [Terminals -> Seq(Package)] /\ box'[t] = news
      /\ \A u \in Terminals \ {t} : box'[u] = box[u]
  BY <1>4, <1>5 DEF TypeOK
<1>8. \A i \in 1..Len(box[t]) :
        /\ SameOrder(box'[t][i], box[t][i])
        /\ box'[t][i].st = IF box[t][i].st = "processing" THEN "pending" ELSE box[t][i].st
  BY <1>2, <1>6, <1>7
<1>9. \A u \in Terminals \ {t} : \A i \in 1..Len(box[u]) : SameOrder(box'[u][i], box[u][i])
  BY <1>7 DEF SameOrder
<1>10. \A u \in Terminals : Len(box[u]) \in Nat
  BY BoxDomain
<1>11. \A u \in Terminals : Len(box'[u]) = Len(box[u])
  BY <1>4, <1>7
<1>12. \A u \in Terminals : \A i \in 1..Len(box[u]) :
         box[u][i].st = "completed" => box'[u][i].st = "completed"
  BY <1>7, <1>8
<1>13. Restated
  BY <1>7, <1>8, <1>9, <1>10, <1>11, <1>12 DEF Restated
<1> QED
  BY <1>7, <1>8, <1>13

\* A package is sent, retried, answered or given up: it alone is restated.
LEMMA SendOne ==
  ASSUME TypeOK, NEW t \in Terminals, NEW i \in DOMAIN box[t], Send(t, i)
  PROVE  \E p : /\ One(t, i, p)
                /\ p.st = "processing"
<1>1. i \in 1..Len(box[t]) /\ box[t][i] \in Package
  BY BoxDomain, PackageOf
<1> DEFINE p == [box[t][i] EXCEPT !.st = "processing", !.try = box[t][i].try + 1]
<1>2. box[t][i].try + 1 \in 0..MaxTries
  BY <1>1, TerminalsAssumption DEF Send, Package, TerminalsAssumption
<1>3. p \in Package /\ SameOrder(p, box[t][i]) /\ p.st = "processing"
  BY <1>1, <1>2 DEF Package, Statuses, SameOrder
<1>4. box' = [box EXCEPT ![t] = [box[t] EXCEPT ![i] = p]]
  BY <1>1 DEF Send, TypeOK, Package
<1>5. box[t][i].st # "completed"
  BY DEF Send, Open, Waiting
<1> HIDE DEF p
<1> QED
  BY <1>1, <1>3, <1>4, <1>5 DEF One

LEMMA RetryOne ==
  ASSUME TypeOK, NEW t \in Terminals, NEW i \in DOMAIN box[t], Retry(t, i)
  PROVE  \E p : /\ One(t, i, p)
                /\ p.st \in {"pending", "again"}
                /\ p.st = "again" => box[t][i].st = "dead_letter"
<1> DEFINE st == IF box[t][i].st = "failed" THEN "pending" ELSE "again"
<1>1. i \in 1..Len(box[t])
  BY BoxDomain
<1>2. st \in Statuses /\ box' = Marked(t, i, st) /\ box[t][i].st # "completed"
  BY DEF Retry, Statuses
<1>3. st = "again" => box[t][i].st = "dead_letter"
  BY DEF Retry
<1>4. st \in {"pending", "again"}
  OBVIOUS
<1> DEFINE p == [box[t][i] EXCEPT !.st = st]
<1> HIDE DEF st
<1>5. One(t, i, p) /\ p.st = st
  BY <1>1, <1>2, MarkedIsOne
<1> HIDE DEF p
<1> QED
  BY <1>3, <1>4, <1>5

LEMMA CurOne ==
  ASSUME TypeOK, AwaitedIsProcessing, NEW t \in Terminals, cur[t] # 0,
         NEW st \in Statuses, box' = Marked(t, cur[t], st)
  PROVE  \E p : One(t, cur[t], p) /\ p.st = st
BY MarkedIsOne DEF AwaitedIsProcessing

\* One more sale: the earlier ones keep their terminals.
LEMMA OneMoreSale ==
  ASSUME TypeOK, NEW t \in Terminals, sold' = Append(sold, t)
  PROVE  /\ sold' \in Seq(Terminals)
         /\ Len(sold) \in Nat
         /\ Len(sold') = Len(sold) + 1
         /\ \A s \in 1..Len(sold) : sold'[s] = sold[s]
         /\ sold'[Len(sold) + 1] = t
BY AppendProperties DEF TypeOK

\* What an executed request writes is again a database.
LEMMA WrittenIsSnapshot ==
  ASSUME TypeOK, NEW r \in Request
  PROVE  /\ IsSnapshot(Written(r))
         /\ DOMAIN Written(r) = Tables
         /\ Written(r)["stock"] = IF r.kind = "checkout" THEN r.qty ELSE db["stock"]
         /\ \A s \in AllSales : Written(r)["sales"][s] =
              IF s # r.sale THEN db["sales"][s]
              ELSE IF r.kind = "void" THEN "void" ELSE "live"
<1>1. db["sales"] \in [AllSales -> States] /\ db["stock"] \in Nat
  BY TerminalsAssumption DEF TypeOK, IsSnapshot, TerminalsAssumption
<1>2. DOMAIN Written(r) = Tables /\ Written(r) = [x \in DOMAIN Written(r) |-> Written(r)[x]]
  BY DEF Written
<1>3. Written(r)["sales"] = [db["sales"] EXCEPT ![r.sale] = IF r.kind = "void" THEN "void" ELSE "live"]
  BY TerminalsAssumption DEF Written, TerminalsAssumption
<1>4. Written(r)["stock"] = IF r.kind = "checkout" THEN r.qty ELSE db["stock"]
  BY TerminalsAssumption DEF Written, TerminalsAssumption
<1>5. Written(r)["sales"] \in [AllSales -> States]
  BY <1>1, <1>3 DEF States
<1>6. Written(r)["stock"] \in Nat
  BY <1>1, <1>4 DEF Request
<1>7. \A s \in AllSales : Written(r)["sales"][s] =
        IF s # r.sale THEN db["sales"][s] ELSE IF r.kind = "void" THEN "void" ELSE "live"
  BY <1>1, <1>3
<1> QED
  BY <1>2, <1>4, <1>5, <1>6, <1>7 DEF IsSnapshot

\* What a terminal takes over from a snapshot of all tables.
LEMMA HydrateType ==
  ASSUME TypeOK, NEW t \in Terminals, NEW got, IsSnapshot(got), DOMAIN got = Tables,
         Hydrate(t, got)
  PROVE  /\ mine' \in [Terminals -> [AllSales -> States]]
         /\ qty' \in [Terminals -> Nat]
         /\ saved' \in [Terminals -> [sales : [AllSales -> States], stock : Nat]]
<1>1. got["sales"] \in [AllSales -> States] /\ got["stock"] \in Nat
  BY TerminalsAssumption DEF IsSnapshot, TerminalsAssumption
<1>2. Merged(t, got) \in [AllSales -> States]
  BY <1>1 DEF Merged, States
<1>3. Lower(t, got) \in Nat
  BY <1>1 DEF TypeOK, Lower, Least, None
<1> QED
  BY <1>2, <1>3 DEF Hydrate, Takes, TypeOK

-----------------------------------------------------------------------------
(* Type correctness *)

LEMMA TypeInit == Init => TypeOK
<1> SUFFICES ASSUME Init PROVE TypeOK
  OBVIOUS
<1>1. IsSnapshot(db) /\ DOMAIN db = Tables
  BY TerminalsAssumption DEF Init, IsSnapshot, TerminalsAssumption, NoSales, States
<1>2. ~Clean
  BY DEF Init, CacheInit, Clean
<1>3. \A r \in Readers : reads[r] = NotReading
  BY DEF Init, CacheInit
<1>4. \A r \in Readers : IsSnapshot(reads[r].got)
  BY <1>3 DEF NotReading, Nothing, IsSnapshot
<1>5. reads \in [Readers -> [on : BOOLEAN, old : BOOLEAN, got : {reads[r].got : r \in Readers}]]
  BY <1>3 DEF Init, CacheInit, NotReading
<1>6. sold = <<>> /\ Len(sold) = 0 /\ sold \in Seq(Terminals)
  BY DEF Init
<1>7. box \in [Terminals -> Seq(Package)]
  BY DEF Init
<1>8. mine \in [Terminals -> [AllSales -> States]] /\ qty \in [Terminals -> Nat]
  BY TerminalsAssumption DEF Init, NoSales, States, TerminalsAssumption
<1>9. /\ entry \in [Terminals -> Nat \cup {None}]
      /\ click \in [Terminals -> Nat \cup {None}]
      /\ cur \in [Terminals -> Nat]
  BY DEF Init
<1>10. saved \in [Terminals -> [sales : [AllSales -> States], stock : Nat]]
  BY TerminalsAssumption DEF Init, NoSales, States, TerminalsAssumption
<1>11. wire \subseteq Request /\ unnoted \subseteq wire /\ stale \in BOOLEAN
  BY DEF Init, CacheInit
<1>12. /\ Len(sold) <= MaxSales /\ voided \subseteq SaleIds
       /\ aside \subseteq SaleIds /\ standing \subseteq SaleIds
  BY <1>6, TerminalsAssumption DEF Init, TerminalsAssumption
<1> QED
  BY <1>1, <1>2, <1>4, <1>5, <1>6, <1>7, <1>8, <1>9, <1>10, <1>11, <1>12 DEF TypeOK

\* The parts of TypeOK about the cache, and those about the rest.
CacheTyped ==
  /\ IsSnapshot(db) /\ DOMAIN db = Tables
  /\ Clean => IsSnapshot(cache) /\ DOMAIN cache = Tables
  /\ reads \in [Readers -> [on : BOOLEAN, old : BOOLEAN, got : {reads[r].got : r \in Readers}]]
  /\ \A r \in Readers : IsSnapshot(reads[r].got)
  /\ stale \in BOOLEAN

RestTyped ==
  /\ mine \in [Terminals -> [AllSales -> States]]
  /\ qty \in [Terminals -> Nat]
  /\ entry \in [Terminals -> Nat \cup {None}]
  /\ click \in [Terminals -> Nat \cup {None}]
  /\ saved \in [Terminals -> [sales : [AllSales -> States], stock : Nat]]
  /\ box \in [Terminals -> Seq(Package)]
  /\ cur \in [Terminals -> Nat]
  /\ wire \subseteq Request
  /\ unnoted \subseteq wire
  /\ sold \in Seq(Terminals)
  /\ Len(sold) <= MaxSales
  /\ voided \subseteq SaleIds
  /\ aside \subseteq SaleIds
  /\ standing \subseteq SaleIds

LEMMA TypeParts == TypeOK <=> CacheTyped /\ RestTyped
BY DEF TypeOK, CacheTyped, RestTyped

\* Steps that leave the cache alone leave it typed.
LEMMA CacheUntouched == CacheTyped /\ UNCHANGED caching => CacheTyped'
BY DEF CacheTyped, caching, IsSnapshot, Clean

\* The steps on the cache.
LEMMA CommitTyped ==
  ASSUME TypeOK, NEW q \in Request, Commit(q, Written(q))
  PROVE  CacheTyped'
BY WrittenIsSnapshot DEF TypeOK, CacheTyped, Commit, IsSnapshot, Clean

\* What the readers have is described by the function of their entries alone.
LEMMA ReadsTyped ==
  ASSUME NEW f, f = [r \in Readers |-> f[r]],
         \A r \in Readers : f[r] = [on |-> f[r].on, old |-> f[r].old, got |-> f[r].got],
         \A r \in Readers : f[r].on \in BOOLEAN /\ f[r].old \in BOOLEAN
  PROVE  f \in [Readers -> [on : BOOLEAN, old : BOOLEAN, got : {f[r].got : r \in Readers}]]
<1> SUFFICES ASSUME NEW r \in Readers
             PROVE  f[r] \in [on : BOOLEAN, old : BOOLEAN, got : {f[q].got : q \in Readers}]
  OBVIOUS
<1>1. f[r].got \in {f[q].got : q \in Readers}
  OBVIOUS
<1> QED
  BY <1>1

LEMMA InvalidateTyped ==
  ASSUME TypeOK, NEW q, InvalidateDbCache(q)
  PROVE  CacheTyped'
<1>1. /\ reads' = [r \in Readers |-> reads'[r]]
      /\ \A r \in Readers :
           /\ reads'[r] = [on |-> reads[r].on, old |-> reads[r].on, got |-> reads[r].got]
           /\ reads[r].on \in BOOLEAN
  BY DEF TypeOK, InvalidateDbCache
<1>2. reads' \in [Readers -> [on : BOOLEAN, old : BOOLEAN, got : {reads'[r].got : r \in Readers}]]
  BY <1>1, ReadsTyped
<1>3. \A r \in Readers : IsSnapshot(reads'[r].got)
  BY <1>1 DEF TypeOK
<1>4. ~Clean'
  BY DEF InvalidateDbCache, Clean
<1>5. stale' \in BOOLEAN /\ db' = db
  BY DEF InvalidateDbCache
<1> QED
  BY <1>2, <1>3, <1>4, <1>5 DEF TypeOK, CacheTyped, IsSnapshot

\* One reader changes: it starts, gathers a table, or ends.
LEMMA ReaderTyped ==
  ASSUME TypeOK, NEW r \in Readers, NEW on \in BOOLEAN, NEW old \in BOOLEAN, NEW got,
         IsSnapshot(got),
         reads' = [reads EXCEPT ![r] = [on |-> on, old |-> old, got |-> got]]
  PROVE  /\ reads' \in [Readers -> [on : BOOLEAN, old : BOOLEAN, got : {reads'[q].got : q \in Readers}]]
         /\ \A q \in Readers : IsSnapshot(reads'[q].got)
<1>1. \A q \in Readers : reads[q] = [on |-> reads[q].on, old |-> reads[q].old, got |-> reads[q].got]
                        /\ reads[q].on \in BOOLEAN /\ reads[q].old \in BOOLEAN
  BY DEF TypeOK
<1>2. /\ reads' = [q \in Readers |-> reads'[q]]
      /\ \A q \in Readers :
           reads'[q] = IF q = r THEN [on |-> on, old |-> old, got |-> got] ELSE reads[q]
  BY DEF TypeOK
<1>3. ASSUME NEW q \in Readers
      PROVE  /\ reads'[q] = [on |-> reads'[q].on, old |-> reads'[q].old, got |-> reads'[q].got]
             /\ reads'[q].on \in BOOLEAN /\ reads'[q].old \in BOOLEAN
  <2>1. CASE q = r
    <3>1. reads'[q] = [on |-> on, old |-> old, got |-> got]
      BY <1>2, <2>1
    <3> QED
      BY <3>1
  <2>2. CASE q # r
    BY <1>1, <1>2, <2>2
  <2> QED
    BY <2>1, <2>2
<1>4. reads' \in [Readers -> [on : BOOLEAN, old : BOOLEAN, got : {reads'[q].got : q \in Readers}]]
  <2> DEFINE f == reads'
  <2>1. f = [q \in Readers |-> f[q]]
    BY <1>2
  <2>2. \A q \in Readers :
          /\ f[q] = [on |-> f[q].on, old |-> f[q].old, got |-> f[q].got]
          /\ f[q].on \in BOOLEAN /\ f[q].old \in BOOLEAN
    BY <1>3
  <2> HIDE DEF f
  <2>3. f \in [Readers -> [on : BOOLEAN, old : BOOLEAN, got : {f[q].got : q \in Readers}]]
    BY <2>1, <2>2, ReadsTyped
  <2> QED
    BY <2>3 DEF f
<1> QED
  BY <1>2, <1>4 DEF TypeOK

LEMMA StartTyped ==
  ASSUME TypeOK, NEW r \in Readers, StartRead(r)
  PROVE  CacheTyped'
<1>1. IsSnapshot(Nothing)
  BY DEF IsSnapshot, Nothing
<1>2. /\ reads' \in [Readers -> [on : BOOLEAN, old : BOOLEAN, got : {reads'[q].got : q \in Readers}]]
      /\ \A q \in Readers : IsSnapshot(reads'[q].got)
  BY <1>1, ReaderTyped DEF StartRead
<1>3. UNCHANGED <<db, cache, stale>>
  BY DEF StartRead
<1> QED
  BY <1>2, <1>3 DEF TypeOK, CacheTyped, Clean, IsSnapshot

LEMMA GatherTyped ==
  ASSUME TypeOK, NEW r \in Readers, NEW x \in Tables, ReadTable(r, x)
  PROVE  CacheTyped'
<1> DEFINE old == reads[r].got
           got == [y \in DOMAIN old \cup {x} |-> IF y = x THEN db[x] ELSE old[y]]
<1>1. IsSnapshot(got)
  <2>1. IsSnapshot(old) /\ IsSnapshot(db) /\ DOMAIN db = Tables
    BY DEF TypeOK
  <2> HIDE DEF old
  <2>2. DOMAIN got \subseteq Tables /\ got = [y \in DOMAIN got |-> got[y]]
    BY <2>1 DEF IsSnapshot
  <2>3. ASSUME NEW y \in DOMAIN got
        PROVE  \/ y \in DOMAIN db /\ got[y] = db[y]
               \/ y \in DOMAIN old /\ got[y] = old[y]
    <3>1. y \in DOMAIN old \cup {x}
      OBVIOUS
    <3>2. got[y] = IF y = x THEN db[x] ELSE old[y]
      BY <3>1
    <3> QED
      BY <2>1, <3>1, <3>2
  <2> HIDE DEF got
  <2> QED
    BY <2>1, <2>2, <2>3 DEF IsSnapshot
<1>2. reads[r] = [on |-> reads[r].on, old |-> reads[r].old, got |-> reads[r].got]
  BY DEF TypeOK
<1>3. [reads[r] EXCEPT !.got = got] = [on |-> reads[r].on, old |-> reads[r].old, got |-> got]
  <2> HIDE DEF got
  <2> QED
    BY <1>2
<1>4. reads' = [reads EXCEPT ![r] = [reads[r] EXCEPT !.got = got]]
  BY DEF ReadTable
<1>5. reads[r].on \in BOOLEAN /\ reads[r].old \in BOOLEAN
  BY DEF TypeOK
<1>6. UNCHANGED <<db, cache, stale>>
  BY DEF ReadTable
<1> HIDE DEF got
<1>7. /\ reads' \in [Readers -> [on : BOOLEAN, old : BOOLEAN, got : {reads'[q].got : q \in Readers}]]
      /\ \A q \in Readers : IsSnapshot(reads'[q].got)
  BY <1>1, <1>3, <1>4, <1>5, ReaderTyped
<1> QED
  BY <1>6, <1>7 DEF TypeOK, CacheTyped, Clean, IsSnapshot

LEMMA FinishTyped ==
  ASSUME TypeOK, NEW r \in Readers, FinishRead(r)
  PROVE  CacheTyped'
<1>1. IsSnapshot(Nothing)
  BY DEF IsSnapshot, Nothing
<1>2. /\ reads' \in [Readers -> [on : BOOLEAN, old : BOOLEAN, got : {reads'[q].got : q \in Readers}]]
      /\ \A q \in Readers : IsSnapshot(reads'[q].got)
  BY <1>1, ReaderTyped DEF FinishRead, NotReading
<1>3. IsSnapshot(cache') /\ DOMAIN cache' = Tables /\ stale' \in BOOLEAN /\ db' = db
  BY DEF TypeOK, FinishRead
<1> QED
  BY <1>2, <1>3 DEF TypeOK, CacheTyped, IsSnapshot

LEMMA HydrateTyped ==
  ASSUME TypeOK, NEW t \in Terminals, NEW got, IsSnapshot(got), DOMAIN got = Tables,
         Hydrate(t, got), UNCHANGED <<wire, unnoted, history>>
  PROVE  RestTyped'
BY HydrateType DEF TypeOK, RestTyped, Hydrate, Takes, history, SaleIds

LEMMA ClickTyped ==
  ASSUME TypeOK, NEW t \in Terminals, Click(t) \/ GiveUp(t) \/ Expire(t)
  PROVE  RestTyped' /\ UNCHANGED caching
BY DEF TypeOK, RestTyped, Click, GiveUp, Expire, history, SaleIds, caching

LEMMA NewIsPackage ==
  ASSUME NEW kind \in {"checkout", "void"}, NEW s \in AllSales, NEW n \in Nat
  PROVE  New(kind, s, n) \in Package
BY TerminalsAssumption DEF New, Package, Statuses, TerminalsAssumption

LEMMA CheckoutTyped ==
  ASSUME TypeOK, NEW t \in Terminals, CheckoutSale(t)
  PROVE  RestTyped' /\ UNCHANGED caching
<1> DEFINE s == Len(sold) + 1
           p == New("checkout", s, Floor(click[t] - 1))
<1>1. Len(sold) \in Nat /\ s \in AllSales
  BY TerminalsAssumption DEF TypeOK, CheckoutSale, AllSales, TerminalsAssumption
<1>2. Floor(click[t] - 1) \in Nat /\ Floor(qty[t] - 1) \in Nat
  BY DEF TypeOK, CheckoutSale, Floor, None
<1>3. p \in Package
  BY <1>1, <1>2, NewIsPackage
<1>4. Log(t, s) \in Request
  BY <1>1, TerminalsAssumption DEF Log, Request, TerminalsAssumption
<1>5. box' \in [Terminals -> Seq(Package)]
  BY <1>3, BoxAppend DEF CheckoutSale
<1>6. sold' \in Seq(Terminals) /\ Len(sold') = s
  BY OneMoreSale DEF CheckoutSale
<1>7. qty' \in [Terminals -> Nat] /\ entry' \in [Terminals -> Nat \cup {None}]
  BY <1>2 DEF TypeOK, CheckoutSale
<1>8. click' \in [Terminals -> Nat \cup {None}]
  BY DEF TypeOK, CheckoutSale
<1>9. mine' \in [Terminals -> [AllSales -> States]]
  BY DEF TypeOK, CheckoutSale, States
<1>10. wire' \subseteq Request /\ unnoted' \subseteq wire'
  BY <1>4 DEF TypeOK, CheckoutSale, caching
<1>11. /\ voided' \subseteq SaleIds' /\ aside' \subseteq SaleIds'
       /\ standing' \subseteq SaleIds' /\ Len(sold') <= MaxSales
  <2>1. UNCHANGED <<voided, aside, standing>> /\ Len(sold) < MaxSales
    BY DEF CheckoutSale
  <2>2. SaleIds \subseteq SaleIds'
    BY <1>1, <1>6 DEF SaleIds
  <2> QED
    BY SMTT(30), <1>1, <1>6, <2>1, <2>2, TerminalsAssumption DEF TypeOK, TerminalsAssumption
<1> QED
  BY <1>5, <1>6, <1>7, <1>8, <1>9, <1>10, <1>11 DEF TypeOK, RestTyped, CheckoutSale, caching

LEMMA VoidTyped ==
  ASSUME TypeOK, NEW t \in Terminals, NEW s \in SaleIds, VoidSale(t, s)
  PROVE  RestTyped' /\ UNCHANGED caching
<1>1. s \in AllSales
  BY TerminalsAssumption DEF TypeOK, SaleIds, AllSales, TerminalsAssumption
<1>2. New("void", s, 0) \in Package
  BY <1>1, NewIsPackage
<1>3. box' \in [Terminals -> Seq(Package)]
  BY <1>2, BoxAppend DEF VoidSale
<1>4. mine' \in [Terminals -> [AllSales -> States]] /\ qty' \in [Terminals -> Nat]
  BY <1>1 DEF TypeOK, VoidSale, States
<1>5. voided' \subseteq SaleIds' /\ aside' \subseteq SaleIds' /\ standing' \subseteq SaleIds'
  BY DEF TypeOK, VoidSale, SaleIds
<1> QED
  BY <1>3, <1>4, <1>5 DEF TypeOK, RestTyped, VoidSale, caching

\* A step that restates packages, and changes neither what was sold and voided nor,
\* beyond one request, the wire.
LEMMA RestatedTyped ==
  ASSUME TypeOK, Restated, cur' \in [Terminals -> Nat],
         UNCHANGED <<sold, voided, standing>>, aside' \subseteq SaleIds,
         mine' \in [Terminals -> [AllSales -> States]], qty' \in [Terminals -> Nat],
         entry' \in [Terminals -> Nat \cup {None}],
         click' \in [Terminals -> Nat \cup {None}], UNCHANGED saved,
         wire' \subseteq Request, unnoted' \subseteq wire'
  PROVE  RestTyped'
BY DEF TypeOK, RestTyped, Restated, SaleIds

\* A sale is set aside that was made.
LEMMA AsidedTyped ==
  ASSUME TypeOK, Ordered, NEW t \in Terminals, NEW i \in 1..Len(box[t])
  PROVE  Asided(t, i) \subseteq SaleIds
BY DEF TypeOK, Ordered, Asided

\* The request that a flush sends.
Sent(t, i) == [t |-> t, kind |-> box[t][i].kind, sale |-> box[t][i].sale,
               qty |-> box[t][i].qty, try |-> box[t][i].try + 1]

LEMMA SentIsRequest ==
  ASSUME TypeOK, NEW t \in Terminals, NEW i \in DOMAIN box[t], Send(t, i)
  PROVE  Sent(t, i) \in Request /\ wire' = wire \cup {Sent(t, i)}
<1>1. i \in 1..Len(box[t]) /\ box[t][i] \in Package
  BY BoxDomain, PackageOf
<1>2. box[t][i].try + 1 \in 0..MaxTries
  BY <1>1, TerminalsAssumption DEF Send, Package, TerminalsAssumption
<1> QED
  BY <1>1, <1>2 DEF Send, Sent, Package, Request

LEMMA SendTyped ==
  ASSUME TypeOK, NEW t \in Terminals, NEW i \in DOMAIN box[t], Send(t, i)
  PROVE  RestTyped' /\ UNCHANGED caching
<1>1. Restated
  BY SendOne, OneRestates
<1>2. wire' \subseteq Request
  BY SentIsRequest DEF TypeOK
<1>3. i \in Nat
  BY BoxDomain
<1>4. UNCHANGED <<caching, mine, qty, entry, click, saved, history>>
  BY DEF Send
<1>5. cur' \in [Terminals -> Nat] /\ wire \subseteq wire'
  BY <1>3 DEF Send, TypeOK
<1>6. unnoted' \subseteq wire'
  BY <1>4, <1>5 DEF caching, TypeOK
<1> QED
  BY <1>1, <1>2, <1>4, <1>5, <1>6, RestatedTyped DEF TypeOK, history

LEMMA RetryTyped ==
  ASSUME TypeOK, NEW t \in Terminals, NEW i \in DOMAIN box[t], Retry(t, i)
  PROVE  RestTyped' /\ UNCHANGED caching
<1>1. Restated
  BY RetryOne, OneRestates
<1>2. UNCHANGED <<caching, mine, qty, entry, click, saved, cur, wire, history>>
  BY DEF Retry
<1> QED
  BY <1>1, <1>2, RestatedTyped DEF TypeOK, history, caching

LEMMA FailTyped ==
  ASSUME TypeOK, Ordered, AwaitedIsProcessing, NEW t \in Terminals,
         NEW st \in {"failed", "dead_letter"}, Fail(t, st)
  PROVE  RestTyped' /\ UNCHANGED caching
<1>1. Restated
  BY CurOne, OneRestates DEF Fail, Statuses
<1>2. UNCHANGED <<caching, mine, qty, entry, click, saved, wire, sold, voided, standing>>
  BY DEF Fail
<1>3. aside' \subseteq SaleIds
  BY AsidedTyped DEF Fail, AwaitedIsProcessing, TypeOK
<1>4. cur' \in [Terminals -> Nat]
  BY DEF Fail, TypeOK
<1> QED
  BY <1>1, <1>2, <1>3, <1>4, RestatedTyped DEF TypeOK, caching

LEMMA ReloadTyped ==
  ASSUME TypeOK, NEW t \in Terminals, Reload(t)
  PROVE  RestTyped' /\ UNCHANGED caching
<1>1. Restated
  BY ReloadRestates
<1>2. UNCHANGED <<caching, saved, wire, history>>
  BY DEF Reload
<1>3. saved[t].sales \in [AllSales -> States] /\ saved[t].stock \in Nat
  BY DEF TypeOK
<1>4. /\ mine' \in [Terminals -> [AllSales -> States]] /\ qty' \in [Terminals -> Nat]
      /\ entry' \in [Terminals -> Nat \cup {None}]
      /\ click' \in [Terminals -> Nat \cup {None}]
      /\ cur' \in [Terminals -> Nat]
  BY <1>3 DEF Reload, TypeOK
<1> QED
  BY <1>1, <1>2, <1>4, RestatedTyped DEF TypeOK, history, caching

LEMMA RefuseTyped ==
  ASSUME TypeOK, Ordered, AwaitedIsProcessing, NEW r \in wire,
         NEW st \in {"processing", "dead_letter"}, Refuse(r, st)
  PROVE  RestTyped' /\ UNCHANGED caching
<1>1. r.t \in Terminals /\ cur[r.t] # 0
  BY DEF TypeOK, Request, Refuse, Awaited
<1>2. Restated
  BY <1>1, CurOne, OneRestates DEF Refuse, Statuses
<1>3. UNCHANGED <<caching, mine, qty, entry, click, saved, sold, voided, standing>>
  BY DEF Refuse
<1>4. aside' \subseteq SaleIds
  BY <1>1, AsidedTyped DEF Refuse, AwaitedIsProcessing
<1>5. cur' \in [Terminals -> Nat]
  BY DEF Refuse, TypeOK
<1>6. wire' \subseteq Request /\ unnoted' \subseteq wire'
  BY DEF Refuse, TypeOK, caching
<1> QED
  BY <1>2, <1>3, <1>4, <1>5, <1>6, RestatedTyped DEF TypeOK

LEMMA ExecuteTyped ==
  ASSUME TypeOK, Ordered, NEW r \in wire, Execute(r)
  PROVE  RestTyped'
<1>1. standing' \subseteq SaleIds
  BY DEF TypeOK, Ordered, Execute, Standing
<1> QED
  BY <1>1 DEF TypeOK, RestTyped, Execute, Commit, client, SaleIds

\* A completed package was the awaited one.
LEMMA NoteOne ==
  ASSUME TypeOK, AwaitedIsProcessing, NEW r \in wire, Note(r)
  PROVE  \/ UNCHANGED <<box, cur>>
         \/ /\ r.t \in Terminals /\ cur[r.t] # 0
            /\ cur' = [cur EXCEPT ![r.t] = 0]
            /\ \E p : One(r.t, cur[r.t], p) /\ p.st = "completed"
<1>1. r.t \in Terminals
  BY DEF TypeOK, Request
<1> QED
  BY <1>1, CurOne DEF Note, Awaited, Statuses

\* Packages that do not change are restated.
LEMMA UnchangedIsRestated ==
  ASSUME TypeOK, UNCHANGED box
  PROVE  Restated
BY BoxDomain DEF TypeOK, Restated, SameOrder

LEMMA NoteTyped ==
  ASSUME TypeOK, AwaitedIsProcessing, NEW r \in wire, Note(r)
  PROVE  RestTyped'
<1>1. Restated /\ cur' \in [Terminals -> Nat]
  <2>0. cur \in [Terminals -> Nat]
    BY DEF TypeOK
  <2>1. CASE UNCHANGED <<box, cur>>
    BY <2>0, <2>1, UnchangedIsRestated
  <2>2. CASE /\ r.t \in Terminals /\ cur[r.t] # 0
             /\ cur' = [cur EXCEPT ![r.t] = 0]
             /\ \E p : One(r.t, cur[r.t], p) /\ p.st = "completed"
    <3>1. PICK p : One(r.t, cur[r.t], p)
      BY <2>2
    <3>2. Restated
      BY <3>1, OneRestates
    <3> QED
      BY <2>0, <2>2, <3>2
  <2> QED
    BY <2>1, <2>2, NoteOne
<1>2. UNCHANGED <<mine, qty, entry, click, saved, history>>
  BY DEF Note
<1>3. wire' \subseteq Request /\ unnoted' \subseteq wire'
  BY DEF Note, InvalidateDbCache, TypeOK
<1> QED
  BY <1>1, <1>2, <1>3, RestatedTyped DEF TypeOK, history

LEMMA TypeStep == TypeOK /\ Ordered /\ AwaitedIsProcessing /\ [Next]_vars => TypeOK'
<1> SUFFICES ASSUME TypeOK, Ordered, AwaitedIsProcessing, [Next]_vars
             PROVE  CacheTyped' /\ RestTyped'
  BY DEF TypeOK, CacheTyped, RestTyped
<1>0. CacheTyped /\ RestTyped
  BY DEF TypeOK, CacheTyped, RestTyped
<1>1. CASE UNCHANGED vars
  BY <1>0, <1>1, CacheUntouched DEF RestTyped, vars, client, history, caching, SaleIds
<1>2. ASSUME NEW t \in Terminals, TerminalStep(t)
      PROVE  CacheTyped' /\ RestTyped'
  <2>1. CASE Click(t) \/ GiveUp(t) \/ Expire(t)
    BY <1>0, <2>1, ClickTyped, CacheUntouched
  <2>2. CASE CheckoutSale(t)
    BY <1>0, <2>2, CheckoutTyped, CacheUntouched
  <2>3. ASSUME NEW s \in SaleIds, VoidSale(t, s)
        PROVE  CacheTyped' /\ RestTyped'
    BY <1>0, <2>3, VoidTyped, CacheUntouched
  <2>4. ASSUME NEW i \in DOMAIN box[t], Send(t, i) \/ Retry(t, i)
        PROVE  CacheTyped' /\ RestTyped'
    BY <1>0, <2>4, SendTyped, RetryTyped, CacheUntouched
  <2>5. CASE Fail(t, "failed") \/ Fail(t, "dead_letter")
    BY <1>0, <2>5, FailTyped, CacheUntouched
  <2>7. CASE Reload(t)
    BY <1>0, <2>7, ReloadTyped, CacheUntouched
  <2>6. CASE PollCached(t)
    <3>1. IsSnapshot(cache) /\ DOMAIN cache = Tables
      BY <2>6 DEF TypeOK, PollCached
    <3>2. UNCHANGED <<wire, unnoted, history>> /\ UNCHANGED caching
      BY <2>6 DEF PollCached, caching
    <3> QED
      BY <1>0, <2>6, <3>1, <3>2, HydrateTyped, CacheUntouched DEF PollCached
  <2> QED
    BY <1>2, <2>1, <2>2, <2>3, <2>4, <2>5, <2>6, <2>7 DEF TerminalStep
<1>3. ASSUME NEW r \in wire, Execute(r)
      PROVE  CacheTyped' /\ RestTyped'
  <2>1. r \in Request
    BY DEF TypeOK
  <2> QED
    BY <1>3, <2>1, ExecuteTyped, CommitTyped DEF Execute
<1>4. ASSUME NEW r \in wire, Note(r)
      PROVE  CacheTyped' /\ RestTyped'
  BY <1>4, NoteTyped, InvalidateTyped DEF Note
<1>8. ASSUME NEW r \in wire, Refuse(r, "processing") \/ Refuse(r, "dead_letter")
      PROVE  CacheTyped' /\ RestTyped'
  BY <1>0, <1>8, RefuseTyped, CacheUntouched
<1>5. ASSUME NEW r \in Readers, Poll(r)
      PROVE  CacheTyped' /\ RestTyped'
  BY <1>0, <1>5, StartTyped DEF Poll, StartRead, RestTyped, client, history, SaleIds
<1>6. ASSUME NEW r \in Readers, NEW x \in Tables, Gather(r, x)
      PROVE  CacheTyped' /\ RestTyped'
  BY <1>0, <1>6, GatherTyped DEF Gather, ReadTable, RestTyped, client, history, SaleIds
<1>7. ASSUME NEW r \in Readers, Respond(r)
      PROVE  CacheTyped' /\ RestTyped'
  <2>1. CacheTyped' /\ unnoted' = unnoted
    BY <1>7, FinishTyped DEF Respond, FinishRead
  <2>2. IsSnapshot(reads[r].got) /\ DOMAIN reads[r].got = Tables
    BY <1>7 DEF TypeOK, Respond, FinishRead
  <2>3. CASE UNCHANGED client
    BY <1>0, <1>7, <2>1, <2>3 DEF Respond, RestTyped, client, history, SaleIds
  <2>4. ASSUME NEW t \in Terminals, Hydrate(t, reads[r].got)
        PROVE  RestTyped'
    BY <1>7, <2>1, <2>2, <2>4, HydrateTyped DEF Respond
  <2> QED
    BY <1>7, <2>1, <2>3, <2>4 DEF Respond
<1> QED
  BY <1>1, <1>2, <1>3, <1>4, <1>5, <1>6, <1>7, <1>8 DEF Next, ServerStep

-----------------------------------------------------------------------------
(* The cache *)

\* A read that no invalidation overtook installs the database as it is.
LEMMA FinishFresh ==
  ASSUME TypeOK, CleanCacheIsFresh, ReadsAreFresh, NEW r \in Readers, FinishRead(r)
  PROVE  CleanCacheIsFresh' /\ ReadsAreFresh'
<1>1. ASSUME ~reads[r].old, unnoted = {}
      PROVE  reads[r].got = db
  <2>1. \A x \in Tables : reads[r].got[x] = db[x]
    BY <1>1 DEF FinishRead, ReadsAreFresh
  <2>2. /\ reads[r].got = [x \in Tables |-> reads[r].got[x]]
        /\ db = [x \in Tables |-> db[x]]
    BY DEF TypeOK, IsSnapshot, FinishRead
  <2> QED
    BY <2>1, <2>2
<1>2. CleanCacheIsFresh'
  BY <1>1 DEF CleanCacheIsFresh, FinishRead
<1>3. \A q \in Readers : reads'[q] = IF q = r THEN NotReading ELSE reads[q]
  BY DEF TypeOK, FinishRead
<1>4. ReadsAreFresh'
  BY <1>3 DEF ReadsAreFresh, FinishRead, NotReading
<1> QED
  BY <1>2, <1>4

LEMMA GatherFresh ==
  ASSUME TypeOK, CleanCacheIsFresh, ReadsAreFresh,
         NEW r \in Readers, NEW x \in Tables, ReadTable(r, x)
  PROVE  CleanCacheIsFresh' /\ ReadsAreFresh'
<1> DEFINE old == reads[r].got
           got == [y \in DOMAIN old \cup {x} |-> IF y = x THEN db[x] ELSE old[y]]
<1>1. UNCHANGED <<db, cache, unnoted, stale>>
  BY DEF ReadTable
<1>2. \A q \in Readers \ {r} : reads'[q] = reads[q]
  BY DEF TypeOK, ReadTable
<1>3. reads'[r].on = reads[r].on /\ reads'[r].old = reads[r].old /\ reads'[r].got = got
  BY DEF TypeOK, ReadTable
<1>4. ASSUME reads[r].on, ~reads[r].old, unnoted = {}
      PROVE  \A y \in DOMAIN got : got[y] = db[y]
  <2>1. \A y \in DOMAIN old : old[y] = db[y]
    BY <1>4 DEF ReadsAreFresh
  <2> QED
    BY <2>1
<1> HIDE DEF got
<1>5. ReadsAreFresh'
  BY <1>1, <1>2, <1>3, <1>4 DEF ReadsAreFresh
<1> QED
  BY <1>1, <1>5 DEF CleanCacheIsFresh, Clean

LEMMA FreshStep ==
  TypeOK /\ CleanCacheIsFresh /\ ReadsAreFresh /\ [Next]_vars
    => CleanCacheIsFresh' /\ ReadsAreFresh'
<1> SUFFICES ASSUME TypeOK, CleanCacheIsFresh, ReadsAreFresh, [Next]_vars
             PROVE  CleanCacheIsFresh' /\ ReadsAreFresh'
  OBVIOUS
<1>1. CASE UNCHANGED caching
  BY <1>1 DEF caching, CleanCacheIsFresh, ReadsAreFresh, Clean
<1>2. ASSUME NEW q, Commit(q, Written(q))
      PROVE  CleanCacheIsFresh' /\ ReadsAreFresh'
  BY <1>2 DEF Commit, CleanCacheIsFresh, ReadsAreFresh
<1>3. ASSUME NEW q, InvalidateDbCache(q)
      PROVE  CleanCacheIsFresh' /\ ReadsAreFresh'
  BY <1>3 DEF TypeOK, InvalidateDbCache, CleanCacheIsFresh, ReadsAreFresh, Clean
<1>4. ASSUME NEW r \in Readers, StartRead(r)
      PROVE  CleanCacheIsFresh' /\ ReadsAreFresh'
  <2>1. /\ \A q \in Readers \ {r} : reads'[q] = reads[q]
        /\ DOMAIN reads'[r].got = {}
    BY <1>4 DEF TypeOK, StartRead, Nothing
  <2> QED
    BY <1>4, <2>1 DEF StartRead, CleanCacheIsFresh, ReadsAreFresh, Clean
<1>5. ASSUME NEW t \in Terminals, TerminalStep(t)
      PROVE  UNCHANGED caching
  BY <1>5 DEF TerminalStep, Click, GiveUp, CheckoutSale, VoidSale, Expire, Send, Retry,
              Fail, Reload, PollCached, caching
<1>6. ASSUME NEW r \in wire, NEW st, Refuse(r, st)
      PROVE  UNCHANGED caching
  BY <1>6 DEF Refuse, caching
<1> QED
  BY <1>1, <1>2, <1>3, <1>4, <1>5, <1>6, GatherFresh, FinishFresh
  DEF Next, ServerStep, Execute, Note, Poll, Gather, Respond, vars

-----------------------------------------------------------------------------
(* The order of packages *)

\* A package is put at the end of an outbox.
Puts(t, p) == t \in Terminals /\ p \in Package /\ box' = [box EXCEPT ![t] = Append(@, p)]

\* Packages that are restated keep their order.
LEMMA RestatedOrdered ==
  ASSUME TypeOK, Ordered, Restated, sold' = sold,
         \A r \in wire' : r.sale \in SaleIds
  PROVE  Ordered'
<1>1. SaleIds' = SaleIds
  BY DEF SaleIds
<1>2. ASSUME NEW t \in Terminals, NEW i \in 1..Len(box'[t])
      PROVE  /\ box'[t][i].sale \in SaleIds
             /\ box'[t][i].kind = "checkout" =>
                  /\ sold[box'[t][i].sale] = t
                  /\ \A j \in 1..(i - 1) : box'[t][j].sale # box'[t][i].sale
  <2>1. Len(box'[t]) = Len(box[t]) /\ Len(box[t]) \in Nat
    BY DEF Restated
  <2>2. \A j \in 1..Len(box[t]) : box'[t][j].sale = box[t][j].sale /\ box'[t][j].kind = box[t][j].kind
    BY DEF Restated, SameOrder
  <2>3. \A j \in 1..(i - 1) : j \in 1..Len(box[t])
    BY <2>1
  <2> QED
    BY <2>1, <2>2, <2>3 DEF Ordered
<1> QED
  BY <1>1, <1>2 DEF Ordered

\* A void of a sale that was made, and the checkout of a new sale, may be put
\* at the end.
LEMMA PutOrdered ==
  ASSUME TypeOK, Ordered, NEW t, NEW p, Puts(t, p),
         Len(sold') \in Nat, Len(sold') >= Len(sold),
         \A s \in SaleIds : sold'[s] = sold[s],
         p.sale \in SaleIds',
         p.kind = "checkout" => p.sale \notin SaleIds /\ sold'[p.sale] = t,
         \A r \in wire' : r.sale \in SaleIds'
  PROVE  Ordered'
<1> USE DEF Puts
<1>1. \A u \in Terminals \ {t} : box'[u] = box[u]
  BY BoxAppend
<1>2. /\ Len(box[t]) \in Nat
      /\ Len(box'[t]) = Len(box[t]) + 1
      /\ \A i \in 1..Len(box[t]) : box'[t][i] = box[t][i]
      /\ box'[t][Len(box[t]) + 1] = p
  BY BoxAppend
<1>3. SaleIds \subseteq SaleIds'
  BY DEF SaleIds, TypeOK
<1>4. ASSUME NEW u \in Terminals, NEW i \in 1..Len(box[u])
      PROVE  /\ box[u][i].sale \in SaleIds /\ box[u][i].sale \in SaleIds'
             /\ box[u][i].kind = "checkout" =>
                  /\ sold'[box[u][i].sale] = u
                  /\ \A j \in 1..(i - 1) : box[u][j].sale # box[u][i].sale
  BY <1>3 DEF Ordered
<1>5. ASSUME NEW i \in 1..Len(box'[t])
      PROVE  /\ box'[t][i].sale \in SaleIds'
             /\ box'[t][i].kind = "checkout" =>
                  /\ sold'[box'[t][i].sale] = t
                  /\ \A j \in 1..(i - 1) : box'[t][j].sale # box'[t][i].sale
  <2>1. CASE i \in 1..Len(box[t])
    BY <1>2, <1>4, <2>1
  <2>2. CASE i = Len(box[t]) + 1
    <3>1. box'[t][i] = p
      BY <1>2, <2>2
    <3>2. \A j \in 1..(i - 1) : box'[t][j].sale \in SaleIds
      BY <1>2, <1>4, <2>2
    <3> QED
      BY <3>1, <3>2
  <2> QED
    BY <1>2, <2>1, <2>2
<1> QED
  BY <1>1, <1>4, <1>5 DEF Ordered

\* The packages the two operations put.
CheckoutPackage(t) == New("checkout", Len(sold) + 1, Floor(click[t] - 1))
VoidPackage(s) == New("void", s, 0)

LEMMA CheckoutPuts ==
  ASSUME TypeOK, NEW t \in Terminals, CheckoutSale(t)
  PROVE  Puts(t, CheckoutPackage(t))
<1>0. Len(sold) \in Nat /\ Len(sold) < MaxSales
  BY DEF TypeOK, CheckoutSale
<1>1. Len(sold) + 1 \in AllSales
  BY <1>0, TerminalsAssumption DEF AllSales, TerminalsAssumption
<1>2. click[t] \in Nat
  BY DEF TypeOK, CheckoutSale
<1>3. Floor(click[t] - 1) \in Nat
  BY <1>2 DEF Floor
<1> QED
  BY <1>1, <1>3, NewIsPackage DEF Puts, CheckoutPackage, CheckoutSale

LEMMA VoidPuts ==
  ASSUME TypeOK, NEW t \in Terminals, NEW s \in SaleIds, VoidSale(t, s)
  PROVE  Puts(t, VoidPackage(s))
<1>1. s \in AllSales
  BY TerminalsAssumption DEF TypeOK, SaleIds, AllSales, TerminalsAssumption
<1> QED
  BY <1>1, NewIsPackage DEF Puts, VoidPackage, VoidSale

\* The steps that touch neither the outboxes nor the requests under way.
Bystander ==
  \/ UNCHANGED vars
  \/ \E t \in Terminals : Click(t) \/ GiveUp(t) \/ Expire(t) \/ PollCached(t)
  \/ \E r \in Readers : Poll(r) \/ Respond(r) \/ \E x \in Tables : Gather(r, x)

LEMMA BystanderKeeps ==
  ASSUME Bystander
  PROVE  UNCHANGED <<db, box, cur, wire, unnoted, history>>
BY DEF Bystander, vars, client, caching, history, Click, GiveUp, Expire, PollCached,
       Hydrate, Takes, Poll, StartRead, Respond, FinishRead, Gather, ReadTable

\* The steps by which packages change their status.
Outboxing ==
  \/ \E t \in Terminals : \/ \E i \in DOMAIN box[t] : Send(t, i) \/ Retry(t, i)
                          \/ \E st \in {"failed", "dead_letter"} : Fail(t, st)
                          \/ Reload(t)
  \/ \E r \in wire : Note(r) \/ \E st \in {"processing", "dead_letter"} : Refuse(r, st)

\* The steps of the system, by what they do to the outboxes.
LEMMA Steps ==
  ASSUME [Next]_vars
  PROVE  \/ Bystander
         \/ \E t \in Terminals : CheckoutSale(t) \/ \E s \in SaleIds : VoidSale(t, s)
         \/ \E r \in wire : Execute(r)
         \/ Outboxing
<1>1. ASSUME NEW t \in Terminals, TerminalStep(t)
      PROVE  \/ Bystander
             \/ CheckoutSale(t) \/ \E s \in SaleIds : VoidSale(t, s)
             \/ Outboxing
  BY <1>1 DEF TerminalStep, Bystander, Outboxing
<1>2. ASSUME ServerStep
      PROVE  Bystander \/ (\E r \in wire : Execute(r)) \/ Outboxing
  BY <1>2 DEF ServerStep, Bystander, Outboxing
<1> QED
  BY <1>1, <1>2 DEF Next, Bystander

\* What the steps of the outboxes leave alone.
LEMMA OutboxingKeeps ==
  ASSUME TypeOK, AwaitedIsProcessing, Outboxing
  PROVE  /\ Restated
         /\ UNCHANGED <<db, saved, sold, voided, standing>>
         /\ aside \subseteq aside'
<1>1. ASSUME NEW t \in Terminals, NEW i \in DOMAIN box[t], Send(t, i) \/ Retry(t, i)
      PROVE  Restated
  BY <1>1, SendOne, RetryOne, OneRestates
<1>2. ASSUME NEW t \in Terminals, NEW st \in {"failed", "dead_letter"}, Fail(t, st)
      PROVE  Restated
  BY <1>2, CurOne, OneRestates DEF Fail, Statuses
<1>3. ASSUME NEW r \in wire, NEW st \in {"processing", "dead_letter"}, Refuse(r, st)
      PROVE  Restated
  <2>1. r.t \in Terminals
    BY DEF TypeOK, Request
  <2> QED
    BY <1>3, <2>1, CurOne, OneRestates DEF Refuse, Awaited, Statuses
<1>4. ASSUME NEW r \in wire, Note(r)
      PROVE  Restated
  BY <1>4, NoteOne, OneRestates, UnchangedIsRestated
<1>5. Restated
  BY <1>1, <1>2, <1>3, <1>4, ReloadRestates DEF Outboxing
<1>6. /\ UNCHANGED <<db, saved, sold, voided, standing>>
      /\ aside \subseteq aside'
  BY ZenonT(40) DEF Outboxing, Send, Retry, Fail, Reload, Note, InvalidateDbCache, Refuse, Asided,
         caching, history
<1> QED
  BY <1>5, <1>6

LEMMA OrderedStep == TypeOK /\ Ordered /\ AwaitedIsProcessing /\ [Next]_vars => Ordered'
<1> SUFFICES ASSUME TypeOK, Ordered, AwaitedIsProcessing, [Next]_vars PROVE Ordered'
  OBVIOUS
<1>1. CASE Bystander
  BY <1>1, BystanderKeeps DEF Ordered, SaleIds, history
<1>2. ASSUME NEW t \in Terminals, CheckoutSale(t)
      PROVE  Ordered'
  <2> DEFINE s == Len(sold) + 1
  <2>1. /\ Len(sold) \in Nat /\ Len(sold') = s
        /\ \A q \in SaleIds : sold'[q] = sold[q]
        /\ sold'[s] = t
    BY <1>2, OneMoreSale DEF CheckoutSale, SaleIds
  <2>2. s \in SaleIds' /\ s \notin SaleIds /\ SaleIds \subseteq SaleIds'
    BY <2>1 DEF SaleIds
  <2>3. \A r \in wire' : r.sale \in SaleIds'
    BY <1>2, <2>2 DEF CheckoutSale, Log, Ordered
  <2>4. CheckoutPackage(t).sale = s
    BY DEF CheckoutPackage, New
  <2>5. Puts(t, CheckoutPackage(t))
    BY <1>2, CheckoutPuts
  <2> HIDE DEF s
  <2>6. Len(sold') \in Nat /\ Len(sold') >= Len(sold)
    BY <2>1 DEF s
  <2> QED
    BY <2>1, <2>2, <2>3, <2>4, <2>5, <2>6, PutOrdered
<1>3. ASSUME NEW t \in Terminals, NEW s \in SaleIds, VoidSale(t, s)
      PROVE  Ordered'
  <2>1. Puts(t, VoidPackage(s))
    BY <1>3, VoidPuts
  <2>2. VoidPackage(s).sale = s /\ VoidPackage(s).kind = "void"
    BY DEF VoidPackage, New
  <2>3. sold' = sold /\ wire' = wire /\ SaleIds' = SaleIds /\ Len(sold) \in Nat
    BY <1>3 DEF VoidSale, SaleIds, TypeOK
  <2>4. \A r \in wire' : r.sale \in SaleIds'
    BY <2>3 DEF Ordered
  <2> QED
    BY <2>1, <2>2, <2>3, <2>4, PutOrdered
<1>4. CASE Outboxing
  <2>1. ASSUME NEW t \in Terminals, NEW i \in DOMAIN box[t], Send(t, i)
        PROVE  \A r \in wire' : r.sale \in SaleIds
    <3>1. wire' = wire \cup {Sent(t, i)}
      BY <2>1, SentIsRequest
    <3>2. Sent(t, i).sale \in SaleIds
      BY BoxDomain DEF Sent, Ordered
    <3> QED
      BY <3>1, <3>2 DEF Ordered
  <2>2. \A r \in wire' : r.sale \in SaleIds
    BY <1>4, <2>1 DEF Outboxing, Retry, Fail, Reload, Note, Refuse, Ordered
  <2> QED
    BY <1>4, <2>2, OutboxingKeeps, RestatedOrdered
<1>5. ASSUME NEW r \in wire, Execute(r)
      PROVE  Ordered'
  BY <1>5 DEF Execute, Ordered, SaleIds, client
<1> QED
  BY <1>1, <1>2, <1>3, <1>4, <1>5, Steps

-----------------------------------------------------------------------------
(* What is awaited, and what a flush may pass by *)

\* Of one outbox: the awaited package is processing, and whichever checkout may be
\* passed by was set aside.
Kept(t) ==
  /\ cur[t] # 0 => cur[t] \in 1..Len(box[t]) /\ box[t][cur[t]].st = "processing"
  /\ \A i \in 1..Len(box[t]) :
       /\ box[t][i].kind = "checkout"
       /\ \/ box[t][i].st \in {"dead_letter", "again"}
          \/ box[t][i].st = "processing" /\ i # cur[t]
       => box[t][i].sale \in aside

LEMMA KeptByAll == AwaitedIsProcessing /\ PassedByIsAside <=> \A t \in Terminals : Kept(t)
BY DEF AwaitedIsProcessing, PassedByIsAside, Kept

\* An outbox that is not concerned.
LEMMA OthersKept ==
  ASSUME NEW t \in Terminals, Kept(t), box'[t] = box[t], cur'[t] = cur[t], aside \subseteq aside'
  PROVE  Kept(t)'
BY DEF Kept

\* A package is put at the end.
LEMMA PutKept ==
  ASSUME TypeOK, NEW t \in Terminals, Kept(t), NEW p, Puts(t, p), p.st = "pending",
         cur' = cur, aside' = aside
  PROVE  \A u \in Terminals : Kept(u) => Kept(u)'
<1>1. /\ \A u \in Terminals \ {t} : box'[u] = box[u]
      /\ Len(box[t]) \in Nat
      /\ Len(box'[t]) = Len(box[t]) + 1
      /\ \A i \in 1..Len(box[t]) : box'[t][i] = box[t][i]
      /\ box'[t][Len(box[t]) + 1] = p
  BY BoxAppend DEF Puts
<1>2. \A i \in 1..Len(box'[t]) : i \in 1..Len(box[t]) \/ i = Len(box[t]) + 1
  BY <1>1
<1>3. cur'[t] # 0 => cur'[t] \in 1..Len(box'[t]) /\ box'[t][cur'[t]].st = "processing"
  <2>1. cur[t] # 0 => cur[t] \in 1..Len(box[t]) /\ box[t][cur[t]].st = "processing"
    BY DEF Kept
  <2> QED
    BY <1>1, <2>1
<1>4. ASSUME NEW i \in 1..Len(box'[t]), box'[t][i].kind = "checkout",
             \/ box'[t][i].st \in {"dead_letter", "again"}
             \/ box'[t][i].st = "processing" /\ i # cur'[t]
      PROVE  box'[t][i].sale \in aside'
  <2>1. i \in 1..Len(box[t])
    BY <1>1, <1>2, <1>4
  <2>2. box'[t][i] = box[t][i]
    BY <1>1, <2>1
  <2> QED
    BY <1>4, <2>1, <2>2 DEF Kept
<1>5. Kept(t)'
  BY <1>3, <1>4 DEF Kept
<1> QED
  BY <1>1, <1>5, OthersKept

\* One package is restated, and is then the awaited one or passed by by none, unless
\* it was set aside; the package that was awaited, if any, is this one or still is.
LEMMA OneKept ==
  ASSUME TypeOK, NEW t, NEW i, NEW p, One(t, i, p), Kept(t),
         aside \subseteq aside',
         \/ cur'[t] = i /\ p.st = "processing" /\ cur[t] = 0
         \/ cur'[t] = 0 /\ i = cur[t]
         \/ cur'[t] = cur[t] /\ i # cur[t],
         \/ p.kind # "checkout"
         \/ p.st \in {"pending", "failed", "completed"}
         \/ p.st = "processing" /\ cur'[t] = i
         \/ p.sale \in aside'
  PROVE  Kept(t)'
<1>1. /\ box'[t][i] = p
      /\ \A j \in 1..Len(box[t]) : j # i => box'[t][j] = box[t][j]
  BY OneRestates
<1>2. Len(box'[t]) = Len(box[t]) /\ t \in Terminals /\ i \in 1..Len(box[t])
  BY OneRestates DEF Restated, One
<1>3. p.st = "processing" /\ cur'[t] # i /\ p.kind = "checkout" => p.sale \in aside'
  OBVIOUS
<1>4. cur'[t] # 0 => cur'[t] \in 1..Len(box'[t]) /\ box'[t][cur'[t]].st = "processing"
  BY <1>1, <1>2 DEF Kept
<1>5. ASSUME NEW j \in 1..Len(box[t]), box'[t][j].kind = "checkout",
             \/ box'[t][j].st \in {"dead_letter", "again"}
             \/ box'[t][j].st = "processing" /\ j # cur'[t]
      PROVE  box'[t][j].sale \in aside'
  <2>1. CASE j = i
    BY <1>1, <1>3, <1>5, <2>1
  <2>2. CASE j # i
    <3>1. box'[t][j] = box[t][j]
      BY <1>1, <2>2
    <3>2. box[t][j].st = "processing" /\ j # cur'[t] => j # cur[t]
      BY <1>2, <2>2
    <3> QED
      BY <1>5, <3>1, <3>2 DEF Kept
  <2> QED
    BY <2>1, <2>2
<1> QED
  BY <1>2, <1>4, <1>5 DEF Kept

\* What is set aside is the sale of a checkout.
LEMMA AsidedHas ==
  ASSUME NEW t, NEW i, NEW p, One(t, i, p)
  PROVE  p.kind # "checkout" \/ p.sale \in Asided(t, i)
BY DEF One, SameOrder, Asided

LEMMA OutboxingKept ==
  ASSUME TypeOK, AwaitedIsProcessing, PassedByIsAside, Outboxing
  PROVE  \A u \in Terminals : Kept(u)'
<1>0. \A u \in Terminals : Kept(u)
  BY KeptByAll
<1>1. ASSUME NEW t \in Terminals, NEW i, NEW p, One(t, i, p), Kept(t)',
             aside \subseteq aside', \A u \in Terminals \ {t} : cur'[u] = cur[u]
      PROVE  \A u \in Terminals : Kept(u)'
  BY <1>0, <1>1, OneRestates, OthersKept
<1>2. ASSUME NEW t \in Terminals, NEW i \in DOMAIN box[t], Send(t, i)
      PROVE  \A u \in Terminals : Kept(u)'
  <2>1. PICK p : One(t, i, p) /\ p.st = "processing"
    BY <1>2, SendOne
  <2>2. cur[t] = 0 /\ cur'[t] = i /\ aside' = aside /\ \A u \in Terminals \ {t} : cur'[u] = cur[u]
    BY <1>2 DEF Send, TypeOK, history
  <2>3. Kept(t)'
    BY <1>0, <2>1, <2>2, OneKept
  <2> QED
    BY <1>1, <2>1, <2>2, <2>3
<1>3. ASSUME NEW t \in Terminals, NEW i \in DOMAIN box[t], Retry(t, i)
      PROVE  \A u \in Terminals : Kept(u)'
  <2>1. PICK p : /\ One(t, i, p) /\ p.st \in {"pending", "again"}
                 /\ p.st = "again" => box[t][i].st = "dead_letter"
    BY <1>3, RetryOne
  <2>2. cur' = cur /\ aside' = aside /\ box[t][i].st # "processing"
    BY <1>3 DEF Retry, history
  <2>3. i # cur[t]
    BY <1>0, <2>1, <2>2 DEF Kept, One
  <2>4. p.st = "again" /\ p.kind = "checkout" => p.sale \in aside
    BY <1>0, <2>1 DEF Kept, One, SameOrder
  <2>5. Kept(t)'
    BY <1>0, <2>1, <2>2, <2>3, <2>4, OneKept
  <2> QED
    BY <1>1, <2>1, <2>2, <2>5
<1>4. ASSUME NEW t \in Terminals, NEW st \in {"failed", "dead_letter"}, Fail(t, st)
      PROVE  \A u \in Terminals : Kept(u)'
  <2>1. cur[t] # 0 /\ box' = Marked(t, cur[t], st) /\ st \in Statuses
    BY <1>4 DEF Fail, Statuses
  <2>2. PICK p : One(t, cur[t], p) /\ p.st = st
    BY <2>1, CurOne
  <2>3. /\ cur'[t] = 0 /\ \A u \in Terminals \ {t} : cur'[u] = cur[u]
        /\ aside \subseteq aside'
        /\ st = "dead_letter" => aside' = Asided(t, cur[t])
    BY <1>4 DEF Fail, TypeOK, Asided
  <2>4. Kept(t)'
    BY <1>0, <2>2, <2>3, AsidedHas, OneKept
  <2> QED
    BY <1>1, <2>2, <2>3, <2>4
<1>5. ASSUME NEW r \in wire, NEW st \in {"processing", "dead_letter"}, Refuse(r, st)
      PROVE  \A u \in Terminals : Kept(u)'
  <2> DEFINE t == r.t
  <2>0. t \in Terminals
    BY DEF TypeOK, Request
  <2>1. cur[t] # 0 /\ box' = Marked(t, cur[t], st) /\ st \in Statuses
    BY <1>5 DEF Refuse, Awaited, Statuses
  <2>2. /\ cur'[t] = 0 /\ \A u \in Terminals \ {t} : cur'[u] = cur[u]
        /\ aside \subseteq aside'
        /\ aside' = Asided(t, cur[t])
    BY <1>5, <2>0 DEF Refuse, TypeOK, Asided
  <2> HIDE DEF t
  <2>3. PICK p : One(t, cur[t], p) /\ p.st = st
    BY <2>0, <2>1, CurOne
  <2>4. Kept(t)'
    BY <1>0, <2>0, <2>2, <2>3, AsidedHas, OneKept
  <2> QED
    BY <1>1, <2>0, <2>2, <2>3, <2>4
<1>6. ASSUME NEW r \in wire, Note(r)
      PROVE  \A u \in Terminals : Kept(u)'
  <2>1. aside' = aside
    BY <1>6 DEF Note, history
  <2>2. CASE UNCHANGED <<box, cur>>
    BY <1>0, <2>1, <2>2, OthersKept
  <2>3. CASE /\ r.t \in Terminals /\ cur[r.t] # 0
             /\ cur' = [cur EXCEPT ![r.t] = 0]
             /\ \E p : One(r.t, cur[r.t], p) /\ p.st = "completed"
    <3>1. PICK p : One(r.t, cur[r.t], p) /\ p.st = "completed"
      BY <2>3
    <3>2. cur'[r.t] = 0 /\ \A u \in Terminals \ {r.t} : cur'[u] = cur[u]
      BY <2>3 DEF TypeOK
    <3>3. Kept(r.t)'
      BY <1>0, <2>1, <2>3, <3>1, <3>2, OneKept
    <3> QED
      BY <1>1, <2>1, <2>3, <3>1, <3>2, <3>3
  <2> QED
    BY <1>6, <2>2, <2>3, NoteOne
<1>7. ASSUME NEW t \in Terminals, Reload(t)
      PROVE  \A u \in Terminals : Kept(u)'
  <2>1. /\ Restated
        /\ \A u \in Terminals \ {t} : box'[u] = box[u]
        /\ \A i \in 1..Len(box[t]) :
             box'[t][i].st = IF box[t][i].st = "processing" THEN "pending" ELSE box[t][i].st
    BY <1>7, ReloadRestates
  <2>2. aside' = aside /\ cur'[t] = 0 /\ \A u \in Terminals \ {t} : cur'[u] = cur[u]
    BY <1>7 DEF Reload, TypeOK, history
  <2>3. Kept(t)'
    <3>1. Len(box'[t]) = Len(box[t])
      BY <2>1 DEF Restated
    <3>2. ASSUME NEW i \in 1..Len(box[t])
          PROVE  /\ box'[t][i].kind = box[t][i].kind /\ box'[t][i].sale = box[t][i].sale
                 /\ box'[t][i].st # "processing"
                 /\ box'[t][i].st \in {"dead_letter", "again"} => box'[t][i].st = box[t][i].st
      BY <2>1 DEF Restated, SameOrder
    <3> QED
      BY <1>0, <2>2, <3>1, <3>2 DEF Kept
  <2> QED
    BY <1>0, <2>1, <2>2, <2>3, OthersKept
<1> QED
  BY <1>2, <1>3, <1>4, <1>5, <1>6, <1>7 DEF Outboxing

LEMMA KeptStep ==
  TypeOK /\ AwaitedIsProcessing /\ PassedByIsAside /\ [Next]_vars
    => AwaitedIsProcessing' /\ PassedByIsAside'
<1> SUFFICES ASSUME TypeOK, AwaitedIsProcessing, PassedByIsAside, [Next]_vars
             PROVE  \A u \in Terminals : Kept(u)'
  BY DEF AwaitedIsProcessing, PassedByIsAside, Kept
<1>0. \A u \in Terminals : Kept(u)
  BY KeptByAll
<1>1. CASE UNCHANGED <<box, cur, aside>>
  BY <1>0, <1>1, OthersKept
<1>2. ASSUME NEW t \in Terminals, CheckoutSale(t)
      PROVE  \A u \in Terminals : Kept(u)'
  <2>1. Puts(t, CheckoutPackage(t)) /\ CheckoutPackage(t).st = "pending"
    BY <1>2, CheckoutPuts DEF CheckoutPackage, New
  <2>2. cur' = cur /\ aside' = aside
    BY <1>2 DEF CheckoutSale
  <2> QED
    BY <1>0, <2>1, <2>2, PutKept
<1>3. ASSUME NEW t \in Terminals, NEW s \in SaleIds, VoidSale(t, s)
      PROVE  \A u \in Terminals : Kept(u)'
  <2>1. Puts(t, VoidPackage(s)) /\ VoidPackage(s).st = "pending"
    BY <1>3, VoidPuts DEF VoidPackage, New
  <2>2. cur' = cur /\ aside' = aside
    BY <1>3 DEF VoidSale
  <2> QED
    BY <1>0, <2>1, <2>2, PutKept
<1>4. ASSUME NEW r \in wire, Execute(r)
      PROVE  UNCHANGED <<box, cur, aside>>
  BY <1>4 DEF Execute, client
<1> QED
  BY <1>1, <1>2, <1>3, <1>4, Steps, BystanderKeeps, OutboxingKept DEF history

-----------------------------------------------------------------------------
(* Voids stand *)

\* A delivered checkout stays so: a step restates packages, or puts the checkout of
\* a sale that is new.
LEMMA DeliveredStays ==
  ASSUME TypeOK, Ordered, AwaitedIsProcessing, [Next]_vars, NEW s \in SaleIds, Delivered(s)
  PROVE  Delivered(s)'
<1>1. CASE Restated
  BY <1>1 DEF Delivered, Restated, SameOrder
<1>2. ASSUME NEW t, NEW p, Puts(t, p), p.kind = "checkout" => p.sale # s
      PROVE  Delivered(s)'
  <2>1. /\ \A u \in Terminals \ {t} : box'[u] = box[u]
        /\ Len(box[t]) \in Nat
        /\ Len(box'[t]) = Len(box[t]) + 1
        /\ \A i \in 1..Len(box[t]) : box'[t][i] = box[t][i]
        /\ box'[t][Len(box[t]) + 1] = p
    BY <1>2, BoxAppend DEF Puts
  <2>2. \A i \in 1..Len(box'[t]) : i \in 1..Len(box[t]) \/ i = Len(box[t]) + 1
    BY <2>1
  <2> QED
    BY SMTT(30), <1>2, <2>1, <2>2 DEF Delivered
<1>3. ASSUME NEW t \in Terminals, CheckoutSale(t)
      PROVE  Delivered(s)'
  <2>1. CheckoutPackage(t).sale # s
    BY DEF CheckoutPackage, New, SaleIds, TypeOK
  <2> QED
    BY <1>2, <1>3, <2>1, CheckoutPuts
<1>4. ASSUME NEW t \in Terminals, NEW q \in SaleIds, VoidSale(t, q)
      PROVE  Delivered(s)'
  <2>1. VoidPackage(q).kind # "checkout"
    BY DEF VoidPackage, New
  <2> QED
    BY <1>2, <1>4, <2>1, VoidPuts
<1>5. ASSUME NEW r \in wire, Execute(r)
      PROVE  UNCHANGED box
  BY <1>5 DEF Execute, client
<1> QED
  BY <1>1, <1>3, <1>4, <1>5, Steps, BystanderKeeps, OutboxingKeeps, UnchangedIsRestated

\* When a void is sent, the checkout of its sale stands before it, and does not
\* wait: it is delivered, or was set aside.
LEMMA SentVoidFollows ==
  ASSUME TypeOK, Ordered, PassedByIsAside, NEW t \in Terminals, NEW i \in 1..Len(box[t]),
         Send(t, i), box[t][i].kind = "void", sold[box[t][i].sale] = t,
         box[t][i].sale \notin aside
  PROVE  Delivered(box[t][i].sale)
<1> DEFINE s == box[t][i].sale
<1>1. Len(box[t]) \in Nat
  BY BoxDomain
<1> SUFFICES ASSUME NEW u \in Terminals, NEW j \in 1..Len(box[u]), box[u][j].kind = "checkout",
                    box[u][j].sale = s
             PROVE  box[u][j].st = "completed"
  BY DEF Delivered
<1>2. u = t
  BY DEF Ordered
<1>3. j # i
  BY <1>2
<1>4. ~(i \in 1..(j - 1))
  BY <1>1, <1>2 DEF Ordered
<1>5. j \in 1..(i - 1)
  BY <1>1, <1>2, <1>3, <1>4
<1>6. box[t][j].st \notin Waiting /\ cur[t] = 0
  BY <1>5 DEF Send
<1>7. box[t][j].st \notin {"dead_letter", "again", "processing"}
  BY <1>1, <1>2, <1>6 DEF PassedByIsAside
<1>8. box[t][j].st \in Statuses
  BY <1>2, PackageOf DEF Package
<1> QED
  BY <1>2, <1>6, <1>7, <1>8 DEF Statuses, Waiting

\* Only requests that were sent by an outbox or as a sale log are on the wire.
LEMMA VoidsFollowStep ==
  TypeOK /\ Ordered /\ AwaitedIsProcessing /\ PassedByIsAside /\ VoidsFollow /\ [Next]_vars
    => VoidsFollow'
<1> SUFFICES ASSUME TypeOK, Ordered, AwaitedIsProcessing, PassedByIsAside, VoidsFollow,
                    [Next]_vars
             PROVE  VoidsFollow'
  OBVIOUS
<1>1. \A r \in wire : r.sale \in SaleIds
  BY DEF Ordered
<1>2. standing \subseteq SaleIds
  BY DEF TypeOK
<1>3. \A s \in SaleIds : Delivered(s) => Delivered(s)'
  BY DeliveredStays
<1>4. CASE wire' \subseteq wire /\ UNCHANGED <<sold, standing>> /\ aside \subseteq aside'
  BY <1>1, <1>2, <1>3, <1>4 DEF VoidsFollow
<1>5. ASSUME NEW t \in Terminals, CheckoutSale(t)
      PROVE  VoidsFollow'
  <2>1. \A r \in wire' : r \in wire \/ r.kind = "log"
    BY <1>5 DEF CheckoutSale, Log
  <2>2. \A s \in SaleIds : sold'[s] = sold[s]
    BY <1>5, OneMoreSale DEF CheckoutSale, SaleIds
  <2>3. standing' = standing /\ aside' = aside
    BY <1>5 DEF CheckoutSale
  <2> QED
    BY <1>1, <1>2, <1>3, <2>1, <2>2, <2>3 DEF VoidsFollow
<1>6. ASSUME NEW t \in Terminals, NEW s \in SaleIds, VoidSale(t, s)
      PROVE  wire' \subseteq wire /\ UNCHANGED <<sold, standing>> /\ aside \subseteq aside'
  BY <1>6 DEF VoidSale
<1>7. ASSUME NEW t \in Terminals, NEW i \in DOMAIN box[t], Send(t, i)
      PROVE  VoidsFollow'
  <2>0. i \in 1..Len(box[t])
    BY BoxDomain
  <2>1. /\ Sent(t, i).t = t /\ Sent(t, i).kind = box[t][i].kind
        /\ Sent(t, i).sale = box[t][i].sale
    BY DEF Sent
  <2>2. wire' = wire \cup {Sent(t, i)} /\ UNCHANGED <<sold, standing, aside>>
    BY <1>7, SentIsRequest DEF Send, history
  <2>3. /\ Sent(t, i).kind = "void"
        /\ sold[Sent(t, i).sale] = Sent(t, i).t
        /\ Sent(t, i).sale \notin aside
        => Delivered(Sent(t, i).sale)
    BY <1>7, <2>0, <2>1, SentVoidFollows
  <2>4. Sent(t, i).sale \in SaleIds
    BY <2>0, <2>1 DEF Ordered
  <2> QED
    BY <1>1, <1>2, <1>3, <2>2, <2>3, <2>4 DEF VoidsFollow
<1>8. ASSUME NEW r \in wire, Execute(r)
      PROVE  VoidsFollow'
  <2>1. UNCHANGED <<wire, sold, aside>>
    BY <1>8 DEF Execute
  <2>2. \/ standing' \subseteq standing
        \/ /\ r.kind = "void"
           /\ sold[r.sale] = r.t
           /\ r.sale \notin aside
           /\ standing' = standing \cup {r.sale}
    BY <1>8 DEF Execute, Standing
  <2> QED
    BY <1>1, <1>2, <1>3, <2>1, <2>2 DEF VoidsFollow
<1>9. ASSUME Outboxing
      PROVE  VoidsFollow'
  <2>1. CASE wire' \subseteq wire
    BY <1>4, <1>9, <2>1, OutboxingKeeps
  <2>2. CASE \E t \in Terminals : \E i \in DOMAIN box[t] : Send(t, i)
    BY <1>7, <2>2
  <2> QED
    BY <1>9, <2>1, <2>2 DEF Outboxing, Retry, Fail, Reload, Note, Refuse
<1> QED
  BY <1>4, <1>5, <1>6, <1>8, <1>9, Steps, BystanderKeeps DEF history

\* A request that writes a standing sale as live is one that nobody awaits, and
\* then the sale stands no longer.
LEMMA VoidStandsStep ==
  TypeOK /\ Ordered /\ AwaitedIsProcessing /\ VoidsFollow /\ VoidStands /\ [Next]_vars
    => VoidStands'
<1> SUFFICES ASSUME TypeOK, Ordered, AwaitedIsProcessing, VoidsFollow, VoidStands, [Next]_vars
             PROVE  VoidStands'
  OBVIOUS
<1>1. CASE UNCHANGED <<db, standing>>
  BY <1>1 DEF VoidStands
<1>2. ASSUME NEW r \in wire, Execute(r)
      PROVE  VoidStands'
  <2>1. /\ db' = Written(r)
        /\ \A s \in AllSales : Written(r)["sales"][s] =
              IF s # r.sale THEN db["sales"][s]
              ELSE IF r.kind = "void" THEN "void" ELSE "live"
    BY <1>2, WrittenIsSnapshot DEF Execute, Commit, TypeOK
  <2>2. standing \subseteq AllSales /\ r.sale \in AllSales
    BY TerminalsAssumption DEF TypeOK, SaleIds, AllSales, TerminalsAssumption, Request
  <2>3. standing' = Standing(r)
    BY <1>2 DEF Execute
  <2>4. CASE r.kind = "void"
    BY <2>1, <2>2, <2>3, <2>4 DEF Standing, VoidStands
  <2>5. CASE r.kind # "void" /\ ~Awaited(r)
    BY <2>1, <2>2, <2>3, <2>5 DEF Standing, VoidStands
  <2>6. CASE r.kind # "void" /\ Awaited(r)
    <3>1. r.t \in Terminals /\ r.kind \in {"checkout", "void", "log"}
      BY DEF TypeOK, Request
    <3>2. /\ cur[r.t] \in 1..Len(box[r.t]) /\ box[r.t][cur[r.t]].st = "processing"
          /\ box[r.t][cur[r.t]].kind = r.kind /\ box[r.t][cur[r.t]].sale = r.sale
          /\ box[r.t][cur[r.t]] \in Package
      BY <2>6, <3>1, PackageOf DEF Awaited, AwaitedIsProcessing
    <3>3. r.kind = "checkout"
      BY <2>6, <3>2 DEF Package
    <3>4. r.sale \notin standing
      BY <3>1, <3>2, <3>3 DEF VoidsFollow, Delivered
    <3>5. standing' = standing
      BY <2>3, <2>6 DEF Standing
    <3> QED
      BY <2>1, <2>2, <3>4, <3>5 DEF VoidStands
  <2> QED
    BY <2>4, <2>5, <2>6
<1>3. ASSUME NEW t \in Terminals,
             CheckoutSale(t) \/ \E s \in SaleIds : VoidSale(t, s)
      PROVE  UNCHANGED <<db, standing>>
  BY <1>3 DEF CheckoutSale, VoidSale, caching, history
<1> QED
  BY <1>1, <1>2, <1>3, Steps, BystanderKeeps, OutboxingKeeps DEF history

-----------------------------------------------------------------------------
(* The copies of the stock row *)

\* What a terminal takes over is not too low when the snapshot is not.
LEMMA HydrateKept ==
  ASSUME TypeOK, StockKept, NEW t \in Terminals, NEW got,
         got["stock"] \in Nat, got["stock"] >= Opening - Len(sold), Hydrate(t, got)
  PROVE  \A u \in Terminals : /\ qty'[u] >= Opening - Len(sold)
                              /\ saved'[u].stock >= Opening - Len(sold)
<1>1. Len(sold) \in Nat /\ Opening \in Nat
  BY TerminalsAssumption DEF TypeOK, TerminalsAssumption
<1> DEFINE n == Lower(t, got)
<1>2. n >= Opening - Len(sold)
  BY <1>1 DEF TypeOK, StockKept, Lower, Least, None
<1>3. /\ qty' = [qty EXCEPT ![t] = n]
      /\ saved' = [saved EXCEPT ![t] = [sales |-> Merged(t, got), stock |-> n]]
  BY DEF Hydrate, Takes
<1> HIDE DEF n
<1> QED
  BY <1>2, <1>3 DEF TypeOK, StockKept

\* The parts of StockKept, for a bound.
KeptHere(least) ==
  \A t \in Terminals : /\ qty[t] >= least
                       /\ entry[t] # None => entry[t] >= least
                       /\ click[t] # None => click[t] >= least
                       /\ saved[t].stock >= least
KeptInBoxes(least) ==
  \A t \in Terminals : \A i \in 1..Len(box[t]) :
    box[t][i].kind = "checkout" => box[t][i].qty >= least
KeptOnWire(least) == \A r \in wire : r.kind = "checkout" => r.qty >= least
KeptByServer(least) ==
  /\ db["stock"] >= least
  /\ Clean => cache["stock"] >= least
  /\ \A r \in Readers :
       "stock" \in DOMAIN reads[r].got => reads[r].got["stock"] >= least
Bound == Opening - Len(sold)

LEMMA KeptParts ==
  StockKept <=> KeptHere(Bound) /\ KeptInBoxes(Bound) /\ KeptOnWire(Bound) /\ KeptByServer(Bound)
BY DEF StockKept, KeptHere, KeptInBoxes, KeptOnWire, KeptByServer, Bound

\* The boxes keep to a bound when what is put does, and when packages are restated.
LEMMA BoxesKeep ==
  ASSUME TypeOK, NEW b \in Int, KeptInBoxes(b),
         \/ Restated
         \/ \E t, p : Puts(t, p) /\ (p.kind = "checkout" => p.qty >= b)
  PROVE  KeptInBoxes(b)'
<1>1. CASE Restated
  BY <1>1 DEF KeptInBoxes, Restated, SameOrder
<1>3. ASSUME NEW t, NEW p, Puts(t, p), p.kind = "checkout" => p.qty >= b
      PROVE  KeptInBoxes(b)'
  <2>1. /\ \A u \in Terminals \ {t} : box'[u] = box[u]
        /\ Len(box[t]) \in Nat
        /\ Len(box'[t]) = Len(box[t]) + 1
        /\ \A i \in 1..Len(box[t]) : box'[t][i] = box[t][i]
        /\ box'[t][Len(box[t]) + 1] = p
    BY <1>3, BoxAppend DEF Puts
  <2>2. \A i \in 1..Len(box'[t]) : i \in 1..Len(box[t]) \/ i = Len(box[t]) + 1
    BY <2>1
  <2> QED
    BY <1>3, <2>1, <2>2 DEF KeptInBoxes
<1> QED
  BY <1>1, <1>3

\* Every copy keeps to a lower bound too.
LEMMA KeptLower ==
  ASSUME TypeOK, NEW a \in Int, NEW b \in Int, b <= a,
         KeptHere(a), KeptInBoxes(a), KeptOnWire(a), KeptByServer(a)
  PROVE  KeptHere(b) /\ KeptInBoxes(b) /\ KeptOnWire(b) /\ KeptByServer(b)
<1>1. KeptHere(b)
  BY DEF TypeOK, KeptHere, None
<1>2. KeptInBoxes(b)
  <2>1. ASSUME NEW u \in Terminals, NEW i \in 1..Len(box[u]) PROVE box[u][i].qty \in Nat
    BY PackageOf DEF Package
  <2> QED
    BY <2>1 DEF KeptInBoxes
<1>3. KeptOnWire(b)
  BY DEF TypeOK, Request, KeptOnWire
<1>4. KeptByServer(b)
  <2>1. db["stock"] \in Nat
    BY TerminalsAssumption DEF TypeOK, IsSnapshot, TerminalsAssumption
  <2>2. Clean => cache["stock"] \in Nat
    BY TerminalsAssumption DEF TypeOK, IsSnapshot, TerminalsAssumption
  <2>3. \A r \in Readers : "stock" \in DOMAIN reads[r].got => reads[r].got["stock"] \in Nat
    BY DEF TypeOK, IsSnapshot
  <2> QED
    BY <2>1, <2>2, <2>3 DEF KeptByServer
<1> QED
  BY <1>1, <1>2, <1>3, <1>4

\* The bound is a number, and falls by one with a sale.
LEMMA BoundIsNumber ==
  ASSUME TypeOK
  PROVE  /\ Bound \in Int
         /\ UNCHANGED sold => Bound' = Bound
         /\ \A t \in Terminals : CheckoutSale(t) => Bound' = Bound - 1
<1>0. Len(sold) \in Nat
  BY DEF TypeOK
<1>1. Len(sold) \in Nat /\ Opening \in Nat
  BY <1>0, TerminalsAssumption DEF TerminalsAssumption
<1>2. UNCHANGED sold => Bound' = Bound
  BY DEF Bound
<1>3. ASSUME NEW t \in Terminals, CheckoutSale(t) PROVE Bound' = Bound - 1
  <2>1. Len(sold') = Len(sold) + 1
    BY <1>3, OneMoreSale DEF CheckoutSale, TypeOK
  <2> QED
    BY <1>1, <2>1 DEF Bound
<1> QED
  BY <1>1, <1>2, <1>3 DEF Bound

LEMMA CheckoutKept ==
  ASSUME TypeOK, StockKept, NEW t \in Terminals, CheckoutSale(t)
  PROVE  StockKept'
<1>1. PICK a \in Int : a = Bound
  BY BoundIsNumber
<1>2. PICK b \in Int : b = a - 1
  OBVIOUS
<1>3. Bound' = b
  BY <1>1, <1>2, BoundIsNumber
<1>4. KeptHere(a) /\ KeptInBoxes(a) /\ KeptOnWire(a) /\ KeptByServer(a)
  BY <1>1, KeptParts
<1>5. KeptHere(b) /\ KeptInBoxes(b) /\ KeptOnWire(b) /\ KeptByServer(b)
  BY <1>2, <1>4, KeptLower
<1>6. click[t] \in Nat /\ qty[t] \in Nat /\ click[t] >= a /\ qty[t] >= a
  BY <1>4 DEF CheckoutSale, TypeOK, KeptHere
<1>7. Floor(click[t] - 1) >= b /\ Floor(qty[t] - 1) >= b
  BY <1>2, <1>6 DEF Floor
<1>8. KeptHere(b)'
  BY <1>5, <1>7 DEF TypeOK, CheckoutSale, KeptHere, None
<1>9. KeptInBoxes(b)'
  <2>1. Puts(t, CheckoutPackage(t)) /\ CheckoutPackage(t).qty >= b
    BY <1>7, CheckoutPuts DEF CheckoutPackage, New
  <2> QED
    BY <1>5, <2>1, BoxesKeep
<1>10. KeptOnWire(b)'
  <2>1. Log(t, Len(sold) + 1).kind = "log"
    BY DEF Log
  <2> QED
    BY <1>5, <2>1 DEF CheckoutSale, KeptOnWire
<1>11. KeptByServer(b)'
  BY <1>5 DEF CheckoutSale, caching, KeptByServer, Clean
<1>12. KeptHere(Bound)' /\ KeptInBoxes(Bound)' /\ KeptOnWire(Bound)' /\ KeptByServer(Bound)'
  BY <1>3, <1>8, <1>9, <1>10, <1>11 DEF KeptHere, KeptInBoxes, KeptOnWire, KeptByServer
<1> QED
  BY <1>12 DEF StockKept, KeptHere, KeptInBoxes, KeptOnWire, KeptByServer, Bound

\* A reader's next table, and the cache it fills, are as good as the tables.
LEMMA ReadKept ==
  ASSUME TypeOK, NEW b \in Int, KeptByServer(b), NEW r \in Readers,
         Poll(r) \/ Respond(r) \/ \E x \in Tables : Gather(r, x)
  PROVE  KeptByServer(b)'
<1>1. ASSUME Poll(r) PROVE KeptByServer(b)'
  <2>1. /\ \A q \in Readers \ {r} : reads'[q] = reads[q]
        /\ DOMAIN reads'[r].got = {}
    BY <1>1 DEF TypeOK, Poll, StartRead, Nothing
  <2> QED
    BY <1>1, <2>1 DEF KeptByServer, Poll, StartRead, Clean
<1>2. ASSUME NEW x \in Tables, Gather(r, x) PROVE KeptByServer(b)'
  <2>1. /\ \A q \in Readers \ {r} : reads'[q] = reads[q]
        /\ reads'[r].got = [y \in DOMAIN reads[r].got \cup {x} |->
                              IF y = x THEN db[x] ELSE reads[r].got[y]]
    BY <1>2 DEF TypeOK, Gather, ReadTable
  <2>2. "stock" \in DOMAIN reads'[r].got => reads'[r].got["stock"] >= b
    BY <2>1 DEF KeptByServer
  <2> QED
    BY <1>2, <2>1, <2>2 DEF KeptByServer, Gather, ReadTable, Clean
<1>3. ASSUME Respond(r) PROVE KeptByServer(b)'
  <2>1. /\ \A q \in Readers \ {r} : reads'[q] = reads[q]
        /\ DOMAIN reads'[r].got = {}
    BY <1>3 DEF TypeOK, Respond, FinishRead, NotReading, Nothing
  <2>2. cache'["stock"] >= b
    BY <1>3, TerminalsAssumption DEF KeptByServer, Respond, FinishRead, TerminalsAssumption
  <2> QED
    BY <1>3, <2>1, <2>2 DEF KeptByServer, Respond, FinishRead
<1> QED
  BY <1>1, <1>2, <1>3

\* A poll that ends takes over a snapshot that is not too low.
LEMMA PollKept ==
  ASSUME TypeOK, StockKept, NEW got, NEW t \in Terminals, Hydrate(t, got),
         \/ Clean /\ got = cache
         \/ \E r \in Readers : FinishRead(r) /\ got = reads[r].got
  PROVE  \A u \in Terminals : /\ qty'[u] >= Bound
                              /\ saved'[u].stock >= Bound
                              /\ entry'[u] = entry[u]
                              /\ click'[u] = click[u]
<1>1. CASE Clean /\ got = cache
  <2>1. got["stock"] \in Nat /\ got["stock"] >= Bound
    BY <1>1, TerminalsAssumption DEF TypeOK, IsSnapshot, StockKept, Bound, TerminalsAssumption
  <2> QED
    BY <2>1, HydrateKept DEF Hydrate, Takes, Bound
<1>2. CASE \E r \in Readers : FinishRead(r) /\ got = reads[r].got
  <2>1. got["stock"] \in Nat /\ got["stock"] >= Bound
    BY <1>2, TerminalsAssumption
    DEF TypeOK, IsSnapshot, StockKept, Bound, FinishRead, TerminalsAssumption
  <2> QED
    BY <2>1, HydrateKept DEF Hydrate, Takes, Bound
<1> QED
  BY <1>1, <1>2

LEMMA BystanderKept ==
  ASSUME TypeOK, StockKept, Bystander
  PROVE  StockKept'
<1>1. PICK b \in Int : b = Bound
  BY BoundIsNumber
<1>2. Bound' = b /\ UNCHANGED <<db, box, wire>>
  BY <1>1, BystanderKeeps, BoundIsNumber DEF history
<1>3. KeptHere(b) /\ KeptInBoxes(b) /\ KeptOnWire(b) /\ KeptByServer(b)
  BY <1>1, KeptParts
<1>4. KeptInBoxes(b)' /\ KeptOnWire(b)'
  BY <1>2, <1>3 DEF KeptInBoxes, KeptOnWire
<1>5. KeptHere(b)' /\ KeptByServer(b)'
  <2>1. CASE UNCHANGED vars
    BY <1>3, <2>1 DEF KeptHere, KeptByServer, vars, client, caching, Clean
  <2>2. ASSUME NEW t \in Terminals, Click(t) \/ GiveUp(t) \/ Expire(t)
        PROVE  KeptHere(b)' /\ KeptByServer(b)'
    <3>1. KeptByServer(b)'
      BY <1>3, <2>2 DEF Click, GiveUp, Expire, caching, KeptByServer, Clean
    <3>2. KeptHere(b)'
      BY <1>3, <2>2 DEF Click, GiveUp, Expire, KeptHere, TypeOK
    <3> QED
      BY <3>1, <3>2
  <2>3. ASSUME NEW t \in Terminals, PollCached(t)
        PROVE  KeptHere(b)' /\ KeptByServer(b)'
    <3>1. KeptByServer(b)'
      BY <1>3, <2>3 DEF PollCached, caching, KeptByServer, Clean
    <3>2. Hydrate(t, cache) /\ Clean
      BY <2>3 DEF PollCached
    <3>3. KeptHere(b)'
      BY <1>1, <1>3, <3>2, PollKept DEF KeptHere
    <3> QED
      BY <3>1, <3>3
  <2>4. ASSUME NEW r \in Readers, Poll(r) \/ Respond(r) \/ \E x \in Tables : Gather(r, x)
        PROVE  KeptHere(b)' /\ KeptByServer(b)'
    <3>1. KeptByServer(b)'
      BY <1>3, <2>4, ReadKept
    <3>2. \/ UNCHANGED client
          \/ FinishRead(r) /\ \E t \in Terminals : Hydrate(t, reads[r].got)
      BY <2>4 DEF Poll, Respond, Gather
    <3>3. CASE UNCHANGED client
      BY <1>3, <3>1, <3>3 DEF KeptHere, client
    <3>4. CASE FinishRead(r) /\ \E t \in Terminals : Hydrate(t, reads[r].got)
      BY <1>1, <1>3, <3>1, <3>4, PollKept DEF KeptHere
    <3> QED
      BY <3>2, <3>3, <3>4
  <2> QED
    BY <2>1, <2>2, <2>3, <2>4 DEF Bystander
<1> QED
  BY <1>2, <1>4, <1>5
  DEF StockKept, KeptHere, KeptInBoxes, KeptOnWire, KeptByServer, Bound

LEMMA StockKeptStep ==
  TypeOK /\ AwaitedIsProcessing /\ StockKept /\ [Next]_vars => StockKept'
<1> SUFFICES ASSUME TypeOK, AwaitedIsProcessing, StockKept, [Next]_vars PROVE StockKept'
  OBVIOUS
<1>1. CASE Bystander
  BY <1>1, BystanderKept
<1>2. ASSUME NEW t \in Terminals, CheckoutSale(t)
      PROVE  StockKept'
  BY <1>2, CheckoutKept
<1>3. PICK b \in Int : b = Bound
  BY BoundIsNumber
<1>4. KeptHere(b) /\ KeptInBoxes(b) /\ KeptOnWire(b) /\ KeptByServer(b)
  BY <1>3, KeptParts
<1>5. ASSUME UNCHANGED sold,
             KeptHere(b)' /\ KeptInBoxes(b)' /\ KeptOnWire(b)' /\ KeptByServer(b)'
      PROVE  StockKept'
  <2>1. Bound' = b
    BY <1>3, <1>5, BoundIsNumber
  <2> QED
    BY <1>5, <2>1 DEF StockKept, KeptHere, KeptInBoxes, KeptOnWire, KeptByServer, Bound
<1>6. ASSUME NEW t \in Terminals, NEW s \in SaleIds, VoidSale(t, s)
      PROVE  StockKept'
  <2>1. KeptHere(b)'
    BY <1>4, <1>6 DEF VoidSale, KeptHere, TypeOK
  <2>2. KeptInBoxes(b)'
    <3>1. Puts(t, VoidPackage(s)) /\ VoidPackage(s).kind = "void"
      BY <1>6, VoidPuts DEF VoidPackage, New
    <3> QED
      BY <1>4, <3>1, BoxesKeep
  <2>3. UNCHANGED <<sold, wire, db, cache, reads>>
    BY <1>6 DEF VoidSale, caching
  <2>4. KeptOnWire(b)' /\ KeptByServer(b)'
    BY <1>4, <2>3 DEF KeptOnWire, KeptByServer, Clean
  <2> QED
    BY <1>5, <2>1, <2>2, <2>3, <2>4
<1>7. CASE Outboxing
  <2>1. Restated /\ UNCHANGED <<db, saved, sold>>
    BY <1>7, OutboxingKeeps
  <2>2. KeptInBoxes(b)'
    BY <1>4, <2>1, BoxesKeep
  <2>3. KeptHere(b)'
    <3>1. ASSUME NEW t \in Terminals, Reload(t) PROVE KeptHere(b)'
      BY <1>4, <3>1 DEF Reload, KeptHere, TypeOK
    <3>2. CASE UNCHANGED <<qty, entry, click>>
      BY <1>4, <2>1, <3>2 DEF KeptHere
    <3> QED
      BY <1>7, <3>1, <3>2 DEF Outboxing, Send, Retry, Fail, Note, Refuse
  <2>4. KeptOnWire(b)'
    <3>1. ASSUME NEW t \in Terminals, NEW i \in DOMAIN box[t], Send(t, i)
          PROVE  KeptOnWire(b)'
      <4>1. Sent(t, i).kind = "checkout" => Sent(t, i).qty >= b
        BY <1>4, BoxDomain DEF KeptInBoxes, Sent
      <4>2. wire' = wire \cup {Sent(t, i)}
        BY <3>1, SentIsRequest
      <4> QED
        BY <1>4, <4>1, <4>2 DEF KeptOnWire
    <3>2. CASE wire' \subseteq wire
      BY <1>4, <3>2 DEF KeptOnWire
    <3> QED
      BY <1>7, <3>1, <3>2 DEF Outboxing, Retry, Fail, Reload, Note, Refuse
  <2>5. KeptByServer(b)'
    <3>1. ASSUME NEW r \in wire, Note(r) PROVE KeptByServer(b)'
      <4>1. UNCHANGED db /\ cache' = Nothing
        BY <3>1 DEF Note, InvalidateDbCache
      <4>2. \A q \in Readers : reads'[q].got = reads[q].got
        BY <3>1 DEF Note, InvalidateDbCache, TypeOK
      <4> QED
        BY <1>4, <4>1, <4>2 DEF KeptByServer, Clean
    <3>2. CASE UNCHANGED caching
      BY <1>4, <3>2 DEF KeptByServer, caching, Clean
    <3> QED
      BY ZenonT(40), <1>7, <3>1, <3>2 DEF Outboxing, Send, Retry, Fail, Reload, Refuse
  <2> QED
    BY <1>5, <2>1, <2>2, <2>3, <2>4, <2>5
<1>8. ASSUME NEW r \in wire, Execute(r)
      PROVE  StockKept'
  <2>1. UNCHANGED <<sold, wire, cache, reads, box, qty, entry, click, saved>>
    BY <1>8 DEF Execute, Commit, client
  <2>2. db'["stock"] >= b
    BY <1>4, <1>8, TerminalsAssumption
    DEF Execute, Commit, Written, KeptByServer, KeptOnWire, TerminalsAssumption
  <2>3. KeptHere(b)' /\ KeptInBoxes(b)' /\ KeptOnWire(b)' /\ KeptByServer(b)'
    BY <1>4, <2>1, <2>2 DEF KeptHere, KeptInBoxes, KeptOnWire, KeptByServer, Clean
  <2> QED
    BY <1>5, <2>1, <2>3
<1> QED
  BY <1>1, <1>2, <1>6, <1>7, <1>8, Steps

LEMMA StockKeptIsEnough == StockKept => NoSaleCountedTwice
BY DEF StockKept, NoSaleCountedTwice

-----------------------------------------------------------------------------
(* A terminal's own sales *)

\* A response leaves the sales of waiting packages in the list.
LEMMA HydrateShows ==
  ASSUME TypeOK, NEW t \in Terminals, NEW got, Hydrate(t, got),
         NEW i \in 1..Len(box[t]), box[t][i].kind = "checkout",
         box[t][i].st \in {"pending", "again", "processing"}
  PROVE  mine'[t][box[t][i].sale] # "none"
<1>1. box[t][i] \in Package /\ DOMAIN box[t] = 1..Len(box[t])
  BY PackageOf, BoxDomain
<1>2. box[t][i].sale \in PendingSales(t) /\ box[t][i].sale \in AllSales
  BY <1>1 DEF PendingSales, SalesOf, Package
<1>3. mine'[t] = Merged(t, got)
  BY DEF Hydrate, Takes, TypeOK
<1> QED
  BY <1>2, <1>3 DEF Merged

\* When a reader ends, its response is all that may happen to a terminal.
LEMMA FinishResponds ==
  ASSUME TypeOK, [Next]_vars, NEW r \in Readers, FinishRead(r)
  PROVE  UNCHANGED client \/ \E u \in Terminals : Hydrate(u, reads[r].got)
<1>1. reads[r].on /\ ~reads'[r].on
  BY DEF TypeOK, FinishRead, NotReading
<1>2. reads' # reads
  BY <1>1
<1>3. ASSUME NEW t \in Terminals, TerminalStep(t)
      PROVE  FALSE
  BY <1>2, <1>3 DEF TerminalStep, Click, GiveUp, CheckoutSale, VoidSale, Expire, Send, Retry,
                    Fail, Reload, PollCached, caching
<1>4. ASSUME NEW q \in wire, Execute(q) \/ Refuse(q, "processing") \/ Refuse(q, "dead_letter")
      PROVE  FALSE
  BY <1>2, <1>4 DEF Execute, Commit, Refuse, caching
<1>5. ASSUME NEW q \in wire, Note(q)
      PROVE  FALSE
  BY <1>1, <1>5 DEF Note, InvalidateDbCache, TypeOK
<1>6. ASSUME NEW q \in Readers, NEW x \in Tables, Gather(q, x)
      PROVE  FALSE
  BY <1>1, <1>6 DEF Gather, ReadTable, TypeOK
<1>7. ASSUME NEW q \in Readers, Poll(q)
      PROVE  FALSE
  BY <1>1, <1>7 DEF Poll, StartRead, TypeOK
<1>8. ASSUME NEW q \in Readers, Respond(q)
      PROVE  q = r
  BY <1>1, <1>8 DEF Respond, FinishRead, TypeOK
<1>9. Respond(r)
  BY <1>2, <1>3, <1>4, <1>5, <1>6, <1>7, <1>8 DEF Next, ServerStep, vars, caching
<1> QED
  BY <1>9 DEF Respond

\* A terminal whose list or row changes when a poll is answered takes the answer.
LEMMA AnswerIsTaken ==
  ASSUME TypeOK, [Next]_vars, NEW t \in Terminals, Answered(t),
         <<mine[t], qty[t]>>' # <<mine[t], qty[t]>>
  PROVE  \/ PollCached(t)
         \/ \E r \in Readers : FinishRead(r) /\ Hydrate(t, reads[r].got)
<1>1. ~ UNCHANGED client
  BY DEF client
<1>2. ASSUME NEW r \in Readers, FinishRead(r)
      PROVE  Hydrate(t, reads[r].got)
  <2>1. PICK u \in Terminals : Hydrate(u, reads[r].got)
    BY <1>1, <1>2, FinishResponds
  <2>2. u = t
    BY <2>1 DEF Hydrate, Takes, TypeOK
  <2> QED
    BY <2>1, <2>2
<1> QED
  BY <1>2 DEF Answered

-----------------------------------------------------------------------------
(* The theorems *)

\* Everything that the invariants rest on holds in the initial states.
LEMMA InvInit == Init => IInv
<1> SUFFICES ASSUME Init PROVE IInv
  OBVIOUS
<1>1. TypeOK
  BY TypeInit
<1>2. CleanCacheIsFresh /\ ReadsAreFresh
  BY DEF Init, CacheInit, CleanCacheIsFresh, ReadsAreFresh, Clean, NotReading
<1>3. \A t \in Terminals : Len(box[t]) = 0
  BY DEF Init
<1>4. Len(sold) = 0 /\ Opening \in Nat
  BY TerminalsAssumption DEF Init, TerminalsAssumption
<1>5. StockKept
  <2>1. db["stock"] = Opening
    BY TerminalsAssumption DEF Init, TerminalsAssumption
  <2>2. ~Clean /\ \A r \in Readers : reads[r].got = <<>>
    BY DEF Init, CacheInit, Clean, NotReading, Nothing
  <2>3. wire = {} /\ \A t \in Terminals : /\ qty[t] = Opening /\ entry[t] = None
                                          /\ click[t] = None /\ saved[t].stock = Opening
    BY DEF Init
  <2> QED
    BY <1>3, <1>4, <2>1, <2>2, <2>3 DEF StockKept
<1>6. Ordered /\ PassedByIsAside
  BY <1>3 DEF Init, Ordered, PassedByIsAside
<1>7. AwaitedIsProcessing /\ VoidsFollow /\ VoidStands
  BY DEF Init, AwaitedIsProcessing, VoidsFollow, VoidStands
<1> QED
  BY <1>1, <1>2, <1>5, <1>6, <1>7 DEF IInv

\* And every step keeps it.
LEMMA InvStep == IInv /\ [Next]_vars => IInv'
BY TypeStep, FreshStep, StockKeptStep, OrderedStep, KeptStep, VoidsFollowStep, VoidStandsStep
DEF IInv

LEMMA Invariant == Spec => []IInv
BY InvInit, InvStep, PTL DEF Spec

\* Every variable has the values the code gives it.
THEOREM TypeCorrect == Spec => []TypeOK
<1>1. IInv => TypeOK
  BY DEF IInv
<1> QED
  BY <1>1, Invariant, PTL

\* readFullDatabase() queries the tables one by one between other handlers'
\* commits; what it leaves in the cache still agrees with all of them, outside
\* the two windows that CleanCacheIsFresh names.
THEOREM CacheIsFresh == Spec => []CleanCacheIsFresh
<1>1. IInv => CleanCacheIsFresh
  BY DEF IInv
<1> QED
  BY <1>1, Invariant, PTL

\* However often and however late the packages of a checkout are executed, no
\* copy of the stock row loses more than the sales took.
THEOREM NoSaleIsCountedTwice == Spec => []NoSaleCountedTwice
<1>1. IInv => NoSaleCountedTwice
  BY StockKeptIsEnough DEF IInv
<1> QED
  BY <1>1, Invariant, PTL

\* A void that the server has executed for the selling terminal, of a sale whose
\* checkout was never refused nor ran out of retries, is undone only by a request
\* that nobody waits for: failures, retries, reloads and passed-by packages of
\* other sales do not let the void overtake its checkout.
THEOREM VoidsStand == Spec => []VoidStands
<1>1. IInv => VoidStands
  BY DEF IInv
<1> QED
  BY <1>1, Invariant, PTL

\* Hydration keeps in the list the sales whose packages are pending or processing,
\* in whatever order answers, retries and reloads brought them there.
THEOREM OwnSalesStayVisible == Spec => OwnSaleStaysVisible
<1> DEFINE Keeps(t, i) ==
      /\ box[t][i].kind = "checkout"
      /\ box[t][i].st \in {"pending", "again", "processing"}
      /\ mine[t][box[t][i].sale] # "none"
      => mine'[t][box[t][i].sale] # "none" \/ ~Answered(t)
<1>1. ASSUME IInv, [Next]_vars, NEW t \in Terminals, NEW i \in DOMAIN box[t]
      PROVE  Keeps(t, i)
  <2> SUFFICES ASSUME box[t][i].kind = "checkout",
                      box[t][i].st \in {"pending", "again", "processing"},
                      mine[t][box[t][i].sale] # "none", Answered(t)
               PROVE  mine'[t][box[t][i].sale] # "none"
    OBVIOUS
  <2>1. TypeOK
    BY <1>1 DEF IInv
  <2>2. i \in 1..Len(box[t])
    BY <2>1, BoxDomain
  <2>3. CASE mine'[t] = mine[t]
    BY <2>3
  <2>4. CASE mine'[t] # mine[t]
    <3>1. PICK got : Hydrate(t, got)
      BY <1>1, <2>1, <2>4, AnswerIsTaken DEF PollCached
    <3> QED
      BY <2>1, <2>2, <3>1, HydrateShows
  <2> QED
    BY <2>3, <2>4
<1>2. IInv /\ [Next]_vars => [\A t \in Terminals : \A i \in DOMAIN box[t] : Keeps(t, i)]_vars
  BY <1>1
<1> QED
  BY <1>2, Invariant, PTL DEF Spec, OwnSaleStaysVisible

-----------------------------------------------------------------------------
(* The polls *)

\* A response that agrees with the server leaves the terminal up to date.
LEMMA HydrateCatchesUp ==
  ASSUME TypeOK, NEW t \in Terminals, NEW got, Hydrate(t, got),
         got["sales"] = db["sales"], got["stock"] = db["stock"]
  PROVE  /\ \A s \in AllSales : db["sales"][s] # "none" => mine'[t][s] = db["sales"][s]
         /\ qty'[t] <= db["stock"]
<1>1. mine'[t] = Merged(t, got) /\ qty'[t] = Lower(t, got)
  BY DEF Hydrate, Takes, TypeOK
<1>2. \A s \in AllSales : db["sales"][s] # "none" => mine'[t][s] = db["sales"][s]
  BY <1>1 DEF Merged
<1>3. /\ db["stock"] \in Nat
      /\ entry[t] # None => entry[t] \in Nat
  BY TerminalsAssumption DEF TypeOK, IsSnapshot, TerminalsAssumption
<1>4. qty'[t] <= db["stock"]
  BY <1>1, <1>3 DEF Lower, Least
<1> QED
  BY <1>2, <1>4

\* A poll answered after the last invalidation hands the terminal every sale and
\* every void the server has, and no more stock, in whatever order the reads, the
\* commits and the terminal's own sales came before it.
THEOREM PollsBringWhatTheServerHas == Spec => PollsCatchUp
<1> DEFINE UpToDate(t) ==
      /\ \A s \in AllSales : db["sales"][s] # "none" => mine'[t][s] = db["sales"][s]
      /\ qty'[t] <= db["stock"]
<1>1. ASSUME IInv, [Next]_vars, NEW t \in Terminals,
             <<mine[t], qty[t]>>' # <<mine[t], qty[t]>>,
             unnoted = {}, ~stale', Answered(t)
      PROVE  UpToDate(t)
  <2>1. TypeOK /\ CleanCacheIsFresh /\ ReadsAreFresh
    BY <1>1 DEF IInv
  <2>2. ASSUME PollCached(t)
        PROVE  UpToDate(t)
    <3>1. cache = db /\ Hydrate(t, cache)
      BY <1>1, <2>1, <2>2 DEF PollCached, CleanCacheIsFresh, caching
    <3> QED
      BY <2>1, <3>1, HydrateCatchesUp
  <2>3. ASSUME NEW r \in Readers, FinishRead(r), Hydrate(t, reads[r].got)
        PROVE  UpToDate(t)
    <3>1. /\ reads[r].on /\ ~reads[r].old
          /\ "sales" \in DOMAIN reads[r].got /\ "stock" \in DOMAIN reads[r].got
      BY <1>1, <2>3, TerminalsAssumption DEF FinishRead, TerminalsAssumption
    <3>2. reads[r].got["sales"] = db["sales"] /\ reads[r].got["stock"] = db["stock"]
      BY <1>1, <2>1, <3>1 DEF ReadsAreFresh
    <3> QED
      BY <2>1, <2>3, <3>2, HydrateCatchesUp
  <2> QED
    BY <1>1, <2>1, <2>2, <2>3, AnswerIsTaken
<1>2. IInv /\ [Next]_vars =>
        [\A t \in Terminals :
           /\ <<mine[t], qty[t]>>' # <<mine[t], qty[t]>>
           /\ unnoted = {} /\ ~stale'
           /\ Answered(t)
           => /\ \A s \in AllSales :
                   db["sales"][s] # "none" => mine'[t][s] = db["sales"][s]
              /\ qty'[t] <= db["stock"]]_vars
  BY <1>1
<1> QED
  BY <1>2, Invariant, PTL DEF Spec, PollsCatchUp

=============================================================================
