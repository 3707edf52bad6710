---------------------------- MODULE StoreProofs ----------------------------
(***************************************************************************)
(* Theorems about Store, for any set of branches, users and baskets, any   *)
(* sizes, opening stock and credit limit, and any number of sales, shifts, *)
(* checkouts at a time and documents.                                      *)
(***************************************************************************)
EXTENDS Store, Sums, SequenceTheorems

\* The part of TypeOK that is about the point of sale.
TillTypeOK ==
  /\ user \in Users
  /\ open \in BOOLEAN
  /\ where \in [Baskets -> Places]
  /\ flights \subseteq Flight
  /\ sales \in Seq(Sale)
  /\ shifts \in Seq(Shift)
  /\ owed \in Nat
  /\ settled \in Nat
  /\ slipped \subseteq Baskets
  /\ disturbed \subseteq Nat
  /\ strayed \in BOOLEAN

-----------------------------------------------------------------------------
(* Lemmas about the ledger, sales and reports *)

\* A posting keeps the ledger typed, and balanced where it is not marked off.
LEMMA PostWorks ==
  ASSUME LedgerTypeOK, NEW b \in Branches, NEW f \in Branches, NEW d \in Int,
         Post(b, f, d)
  PROVE  /\ stock' \in [Branches -> Nat]
         /\ moved' \in [Branches -> Int]
         /\ odd' \subseteq Branches
         /\ stock'[b] = Floor(stock[b] + d)
         /\ StockIsLedger => StockIsLedger'
<1>1. /\ stock \in [Branches -> Nat]
      /\ moved \in [Branches -> Int]
      /\ odd \subseteq Branches
  BY DEF LedgerTypeOK
<1>2. Floor(stock[b] + d) \in Nat
  BY <1>1 DEF Floor
<1>3. /\ stock' = [stock EXCEPT ![b] = Floor(stock[b] + d)]
      /\ moved' = [moved EXCEPT ![f] = moved[f] + d]
      /\ odd \subseteq odd'
      /\ stock[b] + d < 0 => b \in odd'
      /\ b # f => b \in odd' /\ f \in odd'
      /\ odd' \subseteq Branches
  BY <1>1 DEF Post
<1>4. stock' \in [Branches -> Nat] /\ moved' \in [Branches -> Int]
  BY <1>1, <1>2, <1>3
<1>5. ASSUME StockIsLedger, NEW c \in Branches \ odd'
      PROVE  stock'[c] = Opening[c] + moved'[c]
  <2>1. stock[c] = Opening[c] + moved[c] /\ Opening[c] \in Nat
    BY <1>3, <1>5, OpeningAssumption DEF StockIsLedger, OpeningAssumption
  <2>2. CASE c = b
    <3>1. f = c /\ stock[c] + d >= 0
      BY <1>1, <1>3, <2>2
    <3>2. stock'[c] = stock[c] + d /\ moved'[c] = moved[c] + d
      BY <1>1, <1>3, <2>2, <3>1 DEF Floor
    <3> QED
      BY <1>1, <2>1, <3>2
  <2>3. CASE c # b
    <3>1. c # f
      BY <1>3, <2>3
    <3> QED
      BY <1>1, <1>3, <2>1, <2>3, <3>1
  <2> QED
    BY <2>2, <2>3
<1> QED
  BY <1>1, <1>2, <1>3, <1>4, <1>5 DEF StockIsLedger

\* What stays of the ledger stays typed and balanced.
LEMMA LedgerStays ==
  ASSUME UNCHANGED ledger
  PROVE  (LedgerTypeOK => LedgerTypeOK') /\ (StockIsLedger => StockIsLedger')
BY DEF ledger, LedgerTypeOK, StockIsLedger

\* The list of sales holds sales.
LEMMA SaleAt ==
  ASSUME TillTypeOK
  PROVE  /\ Len(sales) \in Nat
         /\ \A i \in SaleIds : sales[i] \in Sale
<1>1. sales \in Seq(Sale)
  BY DEF TillTypeOK
<1> QED
  BY <1>1, LenProperties, ElementOfSeq DEF SaleIds

\* The list of shifts holds shifts.
LEMMA ShiftAt ==
  ASSUME TillTypeOK
  PROVE  /\ Len(shifts) \in Nat
         /\ \A s \in ShiftIds : shifts[s] \in Shift
<1>1. shifts \in Seq(Shift)
  BY DEF TillTypeOK
<1> QED
  BY <1>1, LenProperties, ElementOfSeq DEF ShiftIds

\* A report names finitely many sales.
LEMMA ReportIsFinite ==
  ASSUME TillTypeOK, NEW s
  PROVE  IsFiniteSet(Report(s)) /\ Cardinality(Report(s)) \in Nat
<1>1. Report(s) \subseteq 1..Len(sales)
  BY DEF Report, SaleIds
<1>2. IsFiniteSet(1..Len(sales))
  BY SaleAt, FS_Interval
<1> QED
  BY <1>1, <1>2, FS_Subset, FS_CardinalityType

\* A sale is changed in place.
LEMMA SaleChanged ==
  ASSUME TillTypeOK, NEW i \in SaleIds, NEW r \in Sale, sales' = [sales EXCEPT ![i] = r]
  PROVE  /\ sales' \in Seq(Sale)
         /\ Len(sales') = Len(sales)
         /\ SaleIds' = SaleIds
         /\ sales'[i] = r
         /\ \A j \in SaleIds : j # i => sales'[j] = sales[j]
<1>1. sales \in Seq(Sale) /\ i \in 1..Len(sales)
  BY DEF TillTypeOK, SaleIds
<1> QED
  BY <1>1, ExceptSeq DEF SaleIds

\* A sale is added at the end.
LEMMA SaleAdded ==
  ASSUME TillTypeOK, NEW r \in Sale, sales' = Append(sales, r)
  PROVE  /\ sales' \in Seq(Sale)
         /\ Len(sales') = Len(sales) + 1
         /\ SaleIds' = SaleIds \cup {Len(sales) + 1}
         /\ Len(sales) + 1 \notin SaleIds
         /\ sales'[Len(sales) + 1] = r
         /\ \A j \in SaleIds : sales'[j] = sales[j]
<1>1. sales \in Seq(Sale) /\ Len(sales) \in Nat
  BY SaleAt DEF TillTypeOK
<1>2. /\ sales' \in Seq(Sale)
      /\ Len(sales') = Len(sales) + 1
      /\ sales'[Len(sales) + 1] = r
      /\ \A j \in 1..Len(sales) : sales'[j] = sales[j]
  BY <1>1, AppendProperties
<1> QED
  BY <1>1, <1>2 DEF SaleIds

\* A shift is added at the end.
LEMMA ShiftAdded ==
  ASSUME TillTypeOK, NEW r \in Shift, shifts' = Append(shifts, r)
  PROVE  /\ shifts' \in Seq(Shift)
         /\ Len(shifts') = Len(shifts) + 1
         /\ ShiftIds' = ShiftIds \cup {Len(shifts) + 1}
         /\ Len(shifts) + 1 \notin ShiftIds
         /\ shifts'[Len(shifts) + 1] = r
         /\ \A j \in ShiftIds : shifts'[j] = shifts[j]
<1>1. shifts \in Seq(Shift) /\ Len(shifts) \in Nat
  BY ShiftAt DEF TillTypeOK
<1>2. /\ shifts' \in Seq(Shift)
      /\ Len(shifts') = Len(shifts) + 1
      /\ shifts'[Len(shifts) + 1] = r
      /\ \A j \in 1..Len(shifts) : shifts'[j] = shifts[j]
  BY <1>1, AppendProperties
<1> QED
  BY <1>1, <1>2 DEF ShiftIds

\* All shifts are changed in place.
LEMMA ShiftsChanged ==
  ASSUME TillTypeOK, NEW g \in [ShiftIds -> Shift], shifts' = g
  PROVE  /\ shifts' \in Seq(Shift)
         /\ Len(shifts') = Len(shifts)
         /\ ShiftIds' = ShiftIds
         /\ \A s \in ShiftIds : shifts'[s] = g[s]
<1>1. Len(shifts) \in Nat
  BY ShiftAt
<1>2. g \in Seq(Shift)
  BY <1>1, SeqDef DEF ShiftIds
<1>3. Len(g) \in Nat /\ DOMAIN g = 1..Len(g) /\ DOMAIN g = 1..Len(shifts)
  BY <1>2, LenProperties DEF ShiftIds
<1>4. Len(g) = Len(shifts)
  BY <1>1, <1>3
<1> QED
  BY <1>2, <1>4 DEF ShiftIds

-----------------------------------------------------------------------------
(* What the point of sale preserves *)

TillInv ==
  /\ TillTypeOK
  /\ ShiftsExist
  /\ OneAtTheTill
  /\ FlightHoldsItsBasket
  /\ SoldIsGone
  /\ SoldOnce
  /\ DrawerMatchesReport
  /\ CreditWithinLimit
  /\ CreditWasSeen

\* A step of the page that records nothing leaves the facts about sales alone.
LEMMA BooksStay ==
  ASSUME TillInv, UNCHANGED <<sales, shifts, owed, disturbed>>, strayed => strayed',
         slipped \subseteq slipped'
  PROVE  SoldOnce' /\ DrawerMatchesReport' /\ CreditWithinLimit'
<1>1. SoldOnce'
  BY DEF TillInv, SoldOnce, SaleIds
<1>2. DrawerMatchesReport'
  BY DEF TillInv, DrawerMatchesReport, Report, ShiftIds, SaleIds
<1>3. CreditWithinLimit'
  BY DEF TillInv, CreditWithinLimit
<1> QED
  BY <1>1, <1>2, <1>3

\* Checkouts that end or go on as orphans name shifts as before.
LEMMA ShiftsStay ==
  ASSUME TillInv, UNCHANGED <<sales, shifts>>, flights' \subseteq flights
  PROVE  ShiftsExist'
BY DEF TillInv, ShiftsExist, ShiftIds, SaleIds, ShiftsOf

\* Credit checkouts that are still under way saw at least what is owed now.
LEMMA CreditSeenStays ==
  ASSUME TillInv, UNCHANGED strayed, flights' \subseteq flights,
         owed' \in Nat, owed' <= owed
  PROVE  CreditWasSeen'
<1>1. TillTypeOK /\ CreditWasSeen
  BY DEF TillInv
<1>2. owed \in Nat /\ \A f \in flights : f.balance \in Nat
  BY <1>1 DEF TillTypeOK, Flight
<1> QED
  BY <1>1, <1>2 DEF CreditWasSeen

\* Filling the cart.
LEMMA FillStep ==
  ASSUME TillInv, NEW k \in Baskets, Fill(k)
  PROVE  TillInv'
<1>0. /\ TillTypeOK /\ OneAtTheTill /\ FlightHoldsItsBasket /\ SoldIsGone
      /\ where[k] = "new" /\ where' = [where EXCEPT ![k] = "cart"]
      /\ UNCHANGED <<user, open, flights, sales, shifts, owed, settled, slipped,
                     disturbed, strayed>>
  BY DEF TillInv, Fill
<1>1. TillTypeOK'
  BY <1>0 DEF TillTypeOK, Places
<1>2. ShiftsExist' /\ SoldOnce' /\ DrawerMatchesReport' /\ CreditWithinLimit'
      /\ CreditWasSeen'
  BY <1>0, BooksStay, ShiftsStay, CreditSeenStays DEF TillTypeOK
<1>3. OneAtTheTill'
  BY <1>0 DEF OneAtTheTill
<1>4. FlightHoldsItsBasket'
  BY <1>0 DEF FlightHoldsItsBasket, TillTypeOK, Flight
<1>5. SoldIsGone'
  BY <1>0 DEF SoldIsGone, InFlight, SaleIds, TillTypeOK
<1> QED
  BY <1>1, <1>2, <1>3, <1>4, <1>5 DEF TillInv

\* Parking the basket: it slips if it is being paid.
LEMMA HoldStep ==
  ASSUME TillInv, NEW k \in Baskets, Hold(k)
  PROVE  TillInv'
<1>0. /\ TillTypeOK /\ OneAtTheTill /\ FlightHoldsItsBasket /\ SoldIsGone
      /\ where[k] = "cart" /\ where' = [where EXCEPT ![k] = Till[user]]
      /\ UNCHANGED <<user, open, flights, sales, shifts, owed, settled, disturbed, strayed>>
      /\ slipped' = slipped \cup {j \in {k} : InFlight(j)}
  BY DEF TillInv, Hold, InCart, Slip
<1>1. TillTypeOK'
  BY <1>0, RegisterAssumption DEF TillTypeOK, Places, RegisterAssumption
<1>2. ShiftsExist' /\ SoldOnce' /\ DrawerMatchesReport' /\ CreditWithinLimit'
      /\ CreditWasSeen'
  BY <1>0, BooksStay, ShiftsStay, CreditSeenStays DEF TillTypeOK
<1>3. OneAtTheTill'
  BY <1>0 DEF OneAtTheTill
<1>4. FlightHoldsItsBasket'
  BY <1>0 DEF FlightHoldsItsBasket, TillTypeOK, Flight, InFlight
<1>5. SoldIsGone'
  BY <1>0 DEF SoldIsGone, InFlight, SaleIds, TillTypeOK
<1> QED
  BY <1>1, <1>2, <1>3, <1>4, <1>5 DEF TillInv

\* Resuming a basket: what was in the cart is parked, and slips if it is being paid.
LEMMA ResumeStep ==
  ASSUME TillInv, NEW k \in Baskets, Resume(k)
  PROVE  TillInv'
<1>0. /\ TillTypeOK /\ OneAtTheTill /\ FlightHoldsItsBasket /\ SoldIsGone
      /\ where[k] = Till[user]
      /\ where' = [j \in Baskets |-> IF j = k THEN "cart"
                                     ELSE IF where[j] = "cart" THEN Till[user] ELSE where[j]]
      /\ UNCHANGED <<user, open, flights, sales, shifts, owed, settled, disturbed, strayed>>
      /\ slipped' = slipped \cup {j \in {i \in Baskets : where[i] = "cart"} : InFlight(j)}
  BY DEF TillInv, Resume, InCart, Slip
<1>a. Till[user] \in Branches /\ Till[user] \notin {"new", "cart", "gone"}
  BY <1>0, RegisterAssumption DEF TillTypeOK, RegisterAssumption
<1>1. TillTypeOK'
  BY <1>0, <1>a DEF TillTypeOK, Places
<1>2. ShiftsExist' /\ SoldOnce' /\ DrawerMatchesReport' /\ CreditWithinLimit'
      /\ CreditWasSeen'
  BY <1>0, BooksStay, ShiftsStay, CreditSeenStays DEF TillTypeOK
<1>3. OneAtTheTill'
  BY <1>0 DEF OneAtTheTill
<1>4. FlightHoldsItsBasket'
  <2> SUFFICES ASSUME NEW f \in flights, f.basket \notin slipped'
               PROVE  /\ where'[f.basket] \in {"cart", "gone"}
                      /\ f.orphan => where'[f.basket] = "gone"
                      /\ \A g \in flights : g.basket = f.basket => g = f
    BY <1>0 DEF FlightHoldsItsBasket
  <2>1. /\ f.basket \in Baskets
        /\ where[f.basket] \in {"cart", "gone"}
        /\ f.orphan => where[f.basket] = "gone"
        /\ \A g \in flights : g.basket = f.basket => g = f
    BY <1>0 DEF FlightHoldsItsBasket, TillTypeOK, Flight
  <2>2. where[f.basket] # "cart"
    BY <1>0, <2>1 DEF InFlight
  <2> QED
    BY <1>0, <1>a, <2>1, <2>2
<1>5. SoldIsGone'
  <2> SUFFICES ASSUME NEW i \in SaleIds, sales[i].basket \notin slipped'
               PROVE  where'[sales[i].basket] = "gone" /\ ~InFlight(sales[i].basket)'
    BY <1>0 DEF SoldIsGone, SaleIds
  <2>1. where[sales[i].basket] = "gone" /\ ~InFlight(sales[i].basket)
    BY <1>0 DEF SoldIsGone
  <2>2. sales[i].basket \in Baskets
    BY <1>0, SaleAt DEF Sale
  <2> QED
    BY <1>0, <1>a, <2>1, <2>2 DEF InFlight
<1> QED
  BY <1>1, <1>2, <1>3, <1>4, <1>5 DEF TillInv

\* Cancelling the sale.
LEMMA CancelStep ==
  ASSUME TillInv, NEW k \in Baskets, Cancel(k)
  PROVE  TillInv'
<1>0. /\ TillTypeOK /\ OneAtTheTill /\ FlightHoldsItsBasket /\ SoldIsGone
      /\ where[k] = "cart" /\ where' = [where EXCEPT ![k] = "gone"]
      /\ UNCHANGED <<user, open, flights, sales, shifts, owed, settled, slipped,
                     disturbed, strayed>>
  BY DEF TillInv, Cancel, InCart
<1>1. TillTypeOK'
  BY <1>0 DEF TillTypeOK, Places
<1>2. ShiftsExist' /\ SoldOnce' /\ DrawerMatchesReport' /\ CreditWithinLimit'
      /\ CreditWasSeen'
  BY <1>0, BooksStay, ShiftsStay, CreditSeenStays DEF TillTypeOK
<1>3. OneAtTheTill'
  BY <1>0 DEF OneAtTheTill
<1>4. FlightHoldsItsBasket'
  BY <1>0 DEF FlightHoldsItsBasket, TillTypeOK, Flight
<1>5. SoldIsGone'
  BY <1>0, SaleAt DEF SoldIsGone, InFlight, SaleIds, TillTypeOK, Sale
<1> QED
  BY <1>1, <1>2, <1>3, <1>4, <1>5 DEF TillInv

\* Leaving the page: its checkout goes on as an orphan.
LEMMA LeaveStep ==
  ASSUME TillInv, Leave
  PROVE  TillInv'
<1>0. /\ TillTypeOK /\ ShiftsExist /\ OneAtTheTill /\ FlightHoldsItsBasket /\ SoldIsGone
      /\ flights' = {[f EXCEPT !.orphan = TRUE] : f \in flights}
      /\ UNCHANGED <<user, where, sales, shifts, owed, settled, disturbed>>
      /\ strayed' = (strayed \/ \E f \in flights : OnCredit[f.basket])
      /\ open' = FALSE
      /\ slipped' = slipped \cup {j \in {i \in Baskets : where[i] = "cart"} : InFlight(j)}
  BY DEF TillInv, Leave, InCart, Slip
<1>a. \A f \in flights' :
        /\ f \in Flight
        /\ f.orphan = TRUE
        /\ \E g \in flights : /\ f = [g EXCEPT !.orphan = TRUE]
                              /\ f.basket = g.basket
                              /\ f.shift = g.shift
                              /\ f.user = g.user
  BY <1>0 DEF TillTypeOK, Flight
<1>b. \A j : InFlight(j)' => InFlight(j)
  BY <1>a DEF InFlight
<1>1. TillTypeOK'
  BY <1>0, <1>a DEF TillTypeOK
<1>2. SoldOnce' /\ DrawerMatchesReport' /\ CreditWithinLimit'
  BY <1>0, BooksStay
<1>3. ShiftsExist'
  BY <1>0, <1>a DEF ShiftsExist, ShiftIds, SaleIds, ShiftsOf
<1>4. OneAtTheTill'
  BY <1>a DEF OneAtTheTill
<1>5. FlightHoldsItsBasket'
  <2> SUFFICES ASSUME NEW f \in flights', f.basket \notin slipped'
               PROVE  /\ where[f.basket] = "gone"
                      /\ \A h \in flights' : h.basket = f.basket => h = f
    BY <1>0 DEF FlightHoldsItsBasket
  <2>1. PICK g \in flights : f = [g EXCEPT !.orphan = TRUE] /\ f.basket = g.basket
    BY <1>a
  <2>2. /\ g.basket \in Baskets
        /\ where[g.basket] \in {"cart", "gone"}
        /\ \A h \in flights : h.basket = g.basket => h = g
    BY <1>0, <2>1 DEF FlightHoldsItsBasket, TillTypeOK, Flight
  <2>3. where[g.basket] # "cart"
    BY <1>0, <2>1, <2>2 DEF InFlight
  <2>4. ASSUME NEW h \in flights', h.basket = f.basket
        PROVE  h = f
    BY <1>a, <2>1, <2>2, <2>4
  <2> QED
    BY <2>1, <2>2, <2>3, <2>4
<1>6. SoldIsGone'
  BY <1>0, <1>b DEF SoldIsGone, SaleIds
<1>7. CreditWasSeen'
  BY <1>0, <1>a DEF CreditWasSeen
<1> QED
  BY <1>1, <1>2, <1>3, <1>4, <1>5, <1>6, <1>7 DEF TillInv

\* Opening the page again, or another user signing in.
LEMMA DoorStep ==
  ASSUME TillInv, Return \/ \E u \in Users : SignIn(u)
  PROVE  TillInv'
<1>0. /\ TillTypeOK /\ OneAtTheTill /\ FlightHoldsItsBasket /\ SoldIsGone
      /\ UNCHANGED <<where, flights, sales, shifts, owed, settled, slipped,
                     disturbed, strayed>>
      /\ open' \in BOOLEAN /\ user' \in Users
  BY DEF TillInv, Return, SignIn, TillTypeOK
<1>1. TillTypeOK'
  BY <1>0 DEF TillTypeOK
<1>2. ShiftsExist' /\ SoldOnce' /\ DrawerMatchesReport' /\ CreditWithinLimit'
      /\ CreditWasSeen'
  BY <1>0, BooksStay, ShiftsStay, CreditSeenStays DEF TillTypeOK
<1>3. OneAtTheTill' /\ FlightHoldsItsBasket'
  BY <1>0 DEF OneAtTheTill, FlightHoldsItsBasket
<1>4. SoldIsGone'
  BY <1>0 DEF SoldIsGone, InFlight, SaleIds
<1> QED
  BY <1>1, <1>2, <1>3, <1>4 DEF TillInv

\* The click: the page pays the basket in its cart, and no other checkout of its own.
LEMMA BeginCheckoutStep ==
  ASSUME TillInv, LedgerTypeOK, NEW k \in Baskets, BeginCheckout(k)
  PROVE  TillInv'
<1>0. /\ TillTypeOK /\ ShiftsExist /\ OneAtTheTill /\ FlightHoldsItsBasket /\ SoldIsGone
      /\ where[k] = "cart"
      /\ \A g \in flights : g.orphan
      /\ UNCHANGED <<user, open, where, sales, shifts, owed, settled, slipped,
                     disturbed, strayed>>
  BY DEF TillInv, BeginCheckout, InCart, IsCheckingOut
<1>1. PICK n \in 1..MaxFlights, s \in OwnShifts(user) : flights' = flights \cup {Click(n, k, s)}
  BY DEF BeginCheckout
<1> DEFINE f == Click(n, k, s)
<1>2. s \in ShiftIds /\ shifts[s].cashier = user /\ s \in Nat
  BY <1>0, ShiftAt DEF OwnShifts, ShiftIds
<1>3. stock[Till[user]] \in Nat
  BY <1>0, RegisterAssumption DEF LedgerTypeOK, RegisterAssumption, TillTypeOK
<1>4. /\ f \in Flight /\ f.basket = k /\ f.shift = s /\ f.user = user /\ ~f.orphan
      /\ f.balance = owed
  BY <1>0, <1>2, <1>3, SaleAt DEF Click, Flight, TillTypeOK
<1> HIDE DEF f
<1>5. TillTypeOK'
  BY <1>0, <1>1, <1>4 DEF TillTypeOK, f
<1>6. SoldOnce' /\ DrawerMatchesReport' /\ CreditWithinLimit'
  BY <1>0, BooksStay
<1>7. ShiftsExist'
  BY <1>0, <1>1, <1>2, <1>4 DEF ShiftsExist, ShiftIds, SaleIds, ShiftsOf, f
<1>8. OneAtTheTill'
  BY <1>0, <1>1 DEF OneAtTheTill, f
<1>9. \A g \in flights : g.basket = k => k \in slipped
  BY <1>0 DEF FlightHoldsItsBasket
<1>10. FlightHoldsItsBasket'
  <2>1. flights' = flights \cup {f}
    BY <1>1 DEF f
  <2> QED
    BY <1>0, <1>4, <1>9, <2>1 DEF FlightHoldsItsBasket
<1>11. SoldIsGone'
  <2>1. ASSUME NEW i \in SaleIds, sales[i].basket \notin slipped
        PROVE  where[sales[i].basket] = "gone" /\ ~InFlight(sales[i].basket)'
    <3>1. where[sales[i].basket] = "gone" /\ ~InFlight(sales[i].basket)
      BY <1>0, <2>1 DEF SoldIsGone
    <3>2. sales[i].basket # k
      BY <1>0, <3>1
    <3> QED
      BY <1>0, <1>1, <1>4, <3>1, <3>2 DEF InFlight, f
  <2> QED
    BY <1>0, <2>1 DEF SoldIsGone, SaleIds
<1>12. CreditWasSeen'
  <2>1. CreditWasSeen /\ owed \in Nat
    BY <1>0 DEF TillInv, TillTypeOK
  <2>2. flights' = flights \cup {f}
    BY <1>1 DEF f
  <2> QED
    BY <1>0, <1>4, <2>1, <2>2 DEF CreditWasSeen
<1> QED
  BY <1>5, <1>6, <1>7, <1>8, <1>10, <1>11, <1>12 DEF TillInv

\* What a page clears of its cart is gone, and nothing else moves.
LEMMA CartIsCleared ==
  ASSUME TillTypeOK, NEW f
  PROVE  /\ ClearedCart(f) \in [Baskets -> Places]
         /\ \A k \in Baskets :
              /\ ClearedCart(f)[k] = where[k] \/ (where[k] = "cart" /\ ClearedCart(f)[k] = "gone")
              /\ ~f.orphan /\ where[k] = "cart" => ClearedCart(f)[k] = "gone"
BY DEF ClearedCart, TillTypeOK, Places, InCart, ClearsCart

\* The baskets when a checkout ends, and its page perhaps clears its cart.
LEMMA EndedFlight ==
  ASSUME TillInv, NEW f \in flights, flights' = flights \ {f}, slipped' = slipped,
         where' = where \/ where' = ClearedCart(f)
  PROVE  /\ where' \in [Baskets -> Places]
         /\ flights' \subseteq Flight
         /\ OneAtTheTill'
         /\ FlightHoldsItsBasket'
         /\ \A i \in SaleIds : sales[i].basket \notin slipped =>
              where'[sales[i].basket] = "gone" /\ \A g \in flights' : g.basket # sales[i].basket
<1>0. TillTypeOK /\ OneAtTheTill /\ FlightHoldsItsBasket /\ SoldIsGone
  BY DEF TillInv
<1>1. /\ where' \in [Baskets -> Places]
      /\ \A k \in Baskets :
           where'[k] = where[k] \/ (where[k] = "cart" /\ where'[k] = "gone")
  BY <1>0, CartIsCleared DEF TillTypeOK
<1>2. \A g \in flights : g \in Flight /\ g.basket \in Baskets
  BY <1>0 DEF TillTypeOK, Flight
<1>3. OneAtTheTill'
  BY <1>0 DEF OneAtTheTill
<1>4. FlightHoldsItsBasket'
  BY <1>0, <1>1, <1>2 DEF FlightHoldsItsBasket
<1>5. ASSUME NEW i \in SaleIds, sales[i].basket \notin slipped
      PROVE  where'[sales[i].basket] = "gone" /\ \A g \in flights' : g.basket # sales[i].basket
  <2>1. where[sales[i].basket] = "gone" /\ ~InFlight(sales[i].basket)
    BY <1>0, <1>5 DEF SoldIsGone
  <2>2. sales[i].basket \in Baskets
    BY <1>0, SaleAt DEF Sale
  <2>3. where'[sales[i].basket] = "gone"
    BY <1>1, <2>1, <2>2
  <2>4. \A g \in flights' : g.basket # sales[i].basket
    BY <2>1 DEF InFlight
  <2> QED
    BY <2>3, <2>4
<1> QED
  BY <1>0, <1>1, <1>3, <1>4, <1>5 DEF TillTypeOK

\* A checkout that ends without a new sale.
LEMMA NoSaleStep ==
  ASSUME TillInv, NEW f \in flights, Abandon(f) \/ Duplicate(f)
  PROVE  TillInv'
<1>0. /\ TillTypeOK
      /\ flights' = flights \ {f}
      /\ where' = where \/ where' = ClearedCart(f)
      /\ UNCHANGED <<user, open, sales, shifts, owed, settled, slipped, disturbed, strayed>>
  BY DEF TillInv, Abandon, Duplicate
<1>1. /\ where' \in [Baskets -> Places]
      /\ flights' \subseteq Flight
      /\ OneAtTheTill'
      /\ FlightHoldsItsBasket'
      /\ \A i \in SaleIds : sales[i].basket \notin slipped =>
           where'[sales[i].basket] = "gone" /\ \A g \in flights' : g.basket # sales[i].basket
  BY <1>0, EndedFlight
<1>2. TillTypeOK'
  BY <1>0, <1>1 DEF TillTypeOK
<1>3. ShiftsExist' /\ SoldOnce' /\ DrawerMatchesReport' /\ CreditWithinLimit'
      /\ CreditWasSeen'
  BY <1>0, BooksStay, ShiftsStay, CreditSeenStays DEF TillTypeOK
<1>4. SoldIsGone'
  BY <1>0, <1>1 DEF SoldIsGone, SaleIds, InFlight
<1> QED
  BY <1>1, <1>2, <1>3, <1>4 DEF TillInv

\* A sale is recorded: its stock, its counter and its credit.
LEMMA RecordStep ==
  ASSUME TillInv, NEW f \in flights, Record(f)
  PROVE  TillInv'
<1> DEFINE r == SaleOf(f)
<1> DEFINE n == Len(sales) + 1
<1> DEFINE w == Windows(f)
<1>0. /\ TillTypeOK /\ ShiftsExist /\ SoldIsGone /\ SoldOnce /\ DrawerMatchesReport
      /\ CreditWithinLimit
      /\ sales' = Append(sales, r)
      /\ shifts' = [shifts EXCEPT ![f.shift].count = @ + 1]
      /\ disturbed' = disturbed \cup (w \ {f.shift})
                       \cup (IF shifts[f.shift].open THEN {} ELSE {f.shift})
      /\ owed' = BalanceAfter(f)
      /\ flights' = flights \ {f}
      /\ where' = ClearedCart(f)
      /\ UNCHANGED <<user, open, settled, slipped, strayed>>
      /\ CreditAllows(f) /\ CreditWasSeen /\ OneAtTheTill
  BY DEF TillInv, Record, CountSale
<1>1. /\ f \in Flight /\ f.basket \in Baskets /\ f.user \in Users /\ f.balance \in Nat
      /\ f.shift \in ShiftIds /\ Till[f.user] \in Branches
      /\ Size[f.basket] \in Nat /\ OnCredit[f.basket] \in BOOLEAN
  BY <1>0, RegisterAssumption DEF TillTypeOK, Flight, ShiftsExist, RegisterAssumption
<1>2. w \subseteq ShiftIds /\ w \subseteq Nat /\ ShiftIds \subseteq Nat
  BY DEF Windows, OwnShifts, ShiftIds
<1>3. /\ r \in Sale /\ r.basket = f.basket /\ r.shift = f.shift /\ r.during = w /\ r.live = TRUE
  BY <1>1, <1>2 DEF SaleOf, Sale
<1> HIDE DEF r, w
<1>4. /\ sales' \in Seq(Sale)
      /\ Len(sales) \in Nat
      /\ SaleIds' = SaleIds \cup {n}
      /\ n \notin SaleIds
      /\ sales'[n] = r
      /\ \A j \in SaleIds : sales'[j] = sales[j]
  BY <1>0, <1>3, SaleAdded, SaleAt
<1>5. shifts[f.shift] \in Shift
  BY <1>0, <1>1, ShiftAt
<1> DEFINE sh == [shifts[f.shift] EXCEPT !.count = @ + 1]
<1>6. /\ sh \in Shift /\ sh.count = shifts[f.shift].count + 1
      /\ sh.open = shifts[f.shift].open /\ sh.cashier = shifts[f.shift].cashier
  BY <1>5 DEF Shift
<1>7. shifts' = [shifts EXCEPT ![f.shift] = sh]
  BY <1>0
<1> HIDE DEF sh
<1>8. /\ shifts' \in Seq(Shift)
      /\ Len(shifts') = Len(shifts)
      /\ ShiftIds' = ShiftIds
      /\ \A s \in ShiftIds : shifts'[s] = IF s = f.shift THEN sh ELSE shifts[s]
  <2>1. shifts \in Seq(Shift) /\ f.shift \in 1..Len(shifts)
    BY <1>0, <1>1 DEF TillTypeOK, ShiftIds
  <2> QED
    BY <1>6, <1>7, <2>1, ExceptSeq DEF ShiftIds
<1>9. /\ where' \in [Baskets -> Places]
      /\ flights' \subseteq Flight
      /\ OneAtTheTill'
      /\ FlightHoldsItsBasket'
      /\ \A i \in SaleIds : sales[i].basket \notin slipped =>
           where'[sales[i].basket] = "gone" /\ \A g \in flights' : g.basket # sales[i].basket
  BY <1>0, EndedFlight
<1>10. TillTypeOK'
  <2>1. owed' \in Nat
    BY <1>0, <1>1 DEF BalanceAfter, TillTypeOK
  <2>2. strayed' \in BOOLEAN
    BY <1>0 DEF TillTypeOK
  <2>3. disturbed' \subseteq Nat
    BY <1>0, <1>1, <1>2 DEF TillTypeOK
  <2> QED
    BY <1>0, <1>4, <1>8, <1>9, <2>1, <2>2, <2>3 DEF TillTypeOK
<1>11. ShiftsExist'
  <2>1. \A g \in flights' : g.shift \in ShiftIds /\ shifts'[g.shift].cashier = g.user
    BY <1>0, <1>6, <1>8 DEF ShiftsExist
  <2>2. \A i \in SaleIds : {sales'[i].shift} \cup sales'[i].during \subseteq ShiftIds
    BY <1>0, <1>4 DEF ShiftsExist, ShiftsOf
  <2>3. {sales'[n].shift} \cup sales'[n].during \subseteq ShiftIds
    BY <1>1, <1>2, <1>3, <1>4
  <2> QED
    BY <1>4, <1>8, <2>1, <2>2, <2>3 DEF ShiftsExist, ShiftsOf
<1>12. f.basket \notin slipped =>
         /\ where'[f.basket] = "gone"
         /\ \A g \in flights' : g.basket # f.basket
         /\ \A i \in SaleIds : sales[i].basket # f.basket
  <2>1. SUFFICES ASSUME f.basket \notin slipped
                 PROVE  /\ where'[f.basket] = "gone"
                        /\ \A g \in flights' : g.basket # f.basket
                        /\ \A i \in SaleIds : sales[i].basket # f.basket
    OBVIOUS
  <2>2. /\ where[f.basket] \in {"cart", "gone"}
        /\ f.orphan => where[f.basket] = "gone"
        /\ \A g \in flights : g.basket = f.basket => g = f
    BY <2>1 DEF TillInv, FlightHoldsItsBasket
  <2>3. f.orphan \in BOOLEAN
    BY <1>1 DEF Flight
  <2>4. where'[f.basket] = "gone"
    BY <1>0, <1>1, <2>2, <2>3, CartIsCleared
  <2>5. \A i \in SaleIds : sales[i].basket # f.basket
    BY <1>0, <2>1 DEF SoldIsGone, InFlight
  <2> QED
    BY <1>0, <2>2, <2>4, <2>5
<1>13. SoldIsGone'
  <2>1. ASSUME NEW i \in SaleIds', sales'[i].basket \notin slipped
        PROVE  /\ where'[sales'[i].basket] = "gone"
               /\ \A g \in flights' : g.basket # sales'[i].basket
    BY <1>3, <1>4, <1>9, <1>12, <2>1
  <2>2. slipped' = slipped
    BY <1>0
  <2> QED
    BY <2>1, <2>2 DEF SoldIsGone, InFlight
<1>14. SoldOnce'
  <2>1. ASSUME NEW i \in SaleIds', NEW j \in SaleIds',
               sales'[i].basket = sales'[j].basket, sales'[i].basket \notin slipped
        PROVE  i = j
    <3>1. ASSUME NEW k \in SaleIds, NEW l \in SaleIds,
                 sales'[k].basket = sales'[l].basket, sales'[k].basket \notin slipped
          PROVE  k = l
      BY <1>0, <1>4, <3>1 DEF SoldOnce
    <3>2. ASSUME NEW k \in SaleIds, sales'[k].basket = f.basket, f.basket \notin slipped
          PROVE  FALSE
      BY <1>4, <1>12, <3>2
    <3> QED
      BY <1>3, <1>4, <2>1, <3>1, <3>2
  <2>2. slipped' = slipped
    BY <1>0
  <2> QED
    BY <2>1, <2>2 DEF SoldOnce
<1>15. DrawerMatchesReport'
  <2>1. \A s : Report(s)' = Report(s) \cup (IF s = f.shift \/ s \in w THEN {n} ELSE {})
    BY <1>3, <1>4 DEF Report
  <2>2. ASSUME NEW s \in ShiftIds \ disturbed'
        PROVE  /\ shifts'[s].count = Cardinality(Report(s)')
               /\ ~shifts'[s].open => shifts'[s].cashed = Cardinality(Report(s)')
    <3>1. /\ shifts[s].count = Cardinality(Report(s))
          /\ ~shifts[s].open => shifts[s].cashed = Cardinality(Report(s))
      BY <1>0, <2>2 DEF DrawerMatchesReport
    <3>2. CASE s = f.shift
      <4>1. shifts[s].open
        BY <1>0, <2>2, <3>2
      <4>2. Report(s)' = Report(s) \cup {n} /\ n \notin Report(s)
        BY <1>4, <2>1, <3>2 DEF Report
      <4>3. Cardinality(Report(s)') = Cardinality(Report(s)) + 1
        BY <1>0, <4>2, ReportIsFinite, FS_AddElement
      <4> QED
        BY <1>6, <1>8, <2>2, <3>1, <3>2, <4>1, <4>3
    <3>3. CASE s # f.shift
      <4>1. Report(s)' = Report(s)
        BY <1>0, <2>1, <2>2, <3>3
      <4> QED
        BY <1>8, <2>2, <3>1, <3>3, <4>1
    <3> QED
      BY <3>2, <3>3
  <2> QED
    BY <1>8, <2>2 DEF DrawerMatchesReport
<1>16. CreditWithinLimit' /\ CreditWasSeen'
  <2>0. /\ owed \in Nat /\ Limit \in Nat
        /\ \A g \in flights : g.balance \in Nat /\ g.orphan \in BOOLEAN
    BY <1>0, RegisterAssumption DEF TillTypeOK, Flight, RegisterAssumption
  <2>1. CASE strayed
    BY <1>0, <2>1 DEF CreditWithinLimit, CreditWasSeen
  <2>2. CASE ~strayed /\ ~OnCredit[f.basket]
    <3>1. owed' = owed
      BY <1>0, <2>2 DEF BalanceAfter
    <3> QED
      BY <1>0, <2>2, <3>1 DEF CreditWithinLimit, CreditWasSeen
  <2>3. CASE ~strayed /\ OnCredit[f.basket]
    <3>1. ~f.orphan /\ owed <= f.balance
      BY <1>0, <2>3 DEF CreditWasSeen
    <3>2. owed' = owed + Size[f.basket] /\ Size[f.basket] <= Limit - f.balance
      BY <1>0, <2>3 DEF BalanceAfter, CreditAllows
    <3>3. owed' <= Limit
      BY <1>1, <2>0, <3>1, <3>2
    <3>4. \A g \in flights' : ~OnCredit[g.basket]
      BY <1>0, <2>3, <3>1 DEF CreditWasSeen, OneAtTheTill
    <3> QED
      BY <3>3, <3>4 DEF CreditWithinLimit, CreditWasSeen
  <2> QED
    BY <2>1, <2>2, <2>3
<1> QED
  BY <1>9, <1>10, <1>11, <1>13, <1>14, <1>15, <1>16 DEF TillInv

\* Where only shifts and sales' flags change, the baskets are where they were.
LEMMA BasketsStay ==
  ASSUME TillInv, UNCHANGED <<where, flights, slipped>>,
         SaleIds' = SaleIds, \A i \in SaleIds : sales'[i].basket = sales[i].basket
  PROVE  OneAtTheTill' /\ FlightHoldsItsBasket' /\ SoldIsGone' /\ SoldOnce'
<1>1. OneAtTheTill' /\ FlightHoldsItsBasket'
  BY DEF TillInv, OneAtTheTill, FlightHoldsItsBasket
<1>2. SoldIsGone'
  BY DEF TillInv, SoldIsGone, InFlight
<1>3. SoldOnce'
  BY DEF TillInv, SoldOnce
<1> QED
  BY <1>1, <1>2, <1>3

\* A shift is opened: no sale names it yet.
LEMMA OpenShiftStep ==
  ASSUME TillInv, OpenShift
  PROVE  TillInv'
<1> DEFINE r == [cashier |-> user, branch |-> Home[user], open |-> TRUE,
                 count |-> 0, cashed |-> 0]
<1> DEFINE n == Len(shifts) + 1
<1>0. /\ TillTypeOK /\ ShiftsExist /\ DrawerMatchesReport /\ CreditWithinLimit
      /\ shifts' = Append(shifts, r)
      /\ UNCHANGED <<user, open, where, flights, sales, owed, settled, slipped,
                     disturbed, strayed>>
  BY DEF TillInv, OpenShift
<1>1. r \in Shift /\ r.open = TRUE /\ r.count = 0
  BY <1>0, RegisterAssumption DEF TillTypeOK, Shift, RegisterAssumption
<1> HIDE DEF r
<1>2. /\ shifts' \in Seq(Shift)
      /\ ShiftIds' = ShiftIds \cup {n}
      /\ n \notin ShiftIds
      /\ shifts'[n] = r
      /\ \A s \in ShiftIds : shifts'[s] = shifts[s]
  BY <1>0, <1>1, ShiftAdded
<1>3. TillTypeOK'
  BY <1>0, <1>2 DEF TillTypeOK
<1>4. ShiftsExist'
  BY <1>0, <1>2 DEF ShiftsExist, SaleIds, ShiftsOf
<1>5. OneAtTheTill' /\ FlightHoldsItsBasket' /\ SoldIsGone' /\ SoldOnce'
  BY <1>0, BasketsStay DEF SaleIds
<1>6. DrawerMatchesReport'
  <2>1. \A s : Report(s)' = Report(s)
    BY <1>0 DEF Report, SaleIds
  <2>2. Report(n) = {}
    BY <1>0, <1>2 DEF Report, ShiftsExist, ShiftsOf
  <2>3. ASSUME NEW s \in ShiftIds' \ disturbed'
        PROVE  /\ shifts'[s].count = Cardinality(Report(s)')
               /\ ~shifts'[s].open => shifts'[s].cashed = Cardinality(Report(s)')
    <3>1. CASE s = n
      <4>1. Cardinality(Report(s)') = 0
        BY <2>1, <2>2, <3>1, FS_EmptySet
      <4> QED
        BY <1>1, <1>2, <3>1, <4>1
    <3>2. CASE s # n
      BY <1>0, <1>2, <2>1, <2>3, <3>2 DEF DrawerMatchesReport
    <3> QED
      BY <3>1, <3>2
  <2> QED
    BY <2>3 DEF DrawerMatchesReport
<1>7. CreditWithinLimit' /\ CreditWasSeen'
  BY <1>0, CreditSeenStays DEF CreditWithinLimit, TillTypeOK
<1> QED
  BY <1>3, <1>4, <1>5, <1>6, <1>7 DEF TillInv

\* Open shifts are closed, and those of R take their counters from the report.  If
\* windows end earlier for it, the shifts that lose sales are marked.
LEMMA CloseStep ==
  ASSUME TillInv, NEW S \in SUBSET ShiftIds, NEW R \in SUBSET S,
         \A s \in S : shifts[s].open,
         shifts' = Closed(S, R),
         sales' \in Seq(Sale), SaleIds' = SaleIds,
         \A i \in SaleIds : /\ sales'[i].basket = sales[i].basket
                            /\ sales'[i].shift = sales[i].shift
                            /\ sales'[i].during \subseteq sales[i].during,
         disturbed' \subseteq Nat, disturbed \ R \subseteq disturbed',
         \A s \in ShiftIds \ disturbed' : Report(s)' = Report(s),
         UNCHANGED <<user, open, where, flights, owed, settled, slipped, strayed>>
  PROVE  TillInv'
<1> DEFINE c(s) == Cardinality(Report(s))
<1> DEFINE g == [s \in ShiftIds |->
       IF s \notin S THEN shifts[s]
       ELSE [cashier |-> shifts[s].cashier, branch |-> shifts[s].branch, open |-> FALSE,
             count |-> IF s \in R THEN c(s) ELSE shifts[s].count,
             cashed |-> c(s)]]
<1>0. /\ TillTypeOK /\ ShiftsExist /\ DrawerMatchesReport /\ CreditWithinLimit
      /\ shifts' = g
  BY DEF TillInv, Closed
<1>1. \A s \in ShiftIds : shifts[s] \in Shift /\ c(s) \in Nat
  BY <1>0, ShiftAt, ReportIsFinite
<1> HIDE DEF c
<1>2. g \in [ShiftIds -> Shift]
  BY <1>1 DEF Shift
<1>3. \A s \in ShiftIds :
        /\ s \notin S => g[s] = shifts[s]
        /\ s \in S => g[s].open = FALSE /\ g[s].cashed = c(s)
        /\ s \in R => g[s].count = c(s)
        /\ s \notin R => g[s].count = shifts[s].count
        /\ g[s].cashier = shifts[s].cashier
  OBVIOUS
<1> HIDE DEF g
<1>4. /\ shifts' \in Seq(Shift)
      /\ ShiftIds' = ShiftIds
      /\ \A s \in ShiftIds : shifts'[s] = g[s]
  BY <1>0, <1>2, ShiftsChanged
<1>5. TillTypeOK'
  BY <1>0, <1>4 DEF TillTypeOK
<1>6. ShiftsExist'
  <2>1. \A f \in flights' : f.shift \in ShiftIds' /\ shifts'[f.shift].cashier = f.user
    BY <1>0, <1>3, <1>4 DEF ShiftsExist
  <2>2. \A i \in SaleIds : ShiftsOf(i)' \subseteq ShiftsOf(i)
    BY DEF ShiftsOf
  <2> QED
    BY <1>0, <1>4, <2>1, <2>2 DEF ShiftsExist
<1>7. OneAtTheTill' /\ FlightHoldsItsBasket' /\ SoldIsGone' /\ SoldOnce'
  BY BasketsStay
<1>8. DrawerMatchesReport'
  <2>1. ASSUME NEW s \in ShiftIds \ disturbed'
        PROVE  /\ shifts'[s].count = c(s)
               /\ ~shifts'[s].open => shifts'[s].cashed = c(s)
    <3>1. CASE s \in R
      BY <1>3, <1>4, <3>1
    <3>2. CASE s \notin R
      <4>1. /\ shifts[s].count = c(s)
            /\ ~shifts[s].open => shifts[s].cashed = c(s)
        BY <1>0, <2>1, <3>2 DEF DrawerMatchesReport, c
      <4> QED
        BY <1>3, <1>4, <2>1, <3>2, <4>1
    <3> QED
      BY <3>1, <3>2
  <2> QED
    BY <1>4, <2>1 DEF DrawerMatchesReport, c
<1>9. CreditWithinLimit' /\ CreditWasSeen'
  BY <1>0, CreditSeenStays DEF CreditWithinLimit, TillTypeOK
<1> QED
  BY <1>5, <1>6, <1>7, <1>8, <1>9 DEF TillInv

\* A closing that leaves the sales as they are.
LEMMA PlainCloseStep ==
  ASSUME TillInv, NEW S \in SUBSET ShiftIds, NEW R \in SUBSET S,
         \A s \in S : shifts[s].open, Close(S, R)
  PROVE  TillInv'
<1>1. /\ shifts' = Closed(S, R)
      /\ disturbed' = disturbed \ R
      /\ UNCHANGED <<user, open, where, flights, sales, owed, settled, slipped, strayed>>
  BY DEF Close
<1>2. sales \in Seq(Sale) /\ disturbed \subseteq Nat
  BY DEF TillInv, TillTypeOK
<1>3. SaleIds' = SaleIds /\ \A s : Report(s)' = Report(s)
  BY <1>1 DEF Report, SaleIds
<1> QED
  BY <1>1, <1>2, <1>3, CloseStep

\* The sales stay what they are, but for the windows they are in.
SalesStay ==
  /\ SaleIds' = SaleIds
  /\ \A i \in SaleIds : /\ sales'[i].basket = sales[i].basket
                        /\ sales'[i].branch = sales[i].branch
                        /\ sales'[i].shift = sales[i].shift
                        /\ sales'[i].live = sales[i].live
                        /\ sales'[i].restored = sales[i].restored

\* What an automatic closing does to the sales.
LEMMA WindowsEnd ==
  ASSUME TillTypeOK, NEW S, NEW cut,
         sales' = [i \in SaleIds |-> [sales[i] EXCEPT !.during = @ \ CutOff(S, cut, i)]]
  PROVE  /\ sales' \in Seq(Sale)
         /\ SalesStay
         /\ \A i \in SaleIds : sales'[i].during = sales[i].during \ CutOff(S, cut, i)
<1> DEFINE out(i) == [sales[i] EXCEPT !.during = @ \ CutOff(S, cut, i)]
<1> DEFINE g == [i \in SaleIds |-> out(i)]
<1>1. \A i \in SaleIds :
        /\ out(i) \in Sale
        /\ out(i).basket = sales[i].basket
        /\ out(i).branch = sales[i].branch
        /\ out(i).shift = sales[i].shift
        /\ out(i).live = sales[i].live
        /\ out(i).restored = sales[i].restored
        /\ out(i).during = sales[i].during \ CutOff(S, cut, i)
  BY SaleAt DEF Sale
<1> HIDE DEF out
<1>2. Len(sales) \in Nat
  BY SaleAt
<1>3. g \in [SaleIds -> Sale] /\ \A i \in SaleIds : g[i] = out(i)
  BY <1>1
<1>4. sales' = g
  BY DEF out
<1> HIDE DEF g
<1>5. g \in Seq(Sale)
  BY <1>2, <1>3, SeqDef DEF SaleIds
<1>6. Len(g) \in Nat /\ DOMAIN g = 1..Len(g) /\ DOMAIN g = 1..Len(sales)
  BY <1>3, <1>5, LenProperties DEF SaleIds
<1>7. SaleIds' = SaleIds
  BY <1>4, <1>6 DEF SaleIds
<1> QED
  BY ZenonT(40), <1>1, <1>3, <1>4, <1>5, <1>7 DEF SalesStay

\* The automatic closing.
LEMMA AutoCloseStep ==
  ASSUME TillInv, NEW s \in ShiftIds, AutoClose(s)
  PROVE  TillInv'
<1> DEFINE stale == {t \in 1..s : shifts[t].open}
<1>0. TillTypeOK
  BY DEF TillInv
<1>1. PICK cut \in [stale -> 1..(Len(sales) + 1)] :
        /\ sales' = [i \in SaleIds |-> [sales[i] EXCEPT !.during = @ \ CutOff(stale, cut, i)]]
        /\ disturbed' = (disturbed \ stale) \cup
             {t \in stale : \E i \in Report(t) : t \in CutOff(stale, cut, i)}
  BY DEF AutoClose
<1>2. /\ shifts' = Closed(stale, stale)
      /\ UNCHANGED <<user, open, where, flights, owed, settled, slipped, strayed>>
  BY DEF AutoClose
<1>3. stale \in SUBSET ShiftIds /\ \A t \in stale : shifts[t].open
  BY <1>0, ShiftAt DEF ShiftIds
<1> HIDE DEF stale
<1>4. /\ sales' \in Seq(Sale)
      /\ SalesStay
      /\ \A i \in SaleIds : sales'[i].during = sales[i].during \ CutOff(stale, cut, i)
  BY <1>0, <1>1, WindowsEnd
<1>5. disturbed' \subseteq Nat /\ disturbed \ stale \subseteq disturbed'
  BY <1>0, <1>1, <1>3 DEF TillTypeOK, ShiftIds
<1>6. ASSUME NEW t \in ShiftIds \ disturbed'
      PROVE  Report(t)' = Report(t)
  <2>1. ASSUME NEW i \in Report(t)
        PROVE  t \notin CutOff(stale, cut, i)
    BY <1>1, <1>6 DEF CutOff
  <2>2. \A i \in SaleIds : i \in Report(t)' => i \in Report(t)
    BY <1>4 DEF Report, SalesStay
  <2>3. \A i \in SaleIds : i \in Report(t) => i \in Report(t)'
    BY <1>4, <2>1 DEF Report, SalesStay
  <2>4. Report(t) \subseteq SaleIds /\ Report(t)' \subseteq SaleIds
    BY <1>4 DEF Report, SalesStay
  <2> QED
    BY <2>2, <2>3, <2>4
<1> QED
  BY <1>2, <1>3, <1>4, <1>5, <1>6, CloseStep DEF SalesStay

\* The operations on shifts.
LEMMA ShiftStepKeeps ==
  ASSUME TillInv, ShiftStep
  PROVE  TillInv'
<1>1. CASE OpenShift
  BY <1>1, OpenShiftStep
<1>2. CASE CloseShift
  <2>1. PICK s \in OwnShifts(user) : Close({s}, {s})
    BY <1>2 DEF CloseShift
  <2>2. s \in ShiftIds /\ shifts[s].open
    BY DEF OwnShifts
  <2> QED
    BY <2>1, <2>2, PlainCloseStep
<1>3. CASE \E s \in ShiftIds : AutoClose(s)
  BY <1>3, AutoCloseStep
<1>4. CASE ForceClose
  <2> DEFINE all == {s \in ShiftIds : shifts[s].open}
  <2>1. Close(all, {}) /\ all \in SUBSET ShiftIds /\ \A t \in all : shifts[t].open
    BY <1>4 DEF ForceClose
  <2> HIDE DEF all
  <2> QED
    BY <2>1, PlainCloseStep
<1> QED
  BY <1>1, <1>2, <1>3, <1>4 DEF ShiftStep

\* A sale is voided: the counter follows in the user's own shift, or the shift is marked.
LEMMA VoidStep ==
  ASSUME TillInv, NEW i \in SaleIds, Void(i)
  PROVE  TillInv'
<1> DEFINE n == Size[sales[i].basket]
<1> DEFINE own == CountedShifts(i)
<1> DEFINE r == [sales[i] EXCEPT !.live = FALSE]
<1> DEFINE down(s) == [shifts[s] EXCEPT !.count = Floor(@ - 1)]
<1> DEFINE g == [s \in ShiftIds |-> IF s \in own THEN down(s) ELSE shifts[s]]
<1>0. /\ TillTypeOK /\ ShiftsExist /\ DrawerMatchesReport /\ CreditWithinLimit
      /\ sales[i].live
      /\ sales' = [sales EXCEPT ![i] = r]
      /\ shifts' = g
      /\ disturbed' = disturbed \cup (ShiftsOf(i) \ own)
      /\ owed' = IF OnCredit[sales[i].basket] THEN Floor(owed - n) ELSE owed
      /\ settled' = IF OnCredit[sales[i].basket] /\ sales[i].restored
                    THEN settled + n ELSE settled
      /\ UNCHANGED <<user, open, where, flights, slipped, strayed>>
  BY DEF TillInv, Void, Voidable
<1>1. /\ sales[i] \in Sale /\ sales[i].basket \in Baskets /\ sales[i].shift \in Nat
      /\ sales[i].during \subseteq Nat /\ n \in Nat
  BY <1>0, SaleAt, RegisterAssumption DEF Sale, RegisterAssumption
<1>2. /\ r \in Sale /\ r.live = FALSE /\ r.basket = sales[i].basket
      /\ r.shift = sales[i].shift /\ r.during = sales[i].during
  BY <1>1 DEF Sale
<1> HIDE DEF r
<1>3. \A s \in ShiftIds : shifts[s] \in Shift
  BY <1>0, ShiftAt
<1>4. \A s \in ShiftIds :
        /\ down(s) \in Shift
        /\ down(s).count = Floor(shifts[s].count - 1)
        /\ down(s).open = shifts[s].open
        /\ down(s).cashier = shifts[s].cashier
  BY <1>3 DEF Shift, Floor
<1>5. /\ own \subseteq ShiftsOf(i)
      /\ \A s \in own : s \in ShiftIds /\ shifts[s].open
  BY DEF CountedShifts, OwnShifts, ShiftsOf
<1> HIDE DEF own, down
<1>6. g \in [ShiftIds -> Shift] /\ \A s \in ShiftIds : g[s] = IF s \in own THEN down(s) ELSE shifts[s]
  BY <1>3, <1>4
<1> HIDE DEF g
<1>7. /\ shifts' \in Seq(Shift)
      /\ ShiftIds' = ShiftIds
      /\ \A s \in ShiftIds : shifts'[s] = g[s]
  BY <1>0, <1>6, ShiftsChanged
<1>8. /\ sales' \in Seq(Sale)
      /\ SaleIds' = SaleIds
      /\ sales'[i] = r
      /\ \A j \in SaleIds : j # i => sales'[j] = sales[j]
  BY <1>0, <1>2, SaleChanged
<1>9. owed' \in Nat /\ settled' \in Nat /\ owed' <= owed
  <2>1. owed \in Nat /\ settled \in Nat
    BY <1>0 DEF TillTypeOK
  <2> HIDE DEF n
  <2> QED
    BY <1>0, <1>1, <2>1 DEF Floor
<1>10. TillTypeOK'
  <2>1. disturbed' \subseteq Nat
    BY <1>0, <1>1 DEF TillTypeOK, ShiftsOf
  <2> QED
    BY <1>0, <1>7, <1>8, <1>9, <2>1 DEF TillTypeOK
<1>11. ShiftsExist'
  <2>1. \A f \in flights' : f.shift \in ShiftIds' /\ shifts'[f.shift].cashier = f.user
    BY <1>0, <1>4, <1>6, <1>7 DEF ShiftsExist
  <2>2. \A j \in SaleIds : ShiftsOf(j)' = ShiftsOf(j)
    BY <1>2, <1>8 DEF ShiftsOf
  <2> QED
    BY <1>0, <1>7, <1>8, <2>1, <2>2 DEF ShiftsExist
<1>12. OneAtTheTill' /\ FlightHoldsItsBasket' /\ SoldIsGone' /\ SoldOnce'
  BY <1>0, <1>2, <1>8, BasketsStay
<1>13. DrawerMatchesReport'
  <2>1. \A s : Report(s)' = Report(s) \ {i}
    BY <1>2, <1>8 DEF Report
  <2>2. \A s : i \in Report(s) <=> s \in ShiftsOf(i)
    BY <1>0 DEF Report, ShiftsOf
  <2>3. ASSUME NEW s \in ShiftIds \ disturbed'
        PROVE  /\ shifts'[s].count = Cardinality(Report(s)')
               /\ ~shifts'[s].open => shifts'[s].cashed = Cardinality(Report(s)')
    <3>1. /\ shifts[s].count = Cardinality(Report(s))
          /\ ~shifts[s].open => shifts[s].cashed = Cardinality(Report(s))
      BY <1>0, <2>3 DEF DrawerMatchesReport
    <3>2. CASE s \in own
      <4>1. i \in Report(s) /\ shifts[s].open
        BY <1>5, <2>2, <3>2
      <4>2. /\ IsFiniteSet(Report(s)) /\ Cardinality(Report(s)) \in Nat
            /\ Cardinality(Report(s) \ {i}) = Cardinality(Report(s)) - 1
            /\ Cardinality(Report(s) \ {i}) \in Nat
        BY <1>0, <4>1, ReportIsFinite, FS_RemoveElement, FS_CardinalityType
      <4>3. Cardinality(Report(s)') = Cardinality(Report(s)) - 1
        BY <2>1, <4>2
      <4>4. shifts'[s] = down(s) /\ ~(~shifts'[s].open)
        BY <1>4, <1>6, <1>7, <3>2, <4>1
      <4>5. shifts'[s].count = Floor(shifts[s].count - 1)
        BY <1>4, <2>3, <4>4
      <4> QED
        BY <3>1, <4>2, <4>3, <4>4, <4>5 DEF Floor
    <3>3. CASE s \notin own
      <4>1. Report(s)' = Report(s)
        BY <1>0, <2>1, <2>2, <2>3, <3>3
      <4> QED
        BY <1>6, <1>7, <2>3, <3>1, <3>3, <4>1
    <3> QED
      BY <3>2, <3>3
  <2> QED
    BY <1>7, <2>3 DEF DrawerMatchesReport
<1>14. CreditWithinLimit' /\ CreditWasSeen'
  BY <1>0, <1>9, CreditSeenStays, RegisterAssumption
     DEF CreditWithinLimit, TillTypeOK, RegisterAssumption
<1> QED
  BY <1>10, <1>11, <1>12, <1>13, <1>14 DEF TillInv

\* A sale is restored: the shifts whose reports get it back are marked.
LEMMA RestoreStep ==
  ASSUME TillInv, NEW i \in SaleIds, Restore(i)
  PROVE  TillInv'
<1> DEFINE r == [sales[i] EXCEPT !.live = TRUE, !.restored = TRUE]
<1>0. /\ TillTypeOK /\ ShiftsExist /\ DrawerMatchesReport /\ CreditWithinLimit
      /\ sales' = [sales EXCEPT ![i].live = TRUE, ![i].restored = TRUE]
      /\ disturbed' = disturbed \cup ShiftsOf(i)
      /\ UNCHANGED <<user, open, where, flights, shifts, owed, settled, slipped, strayed>>
  BY DEF TillInv, Restore
<1>1. /\ sales[i] \in Sale /\ sales[i].shift \in Nat /\ sales[i].during \subseteq Nat
  BY <1>0, SaleAt DEF Sale
<1>2. /\ r \in Sale /\ r.basket = sales[i].basket
      /\ r.shift = sales[i].shift /\ r.during = sales[i].during
  BY <1>1 DEF Sale
<1>3. sales' = [sales EXCEPT ![i] = r]
  BY <1>0
<1> HIDE DEF r
<1>4. /\ sales' \in Seq(Sale)
      /\ SaleIds' = SaleIds
      /\ sales'[i] = r
      /\ \A j \in SaleIds : j # i => sales'[j] = sales[j]
  BY <1>0, <1>2, <1>3, SaleChanged
<1>5. TillTypeOK'
  BY <1>0, <1>1, <1>4 DEF TillTypeOK, ShiftsOf
<1>6. ShiftsExist'
  <2>1. \A j \in SaleIds : ShiftsOf(j)' = ShiftsOf(j)
    BY <1>2, <1>4 DEF ShiftsOf
  <2>2. ShiftIds' = ShiftIds
    BY <1>0 DEF ShiftIds
  <2> QED
    BY <1>0, <1>4, <2>1, <2>2 DEF ShiftsExist
<1>7. OneAtTheTill' /\ FlightHoldsItsBasket' /\ SoldIsGone' /\ SoldOnce'
  BY <1>0, <1>2, <1>4, BasketsStay
<1>8. DrawerMatchesReport'
  <2>1. \A s : s \notin ShiftsOf(i) => Report(s)' = Report(s)
    BY <1>2, <1>4 DEF Report, ShiftsOf
  <2> QED
    BY <1>0, <2>1 DEF DrawerMatchesReport, ShiftIds
<1>9. CreditWithinLimit' /\ CreditWasSeen'
  BY <1>0, CreditSeenStays DEF CreditWithinLimit, TillTypeOK
<1> QED
  BY <1>5, <1>6, <1>7, <1>8, <1>9 DEF TillInv

\* The member pays.
LEMMA PayStep ==
  ASSUME TillInv, NEW n \in Payments, Pay(n)
  PROVE  TillInv'
<1>0. /\ TillTypeOK /\ CreditWithinLimit /\ DrawerMatchesReport
      /\ owed' = Floor(owed - n)
      /\ settled' = settled + n
      /\ n \in Nat /\ Limit \in Nat
      /\ UNCHANGED <<user, open, where, flights, sales, shifts, slipped, disturbed, strayed>>
  BY RegisterAssumption DEF TillInv, Pay, RegisterAssumption
<1>1. owed' \in Nat /\ settled' \in Nat /\ owed' <= owed
  BY <1>0 DEF TillTypeOK, Floor
<1>2. TillTypeOK'
  BY <1>0, <1>1 DEF TillTypeOK
<1>3. ShiftsExist'
  BY <1>0, ShiftsStay
<1>4. OneAtTheTill' /\ FlightHoldsItsBasket' /\ SoldIsGone' /\ SoldOnce'
  BY <1>0, BasketsStay DEF SaleIds
<1>5. DrawerMatchesReport'
  BY <1>0 DEF DrawerMatchesReport, Report, ShiftIds, SaleIds
<1>6. CreditWithinLimit' /\ CreditWasSeen'
  BY <1>0, <1>1, CreditSeenStays DEF CreditWithinLimit, TillTypeOK
<1> QED
  BY <1>2, <1>3, <1>4, <1>5, <1>6 DEF TillInv

-----------------------------------------------------------------------------
(* What the ledger preserves *)

LedgerInv == LedgerTypeOK /\ StockIsLedger

\* The point of sale posts sales and voids, and changes the ledger nowhere else.
LEMMA RegisterKeepsLedger ==
  ASSUME LedgerInv, TillInv, RegisterStep
  PROVE  LedgerInv'
<1>0. /\ TillTypeOK
      /\ stock \in [Branches -> Nat]
      /\ entry \in [Branches -> Nat \cup {NoEntry}]
  BY DEF LedgerInv, LedgerTypeOK, TillInv
<1>1. ASSUME UNCHANGED ledger PROVE LedgerInv'
  BY <1>1, LedgerStays DEF LedgerInv
<1>2. ASSUME NEW f \in flights, Record(f)
      PROVE  LedgerInv'
  <2>1. /\ Till[f.user] \in Branches /\ Home[f.user] \in Branches
        /\ Size[f.basket] \in Nat
    BY <1>0, RegisterAssumption DEF TillTypeOK, Flight, RegisterAssumption
  <2>2. /\ Post(Till[f.user], Home[f.user], -Size[f.basket])
        /\ entry' = [entry EXCEPT ![Till[f.user]] = stock'[Till[f.user]]]
    BY <1>2 DEF Record, TakeStock
  <2>3. -Size[f.basket] \in Int
    BY <2>1
  <2>4. /\ stock' \in [Branches -> Nat]
        /\ moved' \in [Branches -> Int]
        /\ odd' \subseteq Branches
        /\ StockIsLedger => StockIsLedger'
    BY <2>1, <2>2, <2>3, PostWorks DEF LedgerInv
  <2>5. entry' \in [Branches -> Nat \cup {NoEntry}]
    BY <1>0, <2>1, <2>2, <2>4
  <2> QED
    BY <2>4, <2>5 DEF LedgerInv, LedgerTypeOK
<1>3. ASSUME NEW i \in SaleIds, Void(i)
      PROVE  LedgerInv'
  <2>0. sales[i] \in Sale
    BY <1>0, SaleAt
  <2>a. sales[i].branch \in Branches /\ sales[i].basket \in Baskets
    BY <2>0 DEF Sale
  <2>b. Size[sales[i].basket] \in Nat
    BY <2>a, RegisterAssumption DEF RegisterAssumption
  <2>1. sales[i].branch \in Branches /\ Size[sales[i].basket] \in Int
    BY <2>a, <2>b
  <2>2. Post(sales[i].branch, sales[i].branch, Size[sales[i].basket]) /\ entry' = entry
    BY <1>3 DEF Void
  <2>3. /\ stock' \in [Branches -> Nat]
        /\ moved' \in [Branches -> Int]
        /\ odd' \subseteq Branches
        /\ StockIsLedger => StockIsLedger'
    BY <2>1, <2>2, PostWorks DEF LedgerInv
  <2> QED
    BY <1>0, <2>2, <2>3 DEF LedgerInv, LedgerTypeOK
<1>4. CASE PageStep
  <2>1. CASE \E k \in Baskets : Fill(k) \/ Hold(k) \/ Resume(k) \/ Cancel(k) \/ BeginCheckout(k)
    BY <1>1, <2>1 DEF Fill, Hold, Resume, Cancel, BeginCheckout
  <2>2. CASE Leave \/ Return \/ \E u \in Users : SignIn(u)
    BY <1>1, <2>2 DEF Leave, Return, SignIn
  <2>3. CASE \E f \in flights : Abandon(f) \/ Duplicate(f) \/ Record(f)
    BY <1>1, <1>2, <2>3 DEF Abandon, Duplicate
  <2> QED
    BY <1>4, <2>1, <2>2, <2>3 DEF PageStep
<1>5. CASE ShiftStep
  <2>1. CASE OpenShift
    BY <1>1, <2>1 DEF OpenShift
  <2>2. CASE CloseShift \/ ForceClose \/ \E s \in ShiftIds : AutoClose(s)
    BY <1>1, <2>2 DEF CloseShift, ForceClose, AutoClose, Close
  <2> QED
    BY <1>5, <2>1, <2>2 DEF ShiftStep
<1>6. CASE SaleStep
  BY <1>1, <1>3, <1>6 DEF SaleStep, Restore, Pay
<1> QED
  BY <1>4, <1>5, <1>6 DEF RegisterStep

\* A document books its movement and its stock row together.
LEMMA BookWorks ==
  ASSUME LedgerInv, LogisticsTypeOK, NEW b \in Branches, NEW d \in Int,
         Book(b, d), UNCHANGED entry
  PROVE  LedgerInv' /\ booked' \in [Branches -> Int]
<1>1. Post(b, b, d) /\ booked' = [booked EXCEPT ![b] = @ + d]
  BY DEF Book
<1>2. /\ stock' \in [Branches -> Nat]
      /\ moved' \in [Branches -> Int]
      /\ odd' \subseteq Branches
      /\ StockIsLedger => StockIsLedger'
  BY <1>1, PostWorks DEF LedgerInv
<1>3. booked' \in [Branches -> Int]
  BY <1>1 DEF LogisticsTypeOK
<1> QED
  BY <1>2, <1>3 DEF LedgerInv, LedgerTypeOK

\* Rows that are set without a movement are marked where they changed.
LEMMA SetRowsWorks ==
  ASSUME LedgerInv, NEW r \in [Branches -> Nat], SetRows(r), UNCHANGED entry
  PROVE  LedgerInv'
BY DEF LedgerInv, LedgerTypeOK, SetRows, StockIsLedger

\* A document counts towards the bound.
LEMMA WriteWorks ==
  ASSUME LogisticsTypeOK, Write
  PROVE  docs' \in 0..MaxDocs
BY LogisticsAssumption DEF LogisticsTypeOK, Write, LogisticsAssumption

\* The documents keep the ledger.
LEMMA LogisticsKeepsLedger ==
  ASSUME LedgerInv, LogisticsTypeOK, LogisticsStep
  PROVE  LedgerInv' /\ LogisticsTypeOK'
<1>0. /\ transfers \in Seq(Transfer) /\ orders \in Seq(Order)
      /\ booked \in [Branches -> Int]
      /\ imports \subseteq Import
      /\ Quantities \subseteq Nat \ {0}
  BY LogisticsAssumption DEF LogisticsTypeOK, LogisticsAssumption
<1>1. ASSUME NEW b \in Branches, NEW n \in Quantities,
             LedgerEntry(b, n) \/ LedgerEntry(b, -n) \/ LogDamage(b, n)
      PROVE  LedgerInv' /\ LogisticsTypeOK'
  <2>1. /\ Book(b, n) \/ Book(b, -n)
        /\ Write
        /\ UNCHANGED <<transfers, orders, imports, entry>>
    BY <1>1 DEF LedgerEntry, LogDamage
  <2>2. n \in Int /\ -n \in Int
    BY <1>0
  <2>3. LedgerInv' /\ booked' \in [Branches -> Int]
    BY <2>1, <2>2, BookWorks
  <2> QED
    BY <1>0, <2>1, <2>3, WriteWorks DEF LogisticsTypeOK
<1>2. ASSUME NEW b \in Branches, NEW n \in Quantities, PlaceOrder(b, n)
      PROVE  LedgerInv' /\ LogisticsTypeOK'
  <2> DEFINE r == [branch |-> b, qty |-> n, status |-> "Pending"]
  <2>1. orders' = Append(orders, r) /\ Write
        /\ UNCHANGED <<booked, transfers, imports, ledger>>
    BY <1>2 DEF PlaceOrder
  <2>2. r \in Order
    BY <1>0 DEF Order, OrderStatuses
  <2> HIDE DEF r
  <2>3. orders' \in Seq(Order)
    BY <1>0, <2>1, <2>2, AppendProperties
  <2> QED
    BY <1>0, <2>1, <2>3, WriteWorks, LedgerStays DEF LogisticsTypeOK, LedgerInv
<1>3. ASSUME NEW b \in Branches, NEW c \in Branches, NEW n \in Quantities,
             RequestTransfer(b, c, n)
      PROVE  LedgerInv' /\ LogisticsTypeOK'
  <2> DEFINE r == [from |-> b, to |-> c, qty |-> n, status |-> "Pending"]
  <2>1. transfers' = Append(transfers, r) /\ Write
        /\ UNCHANGED <<booked, orders, imports, ledger>>
    BY <1>3 DEF RequestTransfer
  <2>2. r \in Transfer
    BY <1>0 DEF Transfer, TransferStatuses
  <2> HIDE DEF r
  <2>3. transfers' \in Seq(Transfer)
    BY <1>0, <2>1, <2>2, AppendProperties
  <2> QED
    BY <1>0, <2>1, <2>3, WriteWorks, LedgerStays DEF LogisticsTypeOK, LedgerInv
<1>4. ASSUME NEW t \in 1..Len(transfers), NEW s \in TransferStatuses, MoveTransfer(t, s)
      PROVE  LedgerInv' /\ LogisticsTypeOK'
  <2> DEFINE tr == transfers[t]
  <2> DEFINE r == [tr EXCEPT !.status = s]
  <2>1. tr \in Transfer
    BY <1>0, ElementOfSeq
  <2>2. r \in Transfer /\ tr.from \in Branches /\ tr.to \in Branches
        /\ tr.qty \in Int /\ -tr.qty \in Int
    BY <2>1 DEF Transfer
  <2>3. /\ transfers' = [transfers EXCEPT ![t] = r]
        /\ Write
        /\ \/ Book(tr.from, -tr.qty)
           \/ Book(tr.to, tr.qty)
           \/ UNCHANGED <<stock, moved, odd, booked>>
        /\ UNCHANGED <<orders, imports, entry>>
    BY <1>4 DEF MoveTransfer, Dispatch, Arrive
  <2> HIDE DEF r, tr
  <2>4. transfers' \in Seq(Transfer)
    BY <1>0, <2>2, <2>3, ExceptSeq
  <2>5. LedgerInv' /\ booked' \in [Branches -> Int]
    <3>1. CASE Book(tr.from, -tr.qty) \/ Book(tr.to, tr.qty)
      BY <2>2, <2>3, <3>1, BookWorks
    <3>2. CASE UNCHANGED <<stock, moved, odd, booked>>
      BY <1>0, <2>3, <3>2, LedgerStays DEF LedgerInv, ledger
    <3> QED
      BY <2>3, <3>1, <3>2
  <2> QED
    BY <1>0, <2>3, <2>4, <2>5, WriteWorks DEF LogisticsTypeOK
<1>5. ASSUME NEW o \in 1..Len(orders),
             \/ \E s \in OrderStatuses : SetOrderStatus(o, s)
             \/ ConfirmReceipt(o)
      PROVE  LedgerInv' /\ LogisticsTypeOK'
  <2>1. PICK s \in OrderStatuses :
          /\ orders' = [orders EXCEPT ![o].status = s]
          /\ Write
          /\ UNCHANGED <<booked, transfers, imports, ledger>>
    BY <1>5 DEF SetOrderStatus, ConfirmReceipt, OrderStatuses
  <2> DEFINE r == [orders[o] EXCEPT !.status = s]
  <2>2. r \in Order
    <3>1. orders[o] \in Order
      BY <1>0, ElementOfSeq
    <3> QED
      BY <3>1 DEF Order
  <2>3. orders' = [orders EXCEPT ![o] = r]
    BY <2>1
  <2> HIDE DEF r
  <2>4. orders' \in Seq(Order)
    BY <1>0, <2>2, <2>3, ExceptSeq
  <2> QED
    BY <1>0, <2>1, <2>4, WriteWorks, LedgerStays DEF LogisticsTypeOK, LedgerInv
<1>6. ASSUME NEW b \in Branches, NEW n \in Quantities, BeginImport(b, n)
      PROVE  LedgerInv' /\ LogisticsTypeOK'
  <2>1. /\ imports' = imports \cup {[branch |-> b, qty |-> n, rows |-> stock]}
        /\ Write
        /\ UNCHANGED <<booked, transfers, orders, ledger>>
    BY <1>6 DEF BeginImport
  <2>2. [branch |-> b, qty |-> n, rows |-> stock] \in Import
    BY DEF Import, LedgerInv, LedgerTypeOK
  <2> QED
    BY <1>0, <2>1, <2>2, WriteWorks, LedgerStays DEF LogisticsTypeOK, LedgerInv
<1>7. ASSUME NEW m \in imports, EndImport(m)
      PROVE  LedgerInv' /\ LogisticsTypeOK'
  <2>1. SetRows([m.rows EXCEPT ![m.branch] = m.qty])
    BY <1>7 DEF EndImport
  <2>2. [m.rows EXCEPT ![m.branch] = m.qty] \in [Branches -> Nat]
    BY <1>0 DEF Import
  <2>3. /\ imports' \subseteq imports
        /\ UNCHANGED <<docs, booked, transfers, orders, entry>>
    BY <1>7 DEF EndImport
  <2> QED
    BY <1>0, <2>1, <2>2, <2>3, SetRowsWorks DEF LogisticsTypeOK
<1> QED
  BY <1>1, <1>2, <1>3, <1>4, <1>5, <1>6, <1>7 DEF LogisticsStep

\* What an edit of a product does to the stock.
LEMMA EditKinds ==
  ASSUME LedgerTypeOK, user \in Users, EditStep
  PROVE  \/ \E b \in Branches, d \in Int : Book(b, d)
         \/ \E r \in [Branches -> Nat] : SetRows(r) /\ booked' = booked
<1>1. PICK n \in Quantities : \E d \in {n, -n} : EditProduct(Home[user], user \in Assigned, d)
  BY DEF EditStep
<1>2. n \in Int /\ -n \in Int
  BY LogisticsAssumption DEF LogisticsAssumption
<1>3. PICK d \in Int : EditProduct(Home[user], user \in Assigned, d)
  BY <1>1, <1>2
<1> DEFINE b == Home[user]
<1>4. b \in Branches
  BY RegisterAssumption DEF RegisterAssumption
<1>5. \/ Book(b, d)
      \/ SetRows([stock EXCEPT ![b] = Floor(@ + d)]) /\ booked' = booked
  BY <1>3 DEF EditProduct
<1>6. [stock EXCEPT ![b] = Floor(@ + d)] \in [Branches -> Nat]
  BY <1>4 DEF LedgerTypeOK, Floor
<1> HIDE DEF b
<1> QED
  BY <1>3, <1>4, <1>5, <1>6

\* An edit of a product keeps the ledger.
LEMMA EditKeepsLedger ==
  ASSUME LedgerInv, LogisticsTypeOK, user \in Users, EditStep
  PROVE  LedgerInv' /\ LogisticsTypeOK'
<1>1. Write /\ UNCHANGED <<transfers, orders, imports, entry>>
  BY DEF EditStep, EditProduct
<1>2. docs' \in 0..MaxDocs
  BY <1>1, WriteWorks
<1>3. CASE \E b \in Branches, d \in Int : Book(b, d)
  BY <1>1, <1>2, <1>3, BookWorks DEF LogisticsTypeOK
<1>4. CASE \E r \in [Branches -> Nat] : SetRows(r) /\ booked' = booked
  BY <1>1, <1>2, <1>4, SetRowsWorks DEF LogisticsTypeOK
<1> QED
  BY <1>3, <1>4, EditKinds DEF LedgerInv

\* The point of sale, as a whole.
LEMMA RegisterKeepsTill ==
  ASSUME LedgerInv, TillInv, RegisterStep
  PROVE  TillInv'
<1>1. CASE PageStep
  <2>1. CASE \E k \in Baskets : Fill(k) \/ Hold(k) \/ Resume(k) \/ Cancel(k) \/ BeginCheckout(k)
    BY <2>1, FillStep, HoldStep, ResumeStep, CancelStep, BeginCheckoutStep DEF LedgerInv
  <2>2. CASE Leave \/ Return \/ \E u \in Users : SignIn(u)
    BY <2>2, LeaveStep, DoorStep
  <2>3. CASE \E f \in flights : Abandon(f) \/ Duplicate(f) \/ Record(f)
    BY <2>3, NoSaleStep, RecordStep
  <2> QED
    BY <1>1, <2>1, <2>2, <2>3 DEF PageStep
<1>2. CASE ShiftStep
  BY <1>2, ShiftStepKeeps
<1>3. CASE SaleStep
  BY <1>3, VoidStep, RestoreStep, PayStep DEF SaleStep
<1> QED
  BY <1>1, <1>2, <1>3 DEF RegisterStep

-----------------------------------------------------------------------------
(* Stock and credit against the sales that explain them *)

\* The units of each sale.
Sizes == [i \in SaleIds |-> Size[sales[i].basket]]

\* The live sales of a branch, and the credit sales that are owed for.
LiveAt(b) == {i \in SaleIds : sales[i].branch = b /\ sales[i].live}
Debts == {i \in SaleIds : /\ OnCredit[sales[i].basket]
                          /\ sales[i].live
                          /\ ~sales[i].restored}

\* One branch's part of SalesExplainStock.
RestoredAt(b) == \E i \in SaleIds : sales[i].branch = b /\ sales[i].restored
Explained(b) ==
  RestoredAt(b) \/ stock[b] = Opening[b] + booked[b] - SumFunctionOnSet(Sizes, LiveAt(b))

StockExplained == \A b \in Branches \ odd : Explained(b)
DebtsCovered == SumFunctionOnSet(Sizes, Debts) <= owed + settled

\* The two properties, branch by branch and with the sums in sight.
LEMMA InOtherWords ==
  (SalesExplainStock <=> StockExplained) /\ (CreditIsOwed <=> DebtsCovered)
<1>1. ASSUME NEW b
      PROVE  {i \in {j \in SaleIds : sales[j].branch = b} : sales[i].live} = LiveAt(b)
  BY DEF LiveAt
<1>2. \A b : Units(LiveAt(b)) = SumFunctionOnSet(Sizes, LiveAt(b))
  BY DEF Units, Sizes
<1>3. SalesExplainStock <=> StockExplained
  BY <1>1, <1>2 DEF SalesExplainStock, StockExplained, Explained, RestoredAt
<1>4. CreditIsOwed <=> DebtsCovered
  BY DEF CreditIsOwed, DebtsCovered, Units, Sizes, Debts
<1> QED
  BY <1>3, <1>4

\* The sales are finitely many, each of a natural number of units.
LEMMA SizesAreNat ==
  ASSUME TillTypeOK
  PROVE  /\ IsFiniteSet(SaleIds)
         /\ \A i \in SaleIds : Sizes[i] = Size[sales[i].basket] /\ Sizes[i] \in Nat
<1>1. IsFiniteSet(SaleIds)
  BY SaleAt, FS_Interval DEF SaleIds
<1>2. \A i \in SaleIds : sales[i].basket \in Baskets
  BY SaleAt DEF Sale
<1> QED
  BY <1>1, <1>2, RegisterAssumption DEF Sizes, RegisterAssumption

\* So are those of any part of them.
LEMMA SomeSizes ==
  ASSUME TillTypeOK, NEW I \in SUBSET SaleIds
  PROVE  /\ IsFiniteSet(I)
         /\ \A i \in I : Sizes[i] \in Int
         /\ SumFunctionOnSet(Sizes, I) \in Int
<1>1. IsFiniteSet(I)
  BY SizesAreNat, FS_Subset
<1>2. \A i \in I : Sizes[i] \in Int
  BY SizesAreNat
<1> QED
  BY <1>1, <1>2, SumIsInt

\* A posting at a branch whose ledger stays on changes its row by what is posted,
\* and no other row.
LEMMA PostIsExact ==
  ASSUME LedgerTypeOK, NEW b \in Branches, NEW f \in Branches, NEW d \in Int,
         Post(b, f, d), NEW c \in Branches \ odd'
  PROVE  /\ c \notin odd
         /\ c = b => f = b /\ stock'[c] = stock[c] + d
         /\ c # b => stock'[c] = stock[c]
<1>1. /\ stock \in [Branches -> Nat]
      /\ stock' = [stock EXCEPT ![b] = Floor(stock[b] + d)]
      /\ odd \subseteq odd'
      /\ stock[b] + d < 0 => b \in odd'
      /\ b # f => b \in odd'
  BY DEF Post, LedgerTypeOK
<1>2. c \notin odd
  BY <1>1
<1>3. ASSUME c = b
      PROVE  f = b /\ stock'[c] = stock[c] + d
  <2>1. f = b /\ stock[b] + d >= 0
    BY <1>1, <1>3
  <2> QED
    BY <1>1, <1>3, <2>1 DEF Floor
<1>4. ASSUME c # b
      PROVE  stock'[c] = stock[c]
  BY <1>1, <1>4
<1> QED
  BY <1>2, <1>3, <1>4

\* What a step of the point of sale does to sales, stock and credit.
LEMMA RegisterKinds ==
  ASSUME TillTypeOK, RegisterStep
  PROVE  \/ SalesStay /\ UNCHANGED <<stock, odd, owed, settled>>
         \/ \E f \in flights : Record(f)
         \/ \E i \in SaleIds : Void(i) \/ Restore(i)
         \/ \E n \in Payments : Pay(n)
<1>0. UNCHANGED sales => SalesStay
  BY DEF SalesStay, SaleIds
<1>1. CASE PageStep
  <2>1. CASE \E k \in Baskets : Fill(k) \/ Hold(k) \/ Resume(k) \/ Cancel(k) \/ BeginCheckout(k)
    BY <1>0, <2>1 DEF Fill, Hold, Resume, Cancel, BeginCheckout, ledger
  <2>2. CASE Leave \/ Return \/ \E u \in Users : SignIn(u)
    BY <1>0, <2>2 DEF Leave, Return, SignIn, ledger
  <2>3. CASE \E f \in flights : Abandon(f) \/ Duplicate(f) \/ Record(f)
    BY <1>0, <2>3 DEF Abandon, Duplicate, ledger
  <2> QED
    BY <1>1, <2>1, <2>2, <2>3 DEF PageStep
<1>2. CASE ShiftStep
  <2>1. CASE OpenShift
    BY <1>0, <2>1 DEF OpenShift, ledger
  <2>2. CASE CloseShift \/ ForceClose
    BY <1>0, <2>2 DEF CloseShift, ForceClose, Close, ledger
  <2>3. ASSUME NEW s \in ShiftIds, AutoClose(s)
        PROVE  SalesStay /\ UNCHANGED <<stock, odd, owed, settled>>
    <3>1. SalesStay
      BY ZenonT(40), <2>3, WindowsEnd DEF AutoClose
    <3>2. UNCHANGED <<stock, odd, owed, settled>>
      BY <2>3 DEF AutoClose, ledger
    <3> QED
      BY <3>1, <3>2
  <2> QED
    BY <1>2, <2>1, <2>2, <2>3 DEF ShiftStep
<1>3. CASE SaleStep
  BY <1>3 DEF SaleStep
<1> QED
  BY <1>1, <1>2, <1>3 DEF RegisterStep

\* What a document does to the stock.
LEMMA LogisticsKinds ==
  ASSUME LogisticsTypeOK, LogisticsStep
  PROVE  \/ UNCHANGED <<stock, odd, booked>>
         \/ \E b \in Branches, d \in Int : Book(b, d)
         \/ \E r \in [Branches -> Nat] : SetRows(r) /\ booked' = booked
<1>0. /\ transfers \in Seq(Transfer) /\ Quantities \subseteq Nat \ {0}
      /\ imports \subseteq Import
  BY LogisticsAssumption DEF LogisticsTypeOK, LogisticsAssumption
<1>1. ASSUME NEW b \in Branches, NEW n \in Quantities,
             LedgerEntry(b, n) \/ LedgerEntry(b, -n) \/ LogDamage(b, n)
      PROVE  \E d \in Int : Book(b, d)
  <2>1. n \in Int /\ -n \in Int
    BY <1>0
  <2> QED
    BY <1>1, <2>1 DEF LedgerEntry, LogDamage
<1>2. ASSUME NEW t \in 1..Len(transfers), NEW s \in TransferStatuses, MoveTransfer(t, s)
      PROVE  \/ UNCHANGED <<stock, odd, booked>>
             \/ \E b \in Branches, d \in Int : Book(b, d)
  <2> DEFINE tr == transfers[t]
  <2>1. tr \in Transfer
    BY <1>0, ElementOfSeq
  <2>2. tr.from \in Branches /\ tr.to \in Branches /\ tr.qty \in Int /\ -tr.qty \in Int
    BY <2>1 DEF Transfer
  <2>3. \/ Book(tr.from, -tr.qty)
        \/ Book(tr.to, tr.qty)
        \/ UNCHANGED <<stock, odd, booked>>
    BY <1>2 DEF MoveTransfer, Dispatch, Arrive
  <2> HIDE DEF tr
  <2> QED
    BY <2>2, <2>3
<1>3. ASSUME \/ \E b \in Branches, n \in Quantities : PlaceOrder(b, n) \/ BeginImport(b, n)
             \/ \E b, c \in Branches, n \in Quantities : RequestTransfer(b, c, n)
             \/ \E o \in 1..Len(orders) :
                  \/ \E s \in OrderStatuses : SetOrderStatus(o, s)
                  \/ ConfirmReceipt(o)
      PROVE  UNCHANGED <<stock, odd, booked>>
  BY <1>3 DEF PlaceOrder, RequestTransfer, SetOrderStatus, ConfirmReceipt, BeginImport, ledger
<1>4. ASSUME NEW m \in imports, EndImport(m)
      PROVE  \E r \in [Branches -> Nat] : SetRows(r) /\ booked' = booked
  <2>1. [m.rows EXCEPT ![m.branch] = m.qty] \in [Branches -> Nat]
    BY <1>0 DEF Import
  <2> QED
    BY <1>4, <2>1 DEF EndImport
<1> QED
  BY <1>1, <1>2, <1>3, <1>4 DEF LogisticsStep

\* A checkout adds one live sale, and takes its units from the branch it is of.
LEMMA RecordExplains ==
  ASSUME LedgerTypeOK, LogisticsTypeOK, TillInv, NEW f \in flights, Record(f),
         UNCHANGED booked
  PROVE  (StockExplained => StockExplained') /\ (DebtsCovered => DebtsCovered')
<1> DEFINE r == SaleOf(f)
<1> DEFINE k == Len(sales) + 1
<1> DEFINE n == Size[f.basket]
<1> DEFINE here == Till[f.user]
<1>1. /\ TillTypeOK /\ ShiftsExist
      /\ sales' = Append(sales, r)
      /\ Post(here, Home[f.user], -n)
      /\ owed' = BalanceAfter(f)
      /\ settled' = settled
  BY DEF TillInv, Record, TakeStock
<1>2. /\ f.basket \in Baskets /\ f.user \in Users /\ f.shift \in Nat
      /\ here \in Branches /\ Home[f.user] \in Branches
      /\ n \in Int /\ -n \in Int
  <2>1. f \in Flight
    BY <1>1 DEF TillTypeOK
  <2>2. f.basket \in Baskets /\ f.user \in Users /\ f.shift \in Nat
    BY <2>1 DEF Flight
  <2>3. /\ here \in Branches /\ Home[f.user] \in Branches /\ n \in Nat
    BY <2>2, RegisterAssumption DEF RegisterAssumption
  <2> HIDE DEF n
  <2>4. n \in Int /\ -n \in Int
    BY <2>3
  <2> QED
    BY <2>2, <2>3, <2>4
<1>3. /\ r \in Sale /\ r.basket = f.basket /\ r.branch = here
      /\ r.live = TRUE /\ r.restored = FALSE
  <2>1. Windows(f) \subseteq Nat
    BY DEF Windows, OwnShifts, ShiftIds
  <2> QED
    BY <1>2, <2>1 DEF SaleOf, Sale
<1> HIDE DEF r
<1>4. /\ SaleIds' = SaleIds \cup {k}
      /\ k \notin SaleIds
      /\ sales'[k] = r
      /\ \A j \in SaleIds : sales'[j] = sales[j]
  BY <1>1, <1>3, SaleAdded
<1> HIDE DEF k
<1>5. Sizes'[k] = n /\ \A j \in SaleIds : Sizes'[j] = Sizes[j]
  BY <1>3, <1>4 DEF Sizes
<1> HIDE DEF n, here
<1>6. ASSUME NEW I \in SUBSET SaleIds
      PROVE  /\ SumFunctionOnSet(Sizes', I) = SumFunctionOnSet(Sizes, I)
             /\ SumFunctionOnSet(Sizes', I \cup {k}) = n + SumFunctionOnSet(Sizes, I)
  <2>1. IsFiniteSet(I) /\ \A i \in I : Sizes[i] \in Int
    BY <1>1, SomeSizes
  <2>2. k \notin I /\ \A i \in I : Sizes'[i] = Sizes[i]
    BY <1>4, <1>5
  <2>3. SumFunctionOnSet(Sizes', I) = SumFunctionOnSet(Sizes, I)
    BY <2>1, <2>2, SumSame
  <2>4. \A i \in I \cup {k} : Sizes'[i] \in Int
    BY <1>2, <1>5, <2>1, <2>2
  <2>5. SumFunctionOnSet(Sizes', I \cup {k}) = Sizes'[k] + SumFunctionOnSet(Sizes', I)
    BY <2>1, <2>2, <2>4, SumAdd
  <2> QED
    BY <1>5, <2>3, <2>5
<1>7. ASSUME StockExplained, NEW b \in Branches \ odd'
      PROVE  Explained(b)'
  <2>1. /\ b \notin odd
        /\ b = here => stock'[b] = stock[b] - n
        /\ b # here => stock'[b] = stock[b]
    <3>1. /\ b \notin odd
          /\ b = here => stock'[b] = stock[b] + (-n)
          /\ b # here => stock'[b] = stock[b]
      BY <1>1, <1>2, PostIsExact
    <3> QED
      BY <1>2, <3>1 DEF LedgerTypeOK
  <2>2. RestoredAt(b) => RestoredAt(b)'
    BY <1>4 DEF RestoredAt
  <2>3. LiveAt(b)' = IF b = here THEN LiveAt(b) \cup {k} ELSE LiveAt(b)
    BY <1>3, <1>4 DEF LiveAt
  <2>4. LiveAt(b) \in SUBSET SaleIds
    BY DEF LiveAt
  <2>5. SumFunctionOnSet(Sizes, LiveAt(b)) \in Int
    BY <1>1, <2>4, SomeSizes
  <2>6. /\ stock[b] \in Int /\ Opening[b] \in Int
        /\ booked[b] \in Int /\ booked'[b] = booked[b]
    BY OpeningAssumption DEF LedgerTypeOK, LogisticsTypeOK, OpeningAssumption
  <2>7. SumFunctionOnSet(Sizes', LiveAt(b)') =
          IF b = here THEN n + SumFunctionOnSet(Sizes, LiveAt(b))
          ELSE SumFunctionOnSet(Sizes, LiveAt(b))
    BY <1>6, <2>3, <2>4
  <2>8. Explained(b)
    BY <1>7, <2>1 DEF StockExplained
  <2>9. CASE RestoredAt(b)
    BY <2>2, <2>9 DEF Explained
  <2>10. CASE ~RestoredAt(b)
    <3>1. stock[b] = Opening[b] + booked[b] - SumFunctionOnSet(Sizes, LiveAt(b))
      BY <2>8, <2>10 DEF Explained
    <3>2. stock'[b] = Opening[b] + booked'[b] - SumFunctionOnSet(Sizes', LiveAt(b)')
      BY <1>2, <2>1, <2>5, <2>6, <2>7, <3>1
    <3> QED
      BY <3>2 DEF Explained
  <2> QED
    BY <2>9, <2>10
<1>8. ASSUME DebtsCovered
      PROVE  DebtsCovered'
  <2>1. Debts' = IF OnCredit[f.basket] THEN Debts \cup {k} ELSE Debts
    BY <1>3, <1>4 DEF Debts
  <2>2. Debts \in SUBSET SaleIds
    BY DEF Debts
  <2>3. SumFunctionOnSet(Sizes', Debts') =
          IF OnCredit[f.basket] THEN n + SumFunctionOnSet(Sizes, Debts)
          ELSE SumFunctionOnSet(Sizes, Debts)
    BY <1>6, <2>1, <2>2
  <2>4. owed' = IF OnCredit[f.basket] THEN owed + n ELSE owed
    BY <1>1 DEF BalanceAfter, n
  <2>5. SumFunctionOnSet(Sizes, Debts) \in Int /\ owed \in Int /\ settled \in Int
    BY <1>1, <2>2, SomeSizes DEF TillTypeOK
  <2> QED
    BY <1>1, <1>2, <1>8, <2>3, <2>4, <2>5 DEF DebtsCovered
<1> QED
  BY <1>7, <1>8 DEF StockExplained

\* Where the sales stay what they were, but for their flags, so do their units.
LEMMA SizesStay ==
  ASSUME SaleIds' = SaleIds, \A i \in SaleIds : sales'[i].basket = sales[i].basket
  PROVE  Sizes' = Sizes
BY DEF Sizes

\* A void takes one live sale out, and gives its units back.  Its debt goes from
\* the balance, or counts as settled if it was there no more.
LEMMA VoidExplains ==
  ASSUME LedgerTypeOK, LogisticsTypeOK, TillInv, NEW i \in SaleIds, Void(i),
         UNCHANGED booked
  PROVE  (StockExplained => StockExplained') /\ (DebtsCovered => DebtsCovered')
<1> DEFINE r == [sales[i] EXCEPT !.live = FALSE]
<1> DEFINE n == Size[sales[i].basket]
<1> DEFINE here == sales[i].branch
<1> DEFINE credit == OnCredit[sales[i].basket]
<1>1. /\ TillTypeOK
      /\ sales[i].live
      /\ sales' = [sales EXCEPT ![i] = r]
      /\ Post(here, here, n)
      /\ owed' = IF credit THEN Floor(owed - n) ELSE owed
      /\ settled' = IF credit /\ sales[i].restored THEN settled + n ELSE settled
  BY DEF TillInv, Void, Voidable
<1>2. sales[i] \in Sale
  BY <1>1, SaleAt
<1>3. /\ r \in Sale /\ r.basket = sales[i].basket /\ r.branch = here
      /\ r.live = FALSE /\ r.restored = sales[i].restored
  BY <1>2 DEF Sale
<1>4. here \in Branches /\ n \in Int /\ n >= 0 /\ Sizes[i] = n
  <2>1. here \in Branches /\ sales[i].basket \in Baskets
    BY <1>2 DEF Sale
  <2>2. n \in Nat
    BY <2>1, RegisterAssumption DEF RegisterAssumption
  <2>3. Sizes[i] = n
    BY DEF Sizes
  <2> QED
    BY <2>1, <2>2, <2>3
<1> HIDE DEF r
<1>5. /\ SaleIds' = SaleIds
      /\ sales'[i] = r
      /\ \A j \in SaleIds : j # i => sales'[j] = sales[j]
  BY <1>1, <1>3, SaleChanged
<1>6. Sizes' = Sizes
  BY <1>3, <1>5, SizesStay
<1> HIDE DEF n, here, credit
<1>7. ASSUME NEW I \in SUBSET SaleIds, i \in I
      PROVE  SumFunctionOnSet(Sizes, I \ {i}) = SumFunctionOnSet(Sizes, I) - n
  <2>1. IsFiniteSet(I) /\ \A j \in I : Sizes[j] \in Int
    BY <1>1, SomeSizes
  <2>2. SumFunctionOnSet(Sizes, I) = n + SumFunctionOnSet(Sizes, I \ {i})
    BY <1>4, <1>7, <2>1, SumRemove
  <2>3. SumFunctionOnSet(Sizes, I \ {i}) \in Int
    BY <1>1, SomeSizes
  <2> QED
    BY <1>4, <2>2, <2>3
<1>8. ASSUME StockExplained, NEW b \in Branches \ odd'
      PROVE  Explained(b)'
  <2>1. /\ b \notin odd
        /\ b = here => stock'[b] = stock[b] + n
        /\ b # here => stock'[b] = stock[b]
    BY <1>1, <1>4, PostIsExact
  <2>2. RestoredAt(b)' <=> RestoredAt(b)
    BY <1>3, <1>5 DEF RestoredAt, here
  <2>3. /\ LiveAt(b)' = IF b = here THEN LiveAt(b) \ {i} ELSE LiveAt(b)
        /\ b = here => i \in LiveAt(b)
    BY <1>1, <1>3, <1>5 DEF LiveAt, here
  <2>4. LiveAt(b) \in SUBSET SaleIds
    BY DEF LiveAt
  <2>5. SumFunctionOnSet(Sizes, LiveAt(b)) \in Int
    BY <1>1, <2>4, SomeSizes
  <2>6. /\ stock[b] \in Int /\ Opening[b] \in Int
        /\ booked[b] \in Int /\ booked'[b] = booked[b]
    BY OpeningAssumption DEF LedgerTypeOK, LogisticsTypeOK, OpeningAssumption
  <2>7. SumFunctionOnSet(Sizes', LiveAt(b)') =
          IF b = here THEN SumFunctionOnSet(Sizes, LiveAt(b)) - n
          ELSE SumFunctionOnSet(Sizes, LiveAt(b))
    BY <1>6, <1>7, <2>3, <2>4
  <2>8. Explained(b)
    BY <1>8, <2>1 DEF StockExplained
  <2>9. CASE RestoredAt(b)
    BY <2>2, <2>9 DEF Explained
  <2>10. CASE ~RestoredAt(b)
    <3>1. stock[b] = Opening[b] + booked[b] - SumFunctionOnSet(Sizes, LiveAt(b))
      BY <2>8, <2>10 DEF Explained
    <3>2. stock'[b] = Opening[b] + booked'[b] - SumFunctionOnSet(Sizes', LiveAt(b)')
      BY <1>4, <2>1, <2>5, <2>6, <2>7, <3>1
    <3> QED
      BY <3>2 DEF Explained
  <2> QED
    BY <2>9, <2>10
<1>9. ASSUME DebtsCovered
      PROVE  DebtsCovered'
  <2>1. /\ Debts' = IF i \in Debts THEN Debts \ {i} ELSE Debts
        /\ i \in Debts <=> credit /\ ~sales[i].restored
    BY <1>1, <1>3, <1>5 DEF Debts, credit
  <2>2. Debts \in SUBSET SaleIds
    BY DEF Debts
  <2>3. SumFunctionOnSet(Sizes', Debts') =
          IF i \in Debts THEN SumFunctionOnSet(Sizes, Debts) - n
          ELSE SumFunctionOnSet(Sizes, Debts)
    BY <1>6, <1>7, <2>1, <2>2
  <2>4. SumFunctionOnSet(Sizes, Debts) \in Int /\ owed \in Int /\ settled \in Int
    BY <1>1, <2>2, SomeSizes DEF TillTypeOK
  <2>5. Floor(owed - n) \in Int /\ Floor(owed - n) >= owed - n
    BY <1>4, <2>4 DEF Floor
  <2> QED
    BY <1>1, <1>4, <1>9, <2>1, <2>3, <2>4, <2>5 DEF DebtsCovered
<1> QED
  BY <1>8, <1>9 DEF StockExplained

\* A restored sale takes its branch out of the account, and owes nothing again.
LEMMA RestoreExplains ==
  ASSUME TillInv, NEW i \in SaleIds, Restore(i), UNCHANGED booked
  PROVE  (StockExplained => StockExplained') /\ (DebtsCovered => DebtsCovered')
<1> DEFINE r == [sales[i] EXCEPT !.live = TRUE, !.restored = TRUE]
<1>1. /\ TillTypeOK
      /\ ~sales[i].live
      /\ sales' = [sales EXCEPT ![i] = r]
      /\ UNCHANGED <<owed, settled, stock, odd>>
  BY DEF TillInv, Restore, ledger
<1>2. sales[i] \in Sale
  BY <1>1, SaleAt
<1>3. /\ r \in Sale /\ r.basket = sales[i].basket /\ r.branch = sales[i].branch
      /\ r.live = TRUE /\ r.restored = TRUE
  BY <1>2 DEF Sale
<1> HIDE DEF r
<1>4. /\ SaleIds' = SaleIds
      /\ sales'[i] = r
      /\ \A j \in SaleIds : j # i => sales'[j] = sales[j]
  BY <1>1, <1>3, SaleChanged
<1>5. Sizes' = Sizes
  BY <1>3, <1>4, SizesStay
<1>6. ASSUME NEW b, Explained(b)
      PROVE  Explained(b)'
  <2>1. RestoredAt(b)' <=> RestoredAt(b) \/ b = sales[i].branch
    BY <1>3, <1>4 DEF RestoredAt
  <2>2. b # sales[i].branch => LiveAt(b)' = LiveAt(b)
    BY <1>3, <1>4 DEF LiveAt
  <2> QED
    BY <1>1, <1>5, <1>6, <2>1, <2>2 DEF Explained
<1>7. Debts' = Debts
  BY <1>1, <1>3, <1>4 DEF Debts
<1> QED
  BY <1>1, <1>5, <1>6, <1>7 DEF StockExplained, DebtsCovered

\* A document moves the stock by what it books, at its branch alone.
LEMMA DocumentExplains ==
  ASSUME LedgerTypeOK, LogisticsTypeOK, TillInv, UNCHANGED <<sales, owed, settled>>,
         NEW c \in Branches, NEW d \in Int, Book(c, d)
  PROVE  (StockExplained => StockExplained') /\ (DebtsCovered => DebtsCovered')
<1>1. Sizes' = Sizes /\ Debts' = Debts
  BY DEF Sizes, Debts, SaleIds
<1>2. \A b : LiveAt(b)' = LiveAt(b) /\ RestoredAt(b)' = RestoredAt(b)
  BY DEF LiveAt, RestoredAt, SaleIds
<1>3. ASSUME StockExplained, NEW b \in Branches \ odd'
      PROVE  Explained(b)'
  <2>1. /\ b \notin odd
        /\ b = c => stock'[b] = stock[b] + d
        /\ b # c => stock'[b] = stock[b]
    BY PostIsExact DEF Book
  <2>2. booked'[b] = IF b = c THEN booked[b] + d ELSE booked[b]
    BY DEF Book, LogisticsTypeOK
  <2>3. stock[b] \in Int /\ Opening[b] \in Int /\ booked[b] \in Int
    BY OpeningAssumption DEF LedgerTypeOK, LogisticsTypeOK, OpeningAssumption
  <2>4. SumFunctionOnSet(Sizes, LiveAt(b)) \in Int
    <3>1. TillTypeOK /\ LiveAt(b) \in SUBSET SaleIds
      BY DEF TillInv, LiveAt
    <3> QED
      BY <3>1, SomeSizes
  <2>5. Explained(b)
    BY <1>3, <2>1 DEF StockExplained
  <2>6. SumFunctionOnSet(Sizes', LiveAt(b)') = SumFunctionOnSet(Sizes, LiveAt(b))
    BY <1>1, <1>2
  <2>7. CASE RestoredAt(b)
    BY <1>2, <2>7 DEF Explained
  <2>8. CASE ~RestoredAt(b)
    <3>1. stock[b] = Opening[b] + booked[b] - SumFunctionOnSet(Sizes, LiveAt(b))
      BY <2>5, <2>8 DEF Explained
    <3>2. stock'[b] = Opening[b] + booked'[b] - SumFunctionOnSet(Sizes', LiveAt(b)')
      BY <2>1, <2>2, <2>3, <2>4, <2>6, <3>1
    <3> QED
      BY <3>2 DEF Explained
  <2> QED
    BY <2>7, <2>8
<1> QED
  BY <1>1, <1>3 DEF StockExplained, DebtsCovered

\* Rows that are set without a document take their branches out of the account.
LEMMA SetRowsExplains ==
  ASSUME LedgerTypeOK, UNCHANGED <<sales, owed, settled, booked>>,
         NEW r \in [Branches -> Nat], SetRows(r)
  PROVE  (StockExplained => StockExplained') /\ (DebtsCovered => DebtsCovered')
<1>1. Sizes' = Sizes /\ Debts' = Debts
  BY DEF Sizes, Debts, SaleIds
<1>2. \A b : LiveAt(b)' = LiveAt(b) /\ RestoredAt(b)' = RestoredAt(b)
  BY DEF LiveAt, RestoredAt, SaleIds
<1>3. \A b \in Branches \ odd' : b \notin odd /\ stock'[b] = stock[b]
  BY DEF SetRows
<1> QED
  BY <1>1, <1>2, <1>3 DEF StockExplained, Explained, DebtsCovered

\* Every other step leaves sales, stock and bookings alone, and the member's
\* account, unless the member pays.
LEMMA QuietStep ==
  ASSUME TillInv, SalesStay, UNCHANGED <<stock, odd, booked>>,
         \/ UNCHANGED <<owed, settled>>
         \/ \E n \in Payments : Pay(n)
  PROVE  (StockExplained => StockExplained') /\ (DebtsCovered => DebtsCovered')
<1>1. Sizes' = Sizes /\ Debts' = Debts
  BY DEF Sizes, Debts, SalesStay
<1>2. \A b : LiveAt(b)' = LiveAt(b) /\ RestoredAt(b)' = RestoredAt(b)
  BY DEF LiveAt, RestoredAt, SalesStay
<1>3. StockExplained => StockExplained'
  BY <1>1, <1>2 DEF StockExplained, Explained
<1>4. CASE UNCHANGED <<owed, settled>>
  BY <1>1, <1>3, <1>4 DEF DebtsCovered
<1>5. ASSUME NEW n \in Payments, Pay(n)
      PROVE  DebtsCovered => DebtsCovered'
  <2>1. owed' = Floor(owed - n) /\ settled' = settled + n
    BY <1>5 DEF Pay
  <2>2. n \in Nat /\ owed \in Nat /\ settled \in Nat
    BY RegisterAssumption DEF RegisterAssumption, TillInv, TillTypeOK
  <2>3. SumFunctionOnSet(Sizes, Debts) \in Int
    <3>1. TillTypeOK /\ Debts \in SUBSET SaleIds
      BY DEF TillInv, Debts
    <3> QED
      BY <3>1, SomeSizes
  <2>4. owed' + settled' >= owed + settled
    BY <2>1, <2>2 DEF Floor
  <2>5. owed' + settled' \in Int
    BY <2>1, <2>2 DEF Floor
  <2> QED
    BY <1>1, <2>2, <2>3, <2>4, <2>5 DEF DebtsCovered
<1> QED
  BY <1>3, <1>4, <1>5

-----------------------------------------------------------------------------
(* The theorems *)

\* The invariant is the ledger's, the documents' and the point of sale's.
LEMMA Parts == IInv <=> LedgerInv /\ LogisticsTypeOK /\ TillInv
BY DEF IInv, TypeOK, LedgerInv, TillInv, TillTypeOK

\* What is unchanged keeps its invariant.
LEMMA TillStays ==
  ASSUME TillInv, UNCHANGED till
  PROVE  TillInv'
<1>1. UNCHANGED <<user, open, where, flights, sales, shifts, owed, settled,
                  slipped, disturbed, strayed>>
  BY DEF till
<1>2. TillTypeOK'
  BY <1>1 DEF TillInv, TillTypeOK
<1>3. ShiftsExist'
  BY <1>1, ShiftsStay
<1>4. SoldOnce' /\ DrawerMatchesReport' /\ CreditWithinLimit'
  BY <1>1, BooksStay
<1>5. OneAtTheTill' /\ FlightHoldsItsBasket' /\ SoldIsGone'
  BY <1>1, BasketsStay DEF SaleIds
<1>6. CreditWasSeen'
  BY <1>1, CreditSeenStays DEF TillInv, TillTypeOK
<1> QED
  BY <1>2, <1>3, <1>4, <1>5, <1>6 DEF TillInv

\* A day that has not begun.
LEMMA InitWorks == Init => IInv
<1> SUFFICES ASSUME Init PROVE IInv
  OBVIOUS
<1>1. LedgerInit /\ RegisterInit /\ LogisticsInit
  BY DEF Init
<1>2. LedgerInv
  BY <1>1, OpeningAssumption
     DEF LedgerInit, LedgerInv, LedgerTypeOK, StockIsLedger, OpeningAssumption, NoEntry
<1>3. LogisticsTypeOK
  <2>1. <<>> \in Seq(Transfer) /\ <<>> \in Seq(Order)
    BY EmptySeq
  <2> QED
    BY <1>1, <2>1, LogisticsAssumption DEF LogisticsInit, LogisticsTypeOK, LogisticsAssumption
<1>4. SaleIds = {} /\ ShiftIds = {}
  <2>1. sales = <<>> /\ shifts = <<>>
    BY <1>1 DEF RegisterInit
  <2> QED
    BY <2>1 DEF SaleIds, ShiftIds
<1>5. TillTypeOK
  <2>1. <<>> \in Seq(Sale) /\ <<>> \in Seq(Shift)
    BY EmptySeq
  <2> QED
    BY <1>1, <2>1 DEF RegisterInit, TillTypeOK, Places
<1>6. ShiftsExist /\ OneAtTheTill /\ FlightHoldsItsBasket /\ SoldIsGone /\ SoldOnce
      /\ DrawerMatchesReport /\ CreditWasSeen
  BY <1>1, <1>4 DEF RegisterInit, ShiftsExist, OneAtTheTill, FlightHoldsItsBasket,
                    SoldIsGone, SoldOnce, DrawerMatchesReport, CreditWasSeen
<1>7. CreditWithinLimit
  BY <1>1, RegisterAssumption DEF RegisterInit, CreditWithinLimit, RegisterAssumption
<1>8. TillInv
  BY <1>5, <1>6, <1>7 DEF TillInv
<1> QED
  BY <1>2, <1>3, <1>8, Parts

\* Every step keeps the invariant.
LEMMA StepWorks == IInv /\ [Next]_vars => IInv'
<1> SUFFICES ASSUME IInv, [Next]_vars
             PROVE  LedgerInv' /\ LogisticsTypeOK' /\ TillInv'
  BY DEF IInv, TypeOK, LedgerInv, TillInv, TillTypeOK
<1>0. LedgerInv /\ LogisticsTypeOK /\ TillInv
  BY Parts
<1>1. ASSUME UNCHANGED logistics PROVE LogisticsTypeOK'
  <2>1. UNCHANGED <<docs, booked, transfers, orders, imports>>
    BY <1>1 DEF logistics
  <2> QED
    BY <1>0, <2>1 DEF LogisticsTypeOK
<1>2. CASE RegisterStep /\ UNCHANGED logistics
  BY <1>0, <1>1, <1>2, RegisterKeepsLedger, RegisterKeepsTill
<1>3. CASE LogisticsStep /\ UNCHANGED till
  BY <1>0, <1>3, LogisticsKeepsLedger, TillStays
<1>6. CASE EditStep /\ UNCHANGED till
  BY <1>0, <1>6, EditKeepsLedger, TillStays DEF TillInv, TillTypeOK
<1>4. CASE \E b \in Branches : Expire(b) /\ UNCHANGED <<till, stock, moved, odd, logistics>>
  <2>1. PICK b \in Branches : Expire(b) /\ UNCHANGED <<till, stock, moved, odd, logistics>>
    BY <1>4
  <2>2. LedgerInv'
    BY <1>0, <2>1 DEF Expire, LedgerInv, LedgerTypeOK, StockIsLedger
  <2> QED
    BY <1>0, <1>1, <2>1, <2>2, TillStays
<1>5. CASE UNCHANGED vars
  <2>1. UNCHANGED till /\ UNCHANGED ledger /\ UNCHANGED logistics
    BY <1>5 DEF vars
  <2>2. LedgerInv'
    BY <1>0, <2>1, LedgerStays DEF LedgerInv
  <2> QED
    BY <1>0, <1>1, <2>1, <2>2, TillStays
<1> QED
  BY <1>2, <1>3, <1>4, <1>5, <1>6 DEF Next

\* The inductive invariant holds in every reachable state: it relates baskets,
\* checkouts under way, sales, shifts, stock and credit.
THEOREM Invariant == Spec => []IInv
BY InitWorks, StepWorks, PTL DEF Spec

\* The terminal's state has the types its declarations give it.
THEOREM TypeCorrect == Spec => []TypeOK
<1>1. IInv => TypeOK
  BY DEF IInv
<1> QED
  BY <1>1, Invariant, PTL

\* The double-entry ledger balances wherever no row stopped at zero, no sale was
\* filed for another branch, and no import or edit by a user without a branch set
\* a row without a movement: checkouts, voids, transfers, damages, ledger entries
\* and the other edits always post both sides.
THEOREM LedgerBalances == Spec => []StockIsLedger
<1>1. IInv => StockIsLedger
  BY DEF IInv
<1> QED
  BY <1>1, Invariant, PTL

\* No interleaving of clientCheckout with holding, resuming, cancelling, leaving
\* and opening the page sells a basket twice that did not leave during its checkout.
THEOREM BasketsAreSoldOnce == Spec => []SoldOnce
<1>1. IInv => SoldOnce
  BY DEF IInv
<1> QED
  BY <1>1, Invariant, PTL

\* The drawer agrees with the report of its shift where nothing changed behind it.
THEOREM DrawersMatchReports == Spec => []DrawerMatchesReport
<1>1. IInv => DrawerMatchesReport
  BY DEF IInv
<1> QED
  BY <1>1, Invariant, PTL

\* The member's credit stays within its limit as long as no page was left in the
\* middle of a credit checkout, although checkoutSale reads the balance at the click.
THEOREM CreditStaysWithinLimit == Spec => []CreditWithinLimit
<1>1. IInv => CreditWithinLimit
  BY DEF IInv
<1> QED
  BY <1>1, Invariant, PTL

\* Every step keeps stock and credit explained.
LEMMA StepExplains ==
  ASSUME IInv, [Next]_vars
  PROVE  (StockExplained => StockExplained') /\ (DebtsCovered => DebtsCovered')
<1>0. LedgerTypeOK /\ LogisticsTypeOK /\ TillInv
  BY Parts DEF LedgerInv
<1>1. CASE RegisterStep /\ UNCHANGED logistics
  <2>1. UNCHANGED booked
    BY <1>1 DEF logistics
  <2>2. CASE SalesStay /\ UNCHANGED <<stock, odd, owed, settled>>
    BY <1>0, <2>1, <2>2, QuietStep
  <2>3. CASE \E f \in flights : Record(f)
    BY <1>0, <2>1, <2>3, RecordExplains
  <2>4. CASE \E i \in SaleIds : Void(i) \/ Restore(i)
    BY <1>0, <2>1, <2>4, VoidExplains, RestoreExplains
  <2>5. CASE \E n \in Payments : Pay(n)
    <3>1. SalesStay /\ UNCHANGED <<stock, odd>>
      BY <2>5 DEF Pay, ledger, SalesStay, SaleIds
    <3> QED
      BY <1>0, <2>1, <2>5, <3>1, QuietStep
  <2> QED
    BY <1>0, <1>1, <2>2, <2>3, <2>4, <2>5, RegisterKinds DEF TillInv
<1>2. CASE (LogisticsStep \/ EditStep) /\ UNCHANGED till
  <2>1. SalesStay /\ UNCHANGED <<sales, owed, settled>>
    BY <1>2 DEF till, SalesStay, SaleIds
  <2>2. CASE UNCHANGED <<stock, odd, booked>>
    BY <1>0, <2>1, <2>2, QuietStep
  <2>3. CASE \E b \in Branches, d \in Int : Book(b, d)
    BY <1>0, <2>1, <2>3, DocumentExplains
  <2>4. CASE \E r \in [Branches -> Nat] : SetRows(r) /\ booked' = booked
    BY <1>0, <2>1, <2>4, SetRowsExplains
  <2>5. user \in Users
    BY <1>0 DEF TillInv, TillTypeOK
  <2> QED
    BY <1>0, <1>2, <2>2, <2>3, <2>4, <2>5, LogisticsKinds, EditKinds
<1>3. CASE \/ \E b \in Branches : Expire(b) /\ UNCHANGED <<till, stock, moved, odd, logistics>>
           \/ UNCHANGED vars
  <2>1. SalesStay /\ UNCHANGED <<stock, odd, booked, owed, settled>>
    BY <1>3 DEF vars, till, ledger, logistics, SalesStay, SaleIds
  <2> QED
    BY <1>0, <2>1, QuietStep
<1> QED
  BY <1>1, <1>2, <1>3 DEF Next

\* A day that has not begun has no sales to explain.
LEMMA NothingToExplain == Init => StockExplained /\ DebtsCovered
<1> SUFFICES ASSUME Init PROVE StockExplained /\ DebtsCovered
  OBVIOUS
<1>1. LedgerInit /\ RegisterInit /\ LogisticsInit
  BY DEF Init
<1>2. SaleIds = {}
  <2>1. sales = <<>>
    BY <1>1 DEF RegisterInit
  <2> QED
    BY <2>1 DEF SaleIds
<1>3. Debts = {} /\ \A b : LiveAt(b) = {}
  BY <1>2 DEF Debts, LiveAt
<1>4. SumFunctionOnSet(Sizes, Debts) = 0 /\ \A b : SumFunctionOnSet(Sizes, LiveAt(b)) = 0
  BY <1>3, SumEmpty
<1>5. \A b \in Branches : Explained(b)
  BY <1>1, <1>4, OpeningAssumption
     DEF Explained, LedgerInit, LogisticsInit, OpeningAssumption
<1> QED
  BY <1>1, <1>4, <1>5 DEF RegisterInit, StockExplained, DebtsCovered

\* Stock is what the documents booked and the live sales took: checkoutSale takes
\* each sale's units once and voidSale gives them back once, whatever comes between.
THEOREM SalesExplainTheStock == Spec => []SalesExplainStock
<1>1. Init => StockExplained
  BY NothingToExplain
<1>2. StockExplained /\ IInv /\ [Next]_vars => StockExplained'
  BY StepExplains
<1>3. Spec => []StockExplained
  BY <1>1, <1>2, Invariant, PTL DEF Spec
<1>4. StockExplained => SalesExplainStock
  BY InOtherWords
<1> QED
  BY <1>3, <1>4, PTL

\* Balance and payments cover the credit sales that are owed for, whatever the
\* order of checkouts, voids, restorations and payments.
THEOREM DebtsAreKept == Spec => []CreditIsOwed
<1>1. Init => DebtsCovered
  BY NothingToExplain
<1>2. DebtsCovered /\ IInv /\ [Next]_vars => DebtsCovered'
  BY StepExplains
<1>3. Spec => []DebtsCovered
  BY <1>1, <1>2, Invariant, PTL DEF Spec
<1>4. DebtsCovered => CreditIsOwed
  BY InOtherWords
<1> QED
  BY <1>3, <1>4, PTL

=============================================================================
