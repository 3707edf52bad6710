------------------------------ MODULE Register ------------------------------
(***************************************************************************)
(* The point of sale of one terminal: the baskets of                       *)
(* src/src/components/PosModule.tsx and the sales, shifts and credit of    *)
(* src/src/context/modules/useDbOperationsModule.ts.                       *)
(*                                                                         *)
(* clientCheckout awaits a delay and a request before it records the sale, *)
(* and it goes on with the values its closure captured at the click.  It   *)
(* is therefore two actions, BeginCheckout and one of its ends, and        *)
(* everything the terminal offers may happen between them.  The page may   *)
(* even be left and opened again: a new component knows nothing of the     *)
(* checkout the old one still runs.                                        *)
(*                                                                         *)
(* A basket is a number; its lines are abstracted to the units of the one  *)
(* tile StockLedger follows, and its total is their number.                *)
(***************************************************************************)
EXTENDS StockLedger, Sequences

CONSTANTS
  Users,      \* cashiers and managers; floor staff cannot check out
  Assigned,   \* the users with a branch assignment
  Home,       \* Home[u]: that branch, "B1" if there is none
  Till,       \* Till[u]: activePosBranchId, the branch the page sells from
  Baskets,    \* 1..n, the baskets customers bring
  Size,       \* Size[k]: units in the basket, and its grand total
  OnCredit,   \* OnCredit[k]: paid by "Member Credit" of the one member
  Limit,      \* Member.creditLimit
  MaxSales,   \* bound: sales recorded or being recorded
  MaxShifts,  \* bound: shifts opened
  MaxFlights, \* bound: checkouts under way at a time
  MaxRestored, \* bound: sales restored after a void
  Payments    \* the amounts the member pays

ASSUME RegisterAssumption ==
  /\ Branches \cap {"new", "cart", "gone"} = {}
  /\ Assigned \subseteq Users
  /\ Home \in [Users -> Branches]
  /\ Till \in [Users -> Branches]
  /\ Baskets \subseteq Nat
  /\ IsFiniteSet(Baskets)
  /\ Size \in [Baskets -> Nat \ {0}]
  /\ OnCredit \in [Baskets -> BOOLEAN]
  /\ Limit \in Nat
  /\ MaxSales \in Nat
  /\ MaxShifts \in Nat
  /\ MaxFlights \in Nat
  /\ MaxRestored \in Nat
  /\ Payments \subseteq Nat \ {0}

VARIABLES
  user,      \* currentUser
  open,      \* the point-of-sale page is mounted
  where,     \* where[k]: not brought yet, in the cart, parked at a branch, gone
  flights,   \* the checkouts between the click and their end
  sales,     \* sales, in order of creation
  shifts,    \* shifts, in order of opening
  owed,      \* Member.outstandingBalance
  settled,   \* history: payments of the member, and credit given back twice
  slipped,   \* history: baskets that left the page during their checkout
  disturbed, \* history: shifts whose sales changed without their counters
  strayed    \* history: the page was left in the middle of a credit checkout

till == <<user, open, where, flights, sales, shifts, owed, settled,
          slipped, disturbed, strayed>>

Sale == [basket : Baskets, branch : Branches, cashier : Users,
         shift : Nat, during : SUBSET Nat,
         live : BOOLEAN, restored : BOOLEAN]
Shift == [cashier : Users, branch : Branches, open : BOOLEAN,
          count : Nat, cashed : Nat]
Flight == [slot : 1..MaxFlights, basket : Baskets, user : Users, shift : Nat, seen : Nat,
           balance : Nat, known : Nat, orphan : BOOLEAN]
Places == {"new", "cart", "gone"} \cup Branches

SaleIds == 1..Len(sales)
ShiftIds == 1..Len(shifts)
InCart(k) == where[k] = "cart"
CartEmpty == \A k \in Baskets : ~InCart(k)
InFlight(k) == \E f \in flights : f.basket = k
OwnShifts(u) == {s \in ShiftIds : shifts[s].open /\ shifts[s].cashier = u}

\* Faulty variant of IsCheckingOut: the flag is never set.
NeverCheckingOut == FALSE

\* isCheckingOut of the mounted page: the pages before it took theirs along.
IsCheckingOut == \E f \in flights : ~f.orphan

-----------------------------------------------------------------------------
(* Baskets *)

\* addToCart on an empty cart, up to what the branch has in stock.
Fill(k) ==
  /\ open
  /\ CartEmpty
  /\ where[k] = "new"
  /\ \A j \in Baskets : where[j] = "new" => j >= k
  /\ Size[k] <= stock[Till[user]]
  /\ where' = [where EXCEPT ![k] = "cart"]
  /\ UNCHANGED <<user, open, flights, sales, shifts, owed, settled, slipped,
                 disturbed, strayed, ledger>>

\* A basket that leaves the page while its checkout is under way is not stopped
\* from being paid again.
Slip(K) == slipped' = slipped \cup {k \in K : InFlight(k)}

\* handleHold: park the basket and clear the cart.  The F3 key does not ask
\* isCheckingOut.
Hold(k) ==
  /\ open
  /\ InCart(k)
  /\ where' = [where EXCEPT ![k] = Till[user]]
  /\ Slip({k})
  /\ UNCHANGED <<user, open, flights, sales, shifts, owed, settled,
                 disturbed, strayed, ledger>>

\* handleResume: the basket goes from the queue to the cart, and what the cart
\* held is parked.  resumeParkedSale refuses what is no longer in the queue.
Resume(k) ==
  /\ open
  /\ where[k] = Till[user]
  /\ where' = [j \in Baskets |-> IF j = k THEN "cart"
                                 ELSE IF InCart(j) THEN Till[user] ELSE where[j]]
  /\ Slip({j \in Baskets : InCart(j)})
  /\ UNCHANGED <<user, open, flights, sales, shifts, owed, settled,
                 disturbed, strayed, ledger>>

\* handleCancelSale, by the F1 key or the button.
Cancel(k) ==
  /\ open
  /\ InCart(k)
  /\ where' = [where EXCEPT ![k] = "gone"]
  /\ UNCHANGED <<user, open, flights, sales, shifts, owed, settled, slipped,
                 disturbed, strayed, ledger>>

\* The page is unmounted: its checkouts go on as orphans.  The cart stays in
\* localStorage (tp_active_cart).
Leave ==
  /\ open
  /\ open' = FALSE
  /\ flights' = {[f EXCEPT !.orphan = TRUE] : f \in flights}
  /\ Slip({k \in Baskets : InCart(k)})
  /\ strayed' = (strayed \/ \E f \in flights : OnCredit[f.basket])
  /\ UNCHANGED <<user, where, sales, shifts, owed, settled, disturbed, ledger>>

\* The page is mounted: it finds the cart in localStorage.
Return ==
  /\ ~open
  /\ open' = TRUE
  /\ UNCHANGED <<user, where, flights, sales, shifts, owed, settled, slipped,
                 disturbed, strayed, ledger>>

\* Another user signs in at this terminal, from the login page.
SignIn(u) ==
  /\ ~open
  /\ u # user
  /\ user' = u
  /\ UNCHANGED <<open, where, flights, sales, shifts, owed, settled, slipped,
                 disturbed, strayed, ledger>>

-----------------------------------------------------------------------------
(* Shifts *)

\* getShiftReportStats: the live sales that name the shift, and those of its
\* cashier and branch that fall between its opening and its closing.
Report(s) ==
  {i \in SaleIds : sales[i].live /\ (sales[i].shift = s \/ s \in sales[i].during)}

\* openShift, which refuses a second open shift of the same user.
OpenShift ==
  /\ OwnShifts(user) = {}
  /\ Len(shifts) < MaxShifts
  /\ shifts' = Append(shifts, [cashier |-> user, branch |-> Home[user],
                               open |-> TRUE, count |-> 0, cashed |-> 0])
  /\ UNCHANGED <<user, open, where, flights, sales, owed, settled, slipped,
                 disturbed, strayed, ledger>>

\* The shifts S closed, those of R with counters taken from the report.
Closed(S, R) ==
  [s \in ShiftIds |->
     IF s \notin S THEN shifts[s]
     ELSE [cashier |-> shifts[s].cashier, branch |-> shifts[s].branch, open |-> FALSE,
           count |-> IF s \in R THEN Cardinality(Report(s)) ELSE shifts[s].count,
           cashed |-> Cardinality(Report(s))]]

Close(S, R) ==
  /\ shifts' = Closed(S, R)
  /\ disturbed' = disturbed \ R
  /\ UNCHANGED <<user, open, where, flights, sales, owed, settled, slipped, strayed, ledger>>

\* closeShift
CloseShift ==
  \E s \in OwnShifts(user) : Close({s}, {s})

\* The shifts of S that lose sale i of another shift when each ends before the
\* sale cut[s].
CutOff(S, cut, i) == {s \in S \ {sales[i].shift} : i >= cut[s]}

\* The effect that closes the shifts of earlier days: those opened up to s.  The
\* counters are those of the report so far, and the closing time is the midnight
\* after the opening: the report loses the later sales of other shifts.
AutoClose(s) ==
  LET stale == {t \in 1..s : shifts[t].open}
  IN  /\ stale # {}
      /\ shifts' = Closed(stale, stale)
      /\ \E cut \in [stale -> 1..(Len(sales) + 1)] :
           /\ sales' = [i \in SaleIds |->
                [sales[i] EXCEPT !.during = @ \ CutOff(stale, cut, i)]]
           /\ disturbed' = (disturbed \ stale) \cup
                {t \in stale : \E i \in Report(t) : t \in CutOff(stale, cut, i)}
      /\ UNCHANGED <<user, open, where, flights, owed, settled, slipped, strayed, ledger>>

\* forceCloseAllShifts keeps the counters as they are.
ForceClose ==
  LET all == {s \in ShiftIds : shifts[s].open}
  IN  all # {} /\ Close(all, {})

-----------------------------------------------------------------------------
(* Checkout *)

\* What the closure of clientCheckout captures at the click: the shift, the
\* stock row, the balance and the list of sales.  The slot is only a name.
Click(n, k, s) ==
  [slot |-> n, basket |-> k, user |-> user, shift |-> s,
   seen |-> stock[Till[user]], balance |-> owed, known |-> Len(sales),
   orphan |-> FALSE]

\* The lowest slot no checkout under way has.
FreeSlot(n) ==
  /\ \A f \in flights : f.slot # n
  /\ \A m \in 1..(n - 1) : \E f \in flights : f.slot = m

\* clientCheckout up to its first await: an active shift is needed.
BeginCheckout(k) ==
  /\ open
  /\ InCart(k)
  /\ ~IsCheckingOut
  /\ Len(sales) + Cardinality(flights) < MaxSales
  /\ \E n \in 1..MaxFlights, s \in OwnShifts(user) :
       FreeSlot(n) /\ flights' = flights \cup {Click(n, k, s)}
  /\ UNCHANGED <<user, open, where, sales, shifts, owed, settled, slipped,
                 disturbed, strayed, ledger>>

\* The end of a checkout without a sale: the server has too little stock, or
\* checkoutSale throws.  setIsCheckingOut(false) reaches only its own page.
Abandon(f) ==
  /\ flights' = flights \ {f}
  /\ UNCHANGED <<user, open, where, sales, shifts, owed, settled, slipped,
                 disturbed, strayed, ledger>>

\* handleCancelSale at the end of a checkout empties the cart of its own page,
\* whatever that holds by now, or what the next page would find in storage.
ClearsCart(f) == f.orphan => ~open
ClearedCart(f) ==
  [k \in Baskets |-> IF InCart(k) /\ ClearsCart(f) THEN "gone" ELSE where[k]]

\* The idempotency key: user, shift, contents and a block of ten seconds.
SameKey(i, f) ==
  /\ i <= f.known
  /\ sales[i].cashier = f.user
  /\ sales[i].shift = f.shift
  /\ Size[sales[i].basket] = Size[f.basket]

\* checkoutSale returns the sale it finds under the same key, within the ten
\* seconds, and the page clears the cart as after a sale.
Duplicate(f) ==
  /\ \E i \in SaleIds : SameKey(i, f)
  /\ flights' = flights \ {f}
  /\ where' = ClearedCart(f)
  /\ UNCHANGED <<user, open, sales, shifts, owed, settled, slipped,
                 disturbed, strayed, ledger>>

\* getBranchStockQuantityContext: the entry, read now, before the row, read at
\* the click.
Available(f) == IF entry[Till[f.user]] # NoEntry THEN entry[Till[f.user]] ELSE f.seen

\* The credit guard, on the balance read at the click.
CreditAllows(f) == OnCredit[f.basket] => Size[f.basket] <= Limit - f.balance

\* Faulty variant of BalanceAfter: the closure's balance is written back.
BalanceAfterStale(f) ==
  IF OnCredit[f.basket] THEN f.balance + Size[f.basket] ELSE owed

\* The functional update of the member's balance.
BalanceAfter(f) ==
  IF OnCredit[f.basket] THEN owed + Size[f.basket] ELSE owed

\* The shifts whose window holds a sale made now.
Windows(f) ==
  {s \in OwnShifts(f.user) : shifts[s].branch = Till[f.user]}

\* The record of the sale: its shift is the one the closure saw.
SaleOf(f) ==
  [basket |-> f.basket, branch |-> Till[f.user], cashier |-> f.user,
   shift |-> f.shift, during |-> Windows(f), live |-> TRUE, restored |-> FALSE]

\* The stock row, the movement (filed for the cashier's own branch), and the
\* optimistic entry, which revalidateStockCounts brings to the row.
TakeStock(f) ==
  /\ Post(Till[f.user], Home[f.user], -Size[f.basket])
  /\ entry' = [entry EXCEPT ![Till[f.user]] = stock'[Till[f.user]]]

\* The counter of the shift the closure saw, open or not.
CountSale(f) ==
  /\ shifts' = [shifts EXCEPT ![f.shift].count = @ + 1]
  /\ disturbed' = disturbed \cup (Windows(f) \ {f.shift})
                   \cup (IF shifts[f.shift].open THEN {} ELSE {f.shift})

\* checkoutSale: its guards, and all it records; then the page clears the cart.
Record(f) ==
  /\ Available(f) >= Size[f.basket]
  /\ CreditAllows(f)
  /\ sales' = Append(sales, SaleOf(f))
  /\ TakeStock(f)
  /\ CountSale(f)
  /\ owed' = BalanceAfter(f)
  /\ flights' = flights \ {f}
  /\ where' = ClearedCart(f)
  /\ UNCHANGED <<user, open, settled, slipped, strayed>>

-----------------------------------------------------------------------------
(* Voids, restorations and payments *)

\* The shifts whose report holds the sale.
ShiftsOf(i) == {sales[i].shift} \cup sales[i].during

\* Faulty variant of Voidable: the ledger page offers it for voided sales too.
VoidableAgain(i) == i \in SaleIds
Voidable(i) == sales[i].live

\* Faulty variant of CountedShifts: the user's shift, whatever the sale's is.
CountedShiftsOfUser(i) == IF i \in SaleIds THEN OwnShifts(user) ELSE {}

\* The shift whose counter a void takes down: the user's own, if it made the sale.
CountedShifts(i) == OwnShifts(user) \cap {sales[i].shift}

\* voidSale, offered for sales that are not deleted: stock and movement return
\* to the branch that sold; the counter follows only in the user's own shift.
Void(i) ==
  LET n == Size[sales[i].basket]
      b == sales[i].branch
      own == CountedShifts(i)
  IN  /\ Voidable(i)
      /\ sales' = [sales EXCEPT ![i].live = FALSE]
      /\ Post(b, b, n)
      /\ shifts' = [s \in ShiftIds |->
           IF s \in own THEN [shifts[s] EXCEPT !.count = Floor(@ - 1)] ELSE shifts[s]]
      /\ disturbed' = disturbed \cup (ShiftsOf(i) \ own)
      /\ owed' = IF OnCredit[sales[i].basket] THEN Floor(owed - n) ELSE owed
      /\ settled' = IF OnCredit[sales[i].basket] /\ sales[i].restored
                    THEN settled + n ELSE settled
      /\ UNCHANGED <<user, open, where, flights, slipped, strayed, entry>>

\* restoreSale, from the archives: the flag alone is cleared; neither stock nor
\* movement nor counter nor balance follows.  Bound: once for each sale.
Restore(i) ==
  /\ ~sales[i].live
  /\ ~sales[i].restored
  /\ Cardinality({j \in SaleIds : sales[j].restored}) < MaxRestored
  /\ sales' = [sales EXCEPT ![i].live = TRUE, ![i].restored = TRUE]
  /\ disturbed' = disturbed \cup ShiftsOf(i)
  /\ UNCHANGED <<user, open, where, flights, shifts, owed, settled, slipped, strayed, ledger>>

\* handleProcessPayment: the member pays, at most down to zero.
Pay(n) ==
  /\ owed > 0
  /\ owed' = Floor(owed - n)
  /\ settled' = settled + n
  /\ UNCHANGED <<user, open, where, flights, sales, shifts, slipped, disturbed,
                 strayed, ledger>>

-----------------------------------------------------------------------------

RegisterInit ==
  /\ user \in Users
  /\ open = TRUE
  /\ where = [k \in Baskets |-> "new"]
  /\ flights = {}
  /\ sales = <<>>
  /\ shifts = <<>>
  /\ owed = 0
  /\ settled = 0
  /\ slipped = {}
  /\ disturbed = {}
  /\ strayed = FALSE

PageStep ==
  \/ \E k \in Baskets : Fill(k) \/ Hold(k) \/ Resume(k) \/ Cancel(k) \/ BeginCheckout(k)
  \/ Leave
  \/ Return
  \/ \E u \in Users : SignIn(u)
  \/ \E f \in flights : Abandon(f) \/ Duplicate(f) \/ Record(f)

ShiftStep ==
  \/ OpenShift
  \/ CloseShift
  \/ \E s \in ShiftIds : AutoClose(s)
  \/ ForceClose

SaleStep ==
  \/ \E i \in SaleIds : Void(i) \/ Restore(i)
  \/ \E n \in Payments : Pay(n)

RegisterStep == PageStep \/ ShiftStep \/ SaleStep

=============================================================================
