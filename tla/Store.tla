------------------------------- MODULE Store -------------------------------
(***************************************************************************)
(* One terminal of a store: its point of sale (Register) and its stock     *)
(* documents (Logistics) over one stock ledger, before any synchronisation *)
(* with the server.  The properties relate what the parts keep of the same *)
(* facts: stock and movements, sales and drawers, sales and credit.        *)
(***************************************************************************)
EXTENDS Register, Logistics, Functions

vars == <<till, ledger, logistics>>

Init == LedgerInit /\ RegisterInit /\ LogisticsInit

\* The inventory page edits for the user who is signed in.
EditStep ==
  \E n \in Quantities : \E d \in {n, -n} :
    EditProduct(Home[user], user \in Assigned, d)

Next ==
  \/ RegisterStep /\ UNCHANGED logistics
  \/ LogisticsStep /\ UNCHANGED till
  \/ EditStep /\ UNCHANGED till
  \/ \E b \in Branches : Expire(b) /\ UNCHANGED <<till, stock, moved, odd, logistics>>

Spec == Init /\ [][Next]_vars

-----------------------------------------------------------------------------
(* Properties *)

\* What the sales in I sold together.
Units(I) == SumFunctionOnSet([i \in SaleIds |-> Size[sales[i].basket]], I)

\* Every variable has the values the type declarations give it.
TypeOK ==
  /\ LedgerTypeOK
  /\ LogisticsTypeOK
  /\ user \in Users
  /\ open \in BOOLEAN
  /\ where \in [Baskets -> Places]
  /\ flights \subseteq Flight
  /\ sales \in Seq(Sale)
  /\ shifts \in Seq(Shift)
  /\ owed \in Nat
  /\ settled \in Nat
  /\ slipped \subseteq Baskets
  /\ disturbed \subseteq Nat
  /\ strayed \in BOOLEAN

\* "Locked to this register to prevent double records": a basket becomes one
\* sale however often it is parked and resumed, unless it left the page in the
\* middle of its own checkout.
SoldOnce ==
  \A i, j \in SaleIds :
    sales[i].basket = sales[j].basket /\ sales[i].basket \notin slipped => i = j

\* Every sale takes its stock once and a void gives it back once: what a branch
\* holds is its opening stock, what the documents booked and what its live sales
\* took.  Left out are branches where the ledger is off, and those with a
\* restored sale, which is live again without taking its stock again.
SalesExplainStock ==
  \A b \in Branches \ odd :
    LET at == {i \in SaleIds : sales[i].branch = b}
    IN  (\A i \in at : ~sales[i].restored) =>
          stock[b] = Opening[b] + booked[b] - Units({i \in at : sales[i].live})

\* The counters of a shift agree with its report, and what was counted into the
\* drawer at its closing too, unless sales changed behind them: voided by
\* another user or after the closing, restored, recorded by a checkout that
\* outlived its shift, or left behind by the closing time of an automatic closing.
DrawerMatchesReport ==
  \A s \in ShiftIds \ disturbed :
    /\ shifts[s].count = Cardinality(Report(s))
    /\ ~shifts[s].open => shifts[s].cashed = Cardinality(Report(s))

\* The balance never exceeds the limit, although checkoutSale compares the total
\* with the balance of the click, two awaits earlier: while the page stays open
\* isCheckingOut lets no second credit sale begin before the first has ended, and
\* nothing else raises the balance.  A page left in the middle of a credit checkout
\* is excepted: the next page does not see that checkout, and the two add up.
CreditWithinLimit == ~strayed => owed <= Limit

\* No interleaving of checkouts, voids and payments forgives a debt: balance
\* and payments cover the live credit sales that were never restored.
CreditIsOwed ==
  Units({i \in SaleIds : /\ OnCredit[sales[i].basket]
                         /\ sales[i].live
                         /\ ~sales[i].restored}) <= owed + settled

-----------------------------------------------------------------------------
(* The inductive invariant *)

\* Sales and checkouts name shifts that exist, and a checkout its user's own.
ShiftsExist ==
  /\ \A f \in flights : f.shift \in ShiftIds /\ shifts[f.shift].cashier = f.user
  /\ \A i \in SaleIds : ShiftsOf(i) \subseteq ShiftIds

\* isCheckingOut: the mounted page has one checkout under way at most.
OneAtTheTill == \A f, g \in flights : ~f.orphan /\ ~g.orphan => f = g

\* While it has not slipped, a basket under checkout is in the cart of the page
\* that runs the checkout, or gone, and no second checkout has it.
FlightHoldsItsBasket ==
  \A f \in flights : f.basket \notin slipped =>
    /\ where[f.basket] \in {"cart", "gone"}
    /\ f.orphan => where[f.basket] = "gone"
    /\ \A g \in flights : g.basket = f.basket => g = f

\* While it has not slipped, a basket that is sold cannot be paid again.
SoldIsGone ==
  \A i \in SaleIds : sales[i].basket \notin slipped =>
    where[sales[i].basket] = "gone" /\ ~InFlight(sales[i].basket)

\* Until a page is left in the middle of one, a credit checkout is the page's own,
\* and it saw at least what the member owes now.
CreditWasSeen ==
  ~strayed => \A f \in flights : OnCredit[f.basket] => ~f.orphan /\ owed <= f.balance

IInv ==
  /\ TypeOK
  /\ StockIsLedger
  /\ ShiftsExist
  /\ OneAtTheTill
  /\ FlightHoldsItsBasket
  /\ SoldIsGone
  /\ SoldOnce
  /\ DrawerMatchesReport
  /\ CreditWithinLimit
  /\ CreditWasSeen

=============================================================================
