----------------------------- MODULE Logistics -----------------------------
(***************************************************************************)
(* What moves stock outside the point of sale: ledger entries, damage      *)
(* logs, transfers between branches and purchase orders, of                *)
(* src/src/context/modules/useDbOperationsModule.ts, and product edits and *)
(* imports, of useDbProductsModule.ts, as the inventory, procurement and   *)
(* transmittal pages call them.  Each is one synchronous handler, but for  *)
(* the import.  Deleting, restoring and editing a document sets a flag or  *)
(* a note that no operation reads, and is left out.                        *)
(***************************************************************************)
EXTENDS StockLedger, Sequences

CONSTANTS
  Quantities, \* the quantities users type in
  MaxDocs     \* bound: documents written

ASSUME LogisticsAssumption == Quantities \subseteq Nat \ {0} /\ MaxDocs \in Nat

VARIABLES
  docs,      \* how many documents have been written
  booked,    \* history: booked[b] is what the documents have moved at b
  transfers, \* stockTransfers
  orders,    \* purchaseOrders with the one line (poItems) of the tile
  imports    \* imports between the click and importProducts

logistics == <<docs, booked, transfers, orders, imports>>

TransferStatuses == {"Pending", "Approved", "In Transit", "Received", "Cancelled"}
Transfer == [from : Branches, to : Branches, qty : Nat \ {0},
             status : TransferStatuses]
OrderStatuses == {"Pending", "Approved", "Partially Received", "Completed", "Cancelled"}
Order == [branch : Branches, qty : Nat \ {0}, status : OrderStatuses]
Import == [branch : Branches, qty : Quantities, rows : [Branches -> Nat]]

Write == docs < MaxDocs /\ docs' = docs + 1

\* A document that moves d units at b: movement and stock row together.
Book(b, d) == Post(b, b, d) /\ booked' = [booked EXCEPT ![b] = @ + d]

\* createManualLedgerEntry: an entry of type OUT or SALE is negative.
LedgerEntry(b, d) ==
  /\ Write
  /\ Book(b, d)
  /\ UNCHANGED <<transfers, orders, imports, entry>>

\* updateProduct with a new quantity.  The row is that of the user's branch or of
\* "B1".  The movement names the user's branch: for a user who has none, none.
EditProduct(b, assigned, d) ==
  /\ Write
  /\ \/ assigned /\ Book(b, d)
     \/ ~assigned /\ SetRows([stock EXCEPT ![b] = Floor(@ + d)]) /\ booked' = booked
  /\ UNCHANGED <<transfers, orders, imports, entry>>

\* executeBulkImport and executeLocalImport await before they call importProducts,
\* whose closure has the stock rows of the click.
BeginImport(b, n) ==
  /\ Write
  /\ imports' = imports \cup {[branch |-> b, qty |-> n, rows |-> stock]}
  /\ UNCHANGED <<booked, transfers, orders, ledger>>

\* importProducts: all rows as they were at the click, the imported one with its
\* new quantity, and no movement.
EndImport(m) ==
  /\ imports' = imports \ {m}
  /\ SetRows([m.rows EXCEPT ![m.branch] = m.qty])
  /\ UNCHANGED <<docs, booked, transfers, orders, entry>>

\* createDamageLog.
LogDamage(b, n) ==
  /\ Write
  /\ Book(b, -n)
  /\ UNCHANGED <<transfers, orders, imports, entry>>

-----------------------------------------------------------------------------
(* Transfers *)

\* createStockTransfer: a request; nothing is reserved.
RequestTransfer(b, c, n) ==
  /\ Write
  /\ b # c
  /\ transfers' = Append(transfers, [from |-> b, to |-> c, qty |-> n,
                                     status |-> "Pending"])
  /\ UNCHANGED <<booked, orders, imports, ledger>>

\* Leaving "Pending" for "Approved" or "In Transit" takes the stock at the source.
Dispatches(tr, s) == tr.status = "Pending" /\ s \in {"Approved", "In Transit"}
Dispatch(tr) == Book(tr.from, -tr.qty)

\* Any change to "Received" adds it at the destination.
Arrives(tr, s) == tr.status # "Received" /\ s = "Received"
Arrive(tr) == Book(tr.to, tr.qty)

\* updateStockTransferStatus, the exported operation: no change gives back.
MoveTransfer(t, s) ==
  LET tr == transfers[t]
  IN  /\ Write
      /\ transfers' = [transfers EXCEPT ![t].status = s]
      /\ \/ Dispatches(tr, s) /\ Dispatch(tr)
         \/ Arrives(tr, s) /\ Arrive(tr)
         \/ /\ ~Dispatches(tr, s)
            /\ ~Arrives(tr, s)
            /\ UNCHANGED <<stock, moved, odd, booked>>
      /\ UNCHANGED <<orders, imports, entry>>

-----------------------------------------------------------------------------
(* Purchase orders *)

\* createPurchaseOrder
PlaceOrder(b, n) ==
  /\ Write
  /\ orders' = Append(orders, [branch |-> b, qty |-> n, status |-> "Pending"])
  /\ UNCHANGED <<booked, transfers, imports, ledger>>

\* updatePurchaseOrderStatus
SetOrderStatus(o, s) ==
  /\ Write
  /\ orders' = [orders EXCEPT ![o].status = s]
  /\ UNCHANGED <<booked, transfers, imports, ledger>>

\* handleConfirmReceipt of the procurement page, and receivePurchaseOrderItems,
\* which looks the keys of the page's map up as product ids.  The keys are ids
\* of order lines: no line counts as received, no stock row of a tile changes,
\* and the row and the movement that are made belong to the line's id.
ConfirmReceipt(o) ==
  /\ Write
  /\ orders' = [orders EXCEPT ![o].status = "Partially Received"]
  /\ UNCHANGED <<booked, transfers, imports, ledger>>

-----------------------------------------------------------------------------

LogisticsInit ==
  /\ docs = 0
  /\ booked = [b \in Branches |-> 0]
  /\ transfers = <<>>
  /\ orders = <<>>
  /\ imports = {}

LogisticsTypeOK ==
  /\ docs \in 0..MaxDocs
  /\ booked \in [Branches -> Int]
  /\ transfers \in Seq(Transfer)
  /\ orders \in Seq(Order)
  /\ imports \subseteq Import

LogisticsStep ==
  \/ \E b \in Branches, n \in Quantities :
       \/ LedgerEntry(b, n)
       \/ LedgerEntry(b, -n)
       \/ LogDamage(b, n)
       \/ BeginImport(b, n)
       \/ PlaceOrder(b, n)
  \/ \E b, c \in Branches, n \in Quantities : RequestTransfer(b, c, n)
  \/ \E t \in 1..Len(transfers), s \in TransferStatuses : MoveTransfer(t, s)
  \/ \E o \in 1..Len(orders) :
       \/ \E s \in OrderStatuses : SetOrderStatus(o, s)
       \/ ConfirmReceipt(o)
  \/ \E m \in imports : EndImport(m)

=============================================================================
