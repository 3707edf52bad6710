---------------------------- MODULE StockLedger ----------------------------
(***************************************************************************)
(* The two records TilePoint keeps of the stock of a tile: the quantity in *)
(* the branch's stock row (branchStock) and the list of movements, the     *)
(* "double-entry stock ledger".  Every operation of useDbOperationsModule   *)
(* and useDbProductsModule (src/src/context/modules) that changes one of   *)
(* them does so by Post or by SetRows.                                     *)
(*                                                                         *)
(* One tile is followed: operations on several tiles do the same to each.  *)
(* Every branch has a stock row, so the catalogue's own stockQuantity,     *)
(* which stands in for a missing row, is not read and is left out.  The    *)
(* list of movements is abstracted to its sum per branch.                  *)
(***************************************************************************)
EXTENDS Integers, FiniteSets

CONSTANTS
  Branches,  \* the stores and warehouses
  Opening    \* Opening[b]: what branch b holds when the ledger starts

ASSUME OpeningAssumption == Opening \in [Branches -> Nat]

VARIABLES
  stock,  \* branchStock[b].quantity
  moved,  \* the sum of the movements filed for b
  odd,    \* history: branches whose ledger is off, for a reason named below
  entry   \* optimisticStockCacheRef: the figure of b's last sale, for 60 s

ledger == <<stock, moved, odd, entry>>

\* No sale of the last 60 seconds left an entry.
NoEntry == -1

\* Math.max(0, n)
Floor(n) == IF n > 0 THEN n ELSE 0

\* Faulty variants of Post: the movement is lost; the row goes below zero.
PostUnfiled(b, f, d) ==
  /\ stock' = [stock EXCEPT ![b] = Floor(@ + d)]
  /\ moved' = moved
  /\ odd' = odd \cup (IF stock[b] + d < 0 THEN {b} ELSE {})
                \cup (IF b # f THEN {b, f} ELSE {})

PostUnfloored(b, f, d) ==
  /\ stock' = [stock EXCEPT ![b] = @ + d]
  /\ moved' = [moved EXCEPT ![f] = @ + d]
  /\ odd' = odd \cup (IF b # f THEN {b, f} ELSE {})

\* The stock row of b changes by d, and a movement of d units is filed for the
\* branch f.  The row stops at zero while the movement carries the whole of d,
\* and f need not be b: these are two ways the ledger goes off.
Post(b, f, d) ==
  /\ stock' = [stock EXCEPT ![b] = Floor(@ + d)]
  /\ moved' = [moved EXCEPT ![f] = @ + d]
  /\ odd' = odd \cup (IF stock[b] + d < 0 THEN {b} ELSE {})
                \cup (IF b # f THEN {b, f} ELSE {})

\* The third: the rows become r, and no movement is filed for any branch.
SetRows(r) ==
  /\ stock' = r
  /\ moved' = moved
  /\ odd' = odd \cup {b \in Branches : r[b] # stock[b]}

\* The entry of b is 60 seconds old.
Expire(b) ==
  /\ entry[b] # NoEntry
  /\ entry' = [entry EXCEPT ![b] = NoEntry]

LedgerInit ==
  /\ stock = Opening
  /\ moved = [b \in Branches |-> 0]
  /\ odd = {}
  /\ entry = [b \in Branches |-> NoEntry]

LedgerTypeOK ==
  /\ stock \in [Branches -> Nat]
  /\ moved \in [Branches -> Int]
  /\ odd \subseteq Branches
  /\ entry \in [Branches -> Nat \cup {NoEntry}]

\* "Double-Entry Stock Ledger: Immutable transaction logging for every sale,
\* purchase receiving, manual adjustment, damage write-off, and inter-branch
\* transfer": the quantity on the stock row is the opening figure plus the
\* movements, at every branch where no deduction was cut off at zero, no sale was
\* filed for another branch, and no import or edit changed a row without filing.
StockIsLedger == \A b \in Branches \ odd : stock[b] = Opening[b] + moved[b]

=============================================================================
