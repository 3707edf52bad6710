------------------------------ MODULE MCStore ------------------------------
(* Instances of Store for TLC. *)
EXTENDS Store

CONSTANTS b1, b2, cashier, owner

\* The cashier works at b1.  The owner has no branch: shifts and movements go to
\* the default branch, the page sells from the first branch of the list.
MCOpening == [b \in Branches |-> IF b = b1 THEN 4 ELSE 1]
MCHome == [u \in Users |-> b1]
MCTill == [u \in Users |-> IF u = owner THEN b2 ELSE b1]

\* Two baskets, the first of which is bought on credit and takes the whole limit.
MCSize == [k \in Baskets |-> IF k = 1 THEN 2 ELSE 1]
MCOnCredit == [k \in Baskets |-> k = 1]

\* Beyond one basket, one shift and one checkout at a time, a history has one
\* of: a second basket, a second shift, a second checkout, documents; or both a
\* second basket and a second shift, as long as the page stays open and nothing
\* is restored or paid off.
Extras ==
  Cardinality({n \in 1..4 :
    \/ n = 1 /\ where[2] # "new"
    \/ n = 2 /\ Len(shifts) > 1
    \/ n = 3 /\ Cardinality(flights) > 1
    \/ n = 4 /\ docs > 0})
TwoDays ==
  /\ open
  /\ Cardinality(flights) <= 1
  /\ docs = 0
  /\ settled = 0
  /\ \A i \in SaleIds : ~sales[i].restored

\* The extras of the owner but for one document, slips before a second shift, and
\* documents beside several sales, a payment, a restored sale, a second import or a
\* page that is left are cut off too.
Budget ==
  /\ Extras <= 1 \/ TwoDays
  /\ user = owner => Extras = 0 \/ docs = 1
  /\ Len(shifts) > 1 => slipped = {}
  /\ docs > 0 =>
       /\ open
       /\ settled = 0
       /\ \A i \in SaleIds : ~sales[i].restored
       /\ Len(sales) + Cardinality(flights) <= 1
  /\ imports # {} => docs = 1

=============================================================================
