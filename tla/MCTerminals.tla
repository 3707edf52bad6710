---------------------------- MODULE MCTerminals ----------------------------
(* Instances of Terminals for TLC. *)
EXTENDS Terminals, FiniteSets

CONSTANTS t1, t2, g1

MCTables == {"sales", "stock"}

Late(t, i) ==
  \E r \in wire : /\ r.t = t /\ ~Awaited(r)
                  /\ r.kind = box[t][i].kind /\ r.sale = box[t][i].sale

\* Packages that were tried without success, whose request is late, or whose sale a
\* reload has taken off the list.
Troubled(t) ==
  {i \in DOMAIN box[t] :
     LET p == box[t][i]
     IN  \/ Late(t, i)
         \/ /\ p.st # "completed"
            /\ \/ p.try > IF i = cur[t] THEN 1 ELSE 0
               \/ p.kind = "checkout" /\ mine[t][p.sale] = "none"}

Logs == {r \in wire : r.kind = "log"}
Extras == Cardinality(voided) + Cardinality(Troubled(t1)) + Cardinality(Troubled(t2))
Sales == Len(sold) + Cardinality({t \in Terminals : click[t] # None})

\* Histories with two sales and no package tried twice, and histories with one sale
\* and two of: a void, a checkout that failed, was refused, interrupted by a
\* reload, or is late.  The terminals are alike: t1 makes the first sale.  Every
\* conjunct is left by a step of a user or a failure only, to which no fairness
\* applies.
Budget ==
  /\ Sales <= 2
  /\ Sales = 2 => /\ Extras = 0 /\ Cardinality(Logs) <= 1
                  /\ \A t \in Terminals : \A i \in DOMAIN box[t] : box[t][i].try <= 1
  /\ Len(sold) > 0 => sold[1] = t1
  /\ Extras > 0 => Sales = Len(sold) /\ \A t \in Terminals : entry[t] = None
  /\ Extras <= 2
  /\ Extras = 2 => box[t2] = <<>>
  /\ \A t \in Terminals : \A i \in Troubled(t) : box[t][i].kind = "checkout" /\ Logs = {}

=============================================================================
