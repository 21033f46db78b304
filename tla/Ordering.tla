------------------------------ MODULE Ordering ------------------------------
(***************************************************************************)
(* Rows by their sequence numbers, calls by their positions: in order.     *)
(***************************************************************************)
EXTENDS Naturals, FiniteSets

\* ORDER BY sequence, of rows given by their sequence numbers.
InOrder(rows) ==
  CHOOSE order \in [1 .. Cardinality(rows) -> rows] :
    \A i, j \in 1 .. Cardinality(rows) : i < j => order[i] < order[j]
=============================================================================
