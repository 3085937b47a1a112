------------------------------ MODULE Grouping ------------------------------
(***************************************************************************)
(* GROUP BY and SUM over a finite set of rows: the size of each group of   *)
(* rows that share a key, and the sum of a table of numbers, taken in any  *)
(* order.                                                                  *)
(***************************************************************************)
EXTENDS Integers, Sequences, FiniteSets, SequencesExt

\* For each key of the rows, how many of them have it.
GroupSizes(rows, key) ==
  [k \in {key[row] : row \in rows} |-> Cardinality({row \in rows : key[row] = k})]

\* The sum of a table's entries.
Total(table) ==
  LET order == SetToSeq(DOMAIN table)
      sum[n \in 0 .. Cardinality(DOMAIN table)] ==
        IF n = 0 THEN 0 ELSE sum[n - 1] + table[order[n]]
  IN  sum[Cardinality(DOMAIN table)]
=============================================================================
