----------------------------- MODULE KeyedTable -----------------------------
(***************************************************************************)
(* What the warehouse promises of one source, whatever versions, hashes    *)
(* and statements it takes: a table with one row per business key, to      *)
(* which deliveries are applied one at a time, as a whole or not at all.   *)
(* A row is a pair of a key and a content.  A closing delivery says all    *)
(* there is; any other one says nothing of the keys it lacks.              *)
(*                                                                         *)
(* README.md:262-275.  Module CoreSync implements it.                      *)
(***************************************************************************)
VARIABLES
    table,    \* the current rows
    pending   \* the deliveries that are not yet applied, at most one

vars == <<table, pending>>

OneRowPerKey(rows) == \A x, y \in rows : x[1] = y[1] => x = y

Init ==
    /\ table = {}
    /\ pending = {}

Deliver ==
    /\ pending = {}
    /\ \E d \in pending' :
         /\ pending' = {d}
         /\ OneRowPerKey(d.rows)
    /\ UNCHANGED table

(* The rows that a delivery says nothing of.                               *)
Untouched(d) == {x \in table : \A y \in d.rows : x[1] # y[1]}

Apply ==
    /\ \E d \in pending :
         table' = d.rows \cup (IF d.closing THEN {} ELSE Untouched(d))
    /\ pending' = {}

Discard ==
    /\ pending # {}
    /\ pending' = {}
    /\ UNCHANGED table

Next == Deliver \/ Apply \/ Discard

Spec == Init /\ [][Next]_vars
=============================================================================
