---------------------------- MODULE AtomicInsert ----------------------------
(***************************************************************************)
(* What Query::insertfrom() is for, with its default access controller:    *)
(* the rows of a container reach the table all together, once and in       *)
(* order, or none of them does.  A caller that sees it return has them in  *)
(* the table; an exception may leave it in doubt.                          *)
(***************************************************************************)
CONSTANT Rows

VARIABLES table,   \* the durable rows
          outcome  \* "running", then "returned" or "thrown"

Init == table = <<>> /\ outcome = "running"

Store == /\ outcome = "running" /\ table = <<>>
         /\ table' = Rows
         /\ UNCHANGED outcome

Return == /\ outcome = "running" /\ table = Rows
          /\ outcome' = "returned"
          /\ UNCHANGED table

Throw == /\ outcome = "running"
         /\ outcome' = "thrown"
         /\ table' \in {table, Rows}

Next == Store \/ Return \/ Throw

Spec == Init /\ [][Next]_<<table, outcome>>
=============================================================================
