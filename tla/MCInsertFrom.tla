---------------------------- MODULE MCInsertFrom ----------------------------
(* Instances of InsertFrom: three rows of uneven size, every policy with   *)
(* limits from "takes nothing" to "takes everything".                      *)
EXTENDS InsertFrom

MCRowSize == <<3, 1, 2>>

CallsWith(controllers, queryThrows, connThrows) ==
  UNION { [policy : {p},
           limit : IF p = "RowCount" THEN 0..4 ELSE {0, 4, 6, 8, 11, 15, 19},
           controller : controllers, queryThrows : queryThrows,
           connThrows : connThrows, reconnect : BOOLEAN] : p \in Policies }

EveryCall == CallsWith(Controllers, BOOLEAN, BOOLEAN)

=============================================================================
