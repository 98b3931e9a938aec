---------------------------- MODULE UnitsOfWork ----------------------------
(***************************************************************************)
(* What Transaction objects are for, with exceptions on and one of them at *)
(* a time: the rows that are inserted between the making of an object and  *)
(* its commit() reach the table together, once, while nothing else does,   *)
(* and the table has the transactions in the order they were begun.  Only  *)
(* the last object made can still work and store; the others are history,  *)
(* whatever is called on them.  A program that breaks the rules is         *)
(* promised nothing any more.                                              *)
(***************************************************************************)
EXTENDS Naturals, Sequences

VARIABLES made,    \* the rows inserted for each object
          commits, \* the objects commit() was called on
          table,   \* the durable rows, each the number of its object
          strict   \* the program has kept the rules

Init == made = <<>> /\ commits = {} /\ table = <<>> /\ strict = TRUE

Last == Len(made)
Stored(id) == \E k \in 1..Len(table) : table[k] = id
Unit(id) == [k \in 1..made[id] |-> id]

(* An object is made. *)
Begin == /\ made' = Append(made, 0)
         /\ UNCHANGED <<commits, table>>

(* A row is inserted. *)
Work == /\ made # <<>> /\ ~Stored(Last)
        /\ made' = [made EXCEPT ![Last] = @ + 1]
        /\ UNCHANGED <<commits, table>>

(* commit() is called, and works or fails; it may have worked even if the  *)
(* caller sees it fail. *)
Commit(id) ==
  /\ commits' = commits \cup {id}
  /\ \/ UNCHANGED table
     \/ id = Last /\ ~Stored(id) /\ table' = table \o Unit(id)
  /\ UNCHANGED made

(* The program breaks the rules. *)
Break == strict' = FALSE

Next == \/ /\ strict /\ UNCHANGED strict
           /\ Begin \/ Work \/ \E id \in 1..Last : Commit(id)
        \/ Break

Spec == Init /\ [][Next]_<<made, commits, table, strict>>
=============================================================================
