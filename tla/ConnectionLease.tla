-------------------------- MODULE ConnectionLease --------------------------
(***************************************************************************)
(* What libtabula's ConnectionPool promises the threads that share it: a   *)
(* connection is with at most one borrower, and only its borrower can give *)
(* it back or throw it away.  The pool itself may destroy a connection     *)
(* only while nobody has it.  ConnectionPool.tla implements this module.   *)
(***************************************************************************)
CONSTANTS Threads, \* the borrowers
          Conns,   \* addresses at which a Connection object can live
          Idle,    \* owner of a connection that waits in the pool
          Gone     \* owner of an address at which no connection lives

VARIABLE owner

TypeOK == owner \in [Conns -> Threads \cup {Idle, Gone}]

Init == owner = [c \in Conns |-> Gone]

IdleConns == {c \in Conns : owner[c] = Idle}

(* The owners once the connections of S are destroyed. *)
Without(S) == [c \in Conns |-> IF c \in S THEN Gone ELSE owner[c]]

(* Idle connections can be destroyed at any time. *)
Reap == \E S \in SUBSET IdleConns : owner' = Without(S)

(* t borrows an idle connection; others may be destroyed on the way. *)
Lend(t) == \E S \in SUBSET IdleConns : \E c \in IdleConns \ S :
              owner' = [Without(S) EXCEPT ![c] = t]

(* t borrows a connection made for it. *)
Make(t) == \E c \in Conns : owner[c] = Gone /\ owner' = [owner EXCEPT ![c] = t]

(* t returns a connection it has, or has it destroyed. *)
GiveBack(t) == \E c \in Conns : owner[c] = t /\ owner' = [owner EXCEPT ![c] = Idle]

Discard(t) == \E c \in Conns : owner[c] = t /\ owner' = [owner EXCEPT ![c] = Gone]

(* The pool is destroyed, and every connection with it. *)
Close == owner' = [c \in Conns |-> Gone]

Next == \/ Reap
        \/ \E t \in Threads : Lend(t) \/ Make(t) \/ GiveBack(t) \/ Discard(t)
        \/ Close

Spec == Init /\ [][Next]_owner
=============================================================================
