--------------------------- MODULE ServerSession ---------------------------
(***************************************************************************)
(* The database server as libtabula's transaction code uses it: what one   *)
(* statement sent through Query::execute() does to the session and to the  *)
(* table, and what the caller learns of it.  The server is not part of     *)
(* libtabula; this is MySQL's documented behaviour for a transactional     *)
(* storage engine.                                                         *)
(*                                                                         *)
(* A session is a record:                                                  *)
(*   alive   the connection to the server is up                            *)
(*   inTxn   a transaction is open                                         *)
(*   staged  the rows inserted by the open transaction                     *)
(*   table   the rows that are in the database for good                    *)
(***************************************************************************)
EXTENDS Sequences

FreshSession == [alive |-> TRUE, inTxn |-> FALSE, staged |-> <<>>, table |-> <<>>]

(* The open transaction is thrown away, or made durable.                   *)
RolledBack(s) == [s EXCEPT !.inTxn = FALSE, !.staged = <<>>]
Committed(s) == [s EXCEPT !.inTxn = FALSE, !.staged = <<>>, !.table = @ \o s.staged]

(* The server drops the session and with it the open transaction.          *)
Lost(s) == [RolledBack(s) EXCEPT !.alive = FALSE]

(* START TRANSACTION commits a transaction that is open.                   *)
Started(s) == [Committed(s) EXCEPT !.inTxn = TRUE]

(* INSERT: outside a transaction the rows are durable at once.             *)
Inserted(s, rows) ==
  IF s.inTxn THEN [s EXCEPT !.staged = @ \o rows]
             ELSE [s EXCEPT !.table = @ \o rows]

(* What can become of a statement whose effect on session s is to make it  *)
(* t: it works; it is refused, and then perhaps (a deadlock) with the      *)
(* whole transaction; the connection is lost before the server got it, or  *)
(* after, so that the answer is.  START TRANSACTION, COMMIT and ROLLBACK   *)
(* are refused like the others: by the server, or by the client library,   *)
(* which sends nothing behind a use() with rows that were not read.        *)
Outcomes(s, t) ==
  IF ~s.alive THEN {[session |-> s, ok |-> FALSE]}
  ELSE {[session |-> t, ok |-> TRUE],
        [session |-> s, ok |-> FALSE],
        [session |-> RolledBack(s), ok |-> FALSE],
        [session |-> Lost(s), ok |-> FALSE],
        [session |-> Lost(t), ok |-> FALSE]}

(* A statement that failed in a session that lives on.                     *)
RefusedAlive(r) == ~r.ok /\ r.session.alive

(* The client library opens a new session before it sends a statement, if  *)
(* the ReconnectOption is set and the old session is gone.                 *)
Reopened(s, reconnect) == IF reconnect THEN [s EXCEPT !.alive = TRUE] ELSE s
=============================================================================
