--------------------------- MODULE ClientProtocol ---------------------------
(***************************************************************************)
(* MySQL's C API as libtabula's driver uses it to run a statement and get  *)
(* at its results.  The C API is not part of libtabula; this is its        *)
(* documented protocol: one statement at a time on a connection, and the   *)
(* next only when all the results of the last have been taken.             *)
(*                                                                         *)
(* The answer to a statement is a sequence, one element per statement of a *)
(* multi-statement or result of a stored procedure: a result set and its   *)
(* number of rows, a success without a result set, or a refusal, which is  *)
(* always the last.  A session is a record:                                *)
(*   status  ready; a result set is waiting to be stored or used (result); *)
(*           one is being read row by row (use)                            *)
(*   rows    the size of the result set that is waiting                    *)
(*   left    the part of the answer that is still to come                  *)
(*   errnum  what mysql_errno() says                                       *)
(*   up      the connection has not been lost                              *)
(***************************************************************************)
EXTENDS Naturals, Sequences

ResultSet(n) == [kind |-> "rows", rows |-> n]
Done == [kind |-> "done", rows |-> 0]
Refusal == [kind |-> "refusal", rows |-> 0]
AnswerParts == [kind : {"rows"}, rows : Nat] \cup [kind : {"done", "refusal"}, rows : {0}]

Errors == {"none", "refused", "sync", "gone", "lost"}

FreshSession == [status |-> "ready", rows |-> 0, left |-> <<>>, errnum |-> "none",
                 up |-> TRUE]

Ok(s) == s.errnum = "none"

Failed(s, error) == [s EXCEPT !.errnum = error]

(* The connection breaks while the library waits for the server.           *)
Lost(s) == [s EXCEPT !.status = "ready", !.left = <<>>, !.errnum = "lost", !.up = FALSE]

(* The first element of an answer arrives.                                 *)
Answered(s, answer) ==
  [s EXCEPT !.status = IF Head(answer).kind = "rows" THEN "result" ELSE "ready",
            !.rows = Head(answer).rows,
            !.left = Tail(answer),
            !.errnum = IF Head(answer) = Refusal THEN "refused" ELSE "none"]

(* mysql_real_query()                                                      *)
RealQuery(s, answer) ==
  IF ~s.up THEN Failed(s, "gone")
  ELSE IF s.status # "ready" \/ s.left # <<>> THEN Failed(s, "sync")
  ELSE Answered(s, answer)

MoreResults(s) == s.left # <<>>

(* mysql_next_result(), and its return code                                *)
NextResult(s) ==
  IF s.status # "ready" THEN Failed(s, "sync")
  ELSE IF ~MoreResults(s) THEN Failed(s, "none")
  ELSE Answered(s, s.left)

NextCode(s) ==
  IF ~Ok(NextResult(s)) THEN "nr_error"
  ELSE IF MoreResults(s) THEN "nr_more_results"
  ELSE "nr_last_result"

(* mysql_store_result() reads the whole set off the wire, or loses the     *)
(* connection; where none waits it returns a null pointer and changes      *)
(* nothing.                                                                *)
StoreResult(s) ==
  IF s.status = "result"
  THEN {[s EXCEPT !.status = "ready", !.rows = 0], [Lost(s) EXCEPT !.rows = 0]}
  ELSE {s}

(* mysql_use_result() starts reading, mysql_free_result() throws away what *)
(* is left of the set, the last mysql_fetch_row() ends it.                 *)
UseResult(s) == [s EXCEPT !.status = "use", !.rows = 0]
Flushed(s) == [s EXCEPT !.status = "ready"]
=============================================================================
