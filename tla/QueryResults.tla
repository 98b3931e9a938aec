---------------------------- MODULE QueryResults ----------------------------
(***************************************************************************)
(* A Query that is no template, on one Connection: its statement buffer,   *)
(* its calls execute(), store(), use() and store_next(), and the result    *)
(* objects they return, which share the C API's result sets by reference   *)
(* counting and outlive the call in whatever order the program likes.      *)
(*                                                                         *)
(* Rows are counted, not represented.  A MYSQL_RES and the ResultImpl that *)
(* holds it have one owner chain and are one "handle" here.                *)
(***************************************************************************)
EXTENDS Integers, FiniteSets, ClientProtocol

CONSTANTS
  Objects,  \* the program's StoreQueryResult and UseQueryResult variables
  Handles,  \* addresses for MYSQL_RES
  Answers,  \* what the server may answer to a well-formed statement
  MaxText,  \* bound on the pieces of text written into one buffer
  None

ASSUME QueryAssumption ==
  /\ IsFiniteSet(Objects) /\ IsFiniteSet(Handles)
  /\ Cardinality(Handles) >= Cardinality(Objects)
  /\ MaxText \in Nat \ {0}
  /\ None \notin Handles
  /\ Answers \subseteq Seq(AnswerParts) \ {<<>>}
  /\ \A a \in Answers : \A i \in DOMAIN a : a[i] = Refusal => i = Len(a)

VARIABLES
  throws,   \* the exception flags of the driver and of the Query
  text,     \* the statements written into the buffer since it was reset
  good,     \* Query::copacetic_
  session,  \* the C API's side of the connection
  res,      \* each MYSQL_RES: references, rows, rows taken, still being read
  obj,      \* each result object: class, handle, StoreQueryResult::copacetic_
  ret       \* the last call, and how it came back

vars == <<throws, text, good, session, res, obj, ret>>

Free == [refs |-> 0, rows |-> 0, taken |-> 0, open |-> FALSE]
Unborn == [class |-> "none", handle |-> None, good |-> FALSE]

Outcomes == {"ok", "empty", "row", "end",
             "BadQuery", "UseQueryError", "ObjectNotInitialized"}

TypeOK ==
  /\ throws \in [driver : BOOLEAN, query : BOOLEAN]
  /\ text \in 0..MaxText
  /\ good \in BOOLEAN
  /\ session.status \in {"ready", "result", "use"} /\ session.errnum \in Errors
  /\ res \in [Handles -> [refs : Nat, rows : Nat, taken : Nat, open : BOOLEAN]]
  /\ obj \in [Objects -> [class : {"none", "store", "use"}, handle : Handles \cup {None},
                          good : BOOLEAN]]
  /\ ret.out \in Outcomes

Init ==
  /\ throws \in [driver : BOOLEAN, query : BOOLEAN]
  /\ text = 0 /\ good = TRUE
  /\ session = FreshSession
  /\ res = [h \in Handles |-> Free]
  /\ obj = [o \in Objects |-> Unborn]
  /\ ret = [call |-> "none", out |-> "ok"]

Return(call, out) == ret' = [call |-> call, out |-> out]

-----------------------------------------------------------------------------
(* The buffer.  A failed statement stays in it and the next one is written *)
(* behind it, which makes nonsense of both.                                *)
Write ==
  /\ text < MaxText
  /\ text' = text + 1
  /\ Return("operator<<", "ok")
  /\ UNCHANGED <<throws, good, session, res, obj>>

Reset ==
  /\ text' = 0
  /\ Return("reset", "ok")
  /\ UNCHANGED <<throws, good, session, res, obj>>

(* A call is given the statement as an argument, or takes the buffer's.    *)
AnswersTo(given) == IF given \/ text = 1 THEN Answers ELSE {<<Refusal>>}

(* Seeded fault: the buffer is emptied after failures too.                 *)
BugFinish(s) == session' = s /\ good' = Ok(s) /\ text' = 0

(* What execute(), store() and use() do to the Query when they end in      *)
(* session s: it remembers whether there was an error, and the buffer is   *)
(* emptied, whatever was sent, if there was none.                          *)
Finish(s) ==
  /\ session' = s
  /\ good' = Ok(s)
  /\ text' = IF Ok(s) THEN 0 ELSE text

(* A call that gets no result set out of session s: an exception if there  *)
(* is an error and exceptions are on, else an object in a false state.     *)
Nothing(call, class, o, s) ==
  IF ~Ok(s) /\ throws.query
  THEN Return(call, "BadQuery") /\ UNCHANGED <<res, obj>>
  ELSE /\ obj' = [obj EXCEPT ![o].class = class]
       /\ Return(call, "empty")
       /\ UNCHANGED res

(* The constructor of StoreQueryResult copies the rows until the driver    *)
(* returns a false one.  A driver with exceptions on throws instead, and   *)
(* the result set dies with the half-made object.                          *)
Stored(call, o, n) ==
  IF throws.driver
  THEN Return(call, "ObjectNotInitialized") /\ UNCHANGED <<res, obj>>
  ELSE \E h \in Handles :
         /\ res[h].refs = 0
         /\ res' = [res EXCEPT ![h] = [refs |-> 1, rows |-> n, taken |-> n, open |-> FALSE]]
         /\ obj' = [obj EXCEPT ![o] = [class |-> "store", handle |-> h, good |-> TRUE]]
         /\ Return(call, "ok")

Execute(given) ==
  /\ \E answer \in AnswersTo(given) :
       LET sent == RealQuery(session, answer)
       IN /\ Finish(sent)
          /\ Return("execute", IF Ok(sent) THEN "ok"
                               ELSE IF throws.query THEN "BadQuery" ELSE "empty")
  /\ UNCHANGED <<throws, res, obj>>

Store(o, given) ==
  /\ obj[o].class = "none"
  /\ \E answer \in AnswersTo(given) :
       LET sent == RealQuery(session, answer)
       IN \E s \in IF Ok(sent) THEN StoreResult(sent) ELSE {sent} :
            /\ Finish(s)
            /\ IF Ok(s) /\ sent.status = "result"
               THEN Stored("store", o, sent.rows)
               ELSE Nothing("store", "store", o, s)
  /\ UNCHANGED throws

Use(o, given) ==
  /\ obj[o].class = "none"
  /\ \E answer \in AnswersTo(given) :
       LET sent == RealQuery(session, answer)
       IN IF Ok(sent) /\ sent.status = "result"
          THEN /\ Finish(UseResult(sent))
               /\ \E h \in Handles :
                    /\ res[h].refs = 0
                    /\ res' = [res EXCEPT ![h] =
                         [refs |-> 1, rows |-> sent.rows, taken |-> 0, open |-> TRUE]]
                    /\ obj' = [obj EXCEPT ![o] =
                         [class |-> "use", handle |-> h, good |-> FALSE]]
               /\ Return("use", "ok")
          ELSE Finish(sent) /\ Nothing("use", "use", o, sent)
  /\ UNCHANGED throws

(* Seeded fault: store_next() does not take the result set.                *)
BugStoreNext(o) ==
  /\ obj[o].class = "none"
  /\ session' = NextResult(session)
  /\ Nothing("store_next", "store", o, NextResult(session))
  /\ UNCHANGED <<throws, text, good>>

(* store_next() leaves the Query's own state alone.                        *)
StoreNext(o) ==
  /\ obj[o].class = "none"
  /\ LET next == NextResult(session)
         more == NextCode(session) = "nr_more_results"
     IN \E s \in IF more THEN StoreResult(next) ELSE {next} :
          /\ session' = s
          /\ IF more /\ Ok(s) /\ next.status = "result"
             THEN Stored("store_next", o, next.rows)
             ELSE Nothing("store_next", "store", o, s)
  /\ UNCHANGED <<throws, text, good>>

-----------------------------------------------------------------------------
(* Reading row by row.  A row comes; or the set is at its end; or the      *)
(* server breaks off, or the connection does, which the C API also tells   *)
(* by a null row.                                                          *)
NullRow(call) ==
  Return(call, IF throws.driver THEN "ObjectNotInitialized" ELSE "end")

(* Seeded fault: the last row is taken for the end.                        *)
BugFetchRow(o) ==
  /\ obj[o].class = "use" /\ obj[o].handle # None
  /\ res[obj[o].handle].open /\ res[obj[o].handle].taken + 1 >= res[obj[o].handle].rows
  /\ res' = [res EXCEPT ![obj[o].handle].open = FALSE]
  /\ session' = Flushed(session)
  /\ NullRow("fetch_row")
  /\ UNCHANGED <<throws, text, good, obj>>

FetchRow(o) ==
  /\ obj[o].class = "use" /\ obj[o].handle # None
  /\ LET h == obj[o].handle
     IN \/ /\ res[h].open /\ res[h].taken < res[h].rows
           /\ res' = [res EXCEPT ![h].taken = @ + 1]
           /\ Return("fetch_row", "row")
           /\ UNCHANGED session
        \/ /\ res[h].open /\ res[h].taken = res[h].rows
           /\ res' = [res EXCEPT ![h].open = FALSE]
           /\ session' = Flushed(session)
           /\ NullRow("fetch_row")
        \/ /\ res[h].open
           /\ res' = [res EXCEPT ![h].open = FALSE]
           /\ session' \in {Lost(session), [Failed(Flushed(session), "refused") EXCEPT !.left = <<>>]}
           /\ NullRow("fetch_row")
        \/ /\ ~res[h].open
           /\ NullRow("fetch_row")
           /\ UNCHANGED <<session, res>>
  /\ UNCHANGED <<throws, text, good, obj>>

FetchFromNothing(o) ==
  /\ obj[o].class = "use" /\ obj[o].handle = None
  /\ Return("fetch_row", IF throws.query THEN "UseQueryError" ELSE "end")
  /\ UNCHANGED <<throws, text, good, session, res, obj>>

-----------------------------------------------------------------------------
(* Seeded faults: copies are not counted; a result set is freed by whoever *)
(* goes first; it is freed with operator delete.                           *)
BugRetain(r, h) == r

BugRelease(r, h) == IF h = None THEN r ELSE [r EXCEPT ![h] = Free]

BugFreeResult(s, r, h) == s

(* Reference counting.  The last reference frees the result set, which     *)
(* skips the rows that were not read.                                      *)
Retain(r, h) == IF h = None THEN r ELSE [r EXCEPT ![h].refs = @ + 1]
Release(r, h) ==
  IF h = None THEN r
  ELSE IF r[h].refs = 1 THEN [r EXCEPT ![h] = Free]
  ELSE [r EXCEPT ![h].refs = @ - 1]
FreeResult(s, r, h) ==
  IF h # None /\ r[h].refs = 1 /\ r[h].open THEN Flushed(s) ELSE s

(* Construction as a copy, and assignment.  The new pointer is made before *)
(* the old one is let go.                                                  *)
CopyUse(o, other) ==
  /\ obj[other].class = "use" /\ obj[o].class \in {"none", "use"} /\ o # other
  /\ LET kept == Retain(res, obj[other].handle)
     IN /\ res' = Release(kept, obj[o].handle)
        /\ session' = FreeResult(session, kept, obj[o].handle)
  /\ obj' = [obj EXCEPT ![o] = obj[other]]
  /\ Return("copy", "ok")
  /\ UNCHANGED <<throws, text, good>>

(* The copy of a stored result takes rows and copacetic_; pimpl_ stays as  *)
(* it was.                                                                 *)
CopyStore(o, other) ==
  /\ obj[other].class = "store" /\ obj[o].class \in {"none", "store"} /\ o # other
  /\ obj' = [obj EXCEPT ![o] = [obj[other] EXCEPT !.handle = obj[o].handle]]
  /\ Return("copy", "ok")
  /\ UNCHANGED <<throws, text, good, session, res>>

Destroy(o) ==
  /\ obj[o].class # "none"
  /\ res' = Release(res, obj[o].handle)
  /\ session' = FreeResult(session, res, obj[o].handle)
  /\ obj' = [obj EXCEPT ![o] = Unborn]
  /\ Return("destroy", "ok")
  /\ UNCHANGED <<throws, text, good>>

Next ==
  \/ Write
  \/ Reset
  \/ \E given \in BOOLEAN : Execute(given)
  \/ \E o \in Objects :
       \/ \E given \in BOOLEAN : Store(o, given) \/ Use(o, given)
       \/ StoreNext(o)
       \/ FetchRow(o)
       \/ FetchFromNothing(o)
       \/ \E other \in Objects : CopyUse(o, other) \/ CopyStore(o, other)
       \/ Destroy(o)

Spec == Init /\ [][Next]_vars

-----------------------------------------------------------------------------
Live == {h \in Handles : res[h].refs > 0}
Holders(h) == {o \in Objects : obj[o].handle = h}

(* A result set is freed exactly when the last object that refers to it    *)
(* goes, in whatever order objects are copied, assigned and destroyed      *)
(* (RefCountedPointer, mysql_free_result()); a stored one is never shared. *)
(* The C API is reading rows exactly when some object of the program holds *)
(* the result set it reads, and there is one such set: nothing libtabula   *)
(* has lost can make the next statement fail as out of sync (use(),        *)
(* fetch_row(), ~UseQueryResult()).                                        *)
FreedWithTheLast ==
  /\ \A h \in Handles :
       /\ res[h].refs = Cardinality(Holders(h))
       /\ \A o, e \in Holders(h) : o # e => obj[o].class = "use"
  /\ session.status = "use" <=> \E h \in Live : res[h].open
  /\ \A h, g \in Live : res[h].open /\ res[g].open => h = g

(* Only execute() leaves a result set waiting on the connection; store(),  *)
(* store_next() and use() take what the server sent or fail.               *)
OnlyExecuteLeavesRows ==
  [][session'.status = "result" =>
       session.status = "result" \/ ret'.call = "execute"]_vars

(* A loop over fetch_row() that comes to its end with no error on the      *)
(* connection has seen every row, also when copies of the result object    *)
(* took turns in reading it (UseQueryResult::fetch_row()).                 *)
EndMeansAll ==
  [][\A h \in Live :
       res[h].open /\ ~res'[h].open /\ ret'.call = "fetch_row" /\ Ok(session') =>
         res[h].taken = res[h].rows]_vars

(* The buffer is emptied when the statement worked, and kept for a retry   *)
(* or a message when the Query says it did not (Query::reset(), "auto-     *)
(* reset upon query execution").                                           *)
Sends(call) == call \in {"execute", "store", "use"}
ResetIffGood ==
  [][Sends(ret'.call) => /\ good' => text' = 0 /\ Ok(session')
                         /\ ~good' => text' = text /\ ret'.out \in {"empty", "BadQuery"}]_vars

(* What a comment says, and the code does not do: to come to the end of a  *)
(* result set "isn't an error" (UseQueryResult::fetch_row(), result.cpp).  *)
EndOfRowsIsNoError ==
  ret = [call |-> "fetch_row", out |-> "ObjectNotInitialized"] => ~Ok(session)
=============================================================================
