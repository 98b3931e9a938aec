---------------------------- MODULE Transaction ----------------------------
(***************************************************************************)
(* Transaction objects as a program uses them: both constructors, commit() *)
(* and rollback(), the destructor, NoExceptions scopes around them, and    *)
(* statements in between, over a server that refuses statements and a      *)
(* connection that is lost.  START TRANSACTION, COMMIT and ROLLBACK can be *)
(* refused like any other statement, with the session alive: by the server *)
(* (a quota, a COMMIT that fails), or by the client library, which sends   *)
(* nothing while a result of use() has rows that were not read.            *)
(*                                                                         *)
(* Transaction and NoExceptions live on the program's stack: they go in    *)
(* the reverse order, at the end of their block or when an exception       *)
(* unwinds it.  A row is the number of the innermost transaction that was  *)
(* not finished when it was inserted.  Statements outside of transactions  *)
(* are left out: they are durable, and no object knows of them.            *)
(***************************************************************************)
EXTENDS Integers, Sequences, FiniteSets, ServerSession

CONSTANTS
  Levels,     \* the isolation levels a constructor can be asked for
  Default,    \* the level of a server nobody has changed
  None,       \* no level
  MaxTxns, MaxDepth,  \* bounds: objects made, objects alive at once,
  MaxRows, MaxTable,  \* rows inserted by an object, rows at the server
  Lossy,      \* the connection can be lost,
  Deadlocks   \* a statement can be refused with the whole transaction

ASSUME TransactionAssumption ==
  /\ {MaxTxns, MaxDepth, MaxRows, MaxTable} \subseteq Nat
  /\ {Lossy, Deadlocks} \subseteq BOOLEAN
  /\ Default \notin Levels /\ None \notin Levels \cup {Default}
  /\ None \notin [set : BOOLEAN, asked : Levels \cup {None}]

VARIABLES
  session,  \* the server's side, with its isolation levels, and whether
            \* the connection has the ReconnectOption
  scopes,   \* the Transaction and NoExceptions objects, innermost last
  throws,   \* the exception flag of the Connection
  ctor,     \* the isolation constructor under way, or None
  unwind,   \* the depth at which the exception is caught, -1 if there is none
  made,     \* rows inserted for each transaction object
  commits,  \* objects commit() was called on
  refused,  \* what a refusal has left behind: "level" if the last START
            \* TRANSACTION was refused, "transaction" if a COMMIT or a
            \* ROLLBACK was, and its object goes or takes it for done
  strict    \* exceptions stayed on, none was caught inside a transaction,
            \* while a transaction was open only its object was used, and
            \* no refusal has left a level or a transaction behind

vars == <<session, scopes, throws, ctor, unwind, made, commits, refused, strict>>

Ids == 1..MaxTxns
Scopes == {"this_transaction", "session", "global"}
Scope == [kind : {"txn"}, id : Ids, finished : BOOLEAN,
          asked : Levels \cup {None}]
         \cup [kind : {"quiet"}, saved : BOOLEAN]

Session == [alive : BOOLEAN, inTxn : BOOLEAN, staged : Seq(Ids), table : Seq(Ids),
            level : Levels \cup {Default}, next : Levels \cup {None},
            current : Levels \cup {Default, None}, reconnect : BOOLEAN]
Ctor == [set : BOOLEAN, asked : Levels \cup {None}]

TypeOK ==
  /\ session \in Session
  /\ scopes \in Seq(Scope) /\ Len(scopes) <= MaxDepth
  /\ throws \in BOOLEAN /\ strict \in BOOLEAN
  /\ ctor \in Ctor \cup {None}
  /\ unwind \in -1..MaxDepth
  /\ made \in Seq(Nat) /\ Len(made) <= MaxTxns
  /\ commits \subseteq Ids
  /\ refused \subseteq {"level", "transaction"}

Init ==
  /\ \E reconnect \in BOOLEAN :
       session = [alive |-> TRUE, inTxn |-> FALSE, staged |-> <<>>, table |-> <<>>,
                  level |-> Default, next |-> None, current |-> None, reconnect |-> reconnect]
  /\ scopes = <<>> /\ throws = TRUE /\ ctor = None /\ unwind = -1
  /\ made = <<>> /\ commits = {} /\ refused = {} /\ strict = TRUE

-----------------------------------------------------------------------------
(* The server                                                              *)

(* A new session has the server's level.                                   *)
Target ==
  IF session.alive \/ ~session.reconnect THEN session
  ELSE [session EXCEPT !.alive = TRUE, !.level = Default, !.next = None]

(* What one statement can come to, its effect on Target being t.           *)
Send(t) ==
  {r \in Outcomes(Target, t) :
     /\ r.session.alive \/ ~Target.alive \/ Lossy
     /\ r.ok \/ ~Target.inTxn \/ r.session # RolledBack(Target) \/ Deadlocks}

(* The level of a transaction goes with it.                                *)
Becomes(s) == session' = IF s.inTxn THEN s ELSE [s EXCEPT !.current = None]

(* START TRANSACTION takes the level that was set for the next one.        *)
Begun(s) == [Started(s) EXCEPT
               !.current = IF s.next = None THEN s.level ELSE s.next, !.next = None]

(* SET ... TRANSACTION ISOLATION LEVEL.  (GLOBAL is for sessions that are  *)
(* opened later; what a reconnect then finds is not followed.)             *)
LevelSet(s, level, scope) ==
  CASE scope = "this_transaction" -> [s EXCEPT !.next = level]
    [] scope = "session" -> [s EXCEPT !.level = level]
    [] scope = "global" -> s

-----------------------------------------------------------------------------
(* The program's stack                                                     *)

Running == unwind = -1 /\ ctor = None
Txns == {i \in 1..Len(scopes) : scopes[i].kind = "txn"}
Unfinished == {i \in Txns : ~scopes[i].finished}
Innermost == {i \in Unfinished : \A j \in Unfinished : j <= i}

(* A failure is thrown, if the connection throws; some block catches it.   *)
(* strict forgets a program that goes on inside the transaction, or whose  *)
(* call was not in order.                                                  *)
Works(inOrder) == UNCHANGED unwind /\ strict' = (strict /\ inOrder)
Fails(inOrder) ==
  IF ~throws THEN Works(inOrder)
  ELSE \E depth \in 0..Len(scopes) :
         /\ unwind' = depth
         /\ strict' = (strict /\ inOrder /\ \A i \in Unfinished : depth < i)

(* A statement that was refused, with the session alive, leaves something. *)
Leaves(r, what) ==
  refused' = IF RefusedAlive(r) THEN refused \cup {what} ELSE refused

NewTxn(asked) == [kind |-> "txn", id |-> Len(made) + 1, finished |-> FALSE,
                  asked |-> asked]

(* The end of both constructors: START TRANSACTION.  If it throws there is *)
(* no object; if it fails quietly there is one that is "not finished".     *)
(* The level that was set is left for the next one if it is refused.       *)
Construct(asked) ==
  \E r \in Send(Begun(Target)) :
    LET inOrder == Unfinished = {} /\ (RefusedAlive(r) => Target.next = None) IN
    /\ Becomes(r.session)
    /\ IF r.ok THEN refused' = {} ELSE Leaves(r, "level")
    /\ IF r.ok \/ ~throws
       THEN /\ scopes' = Append(scopes, NewTxn(asked))
            /\ made' = Append(made, 0)
            /\ Works(inOrder)
       ELSE Fails(inOrder) /\ UNCHANGED <<scopes, made>>

CanOpen == Running /\ Len(made) < MaxTxns /\ Len(scopes) < MaxDepth

(* Transaction(conn)                                                       *)
Open ==
  /\ CanOpen
  /\ Construct(None)
  /\ UNCHANGED <<throws, ctor, commits>>

(* Seeded fault: the transaction is begun, then the level is set.          *)
BugOpenIsolation(level, scope) ==
  /\ CanOpen
  /\ \E r \in Send(Begun(Target)) :
       Becomes(IF r.ok THEN LevelSet(r.session, level, scope) ELSE r.session)
  /\ scopes' = Append(scopes, NewTxn(IF scope # "global" THEN level ELSE None))
  /\ made' = Append(made, 0)
  /\ Works(Unfinished = {})
  /\ UNCHANGED <<throws, ctor, commits, refused>>

(* Transaction(conn, level, scope): the SET, which the server refuses      *)
(* inside a transaction, and to those who may not.                         *)
OpenIsolation(level, scope) ==
  /\ CanOpen
  /\ \E r \in IF scope = "this_transaction" /\ Target.inTxn
              THEN {x \in Send(Target) : ~x.ok /\ x.session # RolledBack(Target)}
              ELSE {x \in Send(LevelSet(Target, level, scope)) :
                      x.ok \/ ~x.session.alive \/ x.session = Target} :
       /\ Becomes(r.session)
       /\ IF r.ok \/ ~throws
          THEN /\ ctor' = [set |-> r.ok,
                           asked |-> IF r.ok /\ scope # "global" THEN level ELSE None]
               /\ Works(Unfinished = {})
          ELSE Fails(Unfinished = {}) /\ UNCHANGED ctor
  /\ UNCHANGED <<scopes, throws, made, commits, refused>>

(* The rest of it.  A SET that failed quietly is still in the Query's      *)
(* buffer: what is sent is the SET with START TRANSACTION behind it, which *)
(* the server does not understand.                                         *)
EndIsolation ==
  /\ ctor # None
  /\ ctor' = None
  /\ IF ctor.set THEN Construct(ctor.asked)
     ELSE /\ \E r \in {x \in Send(Target) : ~x.ok /\ (x.session.alive => x.session = Target)} :
               Becomes(r.session)
          /\ scopes' = Append(scopes, NewTxn(ctor.asked))
          /\ made' = Append(made, 0)
          /\ Works(FALSE) /\ UNCHANGED refused
  /\ UNCHANGED <<throws, commits>>

Finished(i) == [scopes EXCEPT ![i].finished = TRUE]

(* commit() and rollback(): finished_ is set unless the statement throws,  *)
(* whatever became of it.                                                  *)
Commit(i) ==
  /\ Running /\ i \in Txns
  /\ commits' = commits \cup {scopes[i].id}
  /\ \E r \in Send(Committed(Target)) :
       /\ Becomes(r.session)
       /\ IF r.ok \/ ~throws
          THEN /\ scopes' = Finished(i)
               /\ Works(Unfinished \subseteq {i} /\ ~RefusedAlive(r))
               /\ Leaves(r, "transaction")
          ELSE Fails(Unfinished \subseteq {i}) /\ UNCHANGED <<scopes, refused>>
  /\ UNCHANGED <<throws, ctor, made>>

Rollback(i) ==
  /\ Running /\ i \in Txns
  /\ \E r \in Send(RolledBack(Target)) :
       /\ Becomes(r.session)
       /\ IF r.ok \/ ~throws
          THEN /\ scopes' = Finished(i)
               /\ Works(Unfinished \subseteq {i} /\ ~RefusedAlive(r))
               /\ Leaves(r, "transaction")
          ELSE Fails(Unfinished \subseteq {i}) /\ UNCHANGED <<scopes, refused>>
  /\ UNCHANGED <<throws, ctor, made, commits>>

(* A statement of the program inside a transaction.                        *)
Insert ==
  /\ Running
  /\ Len(session.table) + Len(session.staged) < MaxTable
  /\ \E i \in Innermost :
       LET id == scopes[i].id IN
       /\ made[id] < MaxRows
       /\ \E r \in Send(Inserted(Target, <<id>>)) :
            /\ Becomes(r.session)
            /\ made' = IF r.ok THEN [made EXCEPT ![id] = @ + 1] ELSE made
            /\ IF r.ok THEN Works(TRUE) ELSE Fails(TRUE)
  /\ UNCHANGED <<scopes, throws, ctor, commits, refused>>

(* Seeded fault: the flag is not saved before it is turned off.            *)
BugQuiet ==
  /\ Running /\ Len(scopes) < MaxDepth
  /\ scopes' = Append(scopes, [kind |-> "quiet", saved |-> None])
  /\ throws' = FALSE
  /\ strict' = FALSE
  /\ UNCHANGED <<session, ctor, unwind, made, commits, refused>>

(* NoExceptions(conn)                                                      *)
Quiet ==
  /\ Running /\ Len(scopes) < MaxDepth
  /\ scopes' = Append(scopes, [kind |-> "quiet", saved |-> throws])
  /\ throws' = FALSE
  /\ strict' = FALSE
  /\ UNCHANGED <<session, ctor, unwind, made, commits, refused>>

LeaveQuiet(top) == throws' = top.saved

(* Seeded fault: the transaction is left as it is.                         *)
BugLeaveTxn(top) == UNCHANGED <<session, refused, strict>>

(* ~Transaction() rolls back unless finished, and swallows what that       *)
(* throws: a transaction whose ROLLBACK is refused stays open.             *)
LeaveTxn(top) ==
  IF top.finished THEN UNCHANGED <<session, refused, strict>>
  ELSE \E r \in Send(RolledBack(Target)) :
         /\ Becomes(r.session)
         /\ Leaves(r, "transaction")
         /\ strict' = (strict /\ ~RefusedAlive(r))

(* The end of a block.  ~NoExceptions() puts the flag back.                *)
Leave ==
  /\ ctor = None /\ scopes # <<>> /\ unwind < Len(scopes)
  /\ LET top == scopes[Len(scopes)] IN
       /\ scopes' = SubSeq(scopes, 1, Len(scopes) - 1)
       /\ IF top.kind = "quiet" THEN LeaveQuiet(top) /\ UNCHANGED <<session, refused, strict>>
          ELSE LeaveTxn(top) /\ UNCHANGED throws
  /\ UNCHANGED <<ctor, unwind, made, commits>>

(* The exception has reached its handler.                                  *)
Catch ==
  /\ unwind = Len(scopes)
  /\ unwind' = -1
  /\ UNCHANGED <<session, scopes, throws, ctor, made, commits, refused, strict>>

(* The connection is lost while nothing is sent.  (In a transaction that   *)
(* is a lost statement: the client library does not reconnect there.)      *)
Lose ==
  /\ Lossy /\ session.alive /\ ~session.inTxn
  /\ session' = Lost(session)
  /\ UNCHANGED <<scopes, throws, ctor, unwind, made, commits, refused, strict>>

Next ==
  \/ Open
  \/ \E level \in Levels, scope \in Scopes : OpenIsolation(level, scope)
  \/ EndIsolation
  \/ \E i \in 1..MaxDepth : Commit(i) \/ Rollback(i)
  \/ Insert \/ Quiet \/ Leave \/ Catch \/ Lose

Spec == Init /\ [][Next]_vars

-----------------------------------------------------------------------------
(* Properties                                                              *)

Stored(id) == Cardinality({k \in 1..Len(session.table) : session.table[k] = id})

(* With exceptions on and one transaction at a time, the rows of a         *)
(* transaction reach the table all together or not at all, and only if     *)
(* commit() was called: not by a statement that fails (a COMMIT that is    *)
(* refused, too), a lost connection, a silent reconnect or the unwinding   *)
(* of the block, as long as the ROLLBACK of ~Transaction() is not refused. *)
AllOrNothing ==
  strict => \A id \in 1..Len(made) :
              Stored(id) # 0 => id \in commits /\ Stored(id) = made[id]

(* Exceptions or not, nested or not, and whatever is refused or lost: the  *)
(* session is in a transaction only as long as some Transaction object     *)
(* will still end it.  The exception is a COMMIT or ROLLBACK that the live *)
(* session refuses (as behind an unread use()): commit() and rollback()    *)
(* set finished_ all the same if the connection does not throw, and        *)
(* ~Transaction() swallows it.  What a transaction left open by that does  *)
(* lasts until the next START TRANSACTION, which commits it.               *)
OpenMeansOwned == session.inTxn => Unfinished # {} \/ "transaction" \in refused

(* With exceptions on, a transaction runs at the level its constructor     *)
(* was asked for, and (the comment at transaction.cpp:73) the level set    *)
(* for this transaction is not left behind for the next one, unless START  *)
(* TRANSACTION itself was refused.  A silent reconnect between the two     *)
(* statements would lose the level.                                        *)
LevelAsAsked ==
  /\ strict /\ ~session.reconnect /\ ctor = None /\ session.inTxn
     => \A i \in Unfinished :
          session.current = IF scopes[i].asked = None THEN session.level
                            ELSE scopes[i].asked
  /\ ctor = None /\ session.alive => session.next = None \/ "level" \in refused

(* With exceptions on and one transaction at a time, the table grows by    *)
(* whole transactions, in the order their objects were made, each when     *)
(* commit() is called on it and never again.                               *)
Units == INSTANCE UnitsOfWork WITH table <- session.table
ImplementsUnits == Units!Spec
=============================================================================
