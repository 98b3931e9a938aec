----------------------------- MODULE InsertFrom -----------------------------
(***************************************************************************)
(* Query::insertfrom() (replacefrom() is the same code with another verb): *)
(* rows are packed into INSERT statements as the insert policy allows, and *)
(* the whole is wrapped in the policy's access controller, by default a    *)
(* Transaction.  The server can refuse a statement or drop the connection  *)
(* at any of them.                                                         *)
(*                                                                         *)
(* Rows are numbered; a statement under construction is the sequence of    *)
(* its rows and its length, which is what the policies look at.            *)
(***************************************************************************)
EXTENDS Integers, Sequences, ServerSession

CONSTANTS
  NRows,    \* the container's size (an empty one returns at once)
  RowSize,  \* [1..NRows -> Nat]: the length of each value_list()
  Header,   \* the length of "INSERT INTO `table` (fields) VALUES ("
  Calls     \* the calls considered: policy, its limit, and the settings

Policies == {"RowCount", "SizeThreshold", "MaxPacket"}
Controllers == {"Transaction", "NoTransaction"}

ASSUME InsertAssumption ==
  /\ NRows \in Nat \ {0} /\ RowSize \in [1..NRows -> Nat] /\ Header \in Nat
  /\ Calls \subseteq [policy : Policies, limit : Nat, controller : Controllers,
                      queryThrows : BOOLEAN,  \* exceptions of the Query,
                      connThrows : BOOLEAN,   \* of its Connection
                      reconnect : BOOLEAN]    \* ReconnectOption is set

VARIABLES
  call,      \* the call being made
  curRows,   \* RowCountInsertPolicy::cur_rows_, kept from call to call
  session,   \* the server's side
  pc,
  it,        \* the row the iterator points at
  buf, len,  \* the statement in the query's buffer: its rows, tellp()
  success,   \* the local variable of insertfrom()
  copacetic, \* the Query's copacetic_
  finished,  \* the Transaction's finished_
  refused,   \* the last COMMIT or ROLLBACK failed in a session that lives on
  outcome    \* how the call ended

vars == <<call, curRows, session, pc, it, buf, len, success, copacetic, finished,
          refused, outcome>>

AllRows == [i \in 1..NRows |-> i]

(* The control points of insertfrom(), and of replacefrom(), which repeats *)
(* it with the verb REPLACE.                                               *)
Steps == {"begin", "row", "flush", "retry", "last", "end", "unwind", "done"}

TypeOK ==
  /\ call \in Calls
  /\ curRows \in Nat
  /\ session \in [alive : BOOLEAN, inTxn : BOOLEAN,
                  staged : Seq(1..NRows), table : Seq(1..NRows)]
  /\ pc \in Steps
  /\ it \in 1..NRows + 1
  /\ buf \in Seq(1..NRows) /\ len \in Nat
  /\ success \in BOOLEAN /\ copacetic \in BOOLEAN /\ finished \in BOOLEAN
  /\ refused \in BOOLEAN
  /\ outcome \in {"running", "returned", "thrown"}

(* A RowCountInsertPolicy that was used before starts in mid-count.        *)
Init ==
  /\ call \in Calls
  /\ curRows \in IF call.policy = "RowCount" THEN 0..call.limit ELSE {0}
  /\ session = FreshSession
  /\ pc = "begin" /\ it = 1
  /\ buf = <<>> /\ len = 0
  /\ success = TRUE /\ copacetic = TRUE
  /\ finished = TRUE /\ refused = FALSE
  /\ outcome = "running"

-----------------------------------------------------------------------------
(* The insert policies: can_add(), and what it leaves in the policy        *)

(* What a row adds to a statement that has rows already: ",(" and ")".     *)
NextSize(i) == RowSize[i] + 3

(* Seeded fault: the row to be added is not measured.                      *)
BugCanAdd(i) ==
  CASE call.policy = "RowCount" -> curRows + 1 <= call.limit
    [] call.policy = "SizeThreshold" -> len < call.limit
    [] call.policy = "MaxPacket" -> len < call.limit

CanAdd(i) ==
  CASE call.policy = "RowCount" -> curRows + 1 <= call.limit
    [] call.policy = "SizeThreshold" -> len < call.limit
    [] call.policy = "MaxPacket" -> len < call.limit /\ call.limit - len >= NextSize(i)

CountRow(i) ==
  curRows' = IF call.policy # "RowCount" THEN curRows
             ELSE IF CanAdd(i) THEN curRows + 1 ELSE 0

(* Seeded fault: the iterator is advanced twice.                           *)
BugAppend1(i) ==
  /\ buf' = Append(buf, i)
  /\ len' = IF buf = <<>> THEN Header + RowSize[i] + 1 ELSE len + NextSize(i)
  /\ it' = it + 2

(* The row is written to the query's stream, after the header or a comma.  *)
Append1(i) ==
  /\ buf' = Append(buf, i)
  /\ len' = IF buf = <<>> THEN Header + RowSize[i] + 1 ELSE len + NextSize(i)
  /\ it' = it + 1

-----------------------------------------------------------------------------
(* Statements, and the two ways a failed one is reported                   *)

(* (A client library never reconnects silently inside a transaction: the   *)
(* statement that finds the connection gone fails.)                        *)
Target == Reopened(session, call.reconnect)
Send(t) == Outcomes(Target, t)

(* An exception leaves insertfrom(); the access controller, if it was      *)
(* constructed, is destroyed on the way.                                   *)
Raise == /\ outcome' = "thrown"
         /\ pc' = "unwind"

(* Transaction::Transaction(conn): START TRANSACTION through a Query of    *)
(* the connection.  If that throws there is nothing to destroy.            *)
Begin ==
  /\ pc = "begin"
  /\ IF call.controller = "NoTransaction"
     THEN pc' = "row" /\ UNCHANGED <<session, finished, outcome>>
     ELSE \E r \in Send(Started(Target)) :
            /\ session' = r.session
            /\ IF r.ok \/ ~call.connThrows
               THEN pc' = "row" /\ finished' = FALSE /\ UNCHANGED outcome
               ELSE pc' = "done" /\ outcome' = "thrown" /\ UNCHANGED finished
  /\ UNCHANGED <<call, curRows, it, buf, len, success, copacetic, refused>>

(* The loop body, when the policy takes the row.                           *)
AddRow ==
  /\ pc = "row" /\ it <= NRows
  /\ CanAdd(it) /\ CountRow(it)
  /\ Append1(it)
  /\ UNCHANGED <<call, session, pc, success, copacetic, finished, refused,
                 outcome>>

(* It does not: what was built so far goes first, if there is anything.    *)
RowRefused ==
  /\ pc = "row" /\ it <= NRows
  /\ ~CanAdd(it) /\ CountRow(it)
  /\ pc' = IF buf = <<>> THEN "retry" ELSE "flush"
  /\ UNCHANGED <<call, session, it, buf, len, success, copacetic, finished,
                 refused, outcome>>

(* Seeded faults: a failed statement that is taken for a good one, and a   *)
(* buffer that is not emptied after the statement was sent.                *)
BugExecIgnored(next) ==
  \E r \in Send(Inserted(Target, buf)) :
    /\ session' = r.session /\ copacetic' = r.ok
    /\ buf' = <<>> /\ len' = 0 /\ pc' = next /\ UNCHANGED <<success, outcome>>
BugExecNoReset(next) ==
  \E r \in Send(Inserted(Target, buf)) :
    /\ session' = r.session /\ copacetic' = r.ok
    /\ UNCHANGED <<buf, len>>
    /\ IF r.ok THEN pc' = next /\ UNCHANGED <<success, outcome>>
       ELSE IF call.queryThrows THEN Raise /\ UNCHANGED success
            ELSE success' = FALSE /\ pc' = "end" /\ UNCHANGED outcome

(* Query::exec() on the buffer; on success it resets the query.            *)
Exec(next) ==
  \E r \in Send(Inserted(Target, buf)) :
    /\ session' = r.session
    /\ copacetic' = r.ok
    /\ IF r.ok
       THEN buf' = <<>> /\ len' = 0 /\ pc' = next /\ UNCHANGED <<success, outcome>>
       ELSE /\ UNCHANGED <<buf, len>>
            /\ IF call.queryThrows THEN Raise /\ UNCHANGED success
               ELSE success' = FALSE /\ pc' = "end" /\ UNCHANGED outcome

Flush ==
  /\ pc = "flush"
  /\ Exec("retry")
  /\ UNCHANGED <<call, curRows, it, finished, refused>>

(* Seeded fault: the row that no statement takes is offered for ever.      *)
BugRetryRow ==
  /\ pc = "retry"
  /\ CountRow(it)
  /\ IF CanAdd(it) THEN Append1(it) ELSE UNCHANGED <<it, buf, len>>
  /\ pc' = "row"
  /\ UNCHANGED <<call, session, success, copacetic, finished, refused, outcome>>

(* The policy is asked once more, with the buffer empty.                   *)
RetryRow ==
  /\ pc = "retry"
  /\ CountRow(it)
  /\ IF CanAdd(it)
     THEN Append1(it) /\ pc' = "row" /\ UNCHANGED <<success, outcome>>
     ELSE /\ UNCHANGED <<it, buf, len>>
          /\ IF call.queryThrows THEN Raise /\ UNCHANGED success
             ELSE success' = FALSE /\ pc' = "end" /\ UNCHANGED outcome
  /\ UNCHANGED <<call, session, copacetic, finished, refused>>

LoopEnds ==
  /\ pc = "row" /\ it = NRows + 1
  /\ pc' = IF buf = <<>> THEN "end" ELSE "last"
  /\ UNCHANGED <<call, curRows, session, it, buf, len, success, copacetic,
                 finished, refused, outcome>>

ExecLast ==
  /\ pc = "last"
  /\ Exec("end")
  /\ UNCHANGED <<call, curRows, it, finished, refused>>

(* Seeded fault: commit() whatever happened.                               *)
BugFinishCommits ==
  /\ pc = "end"
  /\ IF call.controller = "NoTransaction"
     THEN pc' = "unwind" /\ UNCHANGED <<session, finished, refused, outcome>>
     ELSE \E r \in Send(Committed(Target)) :
            /\ session' = r.session
            /\ refused' = RefusedAlive(r)
            /\ IF r.ok \/ ~call.connThrows
               THEN pc' = "unwind" /\ finished' = TRUE /\ UNCHANGED outcome
               ELSE Raise /\ UNCHANGED finished
  /\ UNCHANGED <<call, curRows, it, buf, len, success, copacetic>>

(* ac.commit() or ac.rollback(): a failure throws, if connections do, and  *)
(* is lost otherwise.                                                      *)
Finish ==
  /\ pc = "end"
  /\ IF call.controller = "NoTransaction"
     THEN pc' = "unwind" /\ UNCHANGED <<session, finished, refused, outcome>>
     ELSE \E r \in Send(IF success THEN Committed(Target) ELSE RolledBack(Target)) :
            /\ session' = r.session
            /\ refused' = RefusedAlive(r)
            /\ IF r.ok \/ ~call.connThrows
               THEN pc' = "unwind" /\ finished' = TRUE /\ UNCHANGED outcome
               ELSE Raise /\ UNCHANGED finished
  /\ UNCHANGED <<call, curRows, it, buf, len, success, copacetic>>

(* Seeded fault: a destructor that leaves the transaction open.            *)
BugDestroy ==
  /\ pc = "unwind"
  /\ pc' = "done"
  /\ finished' = TRUE
  /\ outcome' = IF outcome = "running" THEN "returned" ELSE outcome
  /\ UNCHANGED <<call, curRows, session, it, buf, len, success, copacetic, refused>>

(* Transaction::~Transaction(), at the end and on the way of an exception: *)
(* rolls back unless finished, and keeps quiet about failures.             *)
Destroy ==
  /\ pc = "unwind"
  /\ IF call.controller = "NoTransaction" \/ finished
     THEN UNCHANGED <<session, refused>>
     ELSE \E r \in Send(RolledBack(Target)) :
            session' = r.session /\ refused' = RefusedAlive(r)
  /\ pc' = "done"
  /\ finished' = TRUE
  /\ outcome' = IF outcome = "running" THEN "returned" ELSE outcome
  /\ UNCHANGED <<call, curRows, it, buf, len, success, copacetic>>

Next == Begin \/ AddRow \/ RowRefused \/ Flush \/ RetryRow \/ LoopEnds
        \/ ExecLast \/ Finish \/ Destroy

Spec == Init /\ [][Next]_vars
FairSpec == Spec /\ WF_vars(Next)

-----------------------------------------------------------------------------
(* Properties                                                              *)

Prefix(s) == s = [i \in 1..Len(s) |-> i]
Transacted == call.controller = "Transaction" /\ call.connThrows

(* A call on a Query without exceptions that gives up because the policy   *)
(* is too strict just returns: the Query stays true, and nothing tells the *)
(* caller.                                                                 *)
GivenUp == ~call.queryThrows /\ it <= NRows

(* A call that returns, exceptions on, has stored the whole container,     *)
(* with or without a transaction; with the Query's exceptions off so has   *)
(* one that leaves the Query true, unless it gave up on a policy that is   *)
(* too strict (Query::insertfrom()).                                       *)
ReturnMeansStored ==
  (/\ outcome = "returned" /\ (call.queryThrows \/ copacetic) /\ ~GivenUp
   /\ call.connThrows \/ call.controller = "NoTransaction")
  => session.table = AllRows

(* No row is lost, doubled or moved between two statements: what is        *)
(* stored, what the transaction holds and what the buffer holds are        *)
(* together the rows the loop has passed (the loop of insertfrom(), the    *)
(* reset in Query::exec()).                                                *)
RowsInOrder ==
  /\ pc \in {"row", "flush", "retry", "last"}
       => session.table \o session.staged \o buf = [i \in 1..it - 1 |-> i]
  /\ Prefix(session.table \o session.staged)

(* The statements have the size their policy promises: never more rows     *)
(* than RowCountInsertPolicy allows; with SizeThresholdInsertPolicy at     *)
(* least the threshold, except the last, and less without the last row;    *)
(* with MaxPacketInsertPolicy, once it has two rows, at most the limit.    *)
StatementSizes ==
  pc \in {"flush", "last"} =>
    LET limit == call.limit
        lastRow == NextSize(buf[Len(buf)])
    IN CASE call.policy = "RowCount" -> Len(buf) <= limit
         [] call.policy = "SizeThreshold" ->
              /\ pc = "flush" => len >= limit
              /\ Len(buf) > 1 => len - lastRow < limit
         [] call.policy = "MaxPacket" -> Len(buf) > 1 => len <= limit

(* However the call ends, the session is not left inside its transaction   *)
(* (Transaction::~Transaction()), unless the live session has refused the  *)
(* ROLLBACK of the destructor, which swallows it, or the COMMIT or         *)
(* ROLLBACK before it with the connection's exceptions off.                *)
NothingLeftOpen == pc = "done" /\ session.inTxn => refused

(* The call ends, whatever the policy says and the server does: a policy   *)
(* that takes no row at all is given up (Query::insertfrom()).             *)
CallEnds == <>(pc = "done")

(* With a transaction around the call and exceptions on in the connection, *)
(* each step of the call is a step of the all-or-nothing insert: the table *)
(* never holds a part of the container, whichever statement fails and      *)
(* however.  A return that leaves the Query false counts as one by an      *)
(* exception, and so does one that gave up on a policy that is too strict, *)
(* which the caller cannot tell from a good one: what is shown of both is  *)
(* that no part of the container is stored.  Of the other calls nothing is *)
(* claimed.                                                                *)
Atomic == INSTANCE AtomicInsert WITH
            Rows <- AllRows,
            table <- IF Transacted THEN session.table ELSE <<>>,
            outcome <- IF ~Transacted THEN "running"
                       ELSE IF outcome = "returned" /\ (~copacetic \/ GivenUp) THEN "thrown"
                       ELSE outcome
ImplementsAtomic == Atomic!Spec
=============================================================================
