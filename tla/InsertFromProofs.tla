--------------------------- MODULE InsertFromProofs ---------------------------
(***************************************************************************)
(* What is proved of InsertFrom for containers of any size, rows of any    *)
(* length and any set of calls: its types, its four safety invariants, and *)
(* that it implements AtomicInsert.                                        *)
(***************************************************************************)
EXTENDS InsertFrom, SequenceTheorems, TLAPS

(* The control points of the loop, where the rows passed are accounted for.*)
Loop == {"row", "flush", "retry", "last"}

UpTo(n) == [i \in 1..n |-> i]
Stored == session.table \o session.staged

(* Where the call is, and what its local variables then are.               *)
ControlInv ==
  /\ pc = "begin" => session = FreshSession /\ it = 1 /\ buf = <<>>
  /\ pc = "flush" => it <= NRows
  /\ pc = "retry" => it <= NRows /\ buf = <<>>
  /\ pc = "last" => it = NRows + 1
  /\ outcome = "running" => pc # "done"
  /\ outcome = "returned" => pc = "done"
  /\ outcome = "thrown" => pc \in {"unwind", "done"}
  /\ ~success => ~call.queryThrows /\ pc \in {"end", "unwind", "done"}

(* Without an exception success says whether the Query is true and the     *)
(* loop has passed every row.                                              *)
FlagsInv ==
  /\ ~success => ~copacetic \/ GivenUp
  /\ success => copacetic \/ outcome = "thrown"
  /\ success /\ pc \in {"end", "unwind", "done"} => it = NRows + 1 \/ outcome = "thrown"
  /\ refused => pc \in {"unwind", "done"}

(* Rows are staged in a transaction only, and a transaction is open only   *)
(* while a Transaction object will end it, or if the session has refused   *)
(* to.                                                                     *)
SessionInv ==
  /\ session.inTxn => /\ session.alive /\ call.controller = "Transaction"
                      /\ ~finished \/ refused
  /\ ~session.inTxn => session.staged = <<>>
  /\ pc \in {"begin", "done"} => finished

(* With a transaction and exceptions nothing is durable before the end,    *)
(* and the transaction is open as long as all went well.                   *)
AtomicInv ==
  Transacted =>
    /\ pc \in Loop \/ (pc = "end" /\ success) => session.inTxn
    /\ pc \in Loop \cup {"begin", "end"} => session.table = <<>>

(* The rows the loop has passed are stored or in the buffer; at a good end *)
(* all are stored, and durable when the controller is done.                *)
RowsInv ==
  /\ RowsInOrder
  /\ pc = "end" /\ success => Stored = AllRows
  /\ success /\ (call.connThrows \/ call.controller = "NoTransaction")
       /\ (outcome = "returned" \/ (outcome = "running" /\ pc = "unwind"))
     => session.table = AllRows

(* The statement being built has the size its policy allows.               *)
SizeInv ==
  /\ call.policy = "RowCount" => curRows <= call.limit
  /\ call.policy = "RowCount" /\ pc = "row" => Len(buf) <= curRows
  /\ call.policy = "RowCount" /\ pc \in {"flush", "last"} => Len(buf) <= call.limit
  /\ pc \in {"row", "flush", "last"} /\ Len(buf) > 1 =>
       /\ call.policy = "SizeThreshold" => len - NextSize(buf[Len(buf)]) < call.limit
       /\ call.policy = "MaxPacket" => len <= call.limit
  /\ call.policy = "SizeThreshold" /\ pc = "flush" => len >= call.limit

IInv == TypeOK /\ ControlInv /\ FlagsInv /\ SessionInv /\ AtomicInv /\ RowsInv /\ SizeInv

Session == [alive : BOOLEAN, inTxn : BOOLEAN,
            staged : Seq(1..NRows), table : Seq(1..NRows)]

-----------------------------------------------------------------------------
(* Rows in order                                                           *)

(* The first rows of a prefix of the container are a prefix of it.         *)
LEMMA PrefixOfPrefix ==
  ASSUME NEW s \in Seq(1..NRows), NEW t \in Seq(1..NRows), Prefix(s \o t)
  PROVE  Prefix(s)
<1>1. /\ Len(s) \in Nat /\ Len(t) \in Nat /\ Len(s \o t) = Len(s) + Len(t)
      /\ s \in [1..Len(s) -> 1..NRows]
      /\ \A i \in 1..Len(s) + Len(t) : (s \o t)[i] = IF i <= Len(s) THEN s[i] ELSE t[i - Len(s)]
  BY ConcatProperties, LenProperties
<1>2. \A i \in 1..Len(s) : s[i] = i
  <2> SUFFICES ASSUME NEW i \in 1..Len(s) PROVE s[i] = i
    OBVIOUS
  <2>1. i \in 1..Len(s) + Len(t) /\ i <= Len(s)
    BY <1>1
  <2>2. (s \o t)[i] = i
    BY <1>1, <2>1 DEF Prefix
  <2> QED BY <1>1, <2>1, <2>2
<1> QED BY <1>1, <1>2 DEF Prefix

LEMMA UpToIsPrefix ==
  ASSUME NEW n \in Nat, NEW s, s = UpTo(n)
  PROVE  Prefix(s) /\ Len(s) = n
BY DEF UpTo, Prefix

(* The next row behind the first n of them.                                *)
LEMMA UpToAppend ==
  ASSUME NEW n \in Nat, n < NRows, NEW s \in Seq(1..NRows), s = UpTo(n)
  PROVE  Append(s, n + 1) = UpTo(n + 1)
<1>1. n + 1 \in 1..NRows
  BY InsertAssumption
<1>2. Len(s) = n /\ s \in [1..n -> 1..NRows] /\ DOMAIN s = 1..n
  BY LenProperties DEF UpTo
<1> DEFINE a == Append(s, n + 1)
<1>3. a \in Seq(1..NRows) /\ Len(a) = n + 1 /\ (\A i \in 1..n : a[i] = s[i]) /\ a[n + 1] = n + 1
  BY <1>1, <1>2, AppendProperties
<1>4. DOMAIN a = 1..n + 1 /\ a \in [1..n + 1 -> 1..NRows]
  BY <1>3, LenProperties
<1> HIDE DEF a
<1>5. \A i \in 1..n + 1 : a[i] = i
  <2>1. \A i \in 1..n : s[i] = i
    BY DEF UpTo
  <2> QED BY <1>3, <2>1
<1>6. a = UpTo(n + 1)
  BY <1>4, <1>5 DEF UpTo
<1> QED BY <1>6 DEF a

LEMMA AllRowsIsUpTo == AllRows = UpTo(NRows) /\ Len(AllRows) = NRows /\ AllRows # <<>>
<1>1. AllRows = UpTo(NRows) /\ NRows \in Nat /\ NRows > 0
  BY InsertAssumption DEF AllRows, UpTo
<1>2. Len(AllRows) = NRows
  BY <1>1, UpToIsPrefix
<1> QED BY <1>1, <1>2

-----------------------------------------------------------------------------
(* The server                                                              *)

LEMMA CallFacts ==
  ASSUME TypeOK
  PROVE  /\ call.policy \in Policies /\ call.limit \in Nat /\ call.controller \in Controllers
         /\ call.queryThrows \in BOOLEAN /\ call.connThrows \in BOOLEAN
         /\ call.reconnect \in BOOLEAN
         /\ session \in Session
BY InsertAssumption DEF TypeOK, Session

(* What a statement finds: the same rows in a session that may be new.     *)
LEMMA TargetFacts ==
  ASSUME TypeOK
  PROVE  /\ Target \in Session /\ Target.inTxn = session.inTxn
         /\ Target.staged = session.staged /\ Target.table = session.table
         /\ session.alive => Target.alive
BY CallFacts DEF Session, Target, Reopened

LEMMA StoredFacts ==
  ASSUME NEW s \in Session
  PROVE  /\ s.staged \in Seq(1..NRows) /\ s.table \in Seq(1..NRows)
         /\ s.table \o s.staged \in Seq(1..NRows)
         /\ s.staged = <<>> => s.table \o s.staged = s.table
BY ConcatProperties, ConcatEmptySeq DEF Session

(* What the statements that end or begin a transaction do to the rows.     *)
LEMMA EndFacts ==
  ASSUME NEW s \in Session
  PROVE  /\ RolledBack(s) \in Session /\ ~RolledBack(s).inTxn /\ RolledBack(s).staged = <<>>
         /\ RolledBack(s).table = s.table
         /\ Committed(s) \in Session /\ ~Committed(s).inTxn /\ Committed(s).staged = <<>>
         /\ Committed(s).table = s.table \o s.staged
         /\ Lost(s) \in Session /\ ~Lost(s).alive /\ ~Lost(s).inTxn /\ Lost(s).staged = <<>>
         /\ Lost(s).table = s.table
         /\ RolledBack(s).alive = s.alive /\ Committed(s).alive = s.alive
<1> DEFINE joined == s.table \o s.staged
<1>1. <<>> \in Seq(1..NRows) /\ joined \in Seq(1..NRows)
  BY EmptySeq, StoredFacts
<1>2. Committed(s) = [s EXCEPT !.inTxn = FALSE, !.staged = <<>>, !.table = joined]
  BY DEF Committed, Session
<1> HIDE DEF joined
<1>3. /\ Committed(s) \in Session /\ ~Committed(s).inTxn /\ Committed(s).staged = <<>>
      /\ Committed(s).table = joined /\ Committed(s).alive = s.alive
  BY <1>1, <1>2 DEF Session
<1> QED BY <1>1, <1>3 DEF RolledBack, Lost, Session, joined

LEMMA StartFacts ==
  ASSUME NEW s \in Session
  PROVE  /\ Started(s) \in Session /\ Started(s).inTxn /\ Started(s).staged = <<>>
         /\ Started(s).table = s.table \o s.staged /\ Started(s).alive = s.alive
<1> DEFINE c == Committed(s)
<1>1. c \in Session /\ c.staged = <<>> /\ c.table = s.table \o s.staged /\ c.alive = s.alive
  BY EndFacts
<1>2. Started(s) = [c EXCEPT !.inTxn = TRUE]
  BY DEF Started
<1> HIDE DEF c
<1> QED BY <1>1, <1>2 DEF Session

LEMMA InsertFacts ==
  ASSUME NEW s \in Session, NEW rows \in Seq(1..NRows)
  PROVE  /\ Inserted(s, rows) \in Session
         /\ Inserted(s, rows).inTxn = s.inTxn /\ Inserted(s, rows).alive = s.alive
         /\ s.inTxn => /\ Inserted(s, rows).table = s.table
                       /\ Inserted(s, rows).staged = s.staged \o rows
         /\ ~s.inTxn => /\ Inserted(s, rows).table = s.table \o rows
                        /\ Inserted(s, rows).staged = s.staged
<1> DEFINE staged == s.staged \o rows
           table == s.table \o rows
<1>1. staged \in Seq(1..NRows) /\ table \in Seq(1..NRows)
  BY ConcatProperties, StoredFacts
<1>2. Inserted(s, rows) = IF s.inTxn THEN [s EXCEPT !.staged = staged]
                                     ELSE [s EXCEPT !.table = table]
  BY DEF Inserted, Session
<1> HIDE DEF staged, table
<1>3. /\ Inserted(s, rows) \in Session
      /\ Inserted(s, rows).inTxn = s.inTxn /\ Inserted(s, rows).alive = s.alive
      /\ s.inTxn => Inserted(s, rows).table = s.table /\ Inserted(s, rows).staged = staged
      /\ ~s.inTxn => Inserted(s, rows).table = table /\ Inserted(s, rows).staged = s.staged
  BY <1>1, <1>2 DEF Session
<1> QED BY <1>3 DEF staged, table

(* A statement works; or the transaction is gone, and what was durable     *)
(* before or would have been after is; or it is refused and nothing else.  *)
LEMMA SendFacts ==
  ASSUME TypeOK, SessionInv, NEW t \in Session, NEW r \in Send(t)
  PROVE  /\ r.ok \in BOOLEAN /\ r.session \in Session
         /\ r.ok => r.session = t /\ Target.alive
         /\ ~r.ok => \/ /\ ~r.session.inTxn /\ r.session.staged = <<>>
                        /\ r.session.table = session.table \/ r.session.table = t.table
                     \/ r.session = Target
<1>1. /\ Target \in Session /\ Target.inTxn = session.inTxn /\ Target.table = session.table
      /\ Target.staged = session.staged /\ (session.alive => Target.alive)
  BY TargetFacts
<1>2. r \in Outcomes(Target, t)
  BY DEF Send
<1>3. /\ RolledBack(Target) \in Session /\ ~RolledBack(Target).inTxn
      /\ RolledBack(Target).staged = <<>> /\ RolledBack(Target).table = session.table
      /\ Lost(Target) \in Session /\ ~Lost(Target).inTxn /\ Lost(Target).staged = <<>>
      /\ Lost(Target).table = session.table
  BY <1>1, EndFacts
<1>4. Lost(t) \in Session /\ ~Lost(t).inTxn /\ Lost(t).staged = <<>> /\ Lost(t).table = t.table
  BY EndFacts
<1>5. CASE ~Target.alive
  <2>1. r = [session |-> Target, ok |-> FALSE]
    BY <1>2, <1>5 DEF Outcomes
  <2> QED BY <1>1, <1>5, <2>1 DEF SessionInv
<1>6. CASE Target.alive
  <2>1. \/ r = [session |-> t, ok |-> TRUE]
        \/ r = [session |-> Lost(Target), ok |-> FALSE]
        \/ r = [session |-> Lost(t), ok |-> FALSE]
        \/ r = [session |-> Target, ok |-> FALSE]
        \/ r = [session |-> RolledBack(Target), ok |-> FALSE]
    BY <1>2, <1>6 DEF Outcomes
  <2>2. CASE r = [session |-> t, ok |-> TRUE]
    BY <1>6, <2>2
  <2>3. CASE r = [session |-> Lost(Target), ok |-> FALSE]
    BY <1>3, <2>3
  <2>4. CASE r = [session |-> Lost(t), ok |-> FALSE]
    BY <1>4, <2>4
  <2>5. CASE r = [session |-> Target, ok |-> FALSE]
    BY <1>1, <2>5
  <2>6. CASE r = [session |-> RolledBack(Target), ok |-> FALSE]
    BY <1>3, <2>6
  <2> QED BY <2>1, <2>2, <2>3, <2>4, <2>5, <2>6
<1> QED BY <1>5, <1>6

(* After any of them the rows are still a prefix of the container, if they *)
(* were and would have been.                                               *)
LEMMA SendKeepsOrder ==
  ASSUME TypeOK, SessionInv, RowsInv, NEW t \in Session,
         NEW r \in Send(t), Prefix(t.table \o t.staged)
  PROVE  Prefix(r.session.table \o r.session.staged)
<1>1. Prefix(session.table \o session.staged) /\ session \in Session
  BY CallFacts DEF RowsInv, RowsInOrder
<1>2. Prefix(session.table) /\ Prefix(t.table)
  BY <1>1, PrefixOfPrefix, StoredFacts
<1>3. /\ r.ok \in BOOLEAN /\ r.session \in Session
      /\ r.ok => r.session = t
      /\ ~r.ok => \/ /\ r.session.staged = <<>>
                     /\ r.session.table = session.table \/ r.session.table = t.table
                  \/ r.session = Target
  BY SendFacts
<1>4. r.session.staged = <<>> => r.session.table \o r.session.staged = r.session.table
  BY <1>3, StoredFacts
<1>5. Target.table = session.table /\ Target.staged = session.staged
  BY TargetFacts
<1> QED BY <1>1, <1>2, <1>3, <1>4, <1>5

-----------------------------------------------------------------------------
(* The buffer                                                              *)

LEMMA ConcatRows ==
  \A s, t, u \in Seq(1..NRows) : (s \o t) \o u = s \o (t \o u)
<1> TAKE s, t, u \in Seq(1..NRows)
<1> QED BY ConcatAssociative

LEMMA ConcatAppend ==
  ASSUME NEW s \in Seq(1..NRows), NEW t \in Seq(1..NRows), NEW e \in 1..NRows
  PROVE  s \o Append(t, e) = Append(s \o t, e)
<1> DEFINE one == <<e>>
<1>1. one \in Seq(1..NRows)
  OBVIOUS
<1>2. Append(t, e) = t \o one
  BY AppendIsConcat
<1>3. s \o t \in Seq(1..NRows)
  BY ConcatProperties
<1>4. Append(s \o t, e) = (s \o t) \o one
  BY <1>3, AppendIsConcat
<1> HIDE DEF one
<1>5. (s \o t) \o one = s \o (t \o one)
  BY <1>1, ConcatRows
<1> QED BY <1>2, <1>4, <1>5

LEMMA BufferFacts ==
  ASSUME TypeOK
  PROVE  /\ Len(buf) \in Nat /\ (buf = <<>> <=> Len(buf) = 0)
         /\ buf # <<>> => buf[Len(buf)] \in 1..NRows
         /\ NRows \in Nat /\ Stored \in Seq(1..NRows)
         /\ Stored \o buf \in Seq(1..NRows)
         /\ buf = <<>> => Stored \o buf = Stored
<1>1. Stored \in Seq(1..NRows)
  <2>1. session \in Session
    BY CallFacts
  <2> QED BY <2>1, StoredFacts DEF Stored
<1>2. buf \in Seq(1..NRows)
  BY DEF TypeOK
<1>3. Len(buf) \in Nat /\ (buf = <<>> <=> Len(buf) = 0)
  BY <1>2, EmptySeq, LenProperties
<1>4. buf # <<>> => buf[Len(buf)] \in 1..NRows
  <2>1. buf \in [1..Len(buf) -> 1..NRows]
    BY <1>2, LenProperties
  <2> QED BY <1>3, <2>1
<1>5. NRows \in Nat
  BY InsertAssumption
<1>6. Stored \o buf \in Seq(1..NRows) /\ Stored \o <<>> = Stored
  BY <1>1, <1>2, ConcatProperties, ConcatEmptySeq
<1> QED BY <1>1, <1>3, <1>4, <1>5, <1>6

LEMMA SizeFacts ==
  ASSUME NEW i \in 1..NRows
  PROVE  NextSize(i) \in Nat /\ RowSize[i] \in Nat /\ Header \in Nat
BY InsertAssumption DEF NextSize

(* What each policy says of a row.                                         *)
LEMMA PolicyFacts ==
  ASSUME NEW i
  PROVE  /\ call.policy = "RowCount" => (CanAdd(i) <=> curRows + 1 <= call.limit)
         /\ call.policy = "SizeThreshold" => (CanAdd(i) <=> len < call.limit)
         /\ call.policy = "MaxPacket" =>
              (CanAdd(i) <=> len < call.limit /\ call.limit - len >= NextSize(i))
<1>1. CASE call.policy = "RowCount"
  BY <1>1, Zenon DEF CanAdd
<1>2. CASE call.policy = "SizeThreshold"
  BY <1>2, Zenon DEF CanAdd
<1>3. CASE call.policy = "MaxPacket"
  BY <1>3, Zenon DEF CanAdd
<1> QED BY <1>1, <1>2, <1>3

LEMMA CountFacts ==
  ASSUME TypeOK, NEW i, CountRow(i)
  PROVE  /\ curRows' \in Nat
         /\ call.policy = "RowCount" /\ CanAdd(i) =>
              curRows' = curRows + 1 /\ curRows + 1 <= call.limit
         /\ call.policy = "RowCount" /\ ~CanAdd(i) => curRows' = 0
BY CallFacts, PolicyFacts DEF TypeOK, CountRow

(* A row is written to the buffer, behind the rows before it.              *)
LEMMA AppendFacts ==
  ASSUME TypeOK, it <= NRows, Append1(it), Stored \o buf = UpTo(it - 1)
  PROVE  /\ it \in 1..NRows
         /\ buf' \in Seq(1..NRows) /\ len' \in Nat /\ it' = it + 1 /\ it' \in 1..NRows + 1
         /\ Len(buf') = Len(buf) + 1 /\ buf'[Len(buf')] = it
         /\ len' = IF buf = <<>> THEN Header + RowSize[it] + 1 ELSE len + NextSize(it)
         /\ Stored \o buf' = UpTo(it' - 1)
<1>1. it \in 1..NRows /\ it - 1 \in Nat /\ it - 1 < NRows /\ it - 1 + 1 = it
  BY InsertAssumption DEF TypeOK
<1>2. /\ buf' = Append(buf, it) /\ it' = it + 1
      /\ len' = IF buf = <<>> THEN Header + RowSize[it] + 1 ELSE len + NextSize(it)
  BY DEF Append1
<1>3. len' \in Nat
  <2>1. NextSize(it) \in Nat /\ RowSize[it] \in Nat /\ Header \in Nat
    BY <1>1, SizeFacts
  <2>2. len \in Nat
    BY DEF TypeOK
  <2> QED BY <1>2, <2>1, <2>2
<1>4. /\ buf' \in Seq(1..NRows) /\ Len(buf') = Len(buf) + 1 /\ buf'[Len(buf')] = it
  BY <1>1, <1>2, AppendProperties, BufferFacts DEF TypeOK
<1>5. Stored \o buf' = UpTo(it' - 1)
  <2>1. Append(Stored \o buf, it) = UpTo(it)
    BY <1>1, BufferFacts, UpToAppend
  <2>2. Stored \in Seq(1..NRows) /\ buf \in Seq(1..NRows) /\ it \in 1..NRows
    BY <1>1, BufferFacts DEF TypeOK
  <2>3. Stored \o Append(buf, it) = Append(Stored \o buf, it)
    BY <2>2, ConcatAppend
  <2>4. it' - 1 = it
    BY <1>1, <1>2
  <2> QED BY <1>2, <2>1, <2>3, <2>4
<1> QED BY <1>1, <1>2, <1>3, <1>4, <1>5, InsertAssumption

LEMMA UpToNext == TypeOK => UpTo(it - 1)' = UpTo(it' - 1)
BY DEF UpTo

-----------------------------------------------------------------------------
(* The invariant                                                           *)

LEMMA InitInv == Init => IInv
<1> SUFFICES ASSUME Init PROVE IInv
  OBVIOUS
<1>1. TypeOK
  <2>1. /\ success \in BOOLEAN /\ copacetic \in BOOLEAN /\ finished \in BOOLEAN
        /\ refused \in BOOLEAN
    BY Zenon DEF Init
  <2>2. call \in Calls /\ curRows \in Nat /\ it \in 1..NRows + 1 /\ len \in Nat
    BY InsertAssumption DEF Init
  <2>3. session \in Session /\ buf \in Seq(1..NRows)
    BY EmptySeq DEF Init, FreshSession, Session
  <2> QED BY <2>1, <2>2, <2>3 DEF Init, TypeOK, Session, Steps
<1>2. Stored = <<>> /\ session.staged = <<>> /\ session.table = <<>> /\ ~session.inTxn
  BY ConcatEmptySeq, EmptySeq DEF Init, FreshSession, Stored
<1>3. Prefix(<<>>)
  BY DEF Prefix
<1>4. FlagsInv
  BY Zenon DEF Init, FlagsInv
<1> QED BY <1>1, <1>2, <1>3, <1>4, CallFacts DEF IInv, Init, ControlInv, SessionInv,
      AtomicInv, RowsInv, RowsInOrder, SizeInv, Stored, Loop, Policies

(* START TRANSACTION, if there is one: nothing is stored yet.              *)
LEMMA BeginFacts ==
  ASSUME IInv, Begin
  PROVE  /\ session' \in Session /\ session'.table = <<>> /\ session'.staged = <<>>
         /\ pc' \in {"row", "done"} /\ finished' \in BOOLEAN /\ outcome' \in {"running", "thrown"}
         /\ session'.inTxn => session'.alive /\ ~finished' /\ call.controller = "Transaction"
         /\ pc' = "row" => outcome' = "running" /\ (Transacted => session'.inTxn)
         /\ pc' = "done" => outcome' = "thrown" /\ finished' /\ ~session'.inTxn
<1>1. /\ TypeOK /\ ControlInv /\ SessionInv /\ AtomicInv /\ RowsInv /\ SizeInv
      /\ pc = "begin"
  BY DEF IInv, Begin
<1>2. /\ session = FreshSession /\ it = 1 /\ buf = <<>> /\ outcome = "running" /\ success
      /\ session.staged = <<>> /\ session.table = <<>> /\ ~session.inTxn
  BY <1>1 DEF ControlInv, FreshSession, TypeOK
<1>3. /\ UNCHANGED <<call, curRows, it, buf, len, success, copacetic, refused>>
      /\ Transacted' = Transacted
  BY DEF Begin, Transacted
<1>4. CASE call.controller = "NoTransaction"
  BY <1>1, <1>2, <1>4, CallFacts DEF Begin, Transacted, TypeOK
<1>5. CASE call.controller # "NoTransaction"
  <2>1. PICK r \in Send(Started(Target)) :
          /\ session' = r.session
          /\ IF r.ok \/ ~call.connThrows
             THEN pc' = "row" /\ finished' = FALSE /\ UNCHANGED outcome
             ELSE pc' = "done" /\ outcome' = "thrown" /\ UNCHANGED finished
    BY <1>5 DEF Begin
  <2>2. /\ Target \in Session /\ Target.table \o Target.staged = <<>>
        /\ ~Target.inTxn /\ Target.staged = <<>> /\ Target.table = <<>>
    BY <1>1, <1>2, TargetFacts, StoredFacts
  <2>3. /\ Started(Target) \in Session /\ Started(Target).inTxn
        /\ Started(Target).staged = <<>> /\ Started(Target).table = <<>>
        /\ Started(Target).alive = Target.alive
    BY <2>2, StartFacts
  <2>4. /\ r.ok \in BOOLEAN /\ r.session \in Session
        /\ r.ok => r.session = Started(Target) /\ Target.alive
        /\ ~r.ok => \/ /\ ~r.session.inTxn /\ r.session.staged = <<>>
                       /\ \/ r.session.table = session.table
                          \/ r.session.table = Started(Target).table
                    \/ r.session = Target
    BY <1>1, <2>3, SendFacts
  <2>5. call.controller = "Transaction"
    BY <1>1, <1>5, CallFacts DEF Controllers
  <2>6. CASE r.ok
    BY <1>1, <1>2, <2>1, <2>3, <2>4, <2>5, <2>6 DEF TypeOK
  <2>7. CASE ~r.ok
    BY <1>1, <1>2, <2>1, <2>2, <2>3, <2>4, <2>5, <2>7 DEF TypeOK, Transacted, SessionInv
  <2> QED BY <2>4, <2>6, <2>7
<1> QED BY <1>4, <1>5

(* The container and the buffer are as they were.                          *)
LEMMA BeginStep == ASSUME IInv, Begin PROVE IInv'
<1>1. /\ TypeOK /\ ControlInv /\ SessionInv /\ AtomicInv /\ RowsInv /\ SizeInv
      /\ pc = "begin"
  BY DEF IInv, Begin
<1>2. /\ session = FreshSession /\ it = 1 /\ buf = <<>> /\ outcome = "running" /\ success
      /\ session.staged = <<>> /\ session.table = <<>> /\ ~session.inTxn
  BY <1>1 DEF ControlInv, FreshSession, TypeOK
<1>3. /\ UNCHANGED <<call, curRows, it, buf, len, success, copacetic, refused>>
      /\ Transacted' = Transacted
  BY DEF Begin, Transacted
<1>4. /\ session' \in Session /\ session'.table = <<>> /\ session'.staged = <<>>
      /\ pc' \in {"row", "done"} /\ finished' \in BOOLEAN /\ outcome' \in {"running", "thrown"}
      /\ session'.inTxn => session'.alive /\ ~finished' /\ call.controller = "Transaction"
      /\ pc' = "row" => outcome' = "running" /\ (Transacted => session'.inTxn)
      /\ pc' = "done" => outcome' = "thrown" /\ finished' /\ ~session'.inTxn
  BY BeginFacts
<1>5. TypeOK'
  BY <1>1, <1>3, <1>4 DEF TypeOK, Session, Steps
<1>6. Stored' = <<>> /\ Prefix(<<>>) /\ UpTo(0) = <<>>
  <2>1. Stored' = <<>>
    BY <1>4, StoredFacts DEF Stored
  <2> QED BY <2>1 DEF Prefix, UpTo
<1>7. RowsInv'
  <2>1. Stored' \o buf' = <<>> /\ UpTo(it' - 1) = UpTo(0)
    BY <1>2, <1>3, <1>6, EmptySeq, ConcatEmptySeq
  <2>2. RowsInOrder'
    BY <1>6, <2>1 DEF RowsInOrder, Stored, UpTo
  <2> QED BY <1>4, <2>2 DEF RowsInv
<1>8. ControlInv' /\ SessionInv' /\ AtomicInv'
  <2>1. ControlInv'
    BY <1>2, <1>3, <1>4 DEF ControlInv
  <2>2. SessionInv'
    BY <1>1, <1>3, <1>4 DEF SessionInv
  <2>3. AtomicInv'
    BY <1>3, <1>4 DEF AtomicInv, Loop
  <2> QED BY <2>1, <2>2, <2>3
<1>9. SizeInv'
  BY <1>1, <1>2, <1>3, <1>4, CallFacts DEF SizeInv, TypeOK
<1>10. FlagsInv'
  <2>1. ~refused /\ (success => copacetic \/ outcome = "thrown") /\ outcome # "thrown"
    BY <1>1, <1>2 DEF IInv, FlagsInv
  <2> QED BY <1>2, <1>3, <1>4, <2>1 DEF FlagsInv
<1> QED BY <1>5, <1>7, <1>8, <1>9, <1>10 DEF IInv

(* A step that leaves the session and the outcome alone, inside the loop:  *)
(* only the rows, the buffer and its size are left to look at.             *)
LEMMA LoopStep ==
  ASSUME IInv, pc \in Loop, pc' \in Loop, TypeOK',
         UNCHANGED <<call, session, success, copacetic, finished, refused, outcome>>,
         (Stored \o buf = UpTo(it - 1))',
         pc' = "flush" => it' <= NRows,
         pc' = "retry" => it' <= NRows /\ buf' = <<>>,
         pc' = "last" => it' = NRows + 1,
         SizeInv'
  PROVE  IInv'
<1>1. ControlInv /\ FlagsInv /\ SessionInv /\ AtomicInv /\ RowsInv
  BY DEF IInv
<1>2. ControlInv'
  BY <1>1 DEF ControlInv, Loop
<1>3. SessionInv'
  BY <1>1 DEF SessionInv, Loop
<1>4. AtomicInv'
  BY <1>1 DEF AtomicInv, Transacted, Loop
<1>5. RowsInv'
  <2>1. RowsInOrder'
    BY <1>1 DEF RowsInv, RowsInOrder, Stored, UpTo
  <2>2. outcome' # "returned" /\ pc' # "end" /\ pc' # "unwind"
    BY <1>2 DEF ControlInv, Loop
  <2> QED BY <2>1, <2>2 DEF RowsInv
<1>6. FlagsInv'
  <2>1. success /\ copacetic /\ ~refused
    BY <1>1 DEF ControlInv, FlagsInv, Loop
  <2> QED BY <2>1 DEF FlagsInv, Loop
<1> QED BY <1>2, <1>3, <1>4, <1>5, <1>6 DEF IInv

LEMMA Built ==
  ASSUME IInv, pc \in Loop
  PROVE  /\ Stored \o buf = UpTo(it - 1)
         /\ success /\ copacetic /\ ~refused /\ outcome = "running"
<1>1. Stored \o buf = UpTo(it - 1) /\ success /\ outcome = "running"
  BY DEF IInv, TypeOK, RowsInv, RowsInOrder, Stored, UpTo, Loop, ControlInv
<1>2. copacetic /\ ~refused
  BY <1>1 DEF IInv, FlagsInv, Loop
<1> QED BY <1>1, <1>2

(* The policy takes the row, in the loop or when it is asked once more.    *)
LEMMA RowAdded ==
  ASSUME IInv, pc \in {"row", "retry"}, it <= NRows, CanAdd(it), CountRow(it), Append1(it),
         pc' = "row", UNCHANGED <<call, session, success, copacetic, finished, refused, outcome>>
  PROVE  IInv'
<1>1. TypeOK /\ ControlInv /\ SizeInv /\ pc \in Loop
  BY DEF IInv, Loop
<1>2. /\ it \in 1..NRows
      /\ buf' \in Seq(1..NRows) /\ len' \in Nat /\ it' = it + 1 /\ it' \in 1..NRows + 1
      /\ Len(buf') = Len(buf) + 1 /\ buf'[Len(buf')] = it
      /\ len' = IF buf = <<>> THEN Header + RowSize[it] + 1 ELSE len + NextSize(it)
      /\ Stored \o buf' = UpTo(it' - 1)
  BY <1>1, AppendFacts, Built
<1>3. /\ curRows' \in Nat
      /\ call.policy = "RowCount" => curRows' = curRows + 1 /\ curRows + 1 <= call.limit
  BY <1>1, CountFacts
<1>4. TypeOK'
  BY <1>1, <1>2, <1>3 DEF TypeOK, Steps
<1>5. (Stored \o buf = UpTo(it - 1))'
  BY <1>2 DEF Stored, UpTo
<1>6. Len(buf) \in Nat /\ (buf = <<>> <=> Len(buf) = 0) /\ NextSize(it) \in Nat
  BY <1>1, <1>2, BufferFacts, SizeFacts
<1>7. SizeInv'
  <2>1. call.policy = "RowCount" => Len(buf') <= curRows' /\ curRows' <= call.limit
    BY <1>1, <1>2, <1>3, <1>6, CallFacts DEF SizeInv, ControlInv, TypeOK
  <2>2. ASSUME Len(buf') > 1
        PROVE  len' = len + NextSize(it)
    BY <1>2, <1>6, <2>2
  <2>3. ASSUME Len(buf') > 1, call.policy = "SizeThreshold"
        PROVE  len' - NextSize(buf'[Len(buf')]) < call.limit
    BY <1>1, <1>2, <1>6, <2>2, <2>3, PolicyFacts, CallFacts DEF TypeOK
  <2>4. ASSUME Len(buf') > 1, call.policy = "MaxPacket"
        PROVE  len' <= call.limit
    BY <1>1, <1>2, <1>6, <2>2, <2>4, PolicyFacts, CallFacts DEF TypeOK
  <2> QED BY <2>1, <2>3, <2>4 DEF SizeInv
<1> QED BY <1>1, <1>4, <1>5, <1>7, LoopStep DEF Loop

LEMMA AddRowStep == ASSUME IInv, AddRow PROVE IInv'
BY RowAdded DEF AddRow

LEMMA RowRefusedStep == ASSUME IInv, RowRefused PROVE IInv'
<1>1. /\ TypeOK /\ ControlInv /\ SizeInv /\ pc = "row" /\ pc \in Loop /\ it <= NRows
      /\ ~CanAdd(it) /\ CountRow(it) /\ pc' = IF buf = <<>> THEN "retry" ELSE "flush"
      /\ UNCHANGED <<call, session, it, buf, len, success, copacetic, finished, refused,
                     outcome>>
  BY DEF IInv, RowRefused, Loop
<1>2. curRows' \in Nat /\ (call.policy = "RowCount" => curRows' = 0)
  BY <1>1, CountFacts
<1>3. TypeOK'
  BY <1>1, <1>2 DEF TypeOK, Steps
<1>4. (Stored \o buf = UpTo(it - 1))'
  BY <1>1, Built DEF Stored, UpTo
<1>5. SizeInv'
  <2>1. /\ call.policy = "RowCount" => Len(buf) <= call.limit /\ curRows' <= call.limit
        /\ call.policy = "SizeThreshold" => len >= call.limit
    BY <1>1, <1>2, PolicyFacts, CallFacts, BufferFacts DEF SizeInv, TypeOK
  <2> QED BY <1>1, <2>1 DEF SizeInv
<1> QED BY <1>1, <1>3, <1>4, <1>5, LoopStep DEF Loop

LEMMA LoopEndsStep == ASSUME IInv, LoopEnds PROVE IInv'
<1>1. /\ TypeOK /\ ControlInv /\ SessionInv /\ AtomicInv /\ RowsInv /\ SizeInv
      /\ pc = "row" /\ pc \in Loop /\ it = NRows + 1
      /\ pc' = IF buf = <<>> THEN "end" ELSE "last"
      /\ UNCHANGED <<call, curRows, session, it, buf, len, success, copacetic,
                     finished, refused, outcome>>
  BY DEF IInv, LoopEnds, Loop
<1>2. TypeOK'
  BY <1>1 DEF TypeOK, Steps
<1>3. /\ Stored \o buf = UpTo(it - 1) /\ success /\ outcome = "running"
      /\ copacetic /\ ~refused
      /\ (Stored \o buf)' = Stored \o buf /\ UpTo(it - 1)' = UpTo(it - 1)
  BY <1>1, Built DEF Stored, UpTo
<1>4. SizeInv'
  BY <1>1, CallFacts, BufferFacts DEF SizeInv, TypeOK
<1>5. CASE buf = <<>>
  <2>1. Stored = AllRows
    BY <1>1, <1>3, <1>5, BufferFacts, AllRowsIsUpTo
  <2>2. ControlInv'
    BY <1>1, <1>3, <1>5 DEF ControlInv
  <2>3. SessionInv'
    BY <1>1, <1>5 DEF SessionInv
  <2>4. AtomicInv'
    BY <1>1, <1>5 DEF AtomicInv, Transacted, Loop
  <2>5. RowsInv'
    BY <1>1, <1>3, <1>5, <2>1 DEF RowsInv, RowsInOrder, Stored
  <2>6. FlagsInv'
    BY <1>1, <1>3 DEF FlagsInv
  <2> QED BY <1>2, <1>4, <2>2, <2>3, <2>4, <2>5, <2>6 DEF IInv
<1>6. CASE buf # <<>>
  BY <1>1, <1>2, <1>3, <1>4, <1>6, LoopStep DEF Loop
<1> QED BY <1>5, <1>6

(* An INSERT that works stores the rows of the buffer behind the others.   *)
LEMMA InsertedRows ==
  ASSUME TypeOK, SessionInv
  PROVE  /\ Inserted(Target, buf) \in Session
         /\ Inserted(Target, buf).table \o Inserted(Target, buf).staged = Stored \o buf
         /\ Inserted(Target, buf).inTxn = session.inTxn
         /\ Inserted(Target, buf).alive = Target.alive
         /\ session.inTxn => Inserted(Target, buf).table = session.table
         /\ ~session.inTxn => Inserted(Target, buf).staged = <<>>
<1> DEFINE t == Inserted(Target, buf)
<1>1. /\ buf \in Seq(1..NRows) /\ session.table \in Seq(1..NRows)
      /\ session.staged \in Seq(1..NRows)
  BY CallFacts, StoredFacts DEF TypeOK
<1>2. /\ Target \in Session /\ Target.inTxn = session.inTxn
      /\ Target.staged = session.staged /\ Target.table = session.table
  BY TargetFacts
<1>3. /\ t \in Session /\ t.inTxn = session.inTxn /\ t.alive = Target.alive
      /\ session.inTxn => t.table = session.table /\ t.staged = session.staged \o buf
      /\ ~session.inTxn => t.table = session.table \o buf /\ t.staged = session.staged
  <2>1. Target \in Session /\ buf \in Seq(1..NRows)
    BY <1>1, <1>2
  <2>2. /\ t \in Session /\ t.inTxn = Target.inTxn /\ t.alive = Target.alive
        /\ Target.inTxn => t.table = Target.table /\ t.staged = Target.staged \o buf
        /\ ~Target.inTxn => t.table = Target.table \o buf /\ t.staged = Target.staged
    BY <2>1, InsertFacts
  <2> QED BY <1>2, <2>2
<1>4. CASE session.inTxn
  <2>1. session.table \o (session.staged \o buf) = (session.table \o session.staged) \o buf
    BY <1>1, ConcatRows
  <2> QED BY <1>3, <1>4, <2>1 DEF Stored
<1>5. CASE ~session.inTxn
  <2>1. session.staged = <<>> /\ Stored = session.table
    BY <1>1, <1>5, ConcatEmptySeq DEF SessionInv, Stored
  <2>2. t.staged = <<>> /\ t.table = session.table \o buf
    BY <1>3, <1>5, <2>1
  <2>3. t.table \o t.staged = t.table
    BY <1>3, <2>2, StoredFacts
  <2> QED BY <1>3, <1>5, <2>1, <2>2, <2>3
<1> QED BY <1>4, <1>5, <1>3

(* A statement of the bulk insert: its rows are stored, and the call goes  *)
(* on; or they are not, and it is on its way out.                          *)
LEMMA ExecStep ==
  ASSUME IInv, NEW next \in {"retry", "end"}, Exec(next),
         pc = IF next = "retry" THEN "flush" ELSE "last",
         UNCHANGED <<call, curRows, it, finished, refused>>
  PROVE  IInv'
<1> DEFINE t == Inserted(Target, buf)
<1>1. /\ TypeOK /\ ControlInv /\ SessionInv /\ AtomicInv /\ RowsInv /\ SizeInv
      /\ pc \in Loop /\ pc \in {"flush", "last"}
  BY DEF IInv, Loop
<1>2. PICK r \in Send(t) :
        /\ session' = r.session
        /\ copacetic' = r.ok
        /\ IF r.ok
           THEN buf' = <<>> /\ len' = 0 /\ pc' = next /\ UNCHANGED <<success, outcome>>
           ELSE /\ UNCHANGED <<buf, len>>
                /\ IF call.queryThrows THEN Raise /\ UNCHANGED success
                   ELSE success' = FALSE /\ pc' = "end" /\ UNCHANGED outcome
  BY DEF Exec
<1>3. /\ t \in Session /\ t.table \o t.staged = Stored \o buf
      /\ t.inTxn = session.inTxn /\ t.alive = Target.alive
      /\ session.inTxn => t.table = session.table
      /\ ~session.inTxn => t.staged = <<>>
  BY <1>1, InsertedRows
<1>4. /\ Stored \o buf = UpTo(it - 1) /\ success /\ outcome = "running"
      /\ copacetic /\ ~refused
      /\ it - 1 \in Nat /\ UpTo(it - 1)' = UpTo(it - 1)
  BY <1>1, Built, InsertAssumption DEF TypeOK, UpTo
<1>5. Prefix(t.table \o t.staged)
  BY <1>3, <1>4, UpToIsPrefix
<1>6. Prefix(Stored)'
  BY <1>1, <1>2, <1>3, <1>5, SendKeepsOrder DEF Stored
<1>7. /\ r.ok \in BOOLEAN /\ r.session \in Session
      /\ r.ok => r.session = t /\ Target.alive
      /\ ~r.ok => \/ /\ ~r.session.inTxn /\ r.session.staged = <<>>
                     /\ r.session.table = session.table \/ r.session.table = t.table
                  \/ r.session = Target
  BY <1>1, <1>3, SendFacts
<1>8. /\ Target.table = session.table /\ Target.staged = session.staged
      /\ Target.inTxn = session.inTxn /\ (session.alive => Target.alive)
  BY <1>1, TargetFacts
<1>9. /\ call' = call /\ Transacted' = Transacted
      /\ Transacted => session.inTxn /\ session.table = <<>>
  BY <1>1 DEF Transacted, AtomicInv
<1> HIDE DEF t
<1>10. CASE r.ok
  <2>1. /\ session' = t /\ buf' = <<>> /\ len' = 0 /\ pc' = next
        /\ UNCHANGED <<success, outcome>>
    BY <1>2, <1>7, <1>10
  <2>2. TypeOK'
    <3>1. <<>> \in Seq(1..NRows)
      BY EmptySeq
    <3> QED BY <1>1, <1>2, <1>3, <1>7, <2>1, <3>1 DEF TypeOK, Session, Steps
  <2>3. ControlInv'
    BY <1>1, <1>4, <2>1 DEF ControlInv
  <2>4. SessionInv'
    BY <1>1, <1>3, <1>7, <1>10, <2>1 DEF SessionInv
  <2>5. AtomicInv'
    BY <1>3, <1>9, <2>1 DEF AtomicInv
  <2>6. Stored' = UpTo(it - 1)
    BY <1>3, <1>4, <2>1 DEF Stored
  <2>7. (Stored \o buf = UpTo(it - 1))'
    <3>1. Stored' \in Seq(1..NRows)
      BY <1>3, <2>1, StoredFacts DEF Stored
    <3>2. Stored' \o <<>> = Stored'
      BY <3>1, ConcatEmptySeq
    <3> QED BY <1>4, <2>1, <2>6, <3>2
  <2>8. RowsInOrder'
    BY <1>6, <2>7 DEF RowsInOrder, Stored, UpTo
  <2>9. (pc = "end")' => Stored' = AllRows
    BY <1>1, <2>1, <2>6, AllRowsIsUpTo, InsertAssumption DEF ControlInv
  <2>10. RowsInv'
    BY <1>4, <2>1, <2>8, <2>9 DEF RowsInv
  <2>11. SizeInv'
    BY <1>1, <2>1 DEF SizeInv
  <2>12. FlagsInv'
    BY <1>1, <1>2, <1>4, <1>10, <2>1 DEF FlagsInv, ControlInv
  <2> QED BY <2>2, <2>3, <2>4, <2>5, <2>10, <2>11, <2>12 DEF IInv
<1>11. CASE ~r.ok
  <2>1. /\ session' = r.session /\ UNCHANGED <<buf, len>>
        /\ \/ call.queryThrows /\ outcome' = "thrown" /\ pc' = "unwind" /\ success' = success
           \/ ~call.queryThrows /\ success' = FALSE /\ pc' = "end" /\ outcome' = outcome
    BY <1>2, <1>11 DEF Raise
  <2>2. TypeOK'
    BY <1>1, <1>2, <1>7, <2>1 DEF TypeOK, Session, Steps
  <2>3. ControlInv'
    BY <1>1, <1>4, <2>1 DEF ControlInv
  <2>4. SessionInv'
    BY <1>1, <1>7, <1>8, <1>11, <2>1 DEF SessionInv
  <2>5. AtomicInv'
    BY <1>3, <1>4, <1>7, <1>8, <1>9, <1>11, <2>1 DEF AtomicInv, Loop
  <2>6. RowsInv'
    BY <1>4, <1>6, <2>1 DEF RowsInv, RowsInOrder, Stored
  <2>7. SizeInv'
    BY <1>1, <2>1 DEF SizeInv
  <2>8. FlagsInv'
    BY <1>1, <1>2, <1>4, <1>11, <2>1 DEF FlagsInv
  <2> QED BY <2>2, <2>3, <2>4, <2>5, <2>6, <2>7, <2>8 DEF IInv
<1> QED BY <1>7, <1>10, <1>11

LEMMA FlushStep == ASSUME IInv, Flush PROVE IInv'
BY ExecStep DEF Flush

LEMMA ExecLastStep == ASSUME IInv, ExecLast PROVE IInv'
BY ExecStep DEF ExecLast

(* The row that was refused is taken with the buffer empty, or given up.   *)
LEMMA RetryRowStep == ASSUME IInv, RetryRow PROVE IInv'
<1>1. /\ TypeOK /\ ControlInv /\ SessionInv /\ AtomicInv /\ RowsInv /\ SizeInv
      /\ pc = "retry" /\ pc \in Loop /\ it <= NRows /\ CountRow(it)
      /\ UNCHANGED <<call, session, copacetic, finished, refused>>
      /\ IF CanAdd(it)
         THEN Append1(it) /\ pc' = "row" /\ UNCHANGED <<success, outcome>>
         ELSE /\ UNCHANGED <<it, buf, len>>
              /\ IF call.queryThrows THEN Raise /\ UNCHANGED success
                 ELSE success' = FALSE /\ pc' = "end" /\ UNCHANGED outcome
  BY DEF IInv, RetryRow, Loop, ControlInv
<1>2. CASE CanAdd(it)
  BY <1>1, <1>2, RowAdded
<1>3. CASE ~CanAdd(it)
  <2>1. /\ UNCHANGED <<it, buf, len>>
        /\ \/ call.queryThrows /\ outcome' = "thrown" /\ pc' = "unwind" /\ success' = success
           \/ ~call.queryThrows /\ success' = FALSE /\ pc' = "end" /\ outcome' = outcome
    BY <1>1, <1>3 DEF Raise
  <2>2. success /\ copacetic /\ ~refused /\ outcome = "running"
    BY <1>1, Built
  <2>3. curRows' \in Nat /\ (call.policy = "RowCount" => curRows' = 0)
    BY <1>1, <1>3, CountFacts
  <2>4. TypeOK'
    BY <1>1, <2>1, <2>3 DEF TypeOK, Steps
  <2>5. ControlInv'
    BY <1>1, <2>1, <2>2 DEF ControlInv
  <2>6. SessionInv'
    BY <1>1, <2>1 DEF SessionInv
  <2>7. AtomicInv'
    BY <1>1, <2>1, <2>2 DEF AtomicInv, Transacted, Loop
  <2>8. RowsInv'
    BY <1>1, <2>1, <2>2 DEF RowsInv, RowsInOrder
  <2>9. SizeInv'
    BY <1>1, <2>1, <2>3, CallFacts DEF SizeInv
  <2>10. FlagsInv'
    BY <1>1, <2>1, <2>2 DEF FlagsInv, GivenUp
  <2> QED BY <2>4, <2>5, <2>6, <2>7, <2>8, <2>9, <2>10 DEF IInv
<1> QED BY <1>2, <1>3

(* What the controller's last statement makes of the session.              *)
LEMMA FinishFacts ==
  ASSUME TypeOK, SessionInv
  PROVE  /\ Committed(Target) \in Session /\ ~Committed(Target).inTxn
         /\ Committed(Target).staged = <<>> /\ Committed(Target).table = Stored
         /\ RolledBack(Target) \in Session /\ ~RolledBack(Target).inTxn
         /\ RolledBack(Target).staged = <<>> /\ RolledBack(Target).table = session.table
<1>1. /\ Target \in Session
      /\ Target.staged = session.staged /\ Target.table = session.table
  BY TargetFacts
<1>2. /\ Committed(Target) \in Session /\ ~Committed(Target).inTxn
      /\ Committed(Target).staged = <<>>
      /\ Committed(Target).table = Target.table \o Target.staged
      /\ RolledBack(Target) \in Session /\ ~RolledBack(Target).inTxn
      /\ RolledBack(Target).staged = <<>> /\ RolledBack(Target).table = Target.table
  BY <1>1, EndFacts
<1> QED BY <1>1, <1>2 DEF Stored

(* commit() after a good loop, rollback() after a bad one: the transaction *)
(* is over then, or the session has refused to end it.                     *)
LEMMA FinishStep == ASSUME IInv, Finish PROVE IInv'
<1>1. /\ TypeOK /\ ControlInv /\ SessionInv /\ AtomicInv /\ RowsInv /\ SizeInv
      /\ pc = "end" /\ outcome = "running"
      /\ UNCHANGED <<call, curRows, it, buf, len, success, copacetic>>
  BY DEF IInv, Finish, ControlInv, TypeOK
<1>2. session \in Session /\ Stored \in Seq(1..NRows) /\ session.table \in Seq(1..NRows)
  BY <1>1, CallFacts, StoredFacts DEF Stored
<1>3. CASE call.controller = "NoTransaction"
  <2>1. pc' = "unwind" /\ UNCHANGED <<session, finished, refused, outcome>>
    BY <1>3 DEF Finish
  <2>2. ~session.inTxn /\ session.staged = <<>> /\ Stored = session.table
    BY <1>1, <1>2, <1>3, StoredFacts DEF SessionInv, Stored
  <2>3. success => session.table = AllRows
    BY <1>1, <2>2 DEF RowsInv
  <2>4. TypeOK'
    BY <1>1, <2>1 DEF TypeOK, Steps
  <2>5. ControlInv' /\ SessionInv'
    BY <1>1, <2>1 DEF ControlInv, SessionInv
  <2>6. AtomicInv'
    BY <1>1, <1>3, <2>1 DEF AtomicInv, Transacted, Loop
  <2>7. RowsInv'
    BY <1>1, <2>1, <2>3 DEF RowsInv, RowsInOrder
  <2>8. SizeInv'
    BY <1>1, <2>1 DEF SizeInv
  <2>9. FlagsInv'
    BY <1>1, <2>1 DEF IInv, FlagsInv, GivenUp
  <2> QED BY <2>4, <2>5, <2>6, <2>7, <2>8, <2>9 DEF IInv
<1>4. CASE call.controller # "NoTransaction"
  <2> DEFINE t == IF success THEN Committed(Target) ELSE RolledBack(Target)
  <2>1. PICK r \in Send(t) :
          /\ session' = r.session
          /\ refused' = RefusedAlive(r)
          /\ IF r.ok \/ ~call.connThrows
             THEN pc' = "unwind" /\ finished' = TRUE /\ UNCHANGED outcome
             ELSE Raise /\ UNCHANGED finished
    BY <1>4 DEF Finish
  <2>2. /\ t \in Session /\ ~t.inTxn /\ t.staged = <<>>
        /\ t.table = IF success THEN Stored ELSE session.table
    BY <1>1, FinishFacts
  <2>3. Prefix(t.table \o t.staged) /\ (success => t.table = AllRows)
    <3>1. t.table \o t.staged = t.table
      BY <2>2, StoredFacts
    <3>2. Prefix(session.table) /\ Prefix(Stored)
      BY <1>1, <1>2, PrefixOfPrefix, CallFacts, StoredFacts DEF RowsInv, RowsInOrder, Stored
    <3> QED BY <1>1, <2>2, <3>1, <3>2 DEF RowsInv
  <2>4. Prefix(r.session.table \o r.session.staged)
    BY <1>1, <2>2, <2>3, SendKeepsOrder
  <2>5. /\ r.ok \in BOOLEAN /\ r.session \in Session
        /\ r.ok => r.session = t
        /\ ~r.ok => \/ ~r.session.inTxn /\ r.session.staged = <<>>
                    \/ r.session = Target
    BY <1>1, <2>2, SendFacts
  <2>6. /\ Target.inTxn = session.inTxn /\ Target.staged = session.staged
        /\ (session.alive => Target.alive)
    BY <1>1, TargetFacts
  <2> HIDE DEF t
  <2>7. /\ session' \in Session /\ refused' \in BOOLEAN
        /\ session'.inTxn => /\ session'.alive /\ refused'
                             /\ call.controller = "Transaction"
        /\ ~session'.inTxn => session'.staged = <<>>
    <3>1. CASE ~r.session.inTxn /\ r.session.staged = <<>>
      BY <2>1, <2>5, <3>1 DEF RefusedAlive, Session
    <3>2. CASE ~r.ok /\ r.session = Target
      BY <1>1, <2>1, <2>5, <2>6, <3>2 DEF RefusedAlive, Session, SessionInv
    <3> QED BY <2>2, <2>5, <3>1, <3>2
  <2>8. /\ pc' = "unwind" /\ finished' \in BOOLEAN
        /\ \/ outcome' = "running" /\ (call.connThrows => r.ok)
           \/ outcome' = "thrown"
    BY <1>1, <2>1 DEF Raise, TypeOK
  <2>9. TypeOK'
    BY <1>1, <2>7, <2>8 DEF TypeOK, Session, Steps
  <2>10. ControlInv'
    BY <1>1, <2>8 DEF ControlInv
  <2>11. FlagsInv'
    BY <1>1, <2>8 DEF IInv, FlagsInv, GivenUp
  <2>12. SessionInv'
    BY <1>1, <2>7, <2>8 DEF SessionInv
  <2>13. AtomicInv'
    BY <2>8 DEF AtomicInv, Loop
  <2>14. RowsInv'
    <3>1. RowsInOrder'
      BY <2>1, <2>4, <2>8 DEF RowsInOrder
    <3>2. success /\ call.connThrows /\ outcome' = "running" => session'.table = AllRows
      BY <2>1, <2>3, <2>5, <2>8
    <3> QED BY <1>1, <1>4, <2>8, <3>1, <3>2 DEF RowsInv
  <2>15. SizeInv'
    BY <1>1, <2>8 DEF SizeInv
  <2> QED BY <2>9, <2>10, <2>11, <2>12, <2>13, <2>14, <2>15 DEF IInv
<1> QED BY <1>3, <1>4

(* The destructor: if there is still a transaction it is rolled back or    *)
(* the session has refused it, and what is durable stays.                  *)
LEMMA DestroyFacts ==
  ASSUME IInv, Destroy
  PROVE  /\ session' \in Session /\ session'.table = session.table /\ refused' \in BOOLEAN
         /\ session'.inTxn => /\ session'.alive /\ refused'
                              /\ call.controller = "Transaction"
         /\ ~session'.inTxn => session'.staged = <<>>
         /\ session'.staged \in {<<>>, session.staged}
<1>1. TypeOK /\ SessionInv /\ session \in Session /\ refused \in BOOLEAN
  BY CallFacts DEF IInv, TypeOK
<1>2. CASE call.controller = "NoTransaction" \/ finished
  <2>1. UNCHANGED <<session, refused>>
    BY <1>2 DEF Destroy
  <2> QED BY <1>1, <1>2, <2>1 DEF SessionInv
<1>3. CASE ~(call.controller = "NoTransaction" \/ finished)
  <2>1. PICK r \in Send(RolledBack(Target)) :
          session' = r.session /\ refused' = RefusedAlive(r)
    BY <1>3 DEF Destroy
  <2>2. /\ RolledBack(Target) \in Session /\ ~RolledBack(Target).inTxn
        /\ RolledBack(Target).staged = <<>> /\ RolledBack(Target).table = session.table
    BY <1>1, FinishFacts
  <2>3. /\ Target.inTxn = session.inTxn /\ Target.staged = session.staged
        /\ Target.table = session.table /\ (session.alive => Target.alive)
    BY <1>1, TargetFacts
  <2>4. /\ r.ok \in BOOLEAN /\ r.session \in Session
        /\ r.ok => r.session = RolledBack(Target)
        /\ ~r.ok => \/ /\ ~r.session.inTxn /\ r.session.staged = <<>>
                       /\ \/ r.session.table = session.table
                          \/ r.session.table = RolledBack(Target).table
                    \/ r.session = Target
    BY <1>1, <2>2, SendFacts
  <2>5. refused' \in BOOLEAN
    BY <2>1, <2>4 DEF RefusedAlive, Session
  <2>6. CASE /\ ~r.session.inTxn /\ r.session.staged = <<>>
             /\ r.session.table = session.table
    BY <2>1, <2>4, <2>5, <2>6
  <2>7. CASE ~r.ok /\ r.session = Target
    BY <1>1, <2>1, <2>3, <2>4, <2>5, <2>7 DEF RefusedAlive, SessionInv
  <2> QED BY <2>2, <2>4, <2>6, <2>7
<1> QED BY <1>2, <1>3

LEMMA DestroyStep == ASSUME IInv, Destroy PROVE IInv'
<1>1. /\ TypeOK /\ ControlInv /\ RowsInv /\ SizeInv
      /\ pc = "unwind" /\ pc' = "done" /\ finished' = TRUE
      /\ outcome' = IF outcome = "running" THEN "returned" ELSE outcome
      /\ UNCHANGED <<call, curRows, it, buf, len, success, copacetic>>
  BY DEF IInv, Destroy
<1>2. /\ session' \in Session /\ session'.table = session.table /\ refused' \in BOOLEAN
      /\ session'.inTxn => /\ session'.alive /\ refused'
                           /\ call.controller = "Transaction"
      /\ ~session'.inTxn => session'.staged = <<>>
      /\ session'.staged \in {<<>>, session.staged}
  BY DestroyFacts
<1>3. outcome \in {"running", "thrown"}
  BY <1>1 DEF ControlInv, TypeOK
<1>4. TypeOK'
  BY <1>1, <1>2, <1>3 DEF TypeOK, Session, Steps
<1>5. ControlInv'
  BY <1>1, <1>3 DEF ControlInv
<1>6. SessionInv' /\ AtomicInv'
  BY <1>1, <1>2 DEF SessionInv, AtomicInv, Loop
<1>7. Prefix(session'.table \o session'.staged)
  <2>1. session'.staged = <<>> => session'.table \o session'.staged = session.table
    BY <1>2, StoredFacts
  <2>2. Prefix(session.table) /\ Prefix(session.table \o session.staged)
    BY <1>1, PrefixOfPrefix, CallFacts, StoredFacts DEF RowsInv, RowsInOrder
  <2> QED BY <1>2, <2>1, <2>2
<1>8. RowsInv'
  BY <1>1, <1>2, <1>3, <1>7 DEF RowsInv, RowsInOrder
<1>9. SizeInv'
  BY <1>1 DEF SizeInv
<1>10. FlagsInv'
  <2>1. outcome' = "thrown" <=> outcome = "thrown"
    BY <1>1, <1>3
  <2> QED BY <1>1, <2>1 DEF IInv, FlagsInv, GivenUp
<1> QED BY <1>4, <1>5, <1>6, <1>8, <1>9, <1>10 DEF IInv

LEMMA StepInv == ASSUME IInv, [Next]_vars PROVE IInv'
<1>1. CASE UNCHANGED vars
  <2>1. /\ UNCHANGED <<call, curRows, session, pc, it, buf, len, success, copacetic>>
        /\ UNCHANGED <<finished, refused, outcome>>
    BY <1>1 DEF vars
  <2>2. TypeOK' /\ ControlInv' /\ SessionInv'
    BY <2>1 DEF IInv, TypeOK, ControlInv, SessionInv
  <2>3. AtomicInv' /\ RowsInv'
    BY <2>1 DEF IInv, AtomicInv, Transacted, RowsInv, RowsInOrder, Stored
  <2>4. SizeInv'
    BY <2>1 DEF IInv, SizeInv
  <2>5. FlagsInv'
    BY <2>1 DEF IInv, FlagsInv, GivenUp
  <2> QED BY <2>2, <2>3, <2>4, <2>5 DEF IInv
<1> QED BY <1>1, BeginStep, AddRowStep, RowRefusedStep, FlushStep, RetryRowStep,
      LoopEndsStep, ExecLastStep, FinishStep, DestroyStep DEF Next

(* The invariant of a call of insertfrom().                                *)
THEOREM Invariance == Spec => []IInv
<1>1. IInv /\ [Next]_vars => IInv'
  BY StepInv
<1> QED BY <1>1, InitInv, PTL DEF Spec

(* Every variable keeps its type.                                          *)
THEOREM TypeCorrect == Spec => []TypeOK
<1>1. IInv => TypeOK
  BY DEF IInv
<1> QED BY <1>1, Invariance, PTL

(* A call that returns has stored every row: with exceptions on, and with  *)
(* the Query's off if the Query is true and the policy was not given up.   *)
THEOREM ReturnIsStored == Spec => []ReturnMeansStored
<1>1. IInv => ReturnMeansStored
  <2>1. SUFFICES ASSUME IInv, outcome = "returned", call.queryThrows \/ copacetic, ~GivenUp,
                        call.connThrows \/ call.controller = "NoTransaction"
                 PROVE  session.table = AllRows
    BY DEF ReturnMeansStored
  <2>2. success
    BY <2>1 DEF IInv, ControlInv, FlagsInv
  <2> QED BY <2>1, <2>2 DEF IInv, RowsInv
<1> QED BY <1>1, Invariance, PTL

(* No row is lost, doubled or moved on the way to the table.               *)
THEOREM RowsStayInOrder == Spec => []RowsInOrder
<1>1. IInv => RowsInOrder
  BY DEF IInv, RowsInv
<1> QED BY <1>1, Invariance, PTL

(* However it ends, a call leaves no transaction open, unless the live     *)
(* session has refused the last COMMIT or ROLLBACK.                        *)
THEOREM NoTransactionStays == Spec => []NothingLeftOpen
<1>1. IInv => NothingLeftOpen
  BY DEF IInv, SessionInv, NothingLeftOpen
<1> QED BY <1>1, Invariance, PTL

(* Each statement has the size its policy promises.                        *)
THEOREM SizesAreKept == Spec => []StatementSizes
<1>1. ASSUME IInv PROVE StatementSizes
  <2>1. SUFFICES ASSUME pc \in {"flush", "last"} PROVE StatementSizes
    BY DEF StatementSizes
  <2>2. TypeOK /\ SizeInv /\ call.policy \in Policies
    BY <1>1, CallFacts DEF IInv
  <2>3. CASE call.policy = "RowCount"
    <3>1. Len(buf) <= call.limit
      BY <2>1, <2>2, <2>3 DEF SizeInv
    <3> QED BY <2>3, <3>1, Zenon DEF StatementSizes
  <2>4. CASE call.policy = "SizeThreshold"
    <3>1. /\ pc = "flush" => len >= call.limit
          /\ Len(buf) > 1 => len - NextSize(buf[Len(buf)]) < call.limit
      BY <2>1, <2>2, <2>4 DEF SizeInv
    <3> QED BY <2>4, <3>1, Zenon DEF StatementSizes
  <2>5. CASE call.policy = "MaxPacket"
    <3>1. Len(buf) > 1 => len <= call.limit
      BY <2>1, <2>2, <2>5 DEF SizeInv
    <3> QED BY <2>5, <3>1, Zenon DEF StatementSizes
  <2> QED BY <2>2, <2>3, <2>4, <2>5 DEF Policies
<1> QED BY <1>1, Invariance, PTL

-----------------------------------------------------------------------------
(* The all-or-nothing insert                                               *)

(* The two variables of AtomicInsert, as InsertFrom shows them.            *)
Durable == IF Transacted THEN session.table ELSE <<>>
Seen == IF ~Transacted THEN "running"
        ELSE IF outcome = "returned" /\ (~copacetic \/ GivenUp) THEN "thrown"
        ELSE outcome

(* A step that changes nothing of it.                                      *)
LEMMA QuietStep ==
  ASSUME IInv, call' = call,
         Transacted => /\ session'.table = session.table /\ outcome' = outcome
                       /\ outcome = "running"
  PROVE  UNCHANGED <<Durable, Seen>>
<1>1. Transacted' = Transacted
  BY DEF Transacted
<1> QED BY <1>1 DEF Durable, Seen

(* A call on its way out by an exception, before anything is durable or    *)
(* when all is.                                                            *)
LEMMA ThrowStep ==
  ASSUME call' = call, Transacted, outcome = "running", outcome' = "thrown",
         session'.table \in {session.table, AllRows}
  PROVE  Atomic!Throw
<1>1. Transacted'
  BY DEF Transacted
<1> QED BY <1>1 DEF Atomic!Throw

LEMMA ExecKeepsTable ==
  ASSUME IInv, Transacted, pc \in Loop, NEW next \in {"retry", "end"}, Exec(next)
  PROVE  session'.table = session.table
<1> DEFINE t == Inserted(Target, buf)
<1>1. TypeOK /\ SessionInv /\ session.inTxn
  BY DEF IInv, AtomicInv
<1>2. t \in Session /\ t.table = session.table /\ Target.table = session.table
  BY <1>1, InsertedRows, TargetFacts
<1>3. PICK r \in Send(t) : session' = r.session
  BY DEF Exec
<1>4. /\ r.ok \in BOOLEAN /\ r.session \in Session
      /\ r.ok => r.session = t
      /\ ~r.ok => \/ r.session.table = session.table \/ r.session.table = t.table
                  \/ r.session = Target
  BY <1>1, <1>2, SendFacts
<1> QED BY <1>2, <1>3, <1>4

LEMMA ExecIsAtomic ==
  ASSUME IInv, pc \in Loop, NEW next \in {"retry", "end"}, Exec(next), call' = call
  PROVE  Atomic!Throw \/ UNCHANGED <<Durable, Seen>>
<1>1. outcome = "running" /\ outcome' \in {"running", "thrown"}
  BY Built DEF Exec, Raise
<1>2. Transacted => session'.table = session.table
  BY ExecKeepsTable
<1> QED BY <1>1, <1>2, QuietStep, ThrowStep

LEMMA FinishIsAtomic ==
  ASSUME IInv, Finish
  PROVE  Atomic!Store \/ Atomic!Throw \/ UNCHANGED <<Durable, Seen>>
<1>1. /\ TypeOK /\ SessionInv /\ call' = call /\ success' = success /\ outcome = "running"
      /\ pc = "end"
  BY DEF IInv, TypeOK, ControlInv, Finish
<1>2. CASE ~Transacted
  BY <1>1, <1>2, QuietStep
<1>3. CASE Transacted
  <2> DEFINE t == IF success THEN Committed(Target) ELSE RolledBack(Target)
  <2>1. PICK r \in Send(t) :
          /\ session' = r.session
          /\ refused' = RefusedAlive(r)
          /\ IF r.ok \/ ~call.connThrows
             THEN pc' = "unwind" /\ finished' = TRUE /\ UNCHANGED outcome
             ELSE Raise /\ UNCHANGED finished
    BY <1>3 DEF Finish, Transacted
  <2>2. /\ session.table = <<>> /\ (success => Stored = AllRows)
    BY <1>1, <1>3 DEF IInv, AtomicInv, RowsInv
  <2>3. t \in Session /\ t.table = IF success THEN AllRows ELSE <<>>
    BY <1>1, <2>2, FinishFacts
  <2>4. /\ r.ok \in BOOLEAN /\ r.session \in Session
        /\ r.ok => r.session = t
        /\ ~r.ok => \/ r.session.table = session.table \/ r.session.table = t.table
                    \/ r.session = Target
        /\ Target.table = session.table
    BY <1>1, <2>3, SendFacts, TargetFacts
  <2> HIDE DEF t
  <2>5. CASE r.ok
    <3>1. outcome' = "running" /\ session'.table = IF success THEN AllRows ELSE <<>>
      BY <1>1, <2>1, <2>3, <2>4, <2>5
    <3>2. CASE success
      <4>1. Transacted'
        BY <1>1, <1>3 DEF Transacted
      <4> QED BY <1>1, <1>3, <2>2, <3>1, <3>2, <4>1 DEF Atomic!Store
    <3>3. CASE ~success
      BY <1>1, <2>2, <3>1, <3>3, QuietStep
    <3> QED BY <3>2, <3>3
  <2>6. CASE ~r.ok
    <3>1. outcome' = "thrown"
      BY <1>3, <2>1, <2>6 DEF Raise, Transacted
    <3>2. session'.table \in {session.table, AllRows}
      BY <2>1, <2>2, <2>3, <2>4, <2>6
    <3> QED BY <1>1, <1>3, <3>1, <3>2, ThrowStep
  <2> QED BY <2>4, <2>5, <2>6
<1> QED BY <1>2, <1>3

LEMMA DestroyIsAtomic ==
  ASSUME IInv, Destroy
  PROVE  Atomic!Return \/ Atomic!Throw \/ UNCHANGED <<Durable, Seen>>
<1>1. /\ TypeOK /\ call' = call /\ pc = "unwind"
      /\ outcome' = IF outcome = "running" THEN "returned" ELSE outcome
      /\ Transacted' = Transacted
  BY DEF IInv, TypeOK, Destroy, Transacted
<1>2. UNCHANGED <<copacetic, it>> /\ GivenUp' = GivenUp
  BY DEF Destroy, GivenUp
<1>3. session'.table = session.table
  BY DestroyFacts
<1>4. outcome \in {"running", "thrown"}
  BY <1>1 DEF IInv, ControlInv, TypeOK
<1>5. CASE ~Transacted \/ outcome = "thrown"
  BY <1>1, <1>3, <1>5 DEF Durable, Seen
<1>6. CASE Transacted /\ outcome = "running" /\ success
  <2>1. session.table = AllRows
    BY <1>1, <1>6 DEF IInv, RowsInv, Transacted
  <2>2. copacetic /\ ~GivenUp
    BY <1>1, <1>6, InsertAssumption DEF IInv, FlagsInv, GivenUp
  <2> QED BY <1>1, <1>3, <1>6, <1>2, <2>1, <2>2 DEF Atomic!Return
<1>7. CASE Transacted /\ outcome = "running" /\ ~success
  <2>1. ~copacetic \/ GivenUp
    BY <1>7 DEF IInv, FlagsInv
  <2> QED BY <1>1, <1>3, <1>7, <1>2, <2>1 DEF Atomic!Throw
<1> QED BY <1>4, <1>5, <1>6, <1>7

LEMMA AtomicStep == ASSUME IInv, [Next]_vars PROVE [Atomic!Next]_<<Durable, Seen>>
<1>1. CASE Begin
  <2>1. /\ call' = call /\ outcome = "running" /\ session.table = <<>>
    BY <1>1 DEF IInv, ControlInv, TypeOK, Begin, FreshSession
  <2>2. session'.table = <<>> /\ outcome' \in {"running", "thrown"}
    BY <1>1, BeginFacts
  <2> QED BY <2>1, <2>2, QuietStep, ThrowStep DEF Atomic!Next
<1>2. CASE AddRow \/ RowRefused \/ LoopEnds
  <2>1. UNCHANGED <<call, session, outcome>> /\ pc \in Loop
    BY <1>2 DEF AddRow, RowRefused, LoopEnds, Loop
  <2> QED BY <2>1, Built, QuietStep
<1>3. CASE RetryRow
  <2>1. UNCHANGED <<call, session>> /\ outcome' \in {outcome, "thrown"} /\ pc \in Loop
    BY <1>3 DEF RetryRow, Raise, Loop
  <2>2. outcome = "running"
    BY <2>1, Built
  <2> QED BY <2>1, <2>2, QuietStep, ThrowStep DEF Atomic!Next
<1>4. CASE Flush \/ ExecLast
  BY <1>4, ExecIsAtomic DEF Flush, ExecLast, Loop, Atomic!Next
<1>5. CASE Finish
  BY <1>5, FinishIsAtomic DEF Atomic!Next
<1>6. CASE Destroy
  BY <1>6, DestroyIsAtomic DEF Atomic!Next
<1>7. CASE UNCHANGED vars
  BY <1>7 DEF vars, Durable, Seen, Transacted, GivenUp
<1> QED BY <1>1, <1>2, <1>3, <1>4, <1>5, <1>6, <1>7 DEF Next

LEMMA AtomicInit == Init => Atomic!Init
BY DEF Init, Atomic!Init, FreshSession

(* With a transaction around it and exceptions on, a bulk insert is all or *)
(* nothing, for any container and any policy, whatever the server does.    *)
THEOREM InsertIsAtomic == Spec => ImplementsAtomic
<1>1. IInv /\ [Next]_vars => [Atomic!Next]_<<Durable, Seen>>
  BY AtomicStep
<1> QED BY <1>1, AtomicInit, Invariance, PTL DEF Spec, ImplementsAtomic, Atomic!Spec, Durable, Seen
=============================================================================
