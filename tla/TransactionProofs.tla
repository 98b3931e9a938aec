------------------------- MODULE TransactionProofs -------------------------
(***************************************************************************)
(* What is proved of Transaction for any number of objects, levels and     *)
(* rows, over a connection that may be lost and reconnect and a server     *)
(* that may refuse statements: its types, that an open transaction has an  *)
(* object that will end it and runs at the level asked, that its rows      *)
(* reach the table together, and that it implements UnitsOfWork.           *)
(***************************************************************************)
EXTENDS Transaction, SequenceTheorems, FiniteSetTheorems, TLAPS

(* A session that is gone has no transaction.  No level is left behind for *)
(* the next one, except between the two statements of a constructor, or by *)
(* a START TRANSACTION that was refused; strict knows of what refusals do. *)
SessionInv ==
  /\ session.inTxn => session.alive
  /\ session.alive /\ (ctor = None \/ ~ctor.set)
     => session.next = None \/ (~strict /\ "level" \in refused)
  /\ strict => "transaction" \notin refused

(* A constructor under way has the room it was started with, and nothing   *)
(* else happens meanwhile; each object has a number that was given out.    *)
CtorInv == ctor # None => unwind = -1 /\ Len(made) < MaxTxns /\ Len(scopes) < MaxDepth
IdInv == \A i \in Txns : scopes[i].id <= Len(made)

(* The level that START TRANSACTION will find is the one that was asked.   *)
AskedInv ==
  strict /\ ~session.reconnect /\ session.alive /\ ctor # None /\ ctor.set
  => Begun(session).current = IF ctor.asked = None THEN session.level ELSE ctor.asked

(* The level of an open transaction, also in the middle of a constructor.  *)
LevelInv ==
  strict /\ ~session.reconnect /\ session.inTxn
  => \A i \in Unfinished :
       session.current = IF scopes[i].asked = None THEN session.level ELSE scopes[i].asked

IInv ==
  /\ TypeOK /\ OpenMeansOwned
  /\ SessionInv /\ CtorInv /\ IdInv /\ AskedInv /\ LevelInv

-----------------------------------------------------------------------------
(* The server                                                              *)

(* What a statement finds: the session, or the one that was opened anew.   *)
LEMMA TargetFacts ==
  ASSUME TypeOK
  PROVE  /\ Target \in Session
         /\ Target.inTxn = session.inTxn
         /\ Target.reconnect = session.reconnect
         /\ session.alive \/ ~session.reconnect => Target = session
         /\ ~(session.alive \/ ~session.reconnect) => Target.next = None
         /\ Target.alive => \/ Target.next = None
                            \/ session.alive /\ Target.next = session.next
BY DEF TypeOK, Session, Target

(* Rolling back, losing and committing change nothing of the levels.       *)
LEMMA EndFacts ==
  ASSUME NEW s \in Session
  PROVE  /\ RolledBack(s) \in Session /\ Lost(s) \in Session /\ Committed(s) \in Session
         /\ RolledBack(s) = [s EXCEPT !.inTxn = FALSE, !.staged = <<>>]
         /\ ~Lost(s).alive /\ ~Lost(s).inTxn /\ Lost(s).reconnect = s.reconnect
         /\ \A e \in {RolledBack(s), Committed(s)} :
              /\ ~e.inTxn /\ e.alive = s.alive /\ e.next = s.next /\ e.level = s.level
              /\ e.reconnect = s.reconnect
<1> DEFINE joined == s.table \o s.staged
<1>1. <<>> \in Seq(Ids) /\ joined \in Seq(Ids)
  BY EmptySeq, ConcatProperties DEF Session
<1>2. Committed(s) = [s EXCEPT !.inTxn = FALSE, !.staged = <<>>, !.table = joined]
  BY DEF Committed, Session
<1> HIDE DEF joined
<1> QED BY <1>1, <1>2 DEF RolledBack, Lost, Session

(* START TRANSACTION: inside a transaction, at the level that was set.     *)
LEMMA BegunFacts ==
  ASSUME NEW s \in Session
  PROVE  /\ Begun(s) \in Session /\ Begun(s).inTxn /\ Begun(s).next = None
         /\ Begun(s).alive = s.alive /\ Begun(s).level = s.level
         /\ Begun(s).reconnect = s.reconnect
         /\ Begun(s).current = IF s.next = None THEN s.level ELSE s.next
<1> DEFINE c == Committed(s)
<1>1. c \in Session /\ c.alive = s.alive /\ c.level = s.level /\ c.reconnect = s.reconnect
  BY EndFacts
<1>2. Begun(s) = [[c EXCEPT !.inTxn = TRUE] EXCEPT
                    !.current = IF s.next = None THEN s.level ELSE s.next, !.next = None]
  BY DEF Begun, Started
<1>3. (IF s.next = None THEN s.level ELSE s.next) \in Levels \cup {Default, None}
  BY DEF Session
<1>4. None \in Levels \cup {None}
  OBVIOUS
<1> DEFINE level == IF s.next = None THEN s.level ELSE s.next
           open == [c EXCEPT !.inTxn = TRUE]
<1> HIDE DEF c, level
<1>5. /\ open \in Session /\ open.inTxn /\ open.alive = c.alive
      /\ open.level = c.level /\ open.reconnect = c.reconnect
  BY <1>1 DEF Session
<1>6. Begun(s) = [open EXCEPT !.current = level, !.next = None]
  BY <1>2 DEF level
<1> HIDE DEF open
<1>7. level \in Levels \cup {Default, None}
  BY <1>3 DEF level
<1>8. /\ Begun(s) \in Session /\ Begun(s).inTxn = open.inTxn /\ Begun(s).next = None
      /\ Begun(s).alive = open.alive /\ Begun(s).level = open.level
      /\ Begun(s).reconnect = open.reconnect /\ Begun(s).current = level
  BY <1>4, <1>5, <1>6, <1>7 DEF Session
<1> QED BY <1>1, <1>5, <1>8 DEF level

(* A statement has its effect or, if it fails, none, or it ends the        *)
(* transaction or the session.                                             *)
LEMMA SendFacts ==
  ASSUME TypeOK, SessionInv, NEW t \in Session,
         NEW r \in Send(t), t.reconnect = session.reconnect
  PROVE  /\ r.ok \in BOOLEAN /\ r.session \in Session
         /\ r.session.reconnect = session.reconnect
         /\ r.ok => r.session = t /\ Target.alive
         /\ ~r.ok => \/ ~r.session.alive /\ ~r.session.inTxn
                     \/ r.session \in {Target, RolledBack(Target)}
<1>1. Target \in Session /\ Target.reconnect = session.reconnect
      /\ Target.inTxn = session.inTxn /\ (session.inTxn => Target.alive)
  BY TargetFacts DEF SessionInv, TypeOK, Target
<1>2. r \in Outcomes(Target, t)
  BY DEF Send
<1>3. /\ RolledBack(Target) \in Session /\ Lost(Target) \in Session /\ Lost(t) \in Session
      /\ RolledBack(Target).reconnect = session.reconnect
      /\ \A s \in {Lost(Target), Lost(t)} :
           ~s.alive /\ ~s.inTxn /\ s.reconnect = session.reconnect
  <2>1. /\ RolledBack(Target) \in Session /\ RolledBack(Target).reconnect = Target.reconnect
        /\ Lost(Target) \in Session /\ ~Lost(Target).alive /\ ~Lost(Target).inTxn
        /\ Lost(Target).reconnect = Target.reconnect
    BY <1>1, EndFacts
  <2>2. /\ Lost(t) \in Session /\ ~Lost(t).alive /\ ~Lost(t).inTxn
        /\ Lost(t).reconnect = t.reconnect
    BY EndFacts
  <2> QED BY <1>1, <2>1, <2>2
<1>4. CASE ~Target.alive
  <2>1. r = [session |-> Target, ok |-> FALSE]
    BY <1>2, <1>4 DEF Outcomes
  <2> QED BY <1>1, <1>4, <2>1 DEF Session
<1>5. CASE Target.alive
  <2>1. \/ r = [session |-> t, ok |-> TRUE]
        \/ r = [session |-> Lost(Target), ok |-> FALSE]
        \/ r = [session |-> Lost(t), ok |-> FALSE]
        \/ r = [session |-> Target, ok |-> FALSE]
        \/ r = [session |-> RolledBack(Target), ok |-> FALSE]
    BY <1>2, <1>5 DEF Outcomes
  <2>2. CASE r = [session |-> t, ok |-> TRUE]
    BY <1>5, <2>2
  <2>3. CASE r = [session |-> Lost(Target), ok |-> FALSE]
    BY <1>3, <2>3
  <2>4. CASE r = [session |-> Lost(t), ok |-> FALSE]
    BY <1>3, <2>4
  <2>5. CASE r = [session |-> Target, ok |-> FALSE]
    BY <1>1, <2>5
  <2>6. CASE r = [session |-> RolledBack(Target), ok |-> FALSE]
    BY <1>3, <2>6
  <2> QED BY <2>1, <2>2, <2>3, <2>4, <2>5, <2>6
<1> QED BY <1>4, <1>5 DEF Session

LEMMA BecomesFacts ==
  ASSUME NEW s \in Session, Becomes(s)
  PROVE  /\ session' \in Session
         /\ session'.inTxn = s.inTxn /\ session'.alive = s.alive
         /\ session'.next = s.next /\ session'.level = s.level
         /\ session'.reconnect = s.reconnect
         /\ s.inTxn => session' = s
BY DEF Becomes, Session

(* What refusals have left behind only grows, but for START TRANSACTION.   *)
LEMMA LeavesFacts ==
  ASSUME TypeOK, NEW r, NEW what \in {"level", "transaction"}, Leaves(r, what)
  PROVE  /\ refused' \subseteq {"level", "transaction"} /\ refused \subseteq refused'
         /\ refused' \subseteq refused \cup {what}
         /\ IF RefusedAlive(r) THEN what \in refused' ELSE refused' = refused
BY DEF Leaves, TypeOK

(* A statement other than START TRANSACTION changes no level that was left *)
(* for the next one.                                                       *)
LEMMA SessionKept ==
  ASSUME SessionInv, session'.inTxn => session'.alive,
         session'.alive => \/ session'.next = None
                           \/ session.alive /\ session'.next = session.next,
         (ctor' = None \/ ~ctor'.set) => (ctor = None \/ ~ctor.set),
         refused \subseteq refused', strict' => strict,
         strict' => "transaction" \notin refused'
  PROVE  SessionInv'
BY DEF SessionInv

-----------------------------------------------------------------------------
(* The program's stack                                                     *)

(* The objects on the stack: their types, and which of them are finished.  *)
LEMMA ScopeFacts ==
  ASSUME TypeOK
  PROVE  /\ Len(scopes) \in Nat
         /\ Txns \subseteq 1..Len(scopes) /\ Unfinished \subseteq Txns
         /\ \A i \in 1..Len(scopes) : scopes[i] \in Scope
         /\ \A i \in Txns : scopes[i] \in [kind : {"txn"}, id : Ids, finished : BOOLEAN,
                                           asked : Levels \cup {None}]
<1>1. scopes \in Seq(Scope)
  BY DEF TypeOK
<1>2. Len(scopes) \in Nat /\ \A i \in 1..Len(scopes) : scopes[i] \in Scope
  BY <1>1, LenProperties, ElementOfSeq
<1> QED BY <1>2 DEF Txns, Unfinished, Scope

LEMMA SameStack ==
  ASSUME scopes' = scopes
  PROVE  Txns' = Txns /\ Unfinished' = Unfinished
BY DEF Txns, Unfinished

(* A new object comes on top.                                              *)
LEMMA PushFacts ==
  ASSUME TypeOK, NEW x \in Scope, scopes' = Append(scopes, x)
  PROVE  /\ scopes' \in Seq(Scope) /\ Len(scopes') = Len(scopes) + 1
         /\ \A i \in 1..Len(scopes) : scopes'[i] = scopes[i]
         /\ scopes'[Len(scopes) + 1] = x
         /\ Txns' = Txns \cup (IF x.kind = "txn" THEN {Len(scopes) + 1} ELSE {})
         /\ Unfinished' = Unfinished \cup (IF x.kind = "txn" /\ ~x.finished
                                          THEN {Len(scopes) + 1} ELSE {})
<1>1. scopes \in Seq(Scope) /\ Len(scopes) \in Nat
  BY ScopeFacts DEF TypeOK
<1>2. /\ scopes' \in Seq(Scope) /\ Len(scopes') = Len(scopes) + 1
      /\ \A i \in 1..Len(scopes) : scopes'[i] = scopes[i]
      /\ scopes'[Len(scopes) + 1] = x
  BY <1>1, AppendProperties
<1>3. 1..Len(scopes') = 1..Len(scopes) \cup {Len(scopes) + 1}
  BY <1>1, <1>2
<1>4. Txns' = Txns \cup (IF x.kind = "txn" THEN {Len(scopes) + 1} ELSE {})
  BY <1>1, <1>2, <1>3 DEF Txns
<1>5. Txns \subseteq 1..Len(scopes)
  BY ScopeFacts
<1>6. Unfinished' = {i \in Txns' : ~scopes'[i].finished}
  BY DEF Unfinished
<1>7. Unfinished' = Unfinished \cup (IF x.kind = "txn" /\ ~x.finished
                                    THEN {Len(scopes) + 1} ELSE {})
  <2>1. {i \in Txns : ~scopes'[i].finished} = Unfinished
    BY <1>2, <1>5 DEF Unfinished
  <2>2. CASE x.kind = "txn"
    <3>1. Txns' = Txns \cup {Len(scopes) + 1}
      BY <1>4, <2>2
    <3>2. {i \in {Len(scopes) + 1} : ~scopes'[i].finished}
            = IF x.finished THEN {} ELSE {Len(scopes) + 1}
      BY <1>2
    <3> QED BY <1>6, <2>1, <2>2, <3>1, <3>2
  <2>3. CASE x.kind # "txn"
    BY <1>4, <1>6, <2>1, <2>3
  <2> QED BY <2>2, <2>3
<1> QED BY <1>2, <1>4, <1>7

(* The one on top goes.                                                    *)
LEMMA PopFacts ==
  ASSUME TypeOK, scopes # <<>>, scopes' = SubSeq(scopes, 1, Len(scopes) - 1)
  PROVE  /\ scopes' \in Seq(Scope) /\ Len(scopes') = Len(scopes) - 1
         /\ Len(scopes) \in Nat \ {0} /\ scopes[Len(scopes)] \in Scope
         /\ \A i \in 1..Len(scopes) - 1 : scopes'[i] = scopes[i]
         /\ Txns' = Txns \ {Len(scopes)}
         /\ Unfinished' = Unfinished \ {Len(scopes)}
<1>1. scopes \in Seq(Scope) /\ Len(scopes) \in Nat \ {0}
  BY ScopeFacts, EmptySeq DEF TypeOK
<1>2. \A i \in 1..Len(scopes) : scopes[i] \in Scope
  BY ScopeFacts
<1>3. \A i \in 1..Len(scopes) - 1 : scopes[i] \in Scope
  BY <1>1, <1>2
<1> DEFINE n == Len(scopes) - 1
<1>4. /\ scopes' \in Seq(Scope) /\ Len(scopes') = Len(scopes) - 1
      /\ \A i \in 1..Len(scopes) - 1 : scopes'[i] = scopes[i]
  <2>1. n \in Nat /\ 1 \in Int /\ n \in Int /\ \A i \in 1..n : scopes[i] \in Scope
    BY <1>1, <1>3
  <2>2. scopes' = SubSeq(scopes, 1, n)
    OBVIOUS
  <2> HIDE DEF n
  <2>3. /\ SubSeq(scopes, 1, n) \in Seq(Scope)
        /\ Len(SubSeq(scopes, 1, n)) = IF 1 <= n THEN n - 1 + 1 ELSE 0
        /\ \A i \in 1..n - 1 + 1 : SubSeq(scopes, 1, n)[i] = scopes[1 + i - 1]
    BY <2>1, SubSeqProperties
  <2>4. Len(scopes') = n /\ \A i \in 1..n : scopes'[i] = scopes[i]
    BY <2>1, <2>2, <2>3
  <2> QED BY <2>2, <2>3, <2>4 DEF n
<1>5. 1..Len(scopes') = (1..Len(scopes)) \ {Len(scopes)}
  BY <1>1, <1>4
<1>6. Txns' = Txns \ {Len(scopes)}
  BY <1>1, <1>4, <1>5 DEF Txns
<1>7. Unfinished' = {i \in Txns' : ~scopes'[i].finished}
  BY DEF Unfinished
<1>8. \A i \in Txns' : scopes'[i] = scopes[i]
  BY <1>1, <1>4, <1>5, <1>6, ScopeFacts
<1>9. Unfinished' = Unfinished \ {Len(scopes)}
  BY <1>6, <1>7, <1>8 DEF Unfinished
<1>10. Len(scopes) \in 1..Len(scopes)
  BY <1>1
<1> QED BY <1>1, <1>2, <1>4, <1>6, <1>9, <1>10

(* commit() and rollback() finish one object.                              *)
LEMMA FinishFacts ==
  ASSUME TypeOK, NEW k \in Txns, scopes' = Finished(k)
  PROVE  /\ scopes' \in Seq(Scope) /\ Len(scopes') = Len(scopes)
         /\ Txns' = Txns /\ Unfinished' = Unfinished \ {k}
         /\ \A i \in Txns : scopes'[i].id = scopes[i].id
         /\ \A i \in Unfinished' : scopes'[i] = scopes[i]
<1> DEFINE x == [scopes[k] EXCEPT !.finished = TRUE]
<1>1. /\ scopes \in Seq(Scope) /\ Len(scopes) \in Nat /\ k \in 1..Len(scopes)
      /\ scopes \in [1..Len(scopes) -> Scope]
      /\ scopes[k] \in [kind : {"txn"}, id : Ids, finished : BOOLEAN, asked : Levels \cup {None}]
  BY ScopeFacts, LenProperties DEF TypeOK
<1>2. x \in [kind : {"txn"}, id : Ids, finished : BOOLEAN, asked : Levels \cup {None}]
      /\ x.kind = "txn" /\ x.id = scopes[k].id /\ x.finished
  BY <1>1
<1>3. x \in Scope
  BY <1>2 DEF Scope
<1>4. scopes' = [scopes EXCEPT ![k] = x]
  BY <1>1 DEF Finished
<1> HIDE DEF x
<1>5. /\ scopes' \in Seq(Scope) /\ Len(scopes') = Len(scopes)
      /\ \A i \in 1..Len(scopes) : scopes'[i] = IF i = k THEN x ELSE scopes[i]
  BY <1>1, <1>3, <1>4, ExceptSeq
<1>6. Txns' = Txns
  BY <1>1, <1>2, <1>5, ScopeFacts DEF Txns
<1>7. Unfinished' = {i \in Txns : ~scopes'[i].finished}
  BY <1>6 DEF Unfinished
<1>8. \A i \in Txns : scopes'[i] = IF i = k THEN x ELSE scopes[i]
  BY <1>5 DEF Txns
<1> QED BY <1>2, <1>5, <1>6, <1>7, <1>8 DEF Unfinished

(* Whether a call goes on or its failure is thrown.                        *)
LEMMA WorksFacts ==
  ASSUME TypeOK, NEW b \in BOOLEAN, Works(b)
  PROVE  unwind' = unwind /\ strict' \in BOOLEAN /\ (strict' => strict /\ b)
BY DEF Works, TypeOK

LEMMA FailsFacts ==
  ASSUME TypeOK, NEW b \in BOOLEAN, Fails(b)
  PROVE  unwind' \in -1..MaxDepth /\ strict' \in BOOLEAN /\ (strict' => strict /\ b)
<1>1. CASE ~throws
  BY <1>1, WorksFacts DEF Fails, TypeOK
<1>2. CASE throws
  <2>1. PICK depth \in 0..Len(scopes) :
          /\ unwind' = depth
          /\ strict' = (strict /\ b /\ \A i \in Unfinished : depth < i)
    BY <1>2 DEF Fails
  <2>2. Len(scopes) \in Nat /\ Len(scopes) <= MaxDepth /\ MaxDepth \in Nat
    BY ScopeFacts, TransactionAssumption DEF TypeOK
  <2> QED BY <2>1, <2>2 DEF TypeOK
<1> QED BY <1>1, <1>2 DEF TypeOK

-----------------------------------------------------------------------------
(* The invariant is kept                                                   *)

LEMMA InvInit == Init => IInv
<1> SUFFICES ASSUME Init PROVE IInv
  OBVIOUS
<1>1. <<>> \in Seq(Ids) /\ <<>> \in Seq(Scope) /\ <<>> \in Seq(Nat) /\ Len(<<>>) = 0
  BY EmptySeq
<1>2. {MaxTxns, MaxDepth} \subseteq Nat
  BY TransactionAssumption
<1>3. Txns = {} /\ Unfinished = {}
  BY <1>1 DEF Init, Txns, Unfinished
<1>4. TypeOK
  BY <1>1, <1>2 DEF Init, TypeOK, Session
<1> QED BY <1>3, <1>4 DEF Init, IInv, OpenMeansOwned, SessionInv, CtorInv, IdInv, AskedInv, LevelInv

(* An object that is constructed belongs on the stack.                     *)
LEMMA NewTxnFacts ==
  ASSUME TypeOK, Len(made) < MaxTxns, NEW asked \in Levels \cup {None}
  PROVE  /\ NewTxn(asked) \in Scope /\ NewTxn(asked).kind = "txn"
         /\ ~NewTxn(asked).finished /\ NewTxn(asked).asked = asked
         /\ NewTxn(asked).id = Len(made) + 1
         /\ Append(made, 0) \in Seq(Nat) /\ Len(Append(made, 0)) = Len(made) + 1
         /\ Len(made) \in Nat
<1>1. made \in Seq(Nat) /\ Len(made) \in Nat
  BY LenProperties DEF TypeOK
<1>2. Append(made, 0) \in Seq(Nat) /\ Len(Append(made, 0)) = Len(made) + 1
  BY <1>1, AppendProperties
<1>3. Len(made) + 1 \in Ids
  BY <1>1, TransactionAssumption DEF Ids
<1> QED BY <1>1, <1>2, <1>3 DEF NewTxn, Scope

(* START TRANSACTION, at the end of either constructor.                    *)
LEMMA ConstructInv ==
  ASSUME IInv, NEW asked \in Levels \cup {None}, Construct(asked),
         ctor' = None, UNCHANGED <<throws, commits>>,
         Len(made) < MaxTxns, Len(scopes) < MaxDepth, unwind = -1,
         strict /\ ~session.reconnect /\ session.alive
           => Begun(session).current = IF asked = None THEN session.level ELSE asked
  PROVE  IInv'
<1> USE DEF IInv
<1> DEFINE inOrder(r) == Unfinished = {} /\ (RefusedAlive(r) => Target.next = None)
<1>1. PICK r \in Send(Begun(Target)) :
        /\ Becomes(r.session)
        /\ IF r.ok THEN refused' = {} ELSE Leaves(r, "level")
        /\ IF r.ok \/ ~throws
           THEN /\ scopes' = Append(scopes, NewTxn(asked))
                /\ made' = Append(made, 0)
                /\ Works(inOrder(r))
           ELSE Fails(inOrder(r)) /\ UNCHANGED <<scopes, made>>
  BY DEF Construct
<1>2. /\ Begun(Target) \in Session /\ Begun(Target).inTxn /\ Begun(Target).next = None
      /\ Begun(Target).alive = Target.alive /\ Begun(Target).level = Target.level
      /\ Begun(Target).reconnect = session.reconnect
  BY TargetFacts, BegunFacts
<1>3. /\ r.ok \in BOOLEAN /\ r.session \in Session
      /\ r.session.reconnect = session.reconnect
      /\ r.ok => r.session = Begun(Target) /\ Target.alive
      /\ ~r.ok => \/ ~r.session.alive /\ ~r.session.inTxn
                  \/ r.session \in {Target, RolledBack(Target)}
  BY <1>2, SendFacts
<1>4. /\ session' \in Session /\ session'.inTxn = r.session.inTxn
      /\ session'.alive = r.session.alive /\ session'.next = r.session.next
      /\ session'.reconnect = session.reconnect
      /\ r.session.inTxn => session' = r.session
  BY <1>1, <1>3, BecomesFacts
<1>5. /\ Target \in Session /\ Target.inTxn = session.inTxn
      /\ session.inTxn => Target = session /\ Target.alive
      /\ ~RolledBack(Target).inTxn /\ RolledBack(Target).next = Target.next
      /\ RolledBack(Target).alive = Target.alive
  BY TargetFacts, EndFacts DEF SessionInv
<1>6. /\ unwind' \in -1..MaxDepth /\ strict' \in BOOLEAN
      /\ strict' => /\ strict /\ Unfinished = {} /\ ~session.inTxn
                    /\ RefusedAlive(r) => Target.next = None
  <2>1. inOrder(r) \in BOOLEAN
    BY <1>3 DEF RefusedAlive
  <2>2. unwind' \in -1..MaxDepth /\ strict' \in BOOLEAN /\ (strict' => strict /\ inOrder(r))
    <3> HIDE DEF inOrder
    <3> QED BY <1>1, <2>1, WorksFacts, FailsFacts DEF TypeOK
  <2> QED BY <2>2 DEF OpenMeansOwned, SessionInv
<1> HIDE DEF inOrder
<1>9. /\ refused' \subseteq {"level", "transaction"}
      /\ ~r.ok => refused \subseteq refused' /\ refused' \subseteq refused \cup {"level"}
      /\ RefusedAlive(r) => "level" \in refused'
      /\ r.ok => refused' = {}
  BY <1>1, LeavesFacts DEF RefusedAlive
<1>10. ~r.ok /\ session'.inTxn => session.inTxn
  BY <1>3, <1>4, <1>5
<1>11. SessionInv'
  <2>1. session'.inTxn => session'.alive
    BY <1>2, <1>3, <1>4, <1>5
  <2>2. ASSUME session'.alive, ~r.ok
        PROVE  RefusedAlive(r) /\ session'.next = Target.next
    BY <1>3, <1>4, <1>5, <2>2 DEF RefusedAlive
  <2>3. ASSUME session'.alive PROVE session'.next = None \/ (~strict' /\ "level" \in refused')
    BY <1>2, <1>3, <1>4, <1>6, <1>9, <2>2, <2>3
  <2>4. strict' => "transaction" \notin refused'
    BY <1>3, <1>6, <1>9 DEF SessionInv
  <2> QED BY <2>1, <2>3, <2>4 DEF SessionInv
<1>12. CtorInv' /\ AskedInv'
  BY DEF CtorInv, AskedInv
<1>7. CASE r.ok \/ ~throws
  <2> DEFINE x == NewTxn(asked)
  <2>1. /\ x \in Scope /\ x.kind = "txn" /\ ~x.finished /\ x.asked = asked
        /\ x.id = Len(made) + 1 /\ made' \in Seq(Nat) /\ Len(made') = Len(made) + 1
        /\ Len(made) \in Nat /\ scopes' = Append(scopes, x)
    BY <1>1, <1>7, NewTxnFacts
  <2> HIDE DEF x
  <2>2. /\ scopes' \in Seq(Scope) /\ Len(scopes') = Len(scopes) + 1
        /\ \A i \in 1..Len(scopes) : scopes'[i] = scopes[i]
        /\ scopes'[Len(scopes) + 1] = x
        /\ Txns' = Txns \cup {Len(scopes) + 1}
        /\ Unfinished' = Unfinished \cup {Len(scopes) + 1}
    BY <2>1, PushFacts
  <2>3. /\ Len(scopes) \in Nat /\ Txns \subseteq 1..Len(scopes)
        /\ \A i \in Txns : scopes[i].id \in Ids
    BY ScopeFacts
  <2>4. TypeOK'
    BY <1>4, <1>6, <1>9, <2>1, <2>2, <2>3, TransactionAssumption DEF TypeOK
  <2>5. OpenMeansOwned'
    BY <2>2 DEF OpenMeansOwned
  <2>6. IdInv'
    <3> SUFFICES ASSUME NEW i \in Txns' PROVE scopes'[i].id <= Len(made')
      BY DEF IdInv
    <3>1. CASE i = Len(scopes) + 1
      BY <2>1, <2>2, <3>1
    <3>2. CASE i \in Txns
      <4>1. scopes'[i].id = scopes[i].id /\ scopes[i].id \in Nat /\ scopes[i].id <= Len(made)
        BY <2>2, <2>3, <3>2 DEF IdInv, Ids
      <4> QED BY <2>1, <4>1
    <3> QED BY <2>2, <3>1, <3>2
  <2>7. LevelInv'
    <3> SUFFICES ASSUME strict', ~session'.reconnect, session'.inTxn, NEW i \in Unfinished'
                 PROVE  session'.current = IF scopes'[i].asked = None THEN session'.level
                                           ELSE scopes'[i].asked
      BY DEF LevelInv
    <3>1. i = Len(scopes) + 1 /\ scopes'[i].asked = asked
      BY <1>6, <2>1, <2>2
    <3>2. r.ok /\ session' = Begun(Target) /\ Target = session /\ session.alive
      BY <1>3, <1>4, <1>6, <1>10, TargetFacts
    <3>3. session'.level = session.level
      BY <3>2, <1>2
    <3> QED BY <1>4, <1>6, <3>1, <3>2, <3>3
  <2> QED BY <1>11, <1>12, <2>4, <2>5, <2>6, <2>7
<1>8. CASE ~(r.ok \/ ~throws)
  <2>1. scopes' = scopes /\ made' = made /\ Unfinished' = Unfinished
    BY <1>1, <1>8, SameStack
  <2>2. TypeOK'
    BY <1>4, <1>6, <1>9, <2>1 DEF TypeOK
  <2>3. IdInv'
    BY <2>1, SameStack DEF IdInv
  <2>4. OpenMeansOwned'
    BY <1>8, <1>9, <1>10, <2>1 DEF OpenMeansOwned
  <2>5. LevelInv'
    BY <1>6, <2>1 DEF LevelInv
  <2> QED BY <1>11, <1>12, <2>2, <2>3, <2>4, <2>5
<1> QED BY <1>7, <1>8

LEMMA OpenInv == ASSUME IInv, Open PROVE IInv'
<1>1. /\ unwind = -1 /\ ctor = None /\ Len(made) < MaxTxns /\ Len(scopes) < MaxDepth
      /\ Construct(None) /\ UNCHANGED <<throws, ctor, commits>>
  BY DEF Open, CanOpen, Running
<1>2. strict /\ session.alive => Begun(session).current = session.level
  BY <1>1, BegunFacts DEF IInv, TypeOK, SessionInv
<1> QED BY <1>1, <1>2, ConstructInv

(* SET ... ISOLATION LEVEL leaves the transaction as it is.                *)
LEMMA LevelSetFacts ==
  ASSUME NEW s \in Session, NEW level \in Levels, NEW scope \in Scopes
  PROVE  LET t == LevelSet(s, level, scope) IN
         /\ t \in Session /\ t.inTxn = s.inTxn /\ t.alive = s.alive
         /\ t.reconnect = s.reconnect
         /\ t.next = IF scope = "this_transaction" THEN level ELSE s.next
         /\ t.level = IF scope = "session" THEN level ELSE s.level
BY DEF LevelSet, Scopes, Session

LEMMA OpenIsolationInv ==
  ASSUME IInv, NEW level \in Levels, NEW scope \in Scopes, OpenIsolation(level, scope)
  PROVE  IInv'
<1> USE DEF IInv
<1> DEFINE t == LevelSet(Target, level, scope)
           asked == IF scope # "global" THEN level ELSE None
<1>1. /\ unwind = -1 /\ ctor = None /\ Len(made) < MaxTxns /\ Len(scopes) < MaxDepth
      /\ UNCHANGED <<scopes, throws, made, commits, refused>>
  BY DEF OpenIsolation, CanOpen, Running
<1>2. PICK r : /\ \/ r \in Send(Target) /\ ~r.ok
                  \/ r \in Send(t)
               /\ Becomes(r.session)
               /\ IF r.ok \/ ~throws
                  THEN /\ ctor' = [set |-> r.ok,
                                   asked |-> IF r.ok /\ scope # "global" THEN level ELSE None]
                       /\ Works(Unfinished = {})
                  ELSE Fails(Unfinished = {}) /\ UNCHANGED ctor
  <2>1. PICK r \in IF scope = "this_transaction" /\ Target.inTxn
                   THEN {x \in Send(Target) : ~x.ok /\ x.session # RolledBack(Target)}
                   ELSE {x \in Send(t) : x.ok \/ ~x.session.alive \/ x.session = Target} :
               /\ Becomes(r.session)
               /\ IF r.ok \/ ~throws
                  THEN /\ ctor' = [set |-> r.ok,
                                   asked |-> IF r.ok /\ scope # "global" THEN level ELSE None]
                       /\ Works(Unfinished = {})
                  ELSE Fails(Unfinished = {}) /\ UNCHANGED ctor
    BY DEF OpenIsolation
  <2>2. \/ r \in Send(Target) /\ ~r.ok
        \/ r \in Send(t)
    BY <2>1
  <2> QED BY <2>1, <2>2
<1>3. /\ Target \in Session /\ Target.inTxn = session.inTxn
      /\ Target.reconnect = session.reconnect
      /\ t \in Session /\ t.inTxn = session.inTxn /\ t.alive = Target.alive
      /\ t.reconnect = session.reconnect
      /\ t.next = (IF scope = "this_transaction" THEN level ELSE Target.next)
      /\ t.level = (IF scope = "session" THEN level ELSE Target.level)
  BY TargetFacts, LevelSetFacts
<1>4. /\ Target.alive => \/ Target.next = None
                         \/ session.alive /\ Target.next = session.next
      /\ strict /\ Target.alive => Target.next = None
  BY <1>1, TargetFacts DEF SessionInv
<1>5. session.inTxn => Target.alive
  BY TargetFacts DEF SessionInv
<1> HIDE DEF t
<1>6. /\ r.ok \in BOOLEAN /\ r.session \in Session /\ r.session.reconnect = session.reconnect
      /\ r.ok => r.session = t /\ Target.alive
      /\ ~r.ok => \/ ~r.session.alive /\ ~r.session.inTxn
                  \/ r.session \in {Target, RolledBack(Target)}
  BY <1>2, <1>3, SendFacts
<1>7. /\ RolledBack(Target).alive = Target.alive /\ ~RolledBack(Target).inTxn
      /\ RolledBack(Target).next = Target.next
  BY <1>3, EndFacts
<1>8. /\ session' \in Session /\ session'.inTxn = r.session.inTxn
      /\ session'.alive = r.session.alive /\ session'.next = r.session.next
      /\ session'.level = r.session.level /\ session'.reconnect = session.reconnect
  BY <1>2, <1>6, BecomesFacts
<1>9. /\ unwind' \in -1..MaxDepth /\ strict' \in BOOLEAN /\ (strict' => strict /\ Unfinished = {})
      /\ r.ok \/ ~throws => unwind' = -1
  <2>1. (Unfinished = {}) \in BOOLEAN
    OBVIOUS
  <2> QED BY <1>1, <1>2, <2>1, WorksFacts, FailsFacts DEF TypeOK
<1>10. /\ r.ok \/ ~throws =>
            ctor' = [set |-> r.ok, asked |-> IF r.ok THEN asked ELSE None] /\ ctor' \in Ctor
       /\ ~(r.ok \/ ~throws) => ctor' = None
  BY <1>1, <1>2, <1>6 DEF Ctor
<1>11. Txns' = Txns /\ Unfinished' = Unfinished
  BY <1>1, SameStack
<1>12. TypeOK'
  BY <1>1, <1>8, <1>9, <1>10 DEF TypeOK
<1>13. OpenMeansOwned'
  BY <1>1, <1>3, <1>6, <1>7, <1>8, <1>11 DEF OpenMeansOwned
<1>14. SessionInv'
  <2>1. session'.inTxn => session'.alive
    BY <1>3, <1>5, <1>6, <1>7, <1>8
  <2>2. ASSUME ctor' = None \/ ~ctor'.set PROVE ~r.ok
    <3> SUFFICES ASSUME r.ok PROVE FALSE
      BY <1>6
    <3>1. ctor'.set /\ ctor' \in Ctor
      BY <1>10
    <3>2. ctor' # None
      BY <3>1, TransactionAssumption DEF Ctor
    <3> QED BY <2>2, <3>1, <3>2
  <2>3. ASSUME ~r.ok, session'.alive
        PROVE  session'.next = None \/ (session.alive /\ session'.next = session.next)
    BY <1>4, <1>6, <1>7, <1>8, <2>3
  <2>4. ASSUME ~r.ok PROVE SessionInv'
    BY <1>1, <1>9, <2>1, <2>3, <2>4, SessionKept DEF SessionInv
  <2>5. CASE r.ok
    BY <1>1, <1>9, <2>1, <2>2, <2>5 DEF SessionInv
  <2> QED BY <1>6, <2>4, <2>5
<1>15. CtorInv'
  BY <1>1, <1>9, <1>10 DEF CtorInv
<1>16. AskedInv'
  <2> SUFFICES ASSUME strict', ~session'.reconnect, session'.alive, ctor' # None, ctor'.set
               PROVE  Begun(session').current
                        = IF ctor'.asked = None THEN session'.level ELSE ctor'.asked
    BY DEF AskedInv
  <2>1. r.ok /\ ctor'.asked = asked
    BY <1>6, <1>10
  <2>2. session'.next = t.next /\ session'.level = t.level /\ Target.next = None
    BY <1>4, <1>6, <1>8, <1>9, <2>1
  <2>3. Begun(session').current = IF session'.next = None THEN session'.level ELSE session'.next
    BY <1>8, BegunFacts
  <2>4. level # None
    BY TransactionAssumption
  <2> QED BY <1>3, <2>1, <2>2, <2>3, <2>4 DEF Scopes
<1>17. LevelInv'
  BY <1>9, <1>11 DEF LevelInv
<1>18. IdInv'
  BY <1>1, <1>11 DEF IdInv
<1> QED BY <1>12, <1>13, <1>14, <1>15, <1>16, <1>17, <1>18

LEMMA EndIsolationInv == ASSUME IInv, EndIsolation PROVE IInv'
<1> USE DEF IInv
<1>1. /\ ctor # None /\ ctor \in Ctor /\ ctor' = None /\ UNCHANGED <<throws, commits>>
      /\ unwind = -1 /\ Len(made) < MaxTxns /\ Len(scopes) < MaxDepth
  BY DEF EndIsolation, TypeOK, CtorInv
<1>2. ctor.asked \in Levels \cup {None}
  BY <1>1 DEF Ctor
<1>3. CASE ctor.set
  <2>1. Construct(ctor.asked)
    BY <1>3 DEF EndIsolation
  <2> QED BY <1>1, <1>2, <1>3, <2>1, ConstructInv DEF AskedInv
<1>4. CASE ~ctor.set
  <2> DEFINE x == NewTxn(ctor.asked)
  <2>1. /\ scopes' = Append(scopes, x) /\ made' = Append(made, 0) /\ Works(FALSE) /\ UNCHANGED refused
        /\ \E r \in {y \in Send(Target) : ~y.ok /\ (y.session.alive => y.session = Target)} :
             Becomes(r.session)
    BY <1>4 DEF EndIsolation
  <2>2. PICK r \in Send(Target) :
          ~r.ok /\ (r.session.alive => r.session = Target) /\ Becomes(r.session)
    BY <2>1
  <2>3. /\ x \in Scope /\ x.kind = "txn" /\ ~x.finished /\ x.id = Len(made) + 1
        /\ made' \in Seq(Nat) /\ Len(made') = Len(made) + 1 /\ Len(made) \in Nat
    BY <1>1, <1>2, <2>1, NewTxnFacts
  <2> HIDE DEF x
  <2>4. /\ scopes' \in Seq(Scope) /\ Len(scopes') = Len(scopes) + 1
        /\ \A i \in 1..Len(scopes) : scopes'[i] = scopes[i]
        /\ scopes'[Len(scopes) + 1] = x
        /\ Txns' = Txns \cup {Len(scopes) + 1}
        /\ Unfinished' = Unfinished \cup {Len(scopes) + 1}
    BY <2>1, <2>3, PushFacts
  <2>5. /\ Len(scopes) \in Nat /\ Txns \subseteq 1..Len(scopes)
        /\ \A i \in Txns : scopes[i].id \in Ids
    BY ScopeFacts
  <2>6. /\ Target \in Session /\ Target.reconnect = session.reconnect
        /\ Target.alive => \/ Target.next = None
                           \/ session.alive /\ Target.next = session.next
        /\ Target.inTxn => Target.alive
    BY <1>4, TargetFacts DEF SessionInv
  <2>7. /\ RolledBack(Target).alive = Target.alive /\ ~RolledBack(Target).inTxn
    BY <2>6, EndFacts
  <2>8. /\ r.session \in Session
        /\ r.session.inTxn => r.session.alive
        /\ r.session.alive => \/ r.session.next = None
                              \/ session.alive /\ r.session.next = session.next
    BY <2>2, <2>6, <2>7, SendFacts
  <2>9. /\ session' \in Session /\ session'.inTxn = r.session.inTxn
        /\ session'.alive = r.session.alive /\ session'.next = r.session.next
    BY <2>2, <2>8, BecomesFacts
  <2>10. unwind' = -1 /\ strict' = FALSE /\ unwind' \in -1..MaxDepth
    BY <1>1, <2>1 DEF Works, TypeOK
  <2>11. TypeOK'
    <3>1. Len(scopes') <= MaxDepth /\ Len(made') <= MaxTxns
      BY <1>1, <2>3, <2>4, <2>5, TransactionAssumption
    <3>2. throws' \in BOOLEAN /\ strict' \in BOOLEAN /\ commits' \subseteq Ids
      BY <1>1, <2>10 DEF TypeOK
    <3>3. ctor' \in Ctor \cup {None} /\ refused' \subseteq {"level", "transaction"}
      BY <1>1, <2>1 DEF TypeOK
    <3> QED BY <2>3, <2>4, <2>9, <2>10, <3>1, <3>2, <3>3 DEF TypeOK
  <2>12. IdInv'
    <3> SUFFICES ASSUME NEW i \in Txns' PROVE scopes'[i].id <= Len(made')
      BY DEF IdInv
    <3>1. CASE i = Len(scopes) + 1
      BY <2>3, <2>4, <3>1
    <3>2. CASE i \in Txns
      <4>1. scopes'[i].id = scopes[i].id /\ scopes[i].id \in Nat /\ scopes[i].id <= Len(made)
        BY <2>4, <2>5, <3>2 DEF IdInv, Ids
      <4> QED BY <2>3, <4>1
    <3> QED BY <2>4, <3>1, <3>2
  <2>13. SessionInv'
    BY <1>1, <1>4, <2>1, <2>8, <2>9, <2>10, SessionKept
  <2>14. OpenMeansOwned' /\ CtorInv' /\ AskedInv' /\ LevelInv'
    BY <1>1, <2>4, <2>10 DEF OpenMeansOwned, CtorInv, AskedInv, LevelInv
  <2> QED BY <2>11, <2>12, <2>13, <2>14
<1>5. ctor.set \in BOOLEAN
  BY <1>1 DEF Ctor
<1> QED BY <1>3, <1>4, <1>5

(* COMMIT or ROLLBACK was sent: the transaction is over, or it was refused *)
(* and the object keeps it, unless the connection does not throw.          *)
LEMMA FinishInv ==
  ASSUME IInv, NEW k \in Txns, NEW t \in {Committed(Target), RolledBack(Target)},
         unwind = -1, ctor = None, UNCHANGED <<throws, ctor, made>>, commits' \subseteq Ids,
         \E r \in Send(t) :
           /\ Becomes(r.session)
           /\ IF r.ok \/ ~throws
              THEN /\ scopes' = Finished(k)
                   /\ Works(Unfinished \subseteq {k} /\ ~RefusedAlive(r))
                   /\ Leaves(r, "transaction")
              ELSE Fails(Unfinished \subseteq {k}) /\ UNCHANGED <<scopes, refused>>
  PROVE  IInv'
<1> USE DEF IInv
<1>1. PICK r \in Send(t) :
        /\ Becomes(r.session)
        /\ IF r.ok \/ ~throws
           THEN /\ scopes' = Finished(k)
                /\ Works(Unfinished \subseteq {k} /\ ~RefusedAlive(r))
                /\ Leaves(r, "transaction")
           ELSE Fails(Unfinished \subseteq {k}) /\ UNCHANGED <<scopes, refused>>
  OBVIOUS
<1>2. /\ t \in Session /\ ~t.inTxn /\ t.alive = Target.alive /\ t.next = Target.next
      /\ t.reconnect = session.reconnect
      /\ ~RolledBack(Target).inTxn /\ RolledBack(Target).next = Target.next
      /\ RolledBack(Target).alive = Target.alive
  <2>1. Target \in Session /\ Target.reconnect = session.reconnect
    BY TargetFacts
  <2>2. CASE t = Committed(Target)
    BY <2>1, <2>2, EndFacts
  <2>3. CASE t = RolledBack(Target)
    BY <2>1, <2>3, EndFacts
  <2> QED BY <2>2, <2>3
<1>3. /\ Target.alive => \/ Target.next = None
                         \/ session.alive /\ Target.next = session.next
      /\ Target.inTxn = session.inTxn
      /\ session.inTxn => Target = session /\ session.alive
  BY TargetFacts DEF SessionInv
<1>4. /\ r.ok \in BOOLEAN /\ r.session \in Session
      /\ r.session.alive => r.session.next = Target.next /\ Target.alive
      /\ r.session.inTxn => ~r.ok /\ session.inTxn /\ session.alive /\ r.session = session
  <2>1. /\ r.ok \in BOOLEAN /\ r.session \in Session
        /\ r.ok => r.session = t /\ Target.alive
        /\ ~r.ok => \/ ~r.session.alive /\ ~r.session.inTxn
                    \/ r.session \in {Target, RolledBack(Target)}
    BY <1>2, SendFacts
  <2> QED BY <1>2, <1>3, <2>1
<1>5. /\ session' \in Session
      /\ session'.alive => \/ session'.next = None
                           \/ session.alive /\ session'.next = session.next
      /\ session'.inTxn => /\ RefusedAlive(r) /\ session'.alive
                           /\ session.inTxn /\ session' = session
  BY <1>1, <1>3, <1>4, BecomesFacts DEF RefusedAlive
<1>6. /\ unwind' \in -1..MaxDepth /\ strict' \in BOOLEAN /\ (strict' => strict)
      /\ refused' \subseteq {"level", "transaction"} /\ refused \subseteq refused'
      /\ strict' => refused' = refused
      /\ session'.inTxn => "transaction" \in refused' \/ UNCHANGED <<scopes, refused>>
  <2>1. /\ (Unfinished \subseteq {k}) \in BOOLEAN
        /\ (Unfinished \subseteq {k} /\ ~RefusedAlive(r)) \in BOOLEAN
    OBVIOUS
  <2>2. CASE r.ok \/ ~throws
    <3> HIDE DEF IInv
    <3>1. TypeOK
      BY DEF IInv
    <3>2. /\ refused' \subseteq {"level", "transaction"} /\ refused \subseteq refused'
          /\ IF RefusedAlive(r) THEN "transaction" \in refused' ELSE refused' = refused
      BY <1>1, <2>2, <3>1, LeavesFacts
    <3>3. /\ unwind' = unwind /\ strict' \in BOOLEAN
          /\ (strict' => strict /\ ~RefusedAlive(r))
      BY <1>1, <2>1, <2>2, <3>1, WorksFacts
    <3> QED BY <1>5, <3>1, <3>2, <3>3 DEF TypeOK
  <2>3. CASE ~(r.ok \/ ~throws)
    BY <1>1, <2>1, <2>3, FailsFacts DEF TypeOK
  <2> QED BY <2>2, <2>3
<1>7. /\ scopes' \in Seq(Scope) /\ Len(scopes') = Len(scopes) /\ Txns' = Txns
      /\ \A i \in Txns : scopes'[i].id = scopes[i].id
      /\ Unfinished' \subseteq Unfinished
      /\ \A i \in Unfinished' : scopes'[i] = scopes[i]
  BY <1>1, FinishFacts, SameStack DEF TypeOK
<1>8. TypeOK'
  BY <1>5, <1>6, <1>7 DEF TypeOK
<1>9. IdInv'
  BY <1>7 DEF IdInv
<1>10. SessionInv'
  <2>1. strict' => "transaction" \notin refused'
    BY <1>6 DEF SessionInv
  <2> QED BY <1>5, <1>6, <2>1, SessionKept
<1>11. OpenMeansOwned'
  BY <1>5, <1>6, SameStack DEF OpenMeansOwned
<1>12. LevelInv'
  BY <1>5, <1>6, <1>7 DEF LevelInv
<1> QED BY <1>8, <1>9, <1>10, <1>11, <1>12 DEF CtorInv, AskedInv

LEMMA CommitInv == ASSUME IInv, NEW k \in 1..MaxDepth, Commit(k) PROVE IInv'
<1>1. /\ k \in Txns /\ unwind = -1 /\ ctor = None /\ UNCHANGED <<throws, ctor, made>>
      /\ commits' = commits \cup {scopes[k].id}
  BY DEF Commit, Running
<1>2. commits' \subseteq Ids
  BY <1>1, ScopeFacts DEF IInv, TypeOK
<1> QED BY <1>1, <1>2, FinishInv DEF Commit

LEMMA RollbackInv == ASSUME IInv, NEW k \in 1..MaxDepth, Rollback(k) PROVE IInv'
<1>1. /\ k \in Txns /\ unwind = -1 /\ ctor = None /\ UNCHANGED <<throws, ctor, made, commits>>
  BY DEF Rollback, Running
<1>2. commits' \subseteq Ids
  BY <1>1 DEF IInv, TypeOK
<1> QED BY <1>1, <1>2, FinishInv DEF Rollback

(* An INSERT adds a row, inside or outside a transaction.                  *)
LEMMA InsertedFacts ==
  ASSUME NEW s \in Session, NEW id \in Ids
  PROVE  LET t == Inserted(s, <<id>>) IN
         /\ t \in Session /\ t.inTxn = s.inTxn /\ t.alive = s.alive /\ t.next = s.next
         /\ t.level = s.level /\ t.current = s.current /\ t.reconnect = s.reconnect
<1> DEFINE staged == s.staged \o <<id>>
           table == s.table \o <<id>>
<1>1. <<id>> \in Seq(Ids)
  OBVIOUS
<1>2. staged \in Seq(Ids) /\ table \in Seq(Ids)
  BY <1>1, ConcatProperties DEF Session
<1>3. Inserted(s, <<id>>) = IF s.inTxn THEN [s EXCEPT !.staged = staged]
                            ELSE [s EXCEPT !.table = table]
  BY DEF Inserted, Session
<1> HIDE DEF staged, table
<1> QED BY <1>2, <1>3 DEF Session

LEMMA InsertInv == ASSUME IInv, Insert PROVE IInv'
<1> USE DEF IInv
<1>1. PICK i \in Innermost : \E r \in Send(Inserted(Target, <<scopes[i].id>>)) :
        /\ Becomes(r.session)
        /\ made' = IF r.ok THEN [made EXCEPT ![scopes[i].id] = @ + 1] ELSE made
        /\ IF r.ok THEN Works(TRUE) ELSE Fails(TRUE)
  BY DEF Insert
<1> DEFINE id == scopes[i].id
           t == Inserted(Target, <<id>>)
<1>2. PICK r \in Send(t) :
        /\ Becomes(r.session)
        /\ made' = IF r.ok THEN [made EXCEPT ![id] = @ + 1] ELSE made
        /\ IF r.ok THEN Works(TRUE) ELSE Fails(TRUE)
  BY <1>1
<1>3. /\ unwind = -1 /\ ctor = None /\ UNCHANGED <<scopes, throws, ctor, commits, refused>>
  BY DEF Insert, Running
<1>4. i \in Txns /\ id \in Ids /\ id <= Len(made)
  BY ScopeFacts DEF Innermost, IdInv
<1>5. /\ Target \in Session /\ Target.inTxn = session.inTxn
      /\ Target.reconnect = session.reconnect
      /\ Target.alive => \/ Target.next = None
                         \/ session.alive /\ Target.next = session.next
      /\ Target.inTxn => Target = session /\ Target.alive
  BY <1>3, TargetFacts DEF SessionInv
<1>6. /\ t \in Session /\ t.inTxn = Target.inTxn /\ t.alive = Target.alive
      /\ t.next = Target.next /\ t.level = Target.level /\ t.current = Target.current
      /\ t.reconnect = session.reconnect
  BY <1>4, <1>5, InsertedFacts
<1> HIDE DEF t
<1>7. /\ RolledBack(Target).alive = Target.alive /\ ~RolledBack(Target).inTxn
      /\ RolledBack(Target).next = Target.next
  BY <1>5, EndFacts
<1>8. /\ r.session \in Session /\ r.session.reconnect = session.reconnect
      /\ r.session \in {t, Target, RolledBack(Target)} \/ (~r.session.alive /\ ~r.session.inTxn)
      /\ r.ok \in BOOLEAN
  BY <1>6, SendFacts
<1>9. /\ r.session.inTxn => /\ r.session.alive /\ session.inTxn
                            /\ r.session.level = session.level
                            /\ r.session.current = session.current
      /\ r.session.alive => \/ r.session.next = None
                            \/ session.alive /\ r.session.next = session.next
  BY <1>5, <1>6, <1>7, <1>8
<1>10. /\ session' \in Session /\ session'.inTxn = r.session.inTxn
       /\ session'.alive = r.session.alive /\ session'.next = r.session.next
       /\ session'.reconnect = session.reconnect
       /\ session'.inTxn => session' = r.session
  BY <1>2, <1>8, BecomesFacts
<1>11. /\ unwind' \in -1..MaxDepth /\ strict' \in BOOLEAN /\ (strict' => strict)
  BY <1>2, <1>8, WorksFacts, FailsFacts DEF TypeOK
<1>12. made' \in Seq(Nat) /\ Len(made') = Len(made)
  <2>1. made \in Seq(Nat) /\ Len(made) \in Nat /\ id \in 1..Len(made)
    BY <1>4, LenProperties DEF TypeOK, Ids
  <2>2. made[id] + 1 \in Nat
    BY <2>1, ElementOfSeq
  <2>3. /\ [made EXCEPT ![id] = made[id] + 1] \in Seq(Nat)
        /\ Len([made EXCEPT ![id] = made[id] + 1]) = Len(made)
    BY <2>1, <2>2, ExceptSeq
  <2> QED BY <1>2, <2>1, <2>3
<1>13. Txns' = Txns /\ Unfinished' = Unfinished
  BY <1>3, SameStack
<1>14. TypeOK'
  BY <1>3, <1>10, <1>11, <1>12 DEF TypeOK
<1>15. OpenMeansOwned'
  BY <1>3, <1>9, <1>10, <1>13 DEF OpenMeansOwned
<1>16. SessionInv' /\ CtorInv' /\ AskedInv'
  <2>1. strict' => "transaction" \notin refused'
    BY <1>3, <1>11 DEF SessionInv
  <2>2. SessionInv'
    BY <1>3, <1>9, <1>10, <1>11, <2>1, SessionKept
  <2> QED BY <1>3, <2>2 DEF CtorInv, AskedInv
<1>17. IdInv'
  BY <1>3, <1>12, <1>13 DEF IdInv
<1>18. LevelInv'
  <2> SUFFICES ASSUME strict', ~session'.reconnect, session'.inTxn
               PROVE \A j \in Unfinished : session'.current =
                       IF scopes[j].asked = None THEN session'.level ELSE scopes[j].asked
    BY <1>3, <1>13 DEF LevelInv
  <2>1. /\ strict /\ ~session.reconnect /\ session.inTxn
        /\ session'.current = session.current /\ session'.level = session.level
    BY <1>9, <1>10, <1>11
  <2> QED BY <2>1 DEF LevelInv
<1> QED BY <1>14, <1>15, <1>16, <1>17, <1>18

(* NoExceptions comes on the stack without touching a transaction.         *)
LEMMA QuietInv == ASSUME IInv, Quiet PROVE IInv'
<1> USE DEF IInv
<1> DEFINE x == [kind |-> "quiet", saved |-> throws]
<1>1. /\ unwind = -1 /\ ctor = None /\ Len(scopes) < MaxDepth /\ throws' = FALSE
      /\ strict' = FALSE /\ scopes' = Append(scopes, x)
      /\ UNCHANGED <<session, ctor, unwind, made, commits, refused>>
  BY DEF Quiet, Running
<1>2. x \in Scope /\ x.kind = "quiet"
  BY DEF Scope, TypeOK
<1> HIDE DEF x
<1>3. /\ scopes' \in Seq(Scope) /\ Len(scopes') = Len(scopes) + 1
      /\ \A i \in 1..Len(scopes) : scopes'[i] = scopes[i]
      /\ Txns' = Txns /\ Unfinished' = Unfinished
  BY <1>1, <1>2, PushFacts
<1>4. Len(scopes) \in Nat /\ Txns \subseteq 1..Len(scopes)
  BY ScopeFacts
<1>5. Len(scopes') <= MaxDepth
  BY <1>1, <1>3, <1>4, TransactionAssumption
<1>6. TypeOK'
  BY <1>1, <1>3, <1>5 DEF TypeOK
<1>7. IdInv'
  BY <1>1, <1>3, <1>4 DEF IdInv
<1> QED BY <1>1, <1>3, <1>6, <1>7
        DEF OpenMeansOwned, SessionInv, CtorInv, AskedInv, LevelInv

(* The end of a block: what goes is either not an open transaction's       *)
(* object, or it rolls back.                                               *)
LEMMA LeaveInv == ASSUME IInv, Leave PROVE IInv'
<1> USE DEF IInv
<1> DEFINE n == Len(scopes)
           top == scopes[n]
<1>1. /\ ctor = None /\ ctor' = None /\ scopes # <<>> /\ unwind < n
      /\ scopes' = SubSeq(scopes, 1, n - 1)
      /\ IF top.kind = "quiet" THEN LeaveQuiet(top) /\ UNCHANGED <<session, refused, strict>>
         ELSE LeaveTxn(top) /\ UNCHANGED throws
      /\ UNCHANGED <<ctor, unwind, made, commits>>
  BY DEF Leave
<1>2. /\ scopes' \in Seq(Scope) /\ Len(scopes') = n - 1
      /\ n \in Nat \ {0} /\ top \in Scope
      /\ \A i \in 1..n - 1 : scopes'[i] = scopes[i]
      /\ Txns' = Txns \ {n} /\ Unfinished' = Unfinished \ {n}
  BY <1>1, PopFacts
<1>3. Txns \subseteq 1..n /\ Unfinished \subseteq Txns
  BY ScopeFacts
<1>4. \A i \in Txns' : scopes'[i] = scopes[i]
  BY <1>2, <1>3
<1>5. throws' \in BOOLEAN
  <2>1. CASE top.kind = "quiet"
    BY <1>1, <1>2, <2>1 DEF LeaveQuiet, Scope
  <2>2. CASE top.kind # "quiet"
    BY <1>1, <2>2 DEF TypeOK
  <2> QED BY <2>1, <2>2
<1>6. \/ UNCHANGED <<session, refused, strict>> /\ Unfinished' = Unfinished
      \/ /\ session' \in Session
         /\ session'.alive => \/ session'.next = None
                              \/ session.alive /\ session'.next = session.next
         /\ session'.inTxn => session'.alive /\ ~strict' /\ "transaction" \in refused'
         /\ refused' \subseteq {"level", "transaction"} /\ refused \subseteq refused'
         /\ strict' \in BOOLEAN /\ (strict' => strict /\ refused' = refused)
  <2>1. CASE top.kind = "quiet"
    <3>1. n \notin Unfinished
      BY <2>1 DEF Unfinished, Txns
    <3> QED BY <1>1, <1>2, <2>1, <3>1
  <2>2. CASE top.kind # "quiet" /\ top.finished
    <3>1. n \notin Unfinished
      BY <2>2 DEF Unfinished
    <3> QED BY <1>1, <1>2, <2>2, <3>1 DEF LeaveTxn
  <2>3. CASE top.kind # "quiet" /\ ~top.finished
    <3>1. PICK r \in Send(RolledBack(Target)) :
            /\ Becomes(r.session) /\ Leaves(r, "transaction")
            /\ strict' = (strict /\ ~RefusedAlive(r))
      BY <1>1, <2>3 DEF LeaveTxn
    <3>2. /\ Target \in Session /\ Target.reconnect = session.reconnect
          /\ Target.alive => \/ Target.next = None
                             \/ session.alive /\ Target.next = session.next
          /\ Target.inTxn => Target.alive
      BY <1>1, TargetFacts DEF SessionInv
    <3>3. /\ RolledBack(Target) \in Session /\ ~RolledBack(Target).inTxn
          /\ RolledBack(Target).next = Target.next
          /\ RolledBack(Target).alive = Target.alive
          /\ RolledBack(Target).reconnect = session.reconnect
      BY <3>2, EndFacts
    <3>4. /\ r.ok \in BOOLEAN /\ r.session \in Session
          /\ r.session.alive => r.session.next = Target.next /\ Target.alive
          /\ r.session.inTxn => ~r.ok /\ r.session.alive
      BY <3>2, <3>3, SendFacts
    <3>5. /\ session' \in Session /\ session'.alive = r.session.alive
          /\ session'.next = r.session.next /\ session'.inTxn = r.session.inTxn
      BY <3>1, <3>4, BecomesFacts
    <3>6. /\ refused' \subseteq {"level", "transaction"} /\ refused \subseteq refused'
          /\ IF RefusedAlive(r) THEN "transaction" \in refused' ELSE refused' = refused
      BY <3>1, LeavesFacts
    <3>7. session'.inTxn => RefusedAlive(r) /\ session'.alive
      BY <3>4, <3>5 DEF RefusedAlive
    <3>8. strict' \in BOOLEAN /\ (strict' => strict /\ ~RefusedAlive(r))
      BY <3>1
    <3> QED BY <3>2, <3>4, <3>5, <3>6, <3>7, <3>8
  <2> QED BY <2>1, <2>2, <2>3
<1>7. /\ session' \in Session /\ refused' \subseteq {"level", "transaction"}
      /\ strict' \in BOOLEAN
  BY <1>6 DEF TypeOK
<1>8. Len(scopes') <= MaxDepth
  BY <1>2, TransactionAssumption DEF TypeOK
<1>9. TypeOK'
  BY <1>1, <1>2, <1>5, <1>7, <1>8 DEF TypeOK
<1>10. IdInv'
  BY <1>1, <1>2, <1>4 DEF IdInv
<1>11. SessionInv'
  <2>1. CASE UNCHANGED <<session, refused, strict>>
    BY <1>1, <2>1 DEF SessionInv
  <2>2. CASE ~UNCHANGED <<session, refused, strict>>
    <3>1. strict' => "transaction" \notin refused'
      BY <1>6, <2>2 DEF SessionInv
    <3> QED BY <1>1, <1>6, <2>2, <3>1, SessionKept
  <2> QED BY <2>1, <2>2
<1>12. OpenMeansOwned' /\ CtorInv' /\ AskedInv'
  BY <1>1, <1>6 DEF OpenMeansOwned, CtorInv, AskedInv
<1>13. LevelInv'
  <2>1. CASE UNCHANGED <<session, refused, strict>> /\ Unfinished' = Unfinished
    <3>1. \A i \in Unfinished : scopes'[i] = scopes[i]
      BY <1>2, <1>3, <1>4, <2>1
    <3> QED BY <1>1, <2>1, <3>1 DEF LevelInv
  <2>2. CASE session'.inTxn => ~strict'
    BY <2>2 DEF LevelInv
  <2> QED BY <1>6, <2>1, <2>2
<1> QED BY <1>9, <1>10, <1>11, <1>12, <1>13

LEMMA CatchInv == ASSUME IInv, Catch PROVE IInv'
<1> USE DEF IInv
<1>1. /\ unwind' = -1
      /\ UNCHANGED <<session, scopes, throws, ctor, made, commits, refused, strict>>
  BY DEF Catch
<1>2. Txns' = Txns /\ Unfinished' = Unfinished
  BY <1>1, SameStack
<1>3. -1 \in -1..MaxDepth
  BY TransactionAssumption
<1>4. TypeOK'
  BY <1>1, <1>3 DEF TypeOK
<1>5. AskedInv'
  BY <1>1 DEF AskedInv, Begun, Started, Committed
<1> QED BY <1>1, <1>2, <1>4, <1>5 DEF OpenMeansOwned, SessionInv, CtorInv, IdInv, LevelInv

(* A lost connection takes the transaction with it.                        *)
LEMMA LoseInv == ASSUME IInv, Lose PROVE IInv'
<1> USE DEF IInv
<1>1. /\ session' = Lost(session)
      /\ UNCHANGED <<scopes, throws, ctor, unwind, made, commits, refused, strict>>
  BY DEF Lose
<1>2. session' \in Session /\ ~session'.alive /\ ~session'.inTxn
  BY <1>1, EndFacts DEF TypeOK
<1>3. Txns' = Txns /\ Unfinished' = Unfinished
  BY <1>1, SameStack
<1>4. TypeOK'
  BY <1>1, <1>2 DEF TypeOK
<1> QED BY <1>1, <1>2, <1>3, <1>4
        DEF OpenMeansOwned, SessionInv, CtorInv, IdInv, AskedInv, LevelInv

LEMMA InvStep == IInv /\ [Next]_vars => IInv'
<1> SUFFICES ASSUME IInv, [Next]_vars PROVE IInv'
  OBVIOUS
<1>1. CASE Open
  BY <1>1, OpenInv
<1>2. ASSUME NEW level \in Levels, NEW scope \in Scopes, OpenIsolation(level, scope)
      PROVE  IInv'
  BY <1>2, OpenIsolationInv
<1>3. CASE EndIsolation
  BY <1>3, EndIsolationInv
<1>4. ASSUME NEW k \in 1..MaxDepth, Commit(k) PROVE IInv'
  BY <1>4, CommitInv
<1>5. ASSUME NEW k \in 1..MaxDepth, Rollback(k) PROVE IInv'
  BY <1>5, RollbackInv
<1>6. CASE Insert
  BY <1>6, InsertInv
<1>7. CASE Quiet
  BY <1>7, QuietInv
<1>8. CASE Leave
  BY <1>8, LeaveInv
<1>9. CASE Catch
  BY <1>9, CatchInv
<1>10. CASE Lose
  BY <1>10, LoseInv
<1>11. CASE UNCHANGED vars
  BY <1>11 DEF vars, IInv, TypeOK, OpenMeansOwned, SessionInv, CtorInv, IdInv, AskedInv,
               LevelInv, Txns, Unfinished, Begun, Started, Committed
<1> QED BY <1>1, <1>2, <1>3, <1>4, <1>5, <1>6, <1>7, <1>8, <1>9, <1>10, <1>11 DEF Next

-----------------------------------------------------------------------------
(* The theorems                                                            *)

(* The inductive invariant holds in every reachable state.                 *)
THEOREM Invariance == Spec => []IInv
BY InvInit, InvStep, PTL DEF Spec

(* The Transaction objects, the exception flag and the session stay within *)
(* their types, whatever fails.                                            *)
THEOREM TypeCorrect == Spec => []TypeOK
<1>1. IInv => TypeOK
  BY DEF IInv
<1> QED BY <1>1, Invariance, PTL

(* No failure of a constructor, of commit(), of rollback() or of the       *)
(* destructor leaves a transaction open that no object will end, lost      *)
(* connections included, but for one: a COMMIT or ROLLBACK that the live   *)
(* session refused and whose object went, or was told that it is finished. *)
THEOREM OpenIsOwned == Spec => []OpenMeansOwned
<1>1. IInv => OpenMeansOwned
  BY DEF IInv
<1> QED BY <1>1, Invariance, PTL

(* A transaction of the isolation-level constructor runs at the level that *)
(* was asked for, and leaves none behind for the next one unless its own   *)
(* START TRANSACTION was refused.                                          *)
THEOREM LevelsAreKept == Spec => []LevelAsAsked
<1>1. IInv => LevelAsAsked
  BY DEF IInv, LevelAsAsked, LevelInv, SessionInv
<1> QED BY <1>1, Invariance, PTL

-----------------------------------------------------------------------------
(* Atomicity                                                               *)

Count(id, table) == Cardinality({k \in 1..Len(table) : table[k] = id})

(* What a strict program keeps to: every failure is thrown, one object is  *)
(* unfinished at most, none while another is constructed, and a handler is *)
(* outside of its block; until the failure, the server is in transaction.  *)
StrictInv ==
  /\ throws /\ \A i \in 1..Len(scopes) : scopes[i].kind = "txn"
  /\ \A i, j \in Unfinished : i = j
  /\ ctor # None => Unfinished = {}
  /\ unwind # -1 => \A i \in Unfinished : unwind < i
  /\ unwind = -1 /\ Unfinished # {} => session.inTxn

(* No rows are staged outside of a transaction, and no row in the table is *)
(* of an object still to come.                                             *)
RowsInv ==
  /\ ~session.inTxn => session.staged = <<>>
  /\ \A k \in 1..Len(session.table) : session.table[k] <= Len(made)

(* The rows of an object that is not finished are staged, all of them and  *)
(* no others, and none is in the table yet.                                *)
StagedInv ==
  session.inTxn =>
    \A i \in Unfinished :
      /\ \A k \in 1..Len(session.staged) : session.staged[k] = scopes[i].id
      /\ Len(session.staged) = made[scopes[i].id]
      /\ \A k \in 1..Len(session.table) : session.table[k] # scopes[i].id

DurableInv ==
  \A id \in 1..Len(made) :
    Count(id, session.table) # 0 => id \in commits /\ Count(id, session.table) = made[id]

AtomicInv == strict => StrictInv /\ RowsInv /\ StagedInv /\ DurableInv

(* What the steps of a strict program come to: an object is made, a row is *)
(* inserted for the one that is not finished, commit() is called on one    *)
(* and may store what is staged, or none of that.                          *)
SameTable == session'.table = session.table
StillOpen == /\ Unfinished' \subseteq Unfinished
             /\ \A i \in Unfinished' : scopes'[i].id = scopes[i].id
BeginStep == /\ made' = Append(made, 0)
             /\ \A i \in Unfinished' : scopes'[i].id = Len(made) + 1
             /\ SameTable /\ UNCHANGED commits
WorkStep == /\ session.inTxn
            /\ \E i \in Unfinished : made' = [made EXCEPT ![scopes[i].id] = @ + 1]
            /\ SameTable /\ StillOpen /\ UNCHANGED commits
StoreStep(k) == /\ commits' = commits \cup {scopes[k].id}
                /\ \/ SameTable
                   \/ /\ session.inTxn /\ k \in Unfinished
                      /\ session'.table = session.table \o session.staged
                /\ StillOpen /\ UNCHANGED made
StillStep == SameTable /\ StillOpen /\ UNCHANGED <<made, commits>>
UnitStep ==
  strict /\ (BeginStep \/ WorkStep \/ (\E k \in Txns : StoreStep(k)) \/ StillStep)

-----------------------------------------------------------------------------
(* Counting rows                                                           *)

LEMMA CountNone ==
  ASSUME NEW S, NEW table \in Seq(S), NEW id, \A k \in 1..Len(table) : table[k] # id
  PROVE  Count(id, table) = 0
<1>1. {k \in 1..Len(table) : table[k] = id} = {}
  OBVIOUS
<1> QED BY <1>1, FS_EmptySet DEF Count

(* Rows of others do not count.                                            *)
LEMMA CountOthers ==
  ASSUME NEW S, NEW table \in Seq(S), NEW rows \in Seq(S), NEW id,
         \A k \in 1..Len(rows) : rows[k] # id
  PROVE  Count(id, table \o rows) = Count(id, table)
<1> DEFINE joined == table \o rows
<1>1. /\ Len(table) \in Nat /\ Len(rows) \in Nat /\ Len(joined) = Len(table) + Len(rows)
      /\ \A k \in 1..Len(table) + Len(rows) :
           joined[k] = IF k <= Len(table) THEN table[k] ELSE rows[k - Len(table)]
  BY LenProperties, ConcatProperties
<1> HIDE DEF joined
<1>2. \A k \in 1..Len(joined) : joined[k] = id => k \in 1..Len(table) /\ table[k] = id
  <2> SUFFICES ASSUME NEW k \in 1..Len(joined), joined[k] = id
               PROVE  k \in 1..Len(table) /\ table[k] = id
    OBVIOUS
  <2>1. CASE k <= Len(table)
    BY <1>1, <2>1
  <2>2. CASE ~(k <= Len(table))
    <3>1. k - Len(table) \in 1..Len(rows)
      BY <1>1, <2>2
    <3>2. joined[k] = rows[k - Len(table)]
      BY <1>1, <2>2
    <3> QED BY <3>1, <3>2
  <2> QED BY <2>1, <2>2
<1>3. \A k \in 1..Len(table) : k \in 1..Len(joined) /\ joined[k] = table[k]
  BY <1>1
<1>4. {k \in 1..Len(joined) : joined[k] = id} = {k \in 1..Len(table) : table[k] = id}
  BY <1>2, <1>3
<1> QED BY <1>4 DEF Count, joined

(* Rows that are all one transaction's count as many as they are.          *)
LEMMA CountOwn ==
  ASSUME NEW S, NEW table \in Seq(S), NEW rows \in Seq(S), NEW id,
         \A k \in 1..Len(table) : table[k] # id, \A k \in 1..Len(rows) : rows[k] = id
  PROVE  Count(id, table \o rows) = Len(rows)
<1> DEFINE joined == table \o rows
           n == Len(table)
           m == Len(table) + Len(rows)
<1>1. /\ Len(table) \in Nat /\ Len(rows) \in Nat /\ Len(joined) = Len(table) + Len(rows)
      /\ \A k \in 1..Len(table) + Len(rows) :
           joined[k] = IF k <= Len(table) THEN table[k] ELSE rows[k - Len(table)]
  BY LenProperties, ConcatProperties
<1> HIDE DEF joined
<1>2. ASSUME NEW k \in 1..Len(joined)
      PROVE  joined[k] = id <=> k \in n + 1..m
  <2>1. CASE k <= Len(table)
    BY <1>1, <2>1
  <2>2. CASE ~(k <= Len(table))
    <3>1. k - Len(table) \in 1..Len(rows)
      BY <1>1, <2>2
    <3>2. joined[k] = rows[k - Len(table)]
      BY <1>1, <2>2
    <3>3. k \in n + 1..m
      BY <1>1, <2>2
    <3> QED BY <3>1, <3>2, <3>3
  <2> QED BY <2>1, <2>2
<1>3. n + 1..m \subseteq 1..Len(joined)
  BY <1>1
<1>4. {k \in 1..Len(joined) : joined[k] = id} = n + 1..m
  BY <1>2, <1>3
<1>5. n + 1 \in Int /\ m \in Int
  BY <1>1
<1>6. Cardinality(n + 1..m) = IF n + 1 > m THEN 0 ELSE m - (n + 1) + 1
  <2> HIDE DEF n, m
  <2> QED BY <1>5, FS_Interval
<1>7. Cardinality(n + 1..m) = Len(rows)
  BY <1>1, <1>6
<1> QED BY <1>4, <1>7 DEF Count, joined

(* Numbers that were given out stay so.                                    *)
LEMMA JoinedRows ==
  ASSUME NEW S, NEW table \in Seq(S), NEW rows \in Seq(S), NEW n,
         \A k \in 1..Len(table) : table[k] <= n, \A k \in 1..Len(rows) : rows[k] <= n
  PROVE  \A k \in 1..Len(table \o rows) : (table \o rows)[k] <= n
<1> DEFINE joined == table \o rows
<1>1. /\ Len(table) \in Nat /\ Len(rows) \in Nat /\ Len(joined) = Len(table) + Len(rows)
      /\ \A k \in 1..Len(table) + Len(rows) :
           joined[k] = IF k <= Len(table) THEN table[k] ELSE rows[k - Len(table)]
  BY LenProperties, ConcatProperties
<1> HIDE DEF joined
<1> SUFFICES ASSUME NEW k \in 1..Len(joined) PROVE joined[k] <= n
  BY DEF joined
<1>2. CASE k <= Len(table)
  BY <1>1, <1>2
<1>3. CASE ~(k <= Len(table))
  <2>1. k - Len(table) \in 1..Len(rows) /\ joined[k] = rows[k - Len(table)]
    BY <1>1, <1>3
  <2> QED BY <2>1
<1> QED BY <1>2, <1>3

-----------------------------------------------------------------------------
(* One statement                                                           *)

(* The rows a statement leaves: its effect t if it works, those of before  *)
(* if it is refused; if the transaction is over, t may have come first.    *)
LEMMA SendRows ==
  ASSUME NEW t \in Session, NEW r \in Send(t),
         TypeOK, RowsInv, SessionInv, Becomes(r.session)
  PROVE  \/ r.ok /\ session'.table = t.table /\ session'.staged = t.staged
                 /\ session'.inTxn = t.inTxn
         \/ ~r.ok /\ ~session'.inTxn /\ session'.staged = <<>>
                  /\ session'.table \in {session.table, t.table}
         \/ ~r.ok /\ session'.table = session.table
                  /\ session'.staged = session.staged /\ session'.inTxn = session.inTxn
<1>1. /\ Target \in Session /\ Target.table = session.table /\ Target.staged = session.staged
      /\ Target.inTxn = session.inTxn /\ (session.inTxn => Target.alive)
      /\ ~session.inTxn => session.staged = <<>>
  BY DEF Target, TypeOK, Session, RowsInv, SessionInv
<1>2. r \in Outcomes(Target, t)
  BY DEF Send
<1>3. /\ Lost(Target) \in Session /\ Lost(Target).staged = <<>>
      /\ ~Lost(Target).inTxn /\ Lost(Target).table = session.table
      /\ RolledBack(Target) \in Session /\ RolledBack(Target).staged = <<>>
      /\ ~RolledBack(Target).inTxn /\ RolledBack(Target).table = session.table
  <2>1. Lost(Target) \in Session /\ RolledBack(Target) \in Session
    BY <1>1, EndFacts
  <2> QED BY <1>1, <2>1 DEF Lost, RolledBack, Session
<1>4. /\ Lost(t) \in Session /\ Lost(t).staged = <<>>
      /\ ~Lost(t).inTxn /\ Lost(t).table = t.table
  <2>1. Lost(t) \in Session
    BY EndFacts
  <2> QED BY <2>1 DEF Lost, RolledBack, Session
<1>5. ASSUME r.session \in Session
      PROVE  /\ session'.table = r.session.table /\ session'.staged = r.session.staged
             /\ session'.inTxn = r.session.inTxn
  BY <1>5 DEF Becomes, Session
<1>6. \/ r = [session |-> t, ok |-> TRUE]
      \/ r = [session |-> Lost(Target), ok |-> FALSE]
      \/ r = [session |-> Lost(t), ok |-> FALSE]
      \/ r = [session |-> Target, ok |-> FALSE]
      \/ r = [session |-> RolledBack(Target), ok |-> FALSE]
  BY <1>1, <1>2 DEF Outcomes
<1>7. CASE r = [session |-> t, ok |-> TRUE]
  BY <1>5, <1>7
<1>8. CASE r = [session |-> Lost(Target), ok |-> FALSE]
  BY <1>3, <1>5, <1>8
<1>9. CASE r = [session |-> Lost(t), ok |-> FALSE]
  BY <1>4, <1>5, <1>9
<1>10. CASE r = [session |-> Target, ok |-> FALSE]
  BY <1>1, <1>5, <1>10
<1>11. CASE r = [session |-> RolledBack(Target), ok |-> FALSE]
  BY <1>3, <1>5, <1>11
<1> QED BY <1>6, <1>7, <1>8, <1>9, <1>10, <1>11

(* The effects that are sent.                                              *)
LEMMA EffectRows ==
  ASSUME TypeOK
  PROVE  /\ session.table \in Seq(Ids) /\ session.staged \in Seq(Ids)
         /\ Begun(Target) \in Session /\ Begun(Target).staged = <<>>
         /\ Begun(Target).table = session.table \o session.staged
         /\ Committed(Target) \in Session /\ Committed(Target).staged = <<>>
         /\ Committed(Target).table = session.table \o session.staged
         /\ RolledBack(Target) \in Session /\ RolledBack(Target).staged = <<>>
         /\ RolledBack(Target).table = session.table
         /\ ~Committed(Target).inTxn /\ ~RolledBack(Target).inTxn /\ Begun(Target).inTxn
<1>1. /\ Target \in Session /\ Target.table = session.table
      /\ Target.staged = session.staged /\ session \in Session
  BY DEF Target, TypeOK, Session
<1>2. /\ Committed(Target) \in Session /\ RolledBack(Target) \in Session
      /\ ~Committed(Target).inTxn /\ ~RolledBack(Target).inTxn
      /\ Begun(Target) \in Session /\ Begun(Target).inTxn
  BY <1>1, EndFacts, BegunFacts
<1>3. /\ Committed(Target).staged = <<>>
      /\ Committed(Target).table = session.table \o session.staged
  BY <1>1 DEF Committed, Session
<1>4. RolledBack(Target).staged = <<>> /\ RolledBack(Target).table = session.table
  BY <1>1 DEF RolledBack, Session
<1>5. /\ Begun(Target).staged = Committed(Target).staged
      /\ Begun(Target).table = Committed(Target).table
  <2> DEFINE c == Committed(Target)
  <2>1. c \in Session
    BY <1>2
  <2>2. Begun(Target) = [[c EXCEPT !.inTxn = TRUE] EXCEPT
          !.current = IF Target.next = None THEN Target.level ELSE Target.next, !.next = None]
    BY DEF Begun, Started
  <2> HIDE DEF c
  <2>3. Begun(Target).staged = c.staged /\ Begun(Target).table = c.table
    BY <2>1, <2>2 DEF Session
  <2> QED BY <2>3 DEF c
<1> QED BY <1>1, <1>2, <1>3, <1>4, <1>5 DEF Session

(* With exceptions on, a call works or its failure is thrown.              *)
LEMMA StrictWorks == ASSUME NEW b \in BOOLEAN, Works(b), strict'
                     PROVE  unwind' = unwind /\ strict /\ b
BY DEF Works

LEMMA StrictFails ==
  ASSUME NEW b \in BOOLEAN, Fails(b), strict', strict => throws
  PROVE  strict /\ b /\ unwind' # -1 /\ \A i \in Unfinished : unwind' < i
<1>1. CASE ~throws
  BY <1>1 DEF Fails, Works
<1>2. CASE throws
  <2>1. PICK depth \in 0..Len(scopes) :
          /\ unwind' = depth
          /\ strict' = (strict /\ b /\ \A i \in Unfinished : depth < i)
    BY <1>2 DEF Fails
  <2>2. depth # -1
    OBVIOUS
  <2>3. strict /\ b /\ \A i \in Unfinished : depth < i
    BY <2>1
  <2> QED BY <2>1, <2>2, <2>3
<1> QED BY <1>1, <1>2

(* A step that ends the transaction and brings no row into the table.      *)
LEMMA OverStep ==
  ASSUME AtomicInv, strict, StrictInv', TypeOK, UNCHANGED made, commits \subseteq commits',
         session'.table = session.table, session'.staged = <<>>, ~session'.inTxn
  PROVE  AtomicInv'
<1>1. RowsInv' /\ StagedInv'
  BY DEF AtomicInv, RowsInv, StagedInv
<1>2. DurableInv'
  BY DEF AtomicInv, DurableInv
<1> QED BY <1>1, <1>2 DEF AtomicInv

(* A step that leaves the transaction, its rows and its object.            *)
LEMMA SameStep ==
  ASSUME AtomicInv, strict, StrictInv', UNCHANGED made, commits \subseteq commits',
         session'.table = session.table, session'.staged = session.staged,
         session'.inTxn = session.inTxn, Unfinished' \subseteq Unfinished,
         \A i \in Unfinished' : scopes'[i] = scopes[i]
  PROVE  AtomicInv'
<1>1. RowsInv' /\ StagedInv'
  BY DEF AtomicInv, RowsInv, StagedInv
<1>2. DurableInv'
  BY DEF AtomicInv, DurableInv
<1> QED BY <1>1, <1>2 DEF AtomicInv

-----------------------------------------------------------------------------
(* The invariant is kept                                                   *)

LEMMA AtomicInit == Init => AtomicInv
<1> SUFFICES ASSUME Init PROVE AtomicInv
  OBVIOUS
<1>1. Len(scopes) = 0 /\ Len(made) = 0 /\ Len(session.table) = 0
  BY EmptySeq DEF Init
<1>2. Unfinished = {}
  BY <1>1 DEF Unfinished, Txns
<1> QED BY <1>1, <1>2 DEF Init, AtomicInv, StrictInv, RowsInv, StagedInv, DurableInv

(* A new object has no rows; the transaction that START TRANSACTION would  *)
(* commit is not there.                                                    *)
LEMMA ConstructAtomic ==
  ASSUME IInv, AtomicInv, NEW asked \in Levels \cup {None}, Construct(asked),
         ctor' = None, UNCHANGED <<throws, commits>>,
         Len(made) < MaxTxns, unwind = -1, strict'
  PROVE  AtomicInv' /\ UnitStep
<1> DEFINE inOrder(r) == Unfinished = {} /\ (RefusedAlive(r) => Target.next = None)
<1>1. PICK r \in Send(Begun(Target)) :
        /\ Becomes(r.session)
        /\ IF r.ok THEN refused' = {} ELSE Leaves(r, "level")
        /\ IF r.ok \/ ~throws
           THEN /\ scopes' = Append(scopes, NewTxn(asked))
                /\ made' = Append(made, 0)
                /\ Works(inOrder(r))
           ELSE Fails(inOrder(r)) /\ UNCHANGED <<scopes, made>>
  BY DEF Construct
<1>2. /\ strict /\ Unfinished = {} /\ throws /\ (r.ok => unwind' = -1)
      /\ ~r.ok => \A i \in Unfinished : unwind' < i
  <2>1. inOrder(r) \in BOOLEAN /\ (inOrder(r) => Unfinished = {})
    <3>1. (RefusedAlive(r) => Target.next = None) \in BOOLEAN
      OBVIOUS
    <3> QED BY <3>1
  <2>2. strict => throws
    BY DEF AtomicInv, StrictInv
  <2> HIDE DEF inOrder
  <2>3. CASE r.ok \/ ~throws
    BY <1>1, <2>1, <2>2, <2>3, StrictWorks
  <2>4. CASE ~(r.ok \/ ~throws)
    BY <1>1, <2>1, <2>2, <2>4, StrictFails
  <2> QED BY <2>1, <2>2, <2>3, <2>4
<1> HIDE DEF inOrder
<1>3. /\ StrictInv /\ RowsInv /\ DurableInv /\ TypeOK /\ SessionInv /\ IdInv
      /\ ~session.inTxn /\ session.staged = <<>>
  BY <1>2 DEF IInv, AtomicInv, OpenMeansOwned, SessionInv, RowsInv
<1>4. session.table \o session.staged = session.table /\ session.table \in Seq(Ids)
  BY <1>3, ConcatEmptySeq, EffectRows
<1>5. \/ r.ok /\ session'.table = session.table /\ session'.staged = <<>> /\ session'.inTxn
      \/ ~r.ok /\ session'.table = session.table /\ session'.staged = <<>> /\ ~session'.inTxn
  <2>1. /\ Begun(Target) \in Session /\ Begun(Target).staged = <<>>
        /\ Begun(Target).table = session.table /\ Begun(Target).inTxn
    BY <1>3, <1>4, EffectRows
  <2> QED BY <1>1, <1>3, <2>1, SendRows
<1>6. CASE r.ok
  <2> DEFINE x == NewTxn(asked)
             n == Len(made)
  <2>1. /\ x \in Scope /\ x.kind = "txn" /\ ~x.finished /\ x.id = n + 1
        /\ n \in Nat /\ Len(Append(made, 0)) = n + 1
    BY <1>3, NewTxnFacts
  <2>2. made' = Append(made, 0) /\ scopes' = Append(scopes, x) /\ unwind' = -1
    BY <1>1, <1>2, <1>6
  <2> HIDE DEF x
  <2>3. /\ Len(scopes') = Len(scopes) + 1 /\ scopes'[Len(scopes) + 1] = x
        /\ \A i \in 1..Len(scopes) : scopes'[i] = scopes[i]
        /\ Unfinished' = {Len(scopes) + 1}
    BY <1>2, <1>3, <2>1, <2>2, PushFacts
  <2>4. Len(scopes) \in Nat /\ made \in Seq(Nat)
    BY <1>3, ScopeFacts DEF TypeOK
  <2>5. Len(made') = n + 1 /\ made'[n + 1] = 0 /\ \A id \in 1..n : made'[id] = made[id]
    BY <2>2, <2>4, AppendProperties
  <2>6. StrictInv'
    <3>1. \A i \in 1..Len(scopes') : scopes'[i].kind = "txn"
      BY <1>3, <2>1, <2>3, <2>4 DEF StrictInv
    <3> QED BY <1>2, <1>5, <1>6, <2>2, <2>3, <3>1 DEF StrictInv
  <2>7. \A k \in 1..Len(session.table) : session.table[k] \in Nat /\ session.table[k] <= n
    <3>1. \A k \in 1..Len(session.table) : session.table[k] \in Ids
      BY <1>4, ElementOfSeq
    <3>2. \A k \in 1..Len(session.table) : session.table[k] <= n
      BY <1>3 DEF RowsInv
    <3>3. Ids \subseteq Nat
      BY DEF Ids
    <3> QED BY <3>1, <3>2, <3>3
  <2>8. RowsInv'
    BY <1>5, <1>6, <2>1, <2>5, <2>7 DEF RowsInv
  <2>9. \A k \in 1..Len(session.table) : session.table[k] # n + 1
    BY <2>1, <2>7
  <2>10. StagedInv'
    <3>1. scopes'[Len(scopes) + 1].id = n + 1
      BY <2>1, <2>3
    <3>2. Len(<<>>) = 0
      BY EmptySeq
    <3> QED BY <1>5, <1>6, <2>3, <2>5, <2>9, <3>1, <3>2 DEF StagedInv
  <2>11. DurableInv'
    <3> SUFFICES ASSUME NEW id \in 1..n + 1, Count(id, session.table) # 0
                 PROVE  id \in commits /\ Count(id, session.table) = made'[id]
      BY <1>5, <2>5 DEF DurableInv
    <3>1. id # n + 1
      BY <1>4, <2>9, CountNone
    <3>2. id \in 1..n
      BY <2>1, <3>1
    <3> QED BY <1>3, <2>5, <3>2 DEF DurableInv
  <2>12. UnitStep
    BY <1>2, <1>5, <1>6, <2>1, <2>2, <2>3, <2>4 DEF UnitStep, BeginStep, SameTable
  <2> QED BY <2>6, <2>8, <2>10, <2>11, <2>12 DEF AtomicInv
<1>7. CASE ~r.ok
  <2>1. UNCHANGED <<scopes, made>>
    BY <1>1, <1>2, <1>7
  <2>2. Unfinished' = {}
    BY <1>2, <2>1, SameStack
  <2>3. StrictInv'
    BY <1>2, <1>3, <2>1, <2>2 DEF StrictInv
  <2>4. UnitStep
    BY <1>2, <1>5, <2>1, <2>2 DEF UnitStep, StillStep, SameTable, StillOpen
  <2> QED BY <1>2, <1>3, <1>5, <1>7, <2>1, <2>3, <2>4, OverStep
<1> QED BY <1>6, <1>7

LEMMA OpenAtomic == ASSUME IInv, AtomicInv, Open, strict' PROVE AtomicInv' /\ UnitStep
<1>1. /\ unwind = -1 /\ ctor = None /\ ctor' = None /\ Len(made) < MaxTxns
      /\ Construct(None) /\ UNCHANGED <<throws, commits>>
  BY DEF Open, CanOpen, Running
<1> QED BY <1>1, ConstructAtomic

LEMMA EndIsolationAtomic == ASSUME IInv, AtomicInv, EndIsolation, strict' PROVE AtomicInv' /\ UnitStep
<1>1. /\ ctor \in Ctor /\ ctor' = None /\ UNCHANGED <<throws, commits>>
      /\ unwind = -1 /\ Len(made) < MaxTxns
  BY DEF EndIsolation, IInv, TypeOK, CtorInv
<1>2. ctor.asked \in Levels \cup {None} /\ ctor.set \in BOOLEAN
  BY <1>1 DEF Ctor
<1>3. ctor.set
  BY <1>2 DEF EndIsolation, Works
<1>4. Construct(ctor.asked)
  BY <1>3 DEF EndIsolation
<1> QED BY <1>1, <1>2, <1>4, ConstructAtomic

(* SET ... ISOLATION LEVEL comes before the transaction.                   *)
LEMMA OpenIsolationAtomic ==
  ASSUME IInv, AtomicInv, NEW level \in Levels, NEW scope \in Scopes,
         OpenIsolation(level, scope), strict'
  PROVE  AtomicInv' /\ UnitStep
<1> DEFINE t == LevelSet(Target, level, scope)
<1>1. /\ unwind = -1 /\ UNCHANGED <<scopes, throws, made, commits>>
  BY DEF OpenIsolation, CanOpen, Running
<1>2. PICK r : /\ r \in Send(Target) \/ r \in Send(t)
               /\ Becomes(r.session)
               /\ IF r.ok \/ ~throws THEN Works(Unfinished = {}) ELSE Fails(Unfinished = {})
  <2>1. PICK r \in IF scope = "this_transaction" /\ Target.inTxn
                   THEN {x \in Send(Target) : ~x.ok /\ x.session # RolledBack(Target)}
                   ELSE {x \in Send(t) : x.ok \/ ~x.session.alive \/ x.session = Target} :
               /\ Becomes(r.session)
               /\ IF r.ok \/ ~throws THEN Works(Unfinished = {}) ELSE Fails(Unfinished = {})
    BY DEF OpenIsolation
  <2> QED BY <2>1
<1>3. /\ strict /\ Unfinished = {} /\ throws
      /\ ~r.ok => \A i \in Unfinished : unwind' < i
  <2>1. (Unfinished = {}) \in BOOLEAN
    OBVIOUS
  <2>2. strict => throws
    BY DEF AtomicInv, StrictInv
  <2>3. CASE r.ok \/ ~throws
    BY <1>2, <2>1, <2>2, <2>3, StrictWorks
  <2>4. CASE ~(r.ok \/ ~throws)
    BY <1>2, <2>1, <2>2, <2>4, StrictFails
  <2> QED BY <2>2, <2>3, <2>4
<1>4. /\ StrictInv /\ RowsInv /\ TypeOK /\ SessionInv
      /\ ~session.inTxn /\ session.staged = <<>>
  BY <1>3 DEF IInv, AtomicInv, OpenMeansOwned, SessionInv, RowsInv
<1>5. /\ Target \in Session /\ Target.table = session.table
      /\ Target.staged = <<>> /\ ~Target.inTxn
  BY <1>4 DEF Target, TypeOK, Session
<1>6. t \in Session /\ t.table = session.table /\ t.staged = <<>> /\ ~t.inTxn
  BY <1>5 DEF LevelSet, Scopes, Session
<1> HIDE DEF t
<1>7. session'.table = session.table /\ session'.staged = <<>> /\ ~session'.inTxn
  <2>1. CASE r \in Send(Target)
    BY <1>2, <1>4, <1>5, <2>1, SendRows
  <2>2. CASE r \in Send(t)
    BY <1>2, <1>4, <1>6, <2>2, SendRows
  <2> QED BY <1>2, <2>1, <2>2
<1>8. Unfinished' = {}
  BY <1>1, <1>3, SameStack
<1>9. StrictInv'
  BY <1>1, <1>3, <1>4, <1>8 DEF StrictInv
<1>10. UnitStep
  BY <1>1, <1>3, <1>7, <1>8 DEF UnitStep, StillStep, SameTable, StillOpen
<1> QED BY <1>1, <1>3, <1>4, <1>7, <1>9, <1>10, OverStep

(* COMMIT and ROLLBACK: the object is finished, or the failure is thrown   *)
(* out of its block; either way the transaction is over, unless it was     *)
(* refused and the object still has it.                                    *)
LEMMA FinishStrict ==
  ASSUME IInv, AtomicInv, NEW k \in Txns, NEW t \in {Committed(Target), RolledBack(Target)},
         unwind = -1, ctor = None, UNCHANGED <<throws, ctor>>, strict',
         NEW r \in Send(t), Becomes(r.session),
         IF r.ok \/ ~throws
         THEN /\ scopes' = Finished(k)
              /\ Works(Unfinished \subseteq {k} /\ ~RefusedAlive(r))
         ELSE Fails(Unfinished \subseteq {k}) /\ UNCHANGED scopes
  PROVE  /\ strict /\ Unfinished \subseteq {k} /\ StrictInv'
         /\ StillOpen
         /\ \/ /\ ~session'.inTxn /\ session'.staged = <<>>
               /\ session'.table \in {session.table, t.table}
            \/ /\ session'.table = session.table /\ session'.staged = session.staged
               /\ session'.inTxn = session.inTxn /\ UNCHANGED scopes
<1>1. /\ strict /\ Unfinished \subseteq {k} /\ throws
      /\ r.ok => unwind' = -1 /\ scopes' = Finished(k)
      /\ ~r.ok => UNCHANGED scopes /\ unwind' # -1 /\ \A i \in Unfinished : unwind' < i
  <2>1. /\ (Unfinished \subseteq {k}) \in BOOLEAN
        /\ (Unfinished \subseteq {k} /\ ~RefusedAlive(r)) \in BOOLEAN
    OBVIOUS
  <2>2. strict => throws
    BY DEF AtomicInv, StrictInv
  <2>3. CASE r.ok \/ ~throws
    BY <2>1, <2>2, <2>3, StrictWorks
  <2>4. CASE ~(r.ok \/ ~throws)
    BY <2>1, <2>2, <2>4, StrictFails
  <2> QED BY <2>2, <2>3, <2>4
<1>2. StrictInv /\ RowsInv /\ TypeOK /\ SessionInv
  BY <1>1 DEF IInv, AtomicInv
<1>3. t \in Session /\ ~t.inTxn /\ t.staged = <<>>
  BY <1>2, EffectRows
<1>4. \/ /\ ~session'.inTxn /\ session'.staged = <<>>
         /\ session'.table \in {session.table, t.table}
      \/ /\ ~r.ok /\ session'.table = session.table
         /\ session'.staged = session.staged /\ session'.inTxn = session.inTxn
  BY <1>2, <1>3, SendRows
<1>5. /\ Unfinished' = IF r.ok THEN {} ELSE Unfinished
      /\ \A i \in 1..Len(scopes') : scopes'[i].kind = "txn"
  <2>1. CASE r.ok
    <3>1. /\ Len(scopes') = Len(scopes) /\ Txns' = Txns
          /\ Unfinished' = Unfinished \ {k}
      BY <1>1, <1>2, <2>1, FinishFacts
    <3>2. Txns = 1..Len(scopes)
      BY <1>2 DEF StrictInv, Txns
    <3>3. \A i \in 1..Len(scopes') : scopes'[i].kind = "txn"
      BY <3>1, <3>2 DEF Txns
    <3> QED BY <1>1, <2>1, <3>1, <3>3
  <2>2. CASE ~r.ok
    BY <1>1, <1>2, <2>2, SameStack DEF StrictInv
  <2> QED BY <2>1, <2>2
<1>6. StrictInv'
  BY <1>1, <1>2, <1>5 DEF StrictInv
<1>7. StillOpen
  BY <1>1, <1>5 DEF StillOpen
<1> QED BY <1>1, <1>4, <1>6, <1>7

LEMMA CommitAtomic ==
  ASSUME IInv, AtomicInv, NEW k \in 1..MaxDepth, Commit(k), strict'
  PROVE  AtomicInv' /\ UnitStep
<1> DEFINE id == scopes[k].id
           table == session.table
           staged == session.staged
<1>1. /\ k \in Txns /\ unwind = -1 /\ ctor = None /\ UNCHANGED <<throws, ctor, made>>
      /\ commits' = commits \cup {id}
  BY DEF Commit, Running
<1>2. PICK r \in Send(Committed(Target)) :
        /\ Becomes(r.session)
        /\ IF r.ok \/ ~throws
           THEN /\ scopes' = Finished(k)
                /\ Works(Unfinished \subseteq {k} /\ ~RefusedAlive(r))
           ELSE Fails(Unfinished \subseteq {k}) /\ UNCHANGED scopes
  BY DEF Commit
<1>3. TypeOK
  BY DEF IInv
<1>4. /\ table \in Seq(Ids) /\ staged \in Seq(Ids)
      /\ Committed(Target).table = table \o staged
  BY <1>3, EffectRows
<1>5. /\ strict /\ Unfinished \subseteq {k} /\ StrictInv'
      /\ StillOpen
      /\ \/ /\ ~session'.inTxn /\ session'.staged = <<>>
            /\ session'.table \in {table, table \o staged}
         \/ /\ session'.table = table /\ session'.staged = staged
            /\ session'.inTxn = session.inTxn /\ UNCHANGED scopes
  BY <1>1, <1>2, <1>4, FinishStrict
<1>6. StrictInv /\ RowsInv /\ StagedInv /\ DurableInv
  BY <1>5 DEF AtomicInv
<1> SUFFICES AtomicInv' /\ (SameTable \/ session.inTxn)
  <2>1. k \in Unfinished \/ ~session.inTxn
    BY <1>5 DEF IInv, OpenMeansOwned, SessionInv
  <2>2. (SameTable \/ session.inTxn) => StoreStep(k)
    BY <1>1, <1>5, <2>1 DEF StoreStep, SameTable
  <2> QED BY <1>1, <1>5, <2>2 DEF UnitStep
<1> DEFINE Over == ~session'.inTxn /\ session'.staged = <<>>
<1>7. CASE Over /\ session'.table = table
  BY <1>1, <1>3, <1>5, <1>7, OverStep DEF SameTable
<1>8. CASE Over /\ session'.table = table \o staged /\ ~session.inTxn
  <2>1. session'.table = table
    BY <1>4, <1>6, <1>8, ConcatEmptySeq DEF RowsInv
  <2> QED BY <1>7, <1>8, <2>1
<1>10. CASE /\ session'.table = table /\ session'.staged = staged
            /\ session'.inTxn = session.inTxn /\ UNCHANGED scopes
  <2>1. Unfinished' = Unfinished
    BY <1>10, SameStack
  <2> QED BY <1>1, <1>5, <1>10, <2>1, SameStep DEF SameTable
<1>9. CASE Over /\ session'.table = table \o staged /\ session.inTxn
  <2>1. k \in Unfinished
    BY <1>5, <1>9 DEF IInv, OpenMeansOwned, SessionInv
  <2>2. /\ \A j \in 1..Len(staged) : staged[j] = id
        /\ Len(staged) = made[id]
        /\ \A j \in 1..Len(table) : table[j] # id
    BY <1>6, <1>9, <2>1 DEF StagedInv
  <2>3. /\ Count(id, table \o staged) = Len(staged)
        /\ \A other : other # id => Count(other, table \o staged) = Count(other, table)
    <3>1. Count(id, table \o staged) = Len(staged)
      <4> HIDE DEF id, table, staged
      <4> QED BY <1>4, <2>2, CountOwn
    <3>2. ASSUME NEW other, other # id
          PROVE  Count(other, table \o staged) = Count(other, table)
      <4>1. \A j \in 1..Len(staged) : staged[j] # other
        BY <2>2, <3>2
      <4> HIDE DEF table, staged
      <4> QED BY <1>4, <4>1, CountOthers
    <3> QED BY <3>1, <3>2
  <2>4. id <= Len(made)
    BY <1>1 DEF IInv, IdInv
  <2>5. RowsInv'
    <3>1. /\ \A j \in 1..Len(table) : table[j] <= Len(made)
          /\ \A j \in 1..Len(staged) : staged[j] <= Len(made)
      BY <1>6, <2>2, <2>4 DEF RowsInv
    <3>2. \A j \in 1..Len(table \o staged) : (table \o staged)[j] <= Len(made)
      <4> HIDE DEF table, staged
      <4> QED BY <1>4, <3>1, JoinedRows
    <3> QED BY <1>1, <1>9, <3>2 DEF RowsInv
  <2>6. DurableInv'
    <3> SUFFICES ASSUME NEW other \in 1..Len(made), Count(other, session'.table) # 0
                 PROVE  other \in commits' /\ Count(other, session'.table) = made[other]
      BY <1>1 DEF DurableInv
    <3>1. CASE other = id
      BY <1>1, <1>9, <2>2, <2>3, <3>1
    <3>2. CASE other # id
      <4>1. Count(other, session'.table) = Count(other, table)
        BY <1>9, <2>3, <3>2
      <4> QED BY <1>1, <1>6, <4>1 DEF DurableInv
    <3> QED BY <3>1, <3>2
  <2>7. StagedInv'
    BY <1>9 DEF StagedInv
  <2> QED BY <1>5, <1>9, <2>5, <2>6, <2>7 DEF AtomicInv
<1> QED BY <1>5, <1>7, <1>8, <1>9, <1>10

LEMMA RollbackAtomic ==
  ASSUME IInv, AtomicInv, NEW k \in 1..MaxDepth, Rollback(k), strict'
  PROVE  AtomicInv' /\ UnitStep
<1>1. /\ k \in Txns /\ unwind = -1 /\ ctor = None
      /\ UNCHANGED <<throws, ctor, made, commits>>
  BY DEF Rollback, Running
<1>2. PICK r \in Send(RolledBack(Target)) :
        /\ Becomes(r.session)
        /\ IF r.ok \/ ~throws
           THEN /\ scopes' = Finished(k)
                /\ Works(Unfinished \subseteq {k} /\ ~RefusedAlive(r))
           ELSE Fails(Unfinished \subseteq {k}) /\ UNCHANGED scopes
  BY DEF Rollback
<1>3. TypeOK
  BY DEF IInv
<1>4. RolledBack(Target).table = session.table
  BY <1>3, EffectRows
<1>5. /\ strict /\ StrictInv' /\ session'.table = session.table /\ StillOpen
      /\ \/ ~session'.inTxn /\ session'.staged = <<>>
         \/ /\ session'.staged = session.staged /\ session'.inTxn = session.inTxn
            /\ UNCHANGED scopes
  BY <1>1, <1>2, <1>4, FinishStrict
<1>6. UnitStep
  BY <1>1, <1>5 DEF UnitStep, StillStep, SameTable
<1>7. CASE ~session'.inTxn /\ session'.staged = <<>>
  BY <1>1, <1>3, <1>5, <1>6, <1>7, OverStep
<1>8. CASE /\ session'.staged = session.staged /\ session'.inTxn = session.inTxn
           /\ UNCHANGED scopes
  <2>1. Unfinished' = Unfinished
    BY <1>8, SameStack
  <2> QED BY <1>1, <1>5, <1>6, <1>8, <2>1, SameStep
<1> QED BY <1>5, <1>7, <1>8

(* An INSERT adds to the staged rows and to those of the object, or fails  *)
(* and is thrown out of the object's block.                                *)
LEMMA InsertAtomic == ASSUME IInv, AtomicInv, Insert, strict' PROVE AtomicInv' /\ UnitStep
<1>1. PICK i \in Innermost : \E r \in Send(Inserted(Target, <<scopes[i].id>>)) :
        /\ Becomes(r.session)
        /\ made' = IF r.ok THEN [made EXCEPT ![scopes[i].id] = @ + 1] ELSE made
        /\ IF r.ok THEN Works(TRUE) ELSE Fails(TRUE)
  BY DEF Insert
<1> DEFINE id == scopes[i].id
           t == Inserted(Target, <<id>>)
           staged == session.staged
<1>2. PICK r \in Send(t) :
        /\ Becomes(r.session)
        /\ made' = IF r.ok THEN [made EXCEPT ![id] = @ + 1] ELSE made
        /\ IF r.ok THEN Works(TRUE) ELSE Fails(TRUE)
  BY <1>1
<1>3. /\ unwind = -1 /\ ctor = None /\ UNCHANGED <<scopes, throws, ctor, commits>>
  BY DEF Insert, Running
<1>4. /\ strict /\ throws
      /\ r.ok => unwind' = -1
      /\ ~r.ok => unwind' # -1 /\ \A j \in Unfinished : unwind' < j
  <2>1. strict => throws
    BY DEF AtomicInv, StrictInv
  <2>2. CASE r.ok
    BY <1>2, <1>3, <2>1, <2>2, StrictWorks
  <2>3. CASE ~r.ok
    BY <1>2, <2>1, <2>3, StrictFails
  <2> QED BY <2>1, <2>2, <2>3
<1>5. /\ StrictInv /\ RowsInv /\ StagedInv /\ DurableInv /\ TypeOK /\ SessionInv /\ IdInv
  BY <1>4 DEF IInv, AtomicInv
<1>6. i \in Unfinished /\ i \in Txns /\ session.inTxn /\ \A j \in Unfinished : j = i
  BY <1>3, <1>5, ScopeFacts DEF Innermost, StrictInv
<1>7. id \in 1..Len(made) /\ id \in Ids /\ made \in Seq(Nat) /\ Len(made) \in Nat
  <2>1. id \in Ids /\ id <= Len(made)
    BY <1>5, <1>6, ScopeFacts DEF IdInv
  <2>2. made \in Seq(Nat) /\ Len(made) \in Nat
    BY <1>5, LenProperties DEF TypeOK
  <2> QED BY <2>1, <2>2 DEF Ids
<1>8. /\ \A k \in 1..Len(staged) : staged[k] = id
      /\ Len(staged) = made[id]
      /\ \A k \in 1..Len(session.table) : session.table[k] # id
  BY <1>5, <1>6 DEF StagedInv
<1>9. /\ Target = session /\ t \in Session /\ t.inTxn /\ t.table = session.table
       /\ t.staged = staged \o <<id>>
  <2>1. Target = session /\ session \in Session
    BY <1>5, <1>6, TargetFacts DEF SessionInv, TypeOK
  <2>2. t \in Session
    BY <1>7, <2>1, InsertedFacts
  <2>3. t = [session EXCEPT !.staged = staged \o <<id>>]
    BY <1>6, <2>1 DEF Inserted
  <2> HIDE DEF t
  <2> QED BY <1>6, <2>1, <2>2, <2>3 DEF Session
<1> HIDE DEF t
<1>10. \/ r.ok /\ session'.table = session.table /\ session'.staged = staged \o <<id>>
               /\ session'.inTxn
       \/ ~r.ok /\ ~session'.inTxn /\ session'.staged = <<>> /\ session'.table = session.table
       \/ ~r.ok /\ session'.table = session.table /\ session'.staged = staged
                /\ session'.inTxn
  BY <1>2, <1>5, <1>6, <1>9, SendRows
<1>11. Txns' = Txns /\ Unfinished' = Unfinished
  BY <1>3, SameStack
<1> SUFFICES AtomicInv'
  <2>1. SameTable /\ StillOpen
    BY <1>3, <1>10, <1>11 DEF SameTable, StillOpen
  <2>2. WorkStep \/ StillStep
    BY <1>2, <1>3, <1>6, <2>1 DEF WorkStep, StillStep
  <2> QED BY <1>4, <2>2 DEF UnitStep
<1>12. StrictInv'
  <2>1. throws' /\ \A j \in 1..Len(scopes') : scopes'[j].kind = "txn"
    BY <1>3, <1>5 DEF StrictInv
  <2>2. unwind' # -1 => \A j \in Unfinished' : unwind' < j
    BY <1>2, <1>4, <1>11
  <2>3. unwind' = -1 /\ Unfinished' # {} => session'.inTxn
    BY <1>4, <1>6, <1>10, <1>11
  <2> QED BY <1>3, <1>6, <1>11, <2>1, <2>2, <2>3 DEF StrictInv
<1>13. CASE r.ok
  <2> DEFINE more == staged \o <<id>>
  <2>1. /\ session'.table = session.table /\ session'.staged = more
        /\ \A other \in 1..Len(made) \ {id} : made'[other] = made[other]
        /\ made'[id] = made[id] + 1 /\ Len(made') = Len(made)
    <3>1. made' = [made EXCEPT ![id] = made[id] + 1]
      BY <1>2, <1>13
    <3>2. made[id] + 1 \in Nat
      BY <1>7, ElementOfSeq
    <3> HIDE DEF id
    <3>3. /\ Len(made') = Len(made)
          /\ \A other \in 1..Len(made) :
               made'[other] = IF other = id THEN made[id] + 1 ELSE made[other]
      BY <1>7, <3>1, <3>2, ExceptSeq
    <3> QED BY <1>7, <1>10, <1>13, <3>3
  <2>2. /\ Len(more) = Len(staged) + 1 /\ \A k \in 1..Len(more) : more[k] = id
    <3> DEFINE row == <<id>>
    <3>1. row \in Seq(Ids) /\ Len(row) = 1 /\ row[1] = id
      BY <1>7
    <3>2. staged \in Seq(Ids) /\ Len(staged) \in Nat
      BY <1>5, EffectRows, LenProperties
    <3> HIDE DEF row, staged
    <3>3. /\ Len(staged \o row) = Len(staged) + Len(row)
          /\ \A k \in 1..Len(staged) + Len(row) :
               (staged \o row)[k] = IF k <= Len(staged) THEN staged[k] ELSE row[k - Len(staged)]
      BY <3>1, <3>2, ConcatProperties
    <3>4. ASSUME NEW k \in 1..Len(staged) + 1 PROVE (staged \o row)[k] = id
      <4>1. CASE k <= Len(staged)
        BY <1>8, <3>1, <3>2, <3>3, <4>1
      <4>2. CASE ~(k <= Len(staged))
        <5>1. k - Len(staged) = 1
          BY <3>2, <4>2
        <5> QED BY <3>1, <3>3, <4>2, <5>1
      <4> QED BY <4>1, <4>2
    <3> QED BY <3>1, <3>3, <3>4 DEF row
  <2> HIDE DEF more
  <2>3. StagedInv'
    BY <1>3, <1>6, <1>8, <1>11, <2>1, <2>2 DEF StagedInv
  <2>4. RowsInv'
    BY <1>5, <1>10, <1>13, <2>1 DEF RowsInv
  <2>5. DurableInv'
    <3> SUFFICES ASSUME NEW other \in 1..Len(made), Count(other, session.table) # 0
                 PROVE  other \in commits /\ Count(other, session.table) = made'[other]
      BY <1>3, <2>1 DEF DurableInv
    <3>1. session.table \in Seq(Ids)
      BY <1>5, EffectRows
    <3>2. other # id
      BY <1>8, <3>1, CountNone
    <3> QED BY <1>5, <2>1, <3>2 DEF DurableInv
  <2> QED BY <1>12, <2>3, <2>4, <2>5 DEF AtomicInv
<1>14. CASE ~r.ok /\ ~session'.inTxn
  <2>1. UNCHANGED made /\ session'.staged = <<>> /\ session'.table = session.table
    BY <1>2, <1>10, <1>14
  <2> QED BY <1>3, <1>4, <1>5, <1>12, <1>14, <2>1, OverStep
<1>15. CASE ~r.ok /\ session'.inTxn
  <2>1. /\ UNCHANGED made /\ session'.inTxn = session.inTxn
        /\ session'.staged = session.staged /\ session'.table = session.table
    BY <1>2, <1>6, <1>10, <1>15 DEF TypeOK
  <2>2. Unfinished' \subseteq Unfinished /\ \A j \in Unfinished' : scopes'[j] = scopes[j]
    BY <1>3, <1>11
  <2> QED BY <1>3, <1>4, <1>12, <2>1, <2>2, SameStep
<1> QED BY <1>13, <1>14, <1>15

(* The end of a block: the object was finished, or it rolls back.          *)
LEMMA LeaveAtomic == ASSUME IInv, AtomicInv, Leave, strict' PROVE AtomicInv' /\ UnitStep
<1> DEFINE n == Len(scopes)
           top == scopes[n]
<1>1. /\ strict /\ scopes # <<>> /\ scopes' = SubSeq(scopes, 1, n - 1)
      /\ UNCHANGED <<ctor, unwind, made, commits>>
      /\ IF top.kind = "quiet" THEN LeaveQuiet(top) /\ UNCHANGED <<session, refused, strict>>
         ELSE LeaveTxn(top) /\ UNCHANGED throws
  BY DEF Leave, LeaveTxn
<1>2. StrictInv /\ RowsInv /\ TypeOK /\ SessionInv
  BY <1>1 DEF IInv, AtomicInv
<1>3. /\ Len(scopes') = n - 1 /\ n \in Nat \ {0}
      /\ \A i \in 1..n - 1 : scopes'[i] = scopes[i]
      /\ Unfinished' = Unfinished \ {n}
  BY <1>1, <1>2, PopFacts
<1>4. top.kind = "txn" /\ LeaveTxn(top) /\ UNCHANGED throws
  <2>1. n \in 1..n
    BY <1>3
  <2>2. top.kind = "txn"
    BY <1>2, <2>1 DEF StrictInv
  <2> QED BY <1>1, <2>2
<1>5. \A i \in 1..Len(scopes') : scopes'[i].kind = "txn"
  BY <1>2, <1>3 DEF StrictInv
<1>6. Unfinished \subseteq 1..n
  BY <1>2, ScopeFacts
<1> SUFFICES AtomicInv' /\ SameTable
  <2>1. StillOpen
    BY <1>3, <1>6 DEF StillOpen
  <2> QED BY <1>1, <2>1 DEF UnitStep, StillStep
<1>7. CASE top.finished
  <2>1. n \notin Unfinished /\ UNCHANGED session
    BY <1>4, <1>7 DEF LeaveTxn, Unfinished
  <2>2. Unfinished' = Unfinished /\ \A i \in Unfinished' : scopes'[i] = scopes[i]
    BY <1>3, <1>6, <2>1
  <2>3. StrictInv'
    BY <1>1, <1>2, <1>4, <1>5, <2>1, <2>2 DEF StrictInv
  <2> QED BY <1>1, <2>1, <2>2, <2>3, SameStep DEF SameTable
<1>8. CASE ~top.finished
  <2>1. PICK r \in Send(RolledBack(Target)) : Becomes(r.session) /\ ~RefusedAlive(r)
    BY <1>4, <1>8 DEF LeaveTxn
  <2>2. /\ RolledBack(Target) \in Session /\ RolledBack(Target).staged = <<>>
        /\ RolledBack(Target).table = session.table /\ ~RolledBack(Target).inTxn
    BY <1>2, EffectRows
  <2>3. /\ ~session'.inTxn /\ session'.staged = <<>> /\ session'.table = session.table
    <3>1. \/ r.ok
          \/ ~r.session.alive
      BY <2>1 DEF RefusedAlive
    <3>2. CASE r.ok
      BY <1>2, <2>1, <2>2, <3>2, SendRows
    <3>3. CASE ~r.ok /\ ~r.session.alive
      <4>1. /\ Target.inTxn = session.inTxn /\ Target \in Session
            /\ Target.reconnect = session.reconnect
            /\ RolledBack(Target).reconnect = Target.reconnect
            /\ RolledBack(Target).alive = Target.alive
            /\ session.inTxn => Target.alive
        BY <1>2, TargetFacts, EndFacts DEF SessionInv
      <4>2. r.session \in Session /\ ~r.session.inTxn
        BY <1>2, <2>2, <3>3, <4>1, SendFacts
      <4>3. ~session'.inTxn
        BY <2>1, <4>2, BecomesFacts
      <4>4. ~session.inTxn => session.staged = <<>>
        BY <1>2 DEF RowsInv
      <4> QED BY <1>2, <2>1, <2>2, <3>3, <4>3, <4>4, SendRows
    <3> QED BY <3>1, <3>2, <3>3
  <2>4. n \in Unfinished
    BY <1>3, <1>4, <1>8 DEF Unfinished, Txns
  <2>5. Unfinished' = {}
    BY <1>2, <1>3, <2>4 DEF StrictInv
  <2>6. StrictInv'
    BY <1>1, <1>2, <1>4, <1>5, <2>5 DEF StrictInv
  <2> QED BY <1>1, <1>2, <2>3, <2>6, OverStep DEF SameTable
<1> QED BY <1>7, <1>8

(* A handler that was reached is outside of every unfinished block.        *)
LEMMA CatchAtomic == ASSUME IInv, AtomicInv, Catch, strict' PROVE AtomicInv' /\ UnitStep
<1>1. /\ strict /\ unwind = Len(scopes) /\ unwind' = -1
      /\ UNCHANGED <<session, scopes, throws, ctor, made, commits>>
  BY DEF Catch
<1>2. StrictInv /\ TypeOK
  BY <1>1 DEF IInv, AtomicInv
<1>3. Len(scopes) \in Nat /\ Unfinished \subseteq 1..Len(scopes)
  BY <1>2, ScopeFacts
<1>4. Unfinished = {}
  <2> SUFFICES ASSUME NEW i \in Unfinished PROVE FALSE
    OBVIOUS
  <2>1. unwind # -1
    BY <1>1, <1>3
  <2>2. Len(scopes) < i
    BY <1>1, <1>2, <2>1 DEF StrictInv
  <2> QED BY <1>3, <2>2
<1>5. Unfinished' = {}
  BY <1>1, <1>4, SameStack
<1>6. StrictInv'
  BY <1>1, <1>2, <1>4, <1>5 DEF StrictInv
<1>7. UnitStep
  BY <1>1, <1>5 DEF UnitStep, StillStep, SameTable, StillOpen
<1> QED BY <1>1, <1>5, <1>6, <1>7, SameStep

(* A connection that is lost between transactions takes no rows along.     *)
LEMMA LoseAtomic == ASSUME IInv, AtomicInv, Lose, strict' PROVE AtomicInv' /\ UnitStep
<1>1. /\ strict /\ ~session.inTxn /\ session' = Lost(session)
      /\ UNCHANGED <<scopes, throws, ctor, unwind, made, commits>>
  BY DEF Lose
<1>2. StrictInv /\ TypeOK
  BY <1>1 DEF IInv, AtomicInv
<1>3. session'.table = session.table /\ session'.staged = <<>> /\ ~session'.inTxn
  BY <1>1, <1>2 DEF Lost, RolledBack, TypeOK, Session
<1>4. Unfinished' = Unfinished
  BY <1>1, SameStack
<1>5. StrictInv'
  BY <1>1, <1>2, <1>4 DEF StrictInv
<1>6. UnitStep
  BY <1>1, <1>3, <1>4 DEF UnitStep, StillStep, SameTable, StillOpen
<1> QED BY <1>1, <1>2, <1>3, <1>5, <1>6, OverStep

LEMMA AtomicStep ==
  IInv /\ AtomicInv /\ [Next]_vars => AtomicInv' /\ (strict' => UnitStep)
<1> SUFFICES ASSUME IInv, AtomicInv, [Next]_vars, strict' PROVE AtomicInv' /\ UnitStep
  BY DEF AtomicInv
<1>1. CASE Open
  BY <1>1, OpenAtomic
<1>2. ASSUME NEW level \in Levels, NEW scope \in Scopes, OpenIsolation(level, scope)
      PROVE  AtomicInv' /\ UnitStep
  BY <1>2, OpenIsolationAtomic
<1>3. CASE EndIsolation
  BY <1>3, EndIsolationAtomic
<1>4. ASSUME NEW k \in 1..MaxDepth, Commit(k) PROVE AtomicInv' /\ UnitStep
  BY <1>4, CommitAtomic
<1>5. ASSUME NEW k \in 1..MaxDepth, Rollback(k) PROVE AtomicInv' /\ UnitStep
  BY <1>5, RollbackAtomic
<1>6. CASE Insert
  BY <1>6, InsertAtomic
<1>7. CASE Quiet
  BY <1>7 DEF Quiet
<1>8. CASE Leave
  BY <1>8, LeaveAtomic
<1>9. CASE Catch
  BY <1>9, CatchAtomic
<1>10. CASE Lose
  BY <1>10, LoseAtomic
<1>11. CASE UNCHANGED vars
  <2>1. AtomicInv'
    BY <1>11 DEF vars, AtomicInv, StrictInv, RowsInv, StagedInv, DurableInv, Txns, Unfinished
  <2>2. UnitStep
    BY <1>11, SameStack DEF vars, UnitStep, StillStep, SameTable, StillOpen
  <2> QED BY <2>1, <2>2
<1> QED BY <1>1, <1>2, <1>3, <1>4, <1>5, <1>6, <1>7, <1>8, <1>9, <1>10, <1>11 DEF Next

(* With exceptions on and one transaction at a time, the rows inserted for *)
(* a Transaction object are in the table all together or not at all, and   *)
(* only once commit() was called: whatever statement fails or is refused,  *)
(* wherever the connection is lost, and if ~Transaction() ends the block   *)
(* (unless the ROLLBACK of that is refused: the program is not strict then,*)
(* as the rows stay staged and the next START TRANSACTION stores them).    *)
THEOREM RowsAllOrNothing == Spec => []AllOrNothing
<1>1. AtomicInv => AllOrNothing
  BY DEF AtomicInv, DurableInv, AllOrNothing, Stored, Count
<1>2. IInv /\ AtomicInv /\ [Next]_vars => AtomicInv'
  BY AtomicStep
<1> QED BY <1>1, <1>2, AtomicInit, Invariance, PTL DEF Spec

-----------------------------------------------------------------------------
(* Units of work                                                           *)

(* The object that is not finished is the last one that was made.          *)
LastInv == strict => \A i \in Unfinished : scopes[i].id = Len(made)

LEMMA LastStep ==
  ASSUME IInv, LastInv, strict' => UnitStep
  PROVE  LastInv'
<1> SUFFICES ASSUME strict', UnitStep PROVE \A i \in Unfinished' : scopes'[i].id = Len(made')
  BY DEF LastInv
<1>1. made \in Seq(Nat) /\ Len(made) \in Nat
  BY LenProperties DEF IInv, TypeOK
<1>2. strict /\ \A i \in Unfinished : scopes[i].id = Len(made)
  BY DEF UnitStep, LastInv
<1>3. CASE BeginStep
  BY <1>1, <1>3, AppendProperties DEF BeginStep
<1>4. CASE WorkStep
  <2>1. PICK i \in Unfinished : made' = [made EXCEPT ![scopes[i].id] = @ + 1]
    BY <1>4 DEF WorkStep
  <2> DEFINE id == scopes[i].id
  <2>2. id \in 1..Len(made)
    BY <1>2, ScopeFacts DEF IInv, Ids
  <2>3. made' = [made EXCEPT ![id] = made[id] + 1] /\ made[id] + 1 \in Nat
    BY <1>1, <2>1, <2>2, ElementOfSeq
  <2> HIDE DEF id
  <2>4. Len(made') = Len(made)
    BY <1>1, <2>2, <2>3, ExceptSeq
  <2> QED BY <1>2, <1>4, <2>4 DEF WorkStep, StillOpen
<1>5. CASE (\E k \in Txns : StoreStep(k)) \/ StillStep
  BY <1>2, <1>5 DEF StoreStep, StillStep, StillOpen
<1> QED BY <1>3, <1>4, <1>5 DEF UnitStep

(* Each step of a strict program is one of UnitsOfWork, or leaves what it  *)
(* speaks of; what is staged is the unit of the last object.               *)
LEMMA UnitMaps ==
  ASSUME IInv, AtomicInv, LastInv, UnitStep, strict'
  PROVE  Units!Next \/ UNCHANGED <<made, commits, session.table, strict>>
<1>1. /\ made \in Seq(Nat) /\ Len(made) \in Nat /\ strict /\ strict' = strict
      /\ strict \in BOOLEAN
  BY LenProperties DEF IInv, TypeOK, UnitStep
<1>2. /\ StagedInv /\ \A i \in Unfinished : scopes[i].id = Len(made)
      /\ \A i \in Txns : scopes[i].id \in 1..Len(made)
  <2>1. \A i \in Txns : scopes[i].id \in Ids /\ scopes[i].id <= Len(made)
    BY ScopeFacts DEF IInv, IdInv
  <2> QED BY <1>1, <2>1 DEF Ids, LastInv, AtomicInv
<1>3. CASE BeginStep
  BY <1>1, <1>3 DEF BeginStep, SameTable, Units!Next, Units!Begin
<1>4. CASE WorkStep
  <2>1. PICK i \in Unfinished : made' = [made EXCEPT ![scopes[i].id] = @ + 1]
    BY <1>4 DEF WorkStep
  <2>2. scopes[i].id = Len(made) /\ \A k \in 1..Len(session.table) : session.table[k] # Len(made)
    BY <1>2, <1>4, <2>1 DEF WorkStep, StagedInv
  <2>3. made # <<>>
    <3>1. i \in Txns
      BY DEF Unfinished
    <3>2. Len(made) # 0
      BY <1>1, <1>2, <3>1
    <3> QED BY <1>1, <3>2, EmptySeq
  <2>4. Units!Work
    BY <1>4, <2>1, <2>2, <2>3 DEF WorkStep, SameTable, Units!Work, Units!Stored, Units!Last
  <2> QED BY <1>1, <2>4 DEF Units!Next
<1>5. ASSUME NEW k \in Txns, StoreStep(k) PROVE Units!Next
  <2> DEFINE id == scopes[k].id
  <2>1. id \in 1..Units!Last
    BY <1>2 DEF Units!Last
  <2>2. ASSUME ~SameTable
        PROVE  /\ id = Units!Last /\ ~Units!Stored(id)
               /\ session'.table = session.table \o Units!Unit(id)
    <3>1. /\ session.inTxn /\ k \in Unfinished
          /\ session'.table = session.table \o session.staged
      BY <1>5, <2>2 DEF StoreStep
    <3>2. /\ \A j \in 1..Len(session.staged) : session.staged[j] = id
          /\ Len(session.staged) = made[id]
          /\ \A j \in 1..Len(session.table) : session.table[j] # id
      BY <1>2, <3>1 DEF StagedInv
    <3>3. session.staged \in Seq(Ids)
      BY EffectRows DEF IInv
    <3>4. session.staged = Units!Unit(id)
      <4> DEFINE staged == session.staged
      <4>1. staged \in [1..Len(staged) -> Ids]
        BY <3>3, LenProperties
      <4>2. staged = [j \in 1..Len(staged) |-> id]
        <5> HIDE DEF id
        <5> QED BY <3>2, <4>1
      <4> QED BY <3>2, <4>2 DEF Units!Unit
    <3> QED BY <1>2, <3>1, <3>2, <3>4 DEF Units!Last, Units!Stored
  <2>3. Units!Commit(id)
    BY <1>5, <2>2 DEF StoreStep, SameTable, Units!Commit
  <2> QED BY <1>1, <2>1, <2>3 DEF Units!Next
<1>6. CASE StillStep
  BY <1>1, <1>6 DEF StillStep, SameTable
<1> QED BY <1>3, <1>4, <1>5, <1>6 DEF UnitStep

(* For any number of objects and rows, every behaviour of Transaction is   *)
(* one of UnitsOfWork: as long as the program keeps the rules, whatever    *)
(* the server and the connection do, the table changes only by the whole   *)
(* unit of the last object, when commit() is called on it.                 *)
THEOREM TransactionsAreUnits == Spec => ImplementsUnits
<1> DEFINE seen == <<made, commits, session.table, strict>>
<1>1. Init => Units!Init /\ LastInv
  <2> SUFFICES ASSUME Init PROVE Units!Init /\ LastInv
    OBVIOUS
  <2>1. Unfinished = {}
    <3>1. Len(scopes) = 0
      BY EmptySeq DEF Init
    <3> QED BY <3>1 DEF Unfinished, Txns
  <2> QED BY <2>1 DEF Init, Units!Init, LastInv
<1>2. IInv /\ AtomicInv /\ LastInv /\ [Next]_vars => AtomicInv' /\ LastInv'
  BY AtomicStep, LastStep
<1>3. IInv /\ AtomicInv /\ LastInv /\ [Next]_vars => [Units!Next]_seen
  <2> SUFFICES ASSUME IInv, AtomicInv, LastInv, [Next]_vars PROVE Units!Next \/ UNCHANGED seen
    OBVIOUS
  <2>1. strict' \in BOOLEAN
    BY InvStep DEF IInv, TypeOK
  <2>2. CASE strict'
    BY <2>2, AtomicStep, UnitMaps
  <2>3. CASE ~strict'
    BY <2>1, <2>3 DEF Units!Next, Units!Break
  <2> QED BY <2>1, <2>2, <2>3
<1> HIDE DEF seen
<1>4. ImplementsUnits <=> Units!Init /\ [][Units!Next]_seen
  BY DEF ImplementsUnits, Units!Spec, seen
<1> QED BY <1>1, <1>2, <1>3, <1>4, AtomicInit, Invariance, PTL DEF Spec
=============================================================================
